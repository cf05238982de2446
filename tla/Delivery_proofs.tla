-------------------------- MODULE Delivery_proofs --------------------------
(***************************************************************************)
(* What Delivery promises of the "typing" indicator, for every number of   *)
(* sessions, chats, messages, tokens and retries: DInv is an inductive     *)
(* invariant, and ChatsAreSound follows from it.                           *)
(*                                                                         *)
(* An indicator that is on has a Reason, some work that will turn it off:  *)
(* a turn that has shown nothing yet, an answer on its way, or a stream    *)
(* whose end is still to come.  The steps of the agent and the dispatcher  *)
(* hand the reason on to one another.                                      *)
(***************************************************************************)
EXTENDS Delivery, SequenceTheorems, WellFoundedInduction, TLAPS

-----------------------------------------------------------------------------
(* The inductive invariant. *)

IsList(q) == q \in Seq({q[i] : i \in DOMAIN q})

OfStream(m) == m.kind \in {"delta", "end"}

\* A message on the bus, in the buffer or in hand; those of a stream go to its chat.
MsgOK(m) ==
    /\ m \in [kind : {"delta", "end", "progress", "hint", "reply"}, from : {m.from}, chat : Chats,
              stream : {m.stream}, text : {m.text}, streamed : {"yes", "no"}, whole : {m.whole}]
    /\ OfStream(m) => m.stream # NoStream /\ m.stream[1] \in Streaming /\ m.chat = ChatOf[m.stream[1]]
    /\ ~ OfStream(m) => m.stream = NoStream

TurnRecords ==
    [pc : {"idle", "model", "tools", "reply"}, n : Nat, segment : Nat, said : Seq(Nat),
     streamed : Seq(Nat), deltas : Nat, tools : Nat]

\* What has not been streamed has not been said.
TurnOK(t) ==
    /\ t.pc = "tools" => t.streamed = <<>> /\ t.said = <<>>
    /\ t.pc = "model" /\ t.streamed = <<>> => t.said = <<>>

Turns ==
    /\ inbound \in [Sessions -> Nat] /\ turn \in [Sessions -> TurnRecords]
    /\ used \in [messages : 0..MaxMessages, failures : Nat, clash : {"yes", "no"}, muted : {"yes", "no"}, lost : {used.lost}]
    /\ \A s \in Sessions :
          /\ inbound[s] <= used.messages
          /\ TurnOK(turn[s])

Messages ==
    /\ IsList(pending) /\ Len(pending) <= 1 /\ IsList(queue)
    /\ \A i \in 1..Len(pending) : MsgOK(pending[i])
    /\ \A i \in 1..Len(queue) : MsgOK(queue[i])

Hand ==
    /\ hand \in [pc : {"idle", "call", "backoff", "stopped"}, msg : {hand.msg}, attempt : 0..Attempts,
                 op : {"none", "send", "edit"}, fallback : {"no", "plain"}, tries : Nat]
    /\ hand.pc \in {"call", "backoff"} => MsgOK(hand.msg)
    /\ hand.pc = "backoff" => hand.attempt < Attempts /\ used.failures > 0

\* The first message of a stream has been sent, unless calls failed or it is being sent.
Buffers ==
    /\ DOMAIN buf = Chats /\ DOMAIN shown = Chats /\ typing \in [Chats -> {"on", "off"}]
    /\ \A c \in Chats :
          /\ buf[c] \in [stream : {buf[c].stream}, text : {buf[c].text}, id : Nat]
          /\ IsList(shown[c]) /\ buf[c].id <= Len(shown[c])
          /\ buf[c].stream # NoStream => buf[c].stream[1] \in Streaming /\ ChatOf[buf[c].stream[1]] = c
          /\ used.failures = 0 /\ buf[c].stream # NoStream /\ buf[c].id = 0 =>
                hand.pc = "call" /\ hand.msg.kind = "delta" /\ hand.msg.chat = c /\ hand.op = "send"

\* Segment z goes on: its turn is with the model.
Open(z) == \E s \in Streaming : turn[s].pc = "model" /\ z = StreamId(s)

Ends(m, z) == m.kind = "end" /\ m.stream = z
Whole(m, c) == m.kind = "reply" /\ m.streamed = "no" /\ m.chat = c
Piece(m, c) == m.kind = "delta" /\ m.chat = c

\* After a delta comes the end of its segment, or else an answer in one piece.
Followed(r, i) ==
    \/ Open(r[i].stream)
    \/ \E j \in 1..Len(r) : i < j /\ (Ends(r[j], r[i].stream) \/ Whole(r[j], r[i].chat))

DeltasEnd == \A i \in 1..Len(Ready) : Ready[i].kind = "delta" => Followed(Ready, i)

\* A turn that has shown nothing yet.
Working(s) ==
    \/ turn[s].pc = "tools"
    \/ turn[s].pc = "model" /\ turn[s].streamed = <<>>
    \/ turn[s].pc = "reply" /\ turn[s].said = OurText

AtWork(c) == \E s \in Streaming : ChatOf[s] = c /\ (inbound[s] > 0 \/ Working(s))
OnTheWay(c) == \E i \in 1..Len(Ready) : Whole(Ready[i], c) \/ Piece(Ready[i], c)
EndingNow(c) == hand.pc = "call" /\ hand.msg.kind = "end" /\ hand.msg.chat = c
Growing(c) ==
    /\ buf[c].stream # NoStream /\ ~ EndingNow(c)
    /\ Open(buf[c].stream) \/ \E i \in 1..Len(Ready) : Ends(Ready[i], buf[c].stream)

\* Who will stop the indicator.
Reason(c) == AtWork(c) \/ OnTheWay(c) \/ Growing(c)

Indicators ==
    \A c \in Chats : typing[c] = "on" =>
        /\ c \in Reachable
        /\ used.failures = 0 /\ used.muted = "no" => Reason(c)

DInv == Turns /\ Messages /\ Hand /\ Buffers /\ DeltasEnd /\ Indicators
-----------------------------------------------------------------------------
(* Numbers and sequences. *)

\* A set of natural numbers has a least one.
LEMMA NatLeast ==
    ASSUME NEW T, T \subseteq Nat, T # {}
    PROVE  \E x \in T : \A y \in T : x <= y
<1>1. \E x \in T : \A y \in T : ~ (<<y, x>> \in OpToRel(<, Nat))
  BY NatLessThanWellFounded, WFMin
<1>2. ASSUME NEW x \in T, NEW y \in T, ~ (<<y, x>> \in OpToRel(<, Nat))
      PROVE  x <= y
  <2>1. x \in Nat /\ y \in Nat
    OBVIOUS
  <2>2. ~ (<<y, x>>[1] < <<y, x>>[2])
    BY <1>2, <2>1 DEF OpToRel
  <2>3. ~ (y < x)
    BY <2>2
  <2>4. QED
    BY <2>1, <2>3
<1>3. QED
  BY <1>1, <1>2

\* Every sequence is a list.
LEMMA ListOf ==
    ASSUME NEW S, NEW q \in Seq(S)
    PROVE  IsList(q)
<1>1. Len(q) \in Nat /\ q \in [1..Len(q) -> S] /\ DOMAIN q = 1..Len(q)
  BY LenProperties
<1>2. q \in [1..Len(q) -> {q[i] : i \in DOMAIN q}]
  BY <1>1
<1>3. QED
  BY <1>1, <1>2, SeqDef DEF IsList

\* A list has a length.
LEMMA ListFacts ==
    ASSUME NEW q, IsList(q)
    PROVE  Len(q) \in Nat /\ DOMAIN q = 1..Len(q)
<1>1. QED
  BY LenProperties DEF IsList

\* A list of elements of a set is a sequence over it.
LEMMA ListOver ==
    ASSUME NEW q, IsList(q), NEW S, \A i \in 1..Len(q) : q[i] \in S
    PROVE  q \in Seq(S)
<1>1. Len(q) \in Nat /\ DOMAIN q = 1..Len(q)
  BY ListFacts
<1>2. {q[i] : i \in DOMAIN q} \subseteq S
  BY <1>1
<1>3. QED
  BY <1>2, SeqMonotonic DEF IsList

\* The empty list, and those of one element and of two.
LEMMA ShortLists ==
    ASSUME NEW a, NEW b
    PROVE  /\ IsList(<<>>) /\ Len(<<>>) = 0
           /\ IsList(<<a>>) /\ Len(<<a>>) = 1 /\ <<a>>[1] = a
           /\ IsList(<<a, b>>) /\ Len(<<a, b>>) = 2 /\ <<a, b>>[1] = a /\ <<a, b>>[2] = b
<1>1. <<>> \in Seq({a, b}) /\ <<a>> \in Seq({a, b}) /\ <<a, b>> \in Seq({a, b})
  OBVIOUS
<1>2. QED
  BY <1>1, ListOf

\* Two lists, one after the other.
LEMMA Joined ==
    ASSUME NEW p, IsList(p), NEW q, IsList(q)
    PROVE  /\ IsList(p \o q) /\ Len(p \o q) = Len(p) + Len(q)
           /\ \A i \in 1..Len(p) : (p \o q)[i] = p[i]
           /\ \A i \in 1..Len(q) : (p \o q)[Len(p) + i] = q[i]
<1> DEFINE S == {p[i] : i \in DOMAIN p} \cup {q[i] : i \in DOMAIN q}
<1>1. p \in Seq(S) /\ q \in Seq(S)
  BY SeqMonotonic DEF IsList
<1>2. Len(p) \in Nat /\ Len(q) \in Nat
  BY ListFacts
<1> HIDE DEF S
<1>3. /\ p \o q \in Seq(S) /\ Len(p \o q) = Len(p) + Len(q)
      /\ \A i \in 1..Len(p) + Len(q) : (p \o q)[i] = IF i <= Len(p) THEN p[i] ELSE q[i - Len(p)]
  BY <1>1, ConcatProperties
<1>4. ASSUME NEW i \in 1..Len(p) PROVE (p \o q)[i] = p[i]
  <2>1. i \in 1..Len(p) + Len(q) /\ i <= Len(p)
    BY <1>2
  <2>2. QED
    BY <2>1, <1>3
<1>5. ASSUME NEW i \in 1..Len(q) PROVE (p \o q)[Len(p) + i] = q[i]
  <2>1. Len(p) + i \in 1..Len(p) + Len(q) /\ ~ (Len(p) + i <= Len(p)) /\ (Len(p) + i) - Len(p) = i
    BY <1>2
  <2>2. (p \o q)[Len(p) + i] = q[(Len(p) + i) - Len(p)]
    BY <2>1, <1>3
  <2>3. QED
    BY <2>1, <2>2
<1>6. QED
  BY <1>3, <1>4, <1>5, ListOf

\* Three lists may be joined in either order.
LEMMA JoinedThree ==
    ASSUME NEW p, IsList(p), NEW q, IsList(q), NEW r, IsList(r)
    PROVE  (p \o q) \o r = p \o (q \o r)
<1> DEFINE S == {p[i] : i \in DOMAIN p} \cup {q[i] : i \in DOMAIN q} \cup {r[i] : i \in DOMAIN r}
<1>1. p \in Seq(S) /\ q \in Seq(S) /\ r \in Seq(S)
  BY SeqMonotonic DEF IsList
<1> HIDE DEF S
<1>2. QED
  BY <1>1, ConcatAssociative

\* A list without its first n elements.
LEMMA Dropped ==
    ASSUME NEW q, IsList(q), NEW n \in 0..Len(q)
    PROVE  /\ IsList(SubSeq(q, n + 1, Len(q))) /\ Len(SubSeq(q, n + 1, Len(q))) = Len(q) - n
           /\ \A i \in 1..(Len(q) - n) : SubSeq(q, n + 1, Len(q))[i] = q[i + n]
<1> DEFINE S == {q[i] : i \in DOMAIN q}
<1>1. Len(q) \in Nat /\ DOMAIN q = 1..Len(q)
  BY ListFacts
<1>2. \A i \in n + 1 .. Len(q) : q[i] \in S
  BY <1>1
<1> HIDE DEF S
<1>3. /\ SubSeq(q, n + 1, Len(q)) \in Seq(S)
      /\ Len(SubSeq(q, n + 1, Len(q))) = IF n + 1 <= Len(q) THEN Len(q) - (n + 1) + 1 ELSE 0
      /\ \A i \in 1 .. Len(q) - (n + 1) + 1 : SubSeq(q, n + 1, Len(q))[i] = q[n + 1 + i - 1]
  BY <1>1, <1>2, SubSeqProperties
<1>4. Len(SubSeq(q, n + 1, Len(q))) = Len(q) - n
  <2>1. n \in Int /\ n <= Len(q) /\ Len(q) - (n + 1) + 1 = Len(q) - n
    BY <1>1
  <2>2. CASE n + 1 <= Len(q)
    BY <1>3, <2>1, <2>2
  <2>3. CASE ~ (n + 1 <= Len(q))
    <3>1. Len(SubSeq(q, n + 1, Len(q))) = 0
      BY <1>3, <2>3
    <3> DEFINE l == Len(q)
    <3>a. l \in Int /\ n \in Int /\ n <= l /\ ~ (n + 1 <= l)
      BY <1>1, <2>1, <2>3
    <3> HIDE DEF l
    <3>b. l = n
      BY <3>a
    <3>2. Len(q) = n
      BY <3>b DEF l
    <3>3. QED
      BY <1>1, <3>1, <3>2
  <2>4. QED
    BY <2>2, <2>3
<1>5. \A i \in 1..(Len(q) - n) : SubSeq(q, n + 1, Len(q))[i] = q[i + n]
  <2> SUFFICES ASSUME NEW i \in 1..(Len(q) - n)
               PROVE  SubSeq(q, n + 1, Len(q))[i] = q[i + n]
    OBVIOUS
  <2>1. i \in 1 .. Len(q) - (n + 1) + 1 /\ n + 1 + i - 1 = i + n
    BY <1>1
  <2>2. QED
    BY <2>1, <1>3
<1>6. QED
  BY <1>3, <1>4, <1>5, ListOf

\* The tail of a list, and its head.
LEMMA TailFacts ==
    ASSUME NEW q, IsList(q), q # <<>>
    PROVE  /\ IsList(Tail(q)) /\ Len(Tail(q)) = Len(q) - 1 /\ Len(q) \in Nat \ {0} /\ Head(q) = q[1]
           /\ \A i \in 1..(Len(q) - 1) : Tail(q)[i] = q[i + 1]
<1> DEFINE S == {q[i] : i \in DOMAIN q}
<1>1. q \in Seq(S) /\ Len(q) \in Nat \ {0}
  BY EmptySeq DEF IsList
<1> HIDE DEF S
<1>2. Tail(q) = SubSeq(q, 1 + 1, Len(q))
  BY <1>1, TailIsSubSeq
<1>3. 1 \in 0..Len(q)
  BY <1>1
<1>4. Head(q) = q[1]
  BY <1>1
<1>5. Len(q) - 1 \in Nat /\ \A i \in 1..(Len(q) - 1) : i + 1 = 1 + i
  BY <1>1
<1>6. /\ IsList(SubSeq(q, 1 + 1, Len(q))) /\ Len(SubSeq(q, 1 + 1, Len(q))) = Len(q) - 1
      /\ \A i \in 1..(Len(q) - 1) : SubSeq(q, 1 + 1, Len(q))[i] = q[i + 1]
  BY <1>3, Dropped
<1>7. QED
  BY <1>1, <1>2, <1>4, <1>6

\* RunOf(m, rest): so many messages at the front of rest are deltas for the chat of m.
LEMMA RunFacts ==
    ASSUME NEW m, NEW rest, IsList(rest)
    PROVE  /\ RunOf(m, rest) \in 0..Len(rest)
           /\ \A j \in 1..RunOf(m, rest) : Piece(rest[j], m.chat)
<1> DEFINE Joins(j) == rest[j].kind = "delta" /\ rest[j].chat = m.chat
           Fit(k) == (\A j \in 1..k : Joins(j)) /\ (k < Len(rest) => ~ Joins(k + 1))
           Stops == {k \in 0..Len(rest) : k < Len(rest) => ~ Joins(k + 1)}
<1>1. Len(rest) \in Nat
  BY ListFacts
<1>2. Len(rest) \in Stops /\ Stops \subseteq Nat
  BY <1>1
<1>3. PICK k \in Stops : \A y \in Stops : k <= y
  BY <1>2, NatLeast
<1>4. k \in 0..Len(rest) /\ (k < Len(rest) => ~ Joins(k + 1))
  BY <1>3
<1>5. ASSUME NEW j \in 1..k PROVE Joins(j)
  <2>1. j - 1 \in 0..Len(rest) /\ j - 1 < k /\ j - 1 < Len(rest) /\ (j - 1) + 1 = j
    BY <1>1, <1>4
  <2>2. j - 1 \notin Stops
    <3>1. ~ (k <= j - 1)
      BY <2>1, <1>4, <1>1
    <3> HIDE DEF Stops
    <3>2. QED
      BY <3>1, <1>3
  <2>3. ~ (j - 1 < Len(rest) => ~ Joins((j - 1) + 1))
    BY <2>1, <2>2
  <2>4. QED
    BY <2>1, <2>3
<1>6. \E x \in 0..Len(rest) : Fit(x)
  BY <1>4, <1>5
<1>7. RunOf(m, rest) = CHOOSE x \in 0..Len(rest) : Fit(x)
  BY DEF RunOf
<1> HIDE DEF Fit
<1>8. RunOf(m, rest) \in 0..Len(rest) /\ Fit(RunOf(m, rest))
  BY <1>6, <1>7
<1>9. QED
  BY <1>8 DEF Fit, Piece

-----------------------------------------------------------------------------
(* What is on its way: pending, and then the queue. *)

\* Ready is a list of messages.
LEMMA ReadyFacts ==
    ASSUME Messages
    PROVE  /\ IsList(Ready) /\ Len(Ready) \in Nat /\ Len(Ready) = Len(pending) + Len(queue)
           /\ \A i \in 1..Len(Ready) : MsgOK(Ready[i])
<1>1. /\ IsList(pending) /\ IsList(queue) /\ Len(pending) \in Nat /\ Len(queue) \in Nat
      /\ \A i \in 1..Len(pending) : MsgOK(pending[i])
      /\ \A i \in 1..Len(queue) : MsgOK(queue[i])
  BY ListFacts DEF Messages
<1>2. /\ IsList(Ready) /\ Len(Ready) = Len(pending) + Len(queue)
      /\ \A i \in 1..Len(pending) : Ready[i] = pending[i]
      /\ \A i \in 1..Len(queue) : Ready[Len(pending) + i] = queue[i]
  BY <1>1, Joined DEF Ready
<1>3. ASSUME NEW i \in 1..Len(Ready) PROVE MsgOK(Ready[i])
  <2>1. CASE i \in 1..Len(pending)
    BY <2>1, <1>1, <1>2
  <2>2. CASE i \notin 1..Len(pending)
    <3>1. i - Len(pending) \in 1..Len(queue) /\ Len(pending) + (i - Len(pending)) = i
      BY <2>2, <1>1, <1>2
    <3>2. QED
      BY <3>1, <1>1, <1>2
  <2>3. QED
    BY <2>1, <2>2
<1>4. QED
  BY <1>1, <1>2, <1>3

\* The list r of messages comes after those that are ready.
Grows(r) ==
    /\ Len(r) \in Nat /\ Len(Ready) \in Nat /\ Len(Ready') = Len(Ready) + Len(r)
    /\ \A i \in 1..Len(Ready) : Ready'[i] = Ready[i]
    /\ \A i \in 1..Len(r) : Ready'[Len(Ready) + i] = r[i]

\* A turn publishes messages.
LEMMA PublishStep ==
    ASSUME Messages, NEW r, IsList(r), \A i \in 1..Len(r) : MsgOK(r[i]),
           Publish(r), UNCHANGED pending
    PROVE  Messages' /\ Grows(r)
<1>1. /\ IsList(pending) /\ IsList(queue) /\ Len(queue) \in Nat /\ Len(r) \in Nat
      /\ \A i \in 1..Len(queue) : MsgOK(queue[i])
  BY ListFacts DEF Messages
<1>2. queue' = queue \o r
  BY DEF Publish
<1>3. /\ IsList(queue') /\ Len(queue') = Len(queue) + Len(r)
      /\ \A i \in 1..Len(queue) : (queue')[i] = queue[i]
      /\ \A i \in 1..Len(r) : (queue')[Len(queue) + i] = r[i]
  BY <1>1, <1>2, Joined
<1>4. ASSUME NEW i \in 1..Len(queue') PROVE MsgOK((queue')[i])
  <2>1. CASE i \in 1..Len(queue)
    BY <2>1, <1>1, <1>3
  <2>2. CASE i \notin 1..Len(queue)
    <3>1. i - Len(queue) \in 1..Len(r) /\ Len(queue) + (i - Len(queue)) = i
      BY <2>2, <1>1, <1>3
    <3>2. QED
      BY <3>1, <1>3
  <2>3. QED
    BY <2>1, <2>2
<1>5. Messages'
  BY <1>3, <1>4 DEF Messages
<1>6. Ready' = Ready \o r
  BY <1>1, <1>2, JoinedThree DEF Ready
<1>7. IsList(Ready) /\ Len(Ready) \in Nat
  BY ReadyFacts
<1>8. /\ Len(Ready \o r) = Len(Ready) + Len(r)
      /\ \A i \in 1..Len(Ready) : (Ready \o r)[i] = Ready[i]
      /\ \A i \in 1..Len(r) : (Ready \o r)[Len(Ready) + i] = r[i]
  BY <1>7, Joined
<1>9. Grows(r)
  BY <1>1, <1>6, <1>7, <1>8 DEF Grows
<1>10. QED
  BY <1>5, <1>9

\* Nothing is published.
LEMMA SilentStep ==
    ASSUME Messages, UNCHANGED <<queue, pending>>
    PROVE  Messages' /\ Grows(<<>>)
<1>1. Messages' /\ Ready' = Ready
  BY DEF Messages, Ready
<1>2. Len(Ready) \in Nat /\ Len(<<>>) = 0
  BY ReadyFacts, ShortLists
<1>3. QED
  BY <1>1, <1>2 DEF Grows

\* The dispatcher takes the first n messages: one, and the deltas that follow it.
Takes(n) ==
    /\ n \in 1..Len(Ready) /\ Len(Ready) \in Nat /\ Len(Ready') = Len(Ready) - n
    /\ \A i \in 1..(Len(Ready) - n) : Ready'[i] = Ready[i + n]
    /\ \A i \in 2..n : Ready[1].kind = "delta" /\ Piece(Ready[i], Ready[1].chat)

\* What is left when the first n messages are taken is a list of messages.
LEMMA TakenMessages ==
    ASSUME Messages, NEW n, Takes(n), IsList(pending'), IsList(queue'), Len(pending') <= 1
    PROVE  Messages'
<1>1. /\ Len(pending') \in Nat /\ Len(queue') \in Nat /\ Len(Ready') = Len(pending') + Len(queue')
      /\ \A i \in 1..Len(pending') : Ready'[i] = (pending')[i]
      /\ \A i \in 1..Len(queue') : Ready'[Len(pending') + i] = (queue')[i]
  BY ListFacts, Joined DEF Ready
<1>2. \A i \in 1..Len(Ready) : MsgOK(Ready[i])
  BY ReadyFacts
<1>3. ASSUME NEW i \in 1..Len(Ready') PROVE MsgOK(Ready'[i])
  <2>1. i \in 1..(Len(Ready) - n) /\ i + n \in 1..Len(Ready)
    BY DEF Takes
  <2>2. QED
    BY <2>1, <1>2 DEF Takes
<1>4. \A i \in 1..Len(pending') : MsgOK((pending')[i])
  <2> SUFFICES ASSUME NEW i \in 1..Len(pending') PROVE MsgOK((pending')[i])
    OBVIOUS
  <2>1. i \in 1..Len(Ready') /\ Ready'[i] = (pending')[i]
    BY <1>1
  <2>2. QED
    BY <2>1, <1>3
<1>5. \A i \in 1..Len(queue') : MsgOK((queue')[i])
  <2> SUFFICES ASSUME NEW i \in 1..Len(queue') PROVE MsgOK((queue')[i])
    OBVIOUS
  <2>1. Len(pending') + i \in 1..Len(Ready') /\ Ready'[Len(pending') + i] = (queue')[i]
    BY <1>1
  <2>2. QED
    BY <2>1, <1>3
<1>6. QED
  BY <1>4, <1>5 DEF Messages

Split(rest, k, p, q) == p = After(rest, k) /\ q = SubSeq(rest, k + 2, Len(rest))
Leaves(rest, k, p, q) ==
    /\ IsList(p) /\ Len(p) <= 1 /\ IsList(q) /\ Len(p \o q) = Len(rest) - k
    /\ \A i \in 1..(Len(rest) - k) : (p \o q)[i] = rest[i + k]

\* What is left of a list behind its first k elements: one element, and the rest.
LEMMA Behind ==
    ASSUME NEW rest, IsList(rest), NEW k, k \in 0..Len(rest), NEW p, NEW q, Split(rest, k, p, q)
    PROVE  Leaves(rest, k, p, q)
<1> USE DEF Split
<1> SUFFICES /\ IsList(p) /\ Len(p) <= 1 /\ IsList(q) /\ Len(p \o q) = Len(rest) - k
             /\ \A i \in 1..(Len(rest) - k) : (p \o q)[i] = rest[i + k]
  BY DEF Leaves
<1>1. Len(rest) \in Nat
  BY ListFacts
<1>2. CASE k < Len(rest)
  <2>1. p = <<rest[k + 1]>> /\ IsList(p) /\ Len(p) = 1 /\ p[1] = rest[k + 1]
    BY <1>2, ShortLists DEF After
  <2>2. k + 1 \in 0..Len(rest) /\ (k + 1) + 1 = k + 2
    BY <1>1, <1>2
  <2>3. /\ IsList(q) /\ Len(q) = Len(rest) - (k + 1)
        /\ \A i \in 1..(Len(rest) - (k + 1)) : q[i] = rest[i + (k + 1)]
    BY <2>2, Dropped
  <2>4. /\ Len(p \o q) = Len(p) + Len(q)
        /\ \A i \in 1..Len(p) : (p \o q)[i] = p[i]
        /\ \A i \in 1..Len(q) : (p \o q)[Len(p) + i] = q[i]
    BY <2>1, <2>3, Joined
  <2>5. Len(p \o q) = Len(rest) - k
    BY <1>1, <2>1, <2>3, <2>4
  <2>6. ASSUME NEW i \in 1..(Len(rest) - k) PROVE (p \o q)[i] = rest[i + k]
    <3>1. CASE i = 1
      <4>1. (p \o q)[1] = p[1] /\ 1 + k = k + 1
        BY <1>1, <2>1, <2>4
      <4>2. QED
        BY <3>1, <4>1, <2>1
    <3>2. CASE i # 1
      <4>1. i - 1 \in 1..Len(q) /\ Len(p) + (i - 1) = i /\ (i - 1) + (k + 1) = i + k
        BY <1>1, <2>1, <2>3, <3>2
      <4>2. (p \o q)[Len(p) + (i - 1)] = q[i - 1] /\ q[i - 1] = rest[(i - 1) + (k + 1)]
        BY <4>1, <2>3, <2>4
      <4>3. QED
        BY <4>1, <4>2
    <3>3. QED
      BY <3>1, <3>2
  <2>7. QED
    BY <2>1, <2>3, <2>5, <2>6
<1>3. CASE ~ (k < Len(rest))
  <2>a. p = <<>> /\ IsList(p) /\ Len(p) = 0
    BY <1>3, ShortLists DEF After
  <2>b. PICK l \in Nat : l = Len(rest)
    BY <1>1
  <2>c. k \in 0..l /\ ~ (k < l)
    BY <1>3, <2>b
  <2>d. k = l
    BY <2>c
  <2>1. k = Len(rest) /\ p = <<>> /\ IsList(p) /\ Len(p) = 0
    BY <2>a, <2>b, <2>d
  <2>2. q = <<>>
    BY <1>1, <2>1, SubSeqEmpty
  <2>3. p \o q = <<>>
    BY <2>1, <2>2
  <2>4. Len(p \o q) = 0 /\ IsList(q)
    BY <2>1, <2>2, <2>3
  <2>5. Len(rest) - k = 0
    BY <1>1, <2>1
  <2>6. QED
    BY <2>1, <2>4, <2>5
<1>4. QED
  BY <1>2, <1>3

\* What the dispatcher does with a message, m, that it has taken.
Passes(m) ==
    \/ Sent /\ UNCHANGED <<buf, typing>> /\ (m.kind \in {"hint", "progress"} \/ m.chat \notin Reachable)
    \/ SendOnce(m, 1)

\* It is the first one, but for the text.
TakesAs(m) ==
    /\ MsgOK(m) /\ Passes(m)
    /\ m.kind = Ready[1].kind /\ m.stream = Ready[1].stream /\ m.chat = Ready[1].chat
    /\ m.streamed = Ready[1].streamed

\* The dispatcher takes a delta and those that follow it.
LEMMA CoalesceStep ==
    ASSUME Messages, Ready # <<>>, Ready[1].kind = "delta", Coalesce(Ready[1], Tail(Ready))
    PROVE  Messages' /\ (\E n \in Nat : Takes(n)) /\ (\E m : TakesAs(m))
<1>1. IsList(Ready) /\ \A i \in 1..Len(Ready) : MsgOK(Ready[i])
  BY ReadyFacts
<1> DEFINE m == Ready[1]
           rest == Tail(Ready)
           k == RunOf(m, rest)
<1>2. /\ IsList(rest) /\ Len(rest) = Len(Ready) - 1 /\ Len(Ready) \in Nat \ {0}
      /\ \A i \in 1..(Len(Ready) - 1) : rest[i] = Ready[i + 1]
  BY <1>1, TailFacts
<1>3. k \in 0..Len(rest) /\ \A j \in 1..k : Piece(rest[j], m.chat)
  BY <1>2, RunFacts
<1>4. pending' = After(rest, k) /\ queue' = SubSeq(rest, k + 2, Len(rest))
  BY DEF Coalesce
<1>5. HandOver([m EXCEPT !.text = FoldLeft(LAMBDA t, q : t \o q.text, @, SubSeq(rest, 1, k))])
  BY DEF Coalesce
<1>6. PICK x : x = FoldLeft(LAMBDA t, q : t \o q.text, m.text, SubSeq(rest, 1, k))
  OBVIOUS
<1>7. HandOver([m EXCEPT !.text = x])
  BY <1>5, <1>6
<1>8. MsgOK(m)
  BY <1>1, <1>2
<1> HIDE DEF m, rest, k
<1>9. \E y : TakesAs(y)
  <2>1. PICK y : y = [m EXCEPT !.text = x]
    OBVIOUS
  <2>2. MsgOK(y) /\ y.kind = m.kind /\ y.stream = m.stream /\ y.chat = m.chat /\ y.streamed = m.streamed
    BY <1>8, <2>1 DEF MsgOK, OfStream
  <2>3. HandOver(y)
    BY <1>7, <2>1
  <2>4. Passes(y)
    BY <2>3 DEF HandOver, Passes
  <2>5. TakesAs(y)
    BY <2>2, <2>4 DEF TakesAs, m
  <2>6. QED
    BY <2>5
<1>10. /\ IsList(pending') /\ Len(pending') <= 1 /\ IsList(queue') /\ Len(Ready') = Len(rest) - k
       /\ \A i \in 1..(Len(rest) - k) : Ready'[i] = rest[i + k]
  <2>1. PICK p, q : p = After(rest, k) /\ q = SubSeq(rest, k + 2, Len(rest))
    OBVIOUS
  <2>2. /\ IsList(p) /\ Len(p) <= 1 /\ IsList(q) /\ Len(p \o q) = Len(rest) - k
        /\ \A i \in 1..(Len(rest) - k) : (p \o q)[i] = rest[i + k]
    <3>1. IsList(rest) /\ k \in 0..Len(rest)
      BY <1>2, <1>3
    <3>2. Split(rest, k, p, q)
      BY <2>1 DEF Split
    <3>3. Leaves(rest, k, p, q)
      BY <3>1, <3>2, Behind
    <3>4. QED
      BY <3>3 DEF Leaves
  <2>3. pending' = p /\ queue' = q /\ Ready' = p \o q
    BY <1>4, <2>1 DEF Ready
  <2>4. QED
    BY <2>2, <2>3
<1>11. Takes(k + 1)
  <2>1. k + 1 \in 1..Len(Ready) /\ Len(Ready') = Len(Ready) - (k + 1)
    BY <1>2, <1>3, <1>10
  <2>2. ASSUME NEW i \in 1..(Len(Ready) - (k + 1)) PROVE Ready'[i] = Ready[i + (k + 1)]
    <3>1. i \in 1..(Len(rest) - k) /\ i + k \in 1..(Len(Ready) - 1) /\ (i + k) + 1 = i + (k + 1)
      BY <1>2, <1>3
    <3>2. QED
      BY <3>1, <1>2, <1>10
  <2>3. ASSUME NEW i \in 2..(k + 1) PROVE Piece(Ready[i], Ready[1].chat)
    <3>1. i - 1 \in 1..k /\ i - 1 \in 1..(Len(Ready) - 1) /\ (i - 1) + 1 = i
      BY <1>2, <1>3
    <3>2. rest[i - 1] = Ready[i]
      BY <3>1, <1>2
    <3>3. QED
      BY <3>1, <3>2, <1>3 DEF m
  <2>4. QED
    BY <2>1, <2>2, <2>3, <1>2 DEF Takes
<1>12. Messages'
  BY <1>10, <1>11, TakenMessages
<1>13. k + 1 \in Nat
  BY <1>2, <1>3
<1>14. QED
  BY <1>9, <1>11, <1>12, <1>13

\* The dispatcher takes a message.
LEMMA TakeStep ==
    ASSUME Messages, Take
    PROVE  Messages' /\ (\E n \in Nat : Takes(n)) /\ (\E m : TakesAs(m))
<1>1. Ready # <<>> /\ IsList(Ready) /\ \A i \in 1..Len(Ready) : MsgOK(Ready[i])
  BY ReadyFacts DEF Take
<1>2. /\ IsList(Tail(Ready)) /\ Len(Tail(Ready)) = Len(Ready) - 1 /\ Len(Ready) \in Nat \ {0}
      /\ Head(Ready) = Ready[1]
      /\ \A i \in 1..(Len(Ready) - 1) : Tail(Ready)[i] = Ready[i + 1]
  BY <1>1, TailFacts
<1>3. CASE Ready[1].kind = "delta"
  <2>1. Coalesce(Ready[1], Tail(Ready))
    BY <1>2, <1>3 DEF Take
  <2>2. QED
    BY <1>1, <1>3, <2>1, CoalesceStep
<1>4. CASE Ready[1].kind # "delta"
  <2>1. /\ pending' = <<>> /\ queue' = Tail(Ready)
        /\ IF Filtered(Ready[1]) THEN Sent /\ UNCHANGED <<buf, typing>> ELSE HandOver(Ready[1])
    BY <1>2, <1>4 DEF Take
  <2>2. IsList(pending') /\ Len(pending') = 0 /\ IsList(queue')
    BY <1>2, <2>1, ShortLists
  <2>3. Ready' = Tail(Ready)
    <3>1. IsList(Tail(Ready))
      BY <1>2
    <3>2. <<>> \o Tail(Ready) = Tail(Ready)
      BY <3>1, ConcatEmptySeq DEF IsList
    <3>3. QED
      BY <2>1, <3>2 DEF Ready
  <2>4. Takes(1)
    BY <1>2, <2>3 DEF Takes
  <2>5. Messages'
    BY <2>2, <2>4, TakenMessages
  <2>6. MsgOK(Ready[1])
    BY <1>1, <1>2
  <2>7. Passes(Ready[1])
    BY <2>1 DEF Passes, Filtered, HandOver
  <2>8. TakesAs(Ready[1])
    BY <2>6, <2>7 DEF TakesAs
  <2>9. QED
    BY <2>4, <2>5, <2>8
<1>5. QED
  BY <1>3, <1>4

-----------------------------------------------------------------------------
(* Steps of the agent. *)

\* Only session s moves; the dispatcher and the channel do not.
Moves(s) ==
    /\ UNCHANGED <<pending, hand, buf, shown>>
    /\ used'.failures = used.failures
    /\ \A r \in Sessions \ {s} : turn'[r] = turn[r] /\ inbound'[r] = inbound[r]

\* Messages r take over what session s was the reason for.
TakesOver(s, r) ==
    /\ s \in Streaming /\ turn[s].pc = "model" =>
          \/ turn'[s].pc = "model" /\ turn'[s].n = turn[s].n /\ turn'[s].segment = turn[s].segment
          \/ \E j \in 1..Len(r) : Ends(r[j], StreamId(s)) \/ Whole(r[j], ChatOf[s])
    /\ \A j \in 1..Len(r) : r[j].kind = "delta" =>
          s \in Streaming /\ turn'[s].pc = "model" /\ r[j].stream = StreamId(s)'
    /\ used'.muted = "no" =>
          /\ used.muted = "no"
          /\ s \in Streaming /\ (inbound[s] > 0 \/ Working(s)) =>
                \/ inbound'[s] > 0 \/ Working(s)'
                \/ \E j \in 1..Len(r) : Whole(r[j], ChatOf[s]) \/ Piece(r[j], ChatOf[s])

\* A segment that was open is still open, or what ends it has been published.
LEMMA OpenGoesOn ==
    ASSUME DeliveryAssumption, NEW s \in Sessions, Moves(s), NEW r, Grows(r), TakesOver(s, r),
           NEW z, Open(z)
    PROVE  /\ z[1] \in Streaming
           /\ \/ Open(z)'
              \/ \E j \in 1..Len(r) : Ends(r[j], z) \/ Whole(r[j], ChatOf[z[1]])
<1>1. PICK t \in Streaming : turn[t].pc = "model" /\ z = StreamId(t)
  BY DEF Open
<1>2. z[1] = t /\ t \in Sessions
  BY <1>1, DeliveryAssumption DEF StreamId, DeliveryAssumption
<1>3. CASE t = s
  <2>1. CASE turn'[s].pc = "model" /\ turn'[s].n = turn[s].n /\ turn'[s].segment = turn[s].segment
    <3>1. turn'[t].pc = "model" /\ z = StreamId(t)'
      BY <1>1, <1>3, <2>1 DEF StreamId
    <3>2. QED
      BY <1>1, <1>2, <3>1 DEF Open
  <2>2. CASE \E j \in 1..Len(r) : Ends(r[j], StreamId(s)) \/ Whole(r[j], ChatOf[s])
    BY <1>1, <1>2, <1>3, <2>2
  <2>3. QED
    BY <1>1, <1>3, <2>1, <2>2 DEF TakesOver
<1>4. CASE t # s
  <2>1. turn'[t] = turn[t]
    BY <1>2, <1>4 DEF Moves
  <2>2. turn'[t].pc = "model" /\ z = StreamId(t)'
    BY <1>1, <2>1 DEF StreamId
  <2>3. QED
    BY <1>1, <1>2, <2>2 DEF Open
<1>5. QED
  BY <1>3, <1>4

\* Every delta is followed by the end of its segment, as before.
LEMMA AgentDeltas ==
    ASSUME DeliveryAssumption, Messages, DeltasEnd, NEW s \in Sessions, Moves(s), NEW r, Grows(r), TakesOver(s, r)
    PROVE  DeltasEnd'
<1>1. /\ Len(r) \in Nat /\ Len(Ready) \in Nat /\ Len(Ready') = Len(Ready) + Len(r)
      /\ \A i \in 1..Len(Ready) : Ready'[i] = Ready[i]
      /\ \A i \in 1..Len(r) : Ready'[Len(Ready) + i] = r[i]
  BY DEF Grows
<1>2. SUFFICES ASSUME NEW i \in 1..Len(Ready'), Ready'[i].kind = "delta"
               PROVE  Followed(Ready, i)'
  BY DEF DeltasEnd
<1>3. CASE i \in 1..Len(Ready)
  <2>1. Ready'[i] = Ready[i] /\ Ready[i].kind = "delta" /\ Followed(Ready, i)
    BY <1>1, <1>2, <1>3 DEF DeltasEnd
  <2>2. MsgOK(Ready[i])
    BY <1>3, ReadyFacts
  <2>3. Ready[i].chat = ChatOf[Ready[i].stream[1]]
    BY <2>1, <2>2 DEF MsgOK, OfStream
  <2>4. CASE Open(Ready[i].stream)
    <3> PICK z : z = Ready[i].stream
      OBVIOUS
    <3>1. CASE Open(z)'
      BY <2>1, <3>1 DEF Followed, Open, StreamId
    <3>2. CASE \E j \in 1..Len(r) : Ends(r[j], z) \/ Whole(r[j], ChatOf[z[1]])
      <4>1. PICK j \in 1..Len(r) : Ends(r[j], Ready[i].stream) \/ Whole(r[j], ChatOf[Ready[i].stream[1]])
        BY <3>2
      <4>2. Len(Ready) + j \in 1..Len(Ready') /\ i < Len(Ready) + j /\ Ready'[Len(Ready) + j] = r[j]
        BY <1>1, <1>3
      <4>3. Ends(Ready'[Len(Ready) + j], Ready'[i].stream) \/ Whole(Ready'[Len(Ready) + j], Ready'[i].chat)
        BY <2>1, <2>3, <4>1, <4>2
      <4>4. QED
        BY <4>2, <4>3 DEF Followed, Ends, Whole
    <3>3. QED
      BY <2>4, <3>1, <3>2, OpenGoesOn
  <2>5. CASE \E j \in 1..Len(Ready) : i < j /\ (Ends(Ready[j], Ready[i].stream) \/ Whole(Ready[j], Ready[i].chat))
    <3>1. PICK j \in 1..Len(Ready) : i < j /\ (Ends(Ready[j], Ready[i].stream) \/ Whole(Ready[j], Ready[i].chat))
      BY <2>5
    <3>2. j \in 1..Len(Ready') /\ Ready'[j] = Ready[j]
      BY <1>1
    <3>3. Ends(Ready'[j], Ready'[i].stream) \/ Whole(Ready'[j], Ready'[i].chat)
      BY <2>1, <3>1, <3>2
    <3>4. QED
      BY <3>1, <3>2, <3>3 DEF Followed, Ends, Whole
  <2>6. QED
    BY <2>1, <2>4, <2>5 DEF Followed
<1>4. CASE i \notin 1..Len(Ready)
  <2>1. i - Len(Ready) \in 1..Len(r) /\ Len(Ready) + (i - Len(Ready)) = i
    BY <1>1, <1>2, <1>4
  <2>2. Ready'[i] = r[i - Len(Ready)]
    BY <1>1, <2>1
  <2>3. s \in Streaming /\ turn'[s].pc = "model" /\ Ready'[i].stream = StreamId(s)'
    BY <1>2, <2>1, <2>2 DEF TakesOver
  <2>4. QED
    BY <2>3 DEF Followed, Open, StreamId
<1>5. QED
  BY <1>3, <1>4

\* What was on its way still is; what has been published is, too.
LEMMA OnTheWayStays ==
    ASSUME NEW c, NEW r, Grows(r),
           OnTheWay(c) \/ \E j \in 1..Len(r) : Whole(r[j], c) \/ Piece(r[j], c)
    PROVE  OnTheWay(c)'
<1>1. /\ Len(r) \in Nat /\ Len(Ready) \in Nat /\ Len(Ready') = Len(Ready) + Len(r)
      /\ \A i \in 1..Len(Ready) : Ready'[i] = Ready[i]
      /\ \A i \in 1..Len(r) : Ready'[Len(Ready) + i] = r[i]
  BY DEF Grows
<1>2. SUFFICES \E i \in 1..Len(Ready') : Whole(Ready'[i], c) \/ Piece(Ready'[i], c)
  BY DEF OnTheWay, Whole, Piece
<1>3. CASE OnTheWay(c)
  <2>1. PICK i \in 1..Len(Ready) : Whole(Ready[i], c) \/ Piece(Ready[i], c)
    BY <1>3 DEF OnTheWay
  <2>2. i \in 1..Len(Ready') /\ Ready'[i] = Ready[i]
    BY <1>1
  <2>3. QED
    BY <2>1, <2>2
<1>4. CASE \E j \in 1..Len(r) : Whole(r[j], c) \/ Piece(r[j], c)
  <2>1. PICK j \in 1..Len(r) : Whole(r[j], c) \/ Piece(r[j], c)
    BY <1>4
  <2>2. Len(Ready) + j \in 1..Len(Ready') /\ Ready'[Len(Ready) + j] = r[j]
    BY <1>1
  <2>3. QED
    BY <2>1, <2>2
<1>5. QED
  BY <1>3, <1>4

\* The reason for an indicator that is on goes on, or another one follows.
LEMMA AgentReason ==
    ASSUME DeliveryAssumption, Buffers, NEW s \in Sessions, Moves(s), NEW r, Grows(r), TakesOver(s, r),
           NEW c \in Chats, Reason(c), used'.muted = "no"
    PROVE  Reason(c)'
<1>1. /\ Len(r) \in Nat /\ Len(Ready) \in Nat /\ Len(Ready') = Len(Ready) + Len(r)
      /\ \A i \in 1..Len(Ready) : Ready'[i] = Ready[i]
      /\ \A i \in 1..Len(r) : Ready'[Len(Ready) + i] = r[i]
  BY DEF Grows
<1>2. CASE AtWork(c)
  <2>1. PICK t \in Streaming : ChatOf[t] = c /\ (inbound[t] > 0 \/ Working(t))
    BY <1>2 DEF AtWork
  <2>2. t \in Sessions
    BY DeliveryAssumption DEF DeliveryAssumption
  <2>3. CASE t # s
    <3>1. turn'[t] = turn[t] /\ inbound'[t] = inbound[t]
      BY <2>2, <2>3 DEF Moves
    <3>2. inbound'[t] > 0 \/ Working(t)'
      BY <2>1, <3>1 DEF Working
    <3>3. QED
      BY <2>1, <3>2 DEF Reason, AtWork
  <2>4. CASE t = s
    <3>1. \/ inbound'[s] > 0 \/ Working(s)'
          \/ \E j \in 1..Len(r) : Whole(r[j], ChatOf[s]) \/ Piece(r[j], ChatOf[s])
      BY <2>1, <2>4 DEF TakesOver
    <3>2. CASE inbound'[s] > 0 \/ Working(s)'
      BY <2>1, <2>4, <3>2 DEF Reason, AtWork
    <3>3. CASE \E j \in 1..Len(r) : Whole(r[j], ChatOf[s]) \/ Piece(r[j], ChatOf[s])
      <4>1. OnTheWay(c)'
        BY <2>1, <2>4, <3>3, OnTheWayStays
      <4>2. QED
        BY <4>1 DEF Reason
    <3>4. QED
      BY <3>1, <3>2, <3>3
  <2>5. QED
    BY <2>3, <2>4
<1>3. CASE OnTheWay(c)
  <2>1. OnTheWay(c)'
    BY <1>3, OnTheWayStays
  <2>2. QED
    BY <2>1 DEF Reason
<1>4. CASE Growing(c)
  <2>1. PICK z : z = buf[c].stream
    OBVIOUS
  <2>2. /\ z # NoStream /\ ~ EndingNow(c) /\ ChatOf[z[1]] = c
        /\ Open(z) \/ \E i \in 1..Len(Ready) : Ends(Ready[i], z)
    BY <1>4, <2>1 DEF Growing, Buffers
  <2>3. z = buf'[c].stream /\ ~ EndingNow(c)'
    BY <2>1, <2>2 DEF Moves, EndingNow
  <2>4. CASE Open(z)'
    <3>1. Growing(c)'
      BY <2>2, <2>3, <2>4 DEF Growing, Open, StreamId
    <3>2. QED
      BY <3>1 DEF Reason
  <2>5. CASE \E i \in 1..Len(Ready') : Ends(Ready'[i], z)
    <3>1. Growing(c)'
      BY <2>2, <2>3, <2>5 DEF Growing, Ends
    <3>2. QED
      BY <3>1 DEF Reason
  <2>6. CASE \E j \in 1..Len(r) : Ends(r[j], z)
    <3>1. PICK j \in 1..Len(r) : Ends(r[j], z)
      BY <2>6
    <3>2. Len(Ready) + j \in 1..Len(Ready') /\ Ends(Ready'[Len(Ready) + j], z)
      BY <1>1, <3>1
    <3>3. QED
      BY <3>2, <2>5
  <2>7. CASE \E j \in 1..Len(r) : Whole(r[j], c)
    <3>1. OnTheWay(c)'
      BY <2>7, OnTheWayStays
    <3>2. QED
      BY <3>1 DEF Reason
  <2>8. CASE \E i \in 1..Len(Ready) : Ends(Ready[i], z)
    <3>1. PICK i \in 1..Len(Ready) : Ends(Ready[i], z)
      BY <2>8
    <3>2. i \in 1..Len(Ready') /\ Ends(Ready'[i], z)
      BY <1>1, <3>1
    <3>3. QED
      BY <3>2, <2>5
  <2>9. CASE Open(z)
    <3>1. Open(z)' \/ \E j \in 1..Len(r) : Ends(r[j], z) \/ Whole(r[j], c)
      BY <2>2, <2>9, OpenGoesOn
    <3>2. QED
      BY <3>1, <2>4, <2>6, <2>7
  <2>10. QED
    BY <2>2, <2>8, <2>9
<1>5. QED
  BY <1>2, <1>3, <1>4 DEF Reason

\* All that the steps of the agent have in common.
LEMMA AgentStep ==
    ASSUME DeliveryAssumption, DInv, NEW s \in Sessions, Moves(s), UNCHANGED typing,
           NEW r, IsList(r), Grows(r), TakesOver(s, r), Messages', Turns'
    PROVE  DInv'
<1> USE DEF DInv
<1>1. DeltasEnd'
  BY AgentDeltas
<1>2. hand' = hand /\ buf' = buf /\ shown' = shown /\ typing' = typing /\ used'.failures = used.failures
  BY DEF Moves
<1>3. Hand'
  BY <1>2 DEF Hand, MsgOK, OfStream
<1>4. Buffers'
  BY <1>2 DEF Buffers
<1>5. ASSUME NEW c \in Chats, typing'[c] = "on" PROVE c \in Reachable /\ (used'.failures = 0 /\ used'.muted = "no" => Reason(c)')
  <2>1. c \in Reachable /\ (used.failures = 0 /\ used.muted = "no" => Reason(c))
    BY <1>2, <1>5 DEF Indicators
  <2>2. used'.muted = "no" => used.muted = "no"
    BY DEF TakesOver
  <2>3. QED
    BY <1>2, <2>1, <2>2, AgentReason
<1>6. Indicators'
  BY <1>5 DEF Indicators
<1>7. QED
  BY <1>1, <1>3, <1>4, <1>6

-----------------------------------------------------------------------------
(* The messages of a turn. *)

\* A message that belongs to no stream.
LEMMA PlainMessage ==
    ASSUME NEW k \in {"progress", "hint", "reply"}, NEW s, NEW c \in Chats, NEW x
    PROVE  /\ MsgOK(Msg(k, s, c)) /\ MsgOK([Msg(k, s, c) EXCEPT !.text = x])
           /\ Msg(k, s, c).kind = k /\ [Msg(k, s, c) EXCEPT !.text = x].kind = k
           /\ k = "reply" => Whole([Msg(k, s, c) EXCEPT !.text = x], c)
<1>1. QED
  BY DEF Msg, MsgOK, OfStream, Whole, NoStream

\* A delta and an end of the stream of a session.
LEMMA StreamMessage ==
    ASSUME DeliveryAssumption, NEW s \in Streaming, NEW m, NEW x,
           \/ m = [Msg("delta", s, ChatOf[s]) EXCEPT !.stream = StreamId(s), !.text = x]
           \/ m = [Msg("end", s, ChatOf[s]) EXCEPT !.stream = StreamId(s), !.whole = x]
    PROVE  MsgOK(m) /\ m.kind \in {"delta", "end"} /\ m.stream = StreamId(s) /\ m.chat = ChatOf[s]
<1>1. ChatOf[s] \in Chats
  BY DEF DeliveryAssumption
<1>2. PICK z : z = StreamId(s)
  OBVIOUS
<1>3. z # NoStream /\ z[1] = s
  BY <1>2 DEF StreamId, NoStream
<1>4. CASE m = [Msg("delta", s, ChatOf[s]) EXCEPT !.stream = z, !.text = x]
  BY <1>1, <1>2, <1>3, <1>4 DEF Msg, MsgOK, OfStream
<1>5. CASE m = [Msg("end", s, ChatOf[s]) EXCEPT !.stream = z, !.whole = x]
  BY <1>1, <1>2, <1>3, <1>5 DEF Msg, MsgOK, OfStream
<1>6. QED
  BY <1>2, <1>4, <1>5

\* Messages, but no delta.
NoDeltas(r) == IsList(r) /\ \A i \in 1..Len(r) : MsgOK(r[i]) /\ r[i].kind # "delta"

\* Nothing; one message.
LEMMA FewMessages ==
    ASSUME NEW m, MsgOK(m), m.kind # "delta"
    PROVE  NoDeltas(<<>>) /\ NoDeltas(<<m>>) /\ Len(<<m>>) = 1 /\ <<m>>[1] = m
<1>1. /\ IsList(<<>>) /\ Len(<<>>) = 0
      /\ IsList(<<m>>) /\ Len(<<m>>) = 1 /\ <<m>>[1] = m
  BY ShortLists
<1>2. NoDeltas(<<>>)
  BY <1>1 DEF NoDeltas
<1>3. \A i \in 1..Len(<<m>>) : i = 1
  BY <1>1
<1>4. NoDeltas(<<m>>)
  BY <1>1, <1>3 DEF NoDeltas
<1>5. QED
  BY <1>1, <1>2, <1>4

\* One list of them after another.
LEMMA MoreMessages ==
    ASSUME NEW p, NoDeltas(p), NEW q, NoDeltas(q)
    PROVE  NoDeltas(p \o q) /\ \A i \in 1..Len(p) : i \in 1..Len(p \o q) /\ (p \o q)[i] = p[i]
<1>1. IsList(p) /\ IsList(q) /\ Len(p) \in Nat /\ Len(q) \in Nat
  BY ListFacts DEF NoDeltas
<1>2. /\ IsList(p \o q) /\ Len(p \o q) = Len(p) + Len(q)
      /\ \A i \in 1..Len(p) : (p \o q)[i] = p[i]
      /\ \A i \in 1..Len(q) : (p \o q)[Len(p) + i] = q[i]
  BY <1>1, Joined
<1>3. ASSUME NEW i \in 1..Len(p \o q) PROVE MsgOK((p \o q)[i]) /\ (p \o q)[i].kind # "delta"
  <2>1. CASE i \in 1..Len(p)
    BY <2>1, <1>2 DEF NoDeltas
  <2>2. CASE i \notin 1..Len(p)
    <3>1. i - Len(p) \in 1..Len(q) /\ Len(p) + (i - Len(p)) = i
      BY <2>2, <1>1, <1>2
    <3>2. (p \o q)[i] = q[i - Len(p)]
      BY <3>1, <1>2
    <3>3. QED
      BY <3>1, <3>2 DEF NoDeltas
  <2>3. QED
    BY <2>1, <2>2
<1>4. \A i \in 1..Len(p) : i \in 1..Len(p \o q)
  BY <1>1, <1>2
<1>5. QED
  BY <1>2, <1>3, <1>4 DEF NoDeltas

\* The end of a segment, if the session streams.
LEMMA EndMessages ==
    ASSUME DeliveryAssumption, NEW s \in Sessions
    PROVE  /\ NoDeltas(StreamEnd(s))
           /\ s \in Streaming => \E j \in 1..Len(StreamEnd(s)) : Ends(StreamEnd(s)[j], StreamId(s))
<1>1. CASE s \in Streaming
  <2>1. PICK m : m = [Msg("end", s, ChatOf[s]) EXCEPT !.stream = StreamId(s), !.whole = turn[s].streamed]
    OBVIOUS
  <2>a. MsgOK(m) /\ m.stream = StreamId(s)
    BY <1>1, <2>1, StreamMessage
  <2>2. MsgOK(m) /\ m.kind = "end" /\ m.stream = StreamId(s)
    BY <2>1, <2>a DEF Msg
  <2>3. StreamEnd(s) = <<m>>
    BY <1>1, <2>1 DEF StreamEnd, Streams
  <2>4. NoDeltas(StreamEnd(s)) /\ Len(StreamEnd(s)) = 1 /\ StreamEnd(s)[1] = m
    BY <2>2, <2>3, FewMessages
  <2>5. 1 \in 1..Len(StreamEnd(s)) /\ Ends(StreamEnd(s)[1], StreamId(s))
    BY <2>2, <2>4 DEF Ends
  <2>6. QED
    BY <2>4, <2>5
<1>2. CASE s \notin Streaming
  <2>1. StreamEnd(s) = <<>> /\ Len(<<>>) = 0 /\ IsList(<<>>)
    BY <1>2, ShortLists DEF StreamEnd, Streams
  <2>2. QED
    BY <1>2, <2>1 DEF NoDeltas
<1>3. QED
  BY <1>1, <1>2

\* What is published when the model calls tools.
LEMMA ToolMessages ==
    ASSUME DeliveryAssumption, NEW s \in Sessions, NEW r,
           r = StreamEnd(s) \o (IF Streams(s) THEN <<>> ELSE <<Msg("progress", s, ChatOf[s])>>)
               \o <<Msg("hint", s, ChatOf[s])>>
    PROVE  NoDeltas(r) /\ (s \in Streaming => \E j \in 1..Len(r) : Ends(r[j], StreamId(s)))
<1>1. ChatOf[s] \in Chats
  BY DEF DeliveryAssumption
<1>2. PICK p : p = IF Streams(s) THEN <<>> ELSE <<Msg("progress", s, ChatOf[s])>>
  OBVIOUS
<1>3. PICK h : h = <<Msg("hint", s, ChatOf[s])>>
  OBVIOUS
<1>4. MsgOK(Msg("progress", s, ChatOf[s])) /\ MsgOK(Msg("hint", s, ChatOf[s]))
  BY <1>1, PlainMessage
<1>5. Msg("progress", s, ChatOf[s]).kind # "delta" /\ Msg("hint", s, ChatOf[s]).kind # "delta"
  BY DEF Msg
<1>6. NoDeltas(h)
  BY <1>3, <1>4, <1>5, FewMessages
<1>7. NoDeltas(p)
  BY <1>2, <1>4, <1>5, FewMessages
<1>8. PICK e : e = StreamEnd(s)
  OBVIOUS
<1>9. NoDeltas(e) /\ (s \in Streaming => \E j \in 1..Len(e) : Ends(e[j], StreamId(s)))
  BY <1>8, EndMessages
<1>10. PICK f : f = e \o p
  OBVIOUS
<1>11. NoDeltas(f) /\ \A i \in 1..Len(e) : i \in 1..Len(f) /\ f[i] = e[i]
  BY <1>7, <1>9, <1>10, MoreMessages
<1>12. r = f \o h
  BY <1>2, <1>3, <1>8, <1>10
<1>13. NoDeltas(r) /\ \A i \in 1..Len(f) : i \in 1..Len(r) /\ r[i] = f[i]
  <2>1. NoDeltas(f) /\ NoDeltas(h)
    BY <1>6, <1>11
  <2>2. NoDeltas(f \o h) /\ \A i \in 1..Len(f) : i \in 1..Len(f \o h) /\ (f \o h)[i] = f[i]
    BY <2>1, MoreMessages
  <2>3. QED
    BY <1>12, <2>2
<1>14. \A i \in 1..Len(e) : i \in 1..Len(r) /\ r[i] = e[i]
  BY <1>11, <1>13
<1>15. QED
  BY <1>9, <1>13, <1>14

-----------------------------------------------------------------------------
(* The turn of a session. *)

\* Session s has the turn t now, the others what they had.
LEMMA TurnsStep ==
    ASSUME Turns, NEW s \in Sessions, NEW t \in TurnRecords, turn' = [turn EXCEPT ![s] = t],
           TurnOK(t),
           inbound' \in [Sessions -> Nat], \A r \in Sessions : inbound'[r] <= inbound[r],
           used' \in [messages : 0..MaxMessages, failures : Nat, clash : {"yes", "no"}, muted : {"yes", "no"}, lost : {used'.lost}],
           used'.messages = used.messages
    PROVE  Turns' /\ turn'[s] = t /\ \A r \in Sessions \ {s} : turn'[r] = turn[r]
<1>1. turn \in [Sessions -> TurnRecords] /\ inbound \in [Sessions -> Nat] /\ used.messages \in Nat
  BY DEF Turns
<1>2. turn' \in [Sessions -> TurnRecords] /\ turn'[s] = t /\ \A r \in Sessions \ {s} : turn'[r] = turn[r]
  BY <1>1
<1>3. ASSUME NEW r \in Sessions
      PROVE  inbound'[r] <= used'.messages /\ TurnOK(turn'[r])
  <2>1. inbound[r] <= used.messages /\ inbound'[r] <= inbound[r] /\ inbound[r] \in Nat /\ inbound'[r] \in Nat
    BY <1>1 DEF Turns
  <2>2. CASE r = s
    BY <1>1, <1>2, <2>1, <2>2
  <2>3. CASE r # s
    <3>1. turn'[r] = turn[r] /\ TurnOK(turn[r])
      BY <1>2, <2>3 DEF Turns
    <3>2. QED
      BY <1>1, <2>1, <3>1
  <2>4. QED
    BY <2>2, <2>3
<1>4. QED
  BY <1>2, <1>3 DEF Turns, TurnOK

\* The same when no message goes and nothing is counted.
LEMMA TurnsOnly ==
    ASSUME Turns, NEW s \in Sessions, NEW t \in TurnRecords, turn' = [turn EXCEPT ![s] = t],
           TurnOK(t), UNCHANGED <<inbound, used>>
    PROVE  Turns' /\ turn'[s] = t /\ \A r \in Sessions \ {s} : turn'[r] = turn[r]
<1>1. inbound \in [Sessions -> Nat]
  BY DEF Turns
<1>2. \A r \in Sessions : inbound'[r] <= inbound[r]
  BY <1>1
<1>3. /\ inbound' \in [Sessions -> Nat]
      /\ used' \in [messages : 0..MaxMessages, failures : Nat, clash : {"yes", "no"}, muted : {"yes", "no"}, lost : {used'.lost}]
      /\ used'.messages = used.messages
  BY DEF Turns
<1>4. QED
  BY <1>2, <1>3, TurnsStep

\* The fields of a turn.
LEMMA TurnFields ==
    ASSUME Turns, NEW s \in Sessions
    PROVE  /\ turn[s] \in TurnRecords /\ turn[s].n \in Nat /\ turn[s].segment \in Nat /\ turn[s].said \in Seq(Nat)
           /\ turn[s].streamed \in Seq(Nat) /\ turn[s].deltas \in Nat /\ turn[s].tools \in Nat
           /\ turn[s].pc \in {"idle", "model", "tools", "reply"}
           /\ IdleTurn(turn[s].n) \in TurnRecords /\ IdleTurn(turn[s].n + 1) \in TurnRecords
           /\ OurText \in Seq(Nat) /\ <<>> \in Seq(Nat)
<1>1. turn[s] \in TurnRecords
  BY DEF Turns
<1>2. OurText \in Seq(Nat) /\ <<>> \in Seq(Nat)
  BY DEF OurText
<1>3. turn[s].n \in Nat
  BY <1>1 DEF TurnRecords
<1>4. IdleTurn(turn[s].n) \in TurnRecords /\ IdleTurn(turn[s].n + 1) \in TurnRecords
  BY <1>2, <1>3 DEF IdleTurn, TurnRecords
<1>5. QED
  BY <1>1, <1>2, <1>4 DEF TurnRecords

-----------------------------------------------------------------------------
(* The actions of the agent. *)

\* Nothing but the turn of s changes, and nothing is published.
LEMMA QuietStep ==
    ASSUME DeliveryAssumption, DInv, NEW s \in Sessions, NEW t \in TurnRecords, turn' = [turn EXCEPT ![s] = t],
           TurnOK(t),
           UNCHANGED <<inbound, queue, pending, hand, buf, shown, typing, used>>,
           turn[s].pc = "model" => t.pc = "model" /\ t.n = turn[s].n /\ t.segment = turn[s].segment,
           Working(s) => Working(s)'
    PROVE  DInv'
<1>1. Messages' /\ Grows(<<>>)
  BY SilentStep DEF DInv
<1>2. Turns' /\ turn'[s] = t /\ \A r \in Sessions \ {s} : turn'[r] = turn[r]
  BY TurnsOnly DEF DInv
<1>3. Moves(s)
  BY <1>2 DEF Moves
<1>4. IsList(<<>>) /\ Len(<<>>) = 0
  BY ShortLists
<1>5. TakesOver(s, <<>>)
  BY <1>2, <1>4 DEF TakesOver
<1>6. QED
  BY <1>1, <1>2, <1>3, <1>4, <1>5, AgentStep

\* The turn of s changes, and messages r are published.
LEMMA PublishingStep ==
    ASSUME DeliveryAssumption, DInv, NEW s \in Sessions, NEW t \in TurnRecords, turn' = [turn EXCEPT ![s] = t],
           TurnOK(t),
           UNCHANGED <<inbound, pending, hand, buf, shown, typing, used>>,
           NEW r, IsList(r), \A i \in 1..Len(r) : MsgOK(r[i]), Publish(r), TakesOver(s, r)
    PROVE  DInv'
<1>1. Messages' /\ Grows(r)
  BY PublishStep DEF DInv
<1>2. Turns' /\ \A q \in Sessions \ {s} : turn'[q] = turn[q]
  BY TurnsOnly DEF DInv
<1>3. Moves(s)
  BY <1>2 DEF Moves
<1>4. QED
  BY <1>1, <1>2, <1>3, AgentStep

\* A message arrives, and the indicator may go on.
LEMMA MessageArrivesStep ==
    ASSUME DeliveryAssumption, DInv, NEW s \in Sessions, MessageArrives(s)
    PROVE  DInv'
<1>1. /\ used.messages < MaxMessages /\ used' = [used EXCEPT !.messages = @ + 1]
      /\ inbound' = [inbound EXCEPT ![s] = @ + 1]
      /\ typing' = IF Streams(s) THEN [typing EXCEPT ![ChatOf[s]] = "on"] ELSE typing
      /\ turn' = turn /\ queue' = queue /\ pending' = pending /\ hand' = hand /\ buf' = buf /\ shown' = shown
  BY DEF MessageArrives
<1>2. Turns /\ Messages /\ Hand /\ Buffers /\ DeltasEnd /\ Indicators
  BY DEF DInv
<1>3. /\ inbound \in [Sessions -> Nat]
      /\ used \in [messages : 0..MaxMessages, failures : Nat, clash : {"yes", "no"}, muted : {"yes", "no"}, lost : {used.lost}]
  BY <1>2 DEF Turns
<1>4. /\ used'.messages = used.messages + 1 /\ used.messages \in Nat /\ used'.failures = used.failures
      /\ used'.muted = used.muted
      /\ used' \in [messages : 0..MaxMessages, failures : Nat, clash : {"yes", "no"}, muted : {"yes", "no"}, lost : {used'.lost}]
  <2>1. MaxMessages \in Nat
    BY DEF DeliveryAssumption
  <2>2. QED
    BY <1>1, <1>3, <2>1
<1>5. Turns'
  <2>1. inbound' \in [Sessions -> Nat]
    BY <1>1, <1>3
  <2>2. ASSUME NEW r \in Sessions PROVE inbound'[r] <= used'.messages
    <3>1. inbound[r] <= used.messages /\ inbound[r] \in Nat
      BY <1>2, <1>3 DEF Turns
    <3>2. CASE r = s
      BY <1>1, <1>3, <1>4, <3>1, <3>2
    <3>3. CASE r # s
      BY <1>1, <1>3, <1>4, <3>1, <3>3
    <3>4. QED
      BY <3>2, <3>3
  <2>3. QED
    BY <1>1, <1>2, <1>4, <2>1, <2>2 DEF Turns, TurnOK
<1>6. Messages' /\ Ready' = Ready
  BY <1>1, <1>2 DEF Messages, Ready
<1>7. Hand'
  BY <1>1, <1>2, <1>4 DEF Hand, MsgOK, OfStream
<1>8. typing' \in [Chats -> {"on", "off"}]
  <2>1. typing \in [Chats -> {"on", "off"}] /\ ChatOf[s] \in Chats
    BY <1>2 DEF Buffers, DeliveryAssumption
  <2>2. QED
    BY <1>1, <2>1
<1>9. Buffers'
  BY <1>1, <1>2, <1>4, <1>8 DEF Buffers
<1>10. DeltasEnd'
  BY <1>1, <1>2, <1>6 DEF DeltasEnd, Followed, Open, StreamId, Ends, Whole
<1>11. ASSUME NEW c \in Chats, typing'[c] = "on"
       PROVE  c \in Reachable /\ (used'.failures = 0 /\ used'.muted = "no" => Reason(c)')
  <2>1. CASE Streams(s) /\ c = ChatOf[s]
    <3>1. c \in Reachable /\ s \in Streaming
      BY <2>1 DEF Streams, DeliveryAssumption
    <3>2. inbound'[s] > 0
      BY <1>1, <1>3
    <3>3. AtWork(c)'
      BY <2>1, <3>1, <3>2 DEF AtWork
    <3>4. QED
      BY <3>1, <3>3 DEF Reason
  <2>2. CASE ~ (Streams(s) /\ c = ChatOf[s])
    <3>1. typing[c] = "on"
      <4>1. typing \in [Chats -> {"on", "off"}]
        BY <1>2 DEF Buffers
      <4>2. QED
        BY <1>1, <1>11, <2>2, <4>1
    <3>2. c \in Reachable /\ (used.failures = 0 /\ used.muted = "no" => Reason(c))
      BY <1>2, <3>1 DEF Indicators
    <3>3. ASSUME Reason(c) PROVE Reason(c)'
      <4>1. CASE AtWork(c)
        <5>1. PICK r \in Streaming : ChatOf[r] = c /\ (inbound[r] > 0 \/ Working(r))
          BY <4>1 DEF AtWork
        <5>2. r \in Sessions
          BY DEF DeliveryAssumption
        <5>3. inbound[r] > 0 => inbound'[r] > 0
          BY <1>1, <1>3, <5>2
        <5>4. Working(r) => Working(r)'
          BY <1>1 DEF Working
        <5>5. QED
          BY <5>1, <5>3, <5>4 DEF Reason, AtWork
      <4>2. CASE OnTheWay(c)
        BY <4>2, <1>6 DEF Reason, OnTheWay, Whole, Piece
      <4>3. CASE Growing(c)
        <5>1. Growing(c)'
          BY <4>3, <1>1, <1>6 DEF Growing, EndingNow, Ends, Open, StreamId
        <5>2. QED
          BY <5>1 DEF Reason
      <4>4. QED
        BY <3>3, <4>1, <4>2, <4>3 DEF Reason
    <3>4. QED
      BY <1>4, <3>2, <3>3
  <2>3. QED
    BY <2>1, <2>2
<1>12. Indicators'
  BY <1>11 DEF Indicators
<1>13. QED
  BY <1>5, <1>6, <1>7, <1>9, <1>10, <1>12 DEF DInv

\* A turn starts; the message that waited for it is the reason now at work.
LEMMA TurnStartsStep ==
    ASSUME DeliveryAssumption, DInv, NEW s \in Sessions, TurnStarts(s)
    PROVE  DInv'
<1>1. /\ turn[s].pc = "idle" /\ inbound[s] > 0 /\ inbound' = [inbound EXCEPT ![s] = @ - 1]
      /\ turn' = [turn EXCEPT ![s] = [IdleTurn(turn[s].n + 1) EXCEPT !.pc = "model"]]
      /\ used' = [used EXCEPT !.clash = IF Streams(s) /\ OpenIn(ChatOf[s]) # {} THEN "yes" ELSE @]
      /\ queue' = queue /\ pending' = pending /\ hand' = hand /\ buf' = buf /\ shown' = shown
      /\ typing' = typing
  BY DEF TurnStarts
<1>2. Turns /\ Messages
  BY DEF DInv
<1>3. /\ inbound \in [Sessions -> Nat]
      /\ used \in [messages : 0..MaxMessages, failures : Nat, clash : {"yes", "no"}, muted : {"yes", "no"}, lost : {used.lost}]
  BY <1>2 DEF Turns
<1>4. PICK t : t = [IdleTurn(turn[s].n + 1) EXCEPT !.pc = "model"]
  OBVIOUS
<1>5. t \in TurnRecords /\ t.pc = "model" /\ t.streamed = <<>> /\ t.said = <<>>
  <2>1. turn[s].n + 1 \in Nat /\ <<>> \in Seq(Nat)
    BY <1>2, TurnFields
  <2>2. QED
    BY <1>4, <2>1 DEF IdleTurn, TurnRecords
<1>6. inbound' \in [Sessions -> Nat] /\ \A r \in Sessions : inbound'[r] <= inbound[r]
  <2>1. inbound[s] - 1 \in Nat /\ inbound[s] - 1 <= inbound[s]
    BY <1>1, <1>3
  <2>2. QED
    BY <1>1, <1>3, <2>1
<1>7. /\ used' \in [messages : 0..MaxMessages, failures : Nat, clash : {"yes", "no"}, muted : {"yes", "no"}, lost : {used'.lost}]
      /\ used'.messages = used.messages /\ used'.failures = used.failures /\ used'.muted = used.muted
  <2>1. PICK x \in {"yes", "no"} : used' = [used EXCEPT !.clash = x]
    BY <1>1, <1>3
  <2>2. QED
    BY <1>3, <2>1
<1>8. Turns' /\ turn'[s] = t /\ \A r \in Sessions \ {s} : turn'[r] = turn[r]
  <2>1. TurnOK(t)
    BY <1>5 DEF TurnOK
  <2>2. turn' = [turn EXCEPT ![s] = t]
    BY <1>1, <1>4
  <2>3. QED
    BY ONLY DeliveryAssumption, <1>2, <1>5, <1>6, <1>7, <2>1, <2>2, TurnsStep, ZenonT(30)
<1>9. Messages' /\ Grows(<<>>)
  BY <1>1, <1>2, SilentStep
<1>10. Moves(s)
  BY <1>1, <1>3, <1>7, <1>8 DEF Moves
<1>11. IsList(<<>>) /\ Len(<<>>) = 0
  BY ShortLists
<1>12. Working(s)'
  BY <1>5, <1>8 DEF Working
<1>13. TakesOver(s, <<>>)
  BY <1>1, <1>7, <1>11, <1>12 DEF TakesOver
<1>14. QED
  BY <1>1, <1>8, <1>9, <1>10, <1>11, <1>13, AgentStep

\* A token is streamed: a delta of the open segment.
LEMMA DeltaStep ==
    ASSUME DeliveryAssumption, DInv, NEW s \in Sessions, Delta(s)
    PROVE  DInv'
<1>1. PICK k : k = turn[s].deltas + 1
  OBVIOUS
<1>2. PICK m : m = [Msg("delta", s, ChatOf[s]) EXCEPT !.stream = StreamId(s), !.text = <<k>>]
  OBVIOUS
<1>3. /\ turn[s].pc = "model" /\ s \in Streaming
      /\ turn' = [turn EXCEPT ![s].deltas = k, ![s].said = Append(@, k), ![s].streamed = Append(@, k)]
      /\ Publish(<<m>>)
      /\ UNCHANGED <<inbound, pending, hand, buf, shown, typing, used>>
  BY <1>1, <1>2 DEF Delta, Streams
<1>4. turn[s] \in TurnRecords /\ turn[s].said \in Seq(Nat) /\ turn[s].streamed \in Seq(Nat) /\ turn[s].deltas \in Nat
  BY TurnFields DEF DInv
<1>5. k \in Nat
  BY <1>1, <1>4
<1>6. PICK u, v : u = Append(turn[s].said, k) /\ v = Append(turn[s].streamed, k)
  OBVIOUS
<1>7. u \in Seq(Nat) /\ v \in Seq(Nat) /\ v # <<>>
  <2>1. u \in Seq(Nat)
    BY ONLY <1>4, <1>5, <1>6, AppendProperties
  <2>2. v \in Seq(Nat) /\ v # <<>>
    BY ONLY <1>4, <1>5, <1>6, AppendProperties
  <2>3. QED
    BY <2>1, <2>2
<1>8. PICK t : t = [turn[s] EXCEPT !.deltas = k, !.said = u, !.streamed = v]
  OBVIOUS
<1>9. /\ t \in TurnRecords /\ t.pc = "model" /\ t.streamed = v
      /\ t.n = turn[s].n /\ t.segment = turn[s].segment
  BY <1>3, <1>4, <1>5, <1>7, <1>8 DEF TurnRecords
<1>10. turn' = [turn EXCEPT ![s] = t]
  <2>1. turn \in [Sessions -> TurnRecords]
    BY DEF DInv, Turns
  <2>2. QED
    BY <2>1, <1>3, <1>4, <1>6, <1>8 DEF TurnRecords
<1>11. turn'[s] = t
  BY <1>10 DEF DInv, Turns
<1>12. IsList(<<m>>) /\ Len(<<m>>) = 1 /\ <<m>>[1] = m
  BY ShortLists
<1>13. MsgOK(m) /\ m.stream = StreamId(s) /\ m.chat = ChatOf[s]
  BY <1>2, <1>3, StreamMessage
<1>14. m.kind = "delta"
  BY <1>2 DEF Msg
<1>15. \A i \in 1..Len(<<m>>) : <<m>>[i] = m
  BY <1>12
<1>16. 1 \in 1..Len(<<m>>) /\ Piece(<<m>>[1], ChatOf[s])
  BY <1>12, <1>13, <1>14 DEF Piece
<1>17. StreamId(s)' = StreamId(s)
  BY <1>9, <1>11 DEF StreamId
<1>18. TakesOver(s, <<m>>)
  <2>1. turn'[s].pc = "model" /\ turn'[s].n = turn[s].n /\ turn'[s].segment = turn[s].segment
    BY <1>9, <1>11
  <2>2. \A j \in 1..Len(<<m>>) : <<m>>[j].stream = StreamId(s)'
    BY <1>13, <1>15, <1>17
  <2>3. used' = used
    BY <1>3
  <2>4. QED
    BY <1>3, <1>16, <2>1, <2>2, <2>3 DEF TakesOver
<1>19. \A i \in 1..Len(<<m>>) : MsgOK(<<m>>[i])
  BY <1>13, <1>15
<1>20. TurnOK(t)
  BY <1>7, <1>9 DEF TurnOK
<1>21. QED
  BY <1>3, <1>20, <1>9, <1>10, <1>12, <1>18, <1>19, PublishingStep

\* The provider is asked again.
LEMMA ProviderRetriesStep ==
    ASSUME DeliveryAssumption, DInv, NEW s \in Sessions, ProviderRetries(s)
    PROVE  DInv'
<1>1. /\ turn[s].pc = "model" /\ turn' = [turn EXCEPT ![s].said = <<>>]
      /\ UNCHANGED <<inbound, queue, pending, hand, buf, shown, typing, used>>
  BY DEF ProviderRetries
<1>2. turn[s] \in TurnRecords /\ <<>> \in Seq(Nat) /\ turn \in [Sessions -> TurnRecords]
  BY TurnFields DEF DInv, Turns
<1>3. PICK t : t = [turn[s] EXCEPT !.said = <<>>]
  OBVIOUS
<1>4. /\ t \in TurnRecords /\ t.pc = "model" /\ t.said = <<>> /\ t.n = turn[s].n
      /\ t.segment = turn[s].segment /\ t.streamed = turn[s].streamed
  BY <1>1, <1>2, <1>3 DEF TurnRecords
<1>5. turn' = [turn EXCEPT ![s] = t] /\ turn'[s] = t
  BY <1>1, <1>2, <1>3
<1>6. Working(s) => Working(s)'
  BY <1>1, <1>4, <1>5 DEF Working
<1>7. TurnOK(t)
  BY <1>4 DEF TurnOK
<1>8. QED
  BY <1>1, <1>4, <1>5, <1>6, <1>7, QuietStep

\* The response calls tools: the segment is ended.
LEMMA ToolCallsStep ==
    ASSUME DeliveryAssumption, DInv, NEW s \in Sessions, ToolCalls(s)
    PROVE  DInv'
<1>1. PICK r : r = StreamEnd(s) \o (IF Streams(s) THEN <<>> ELSE <<Msg("progress", s, ChatOf[s])>>)
                     \o <<Msg("hint", s, ChatOf[s])>>
  OBVIOUS
<1>2. PICK t : t = [NextSegment(s, turn[s]) EXCEPT !.pc = "tools", !.tools = turn[s].tools + 1]
  OBVIOUS
<1>3. /\ turn[s].pc = "model" /\ Publish(r) /\ turn' = [turn EXCEPT ![s] = t]
      /\ UNCHANGED <<inbound, pending, hand, buf, shown, typing, used>>
  <2>1. Publish(r)
    BY <1>1 DEF ToolCalls
  <2>2. turn' = [turn EXCEPT ![s] = t]
    BY <1>2 DEF ToolCalls
  <2>3. QED
    BY <2>1, <2>2 DEF ToolCalls
<1>4. turn[s] \in TurnRecords /\ turn[s].segment + 1 \in Nat /\ turn[s].tools + 1 \in Nat /\ <<>> \in Seq(Nat)
  BY TurnFields DEF DInv
<1>5. t \in TurnRecords /\ t.pc = "tools" /\ TurnOK(t)
  BY <1>2, <1>4 DEF NextSegment, TurnRecords, TurnOK
<1>6. turn'[s] = t
  BY <1>3 DEF DInv, Turns
<1>7. NoDeltas(r) /\ (s \in Streaming => \E j \in 1..Len(r) : Ends(r[j], StreamId(s)))
  BY <1>1, ToolMessages
<1>8. TakesOver(s, r)
  <2>1. used' = used
    BY <1>3
  <2>2. Working(s)'
    BY <1>5, <1>6 DEF Working
  <2>3. QED
    BY <1>7, <2>1, <2>2 DEF TakesOver, NoDeltas
<1>9. IsList(r) /\ \A i \in 1..Len(r) : MsgOK(r[i])
  BY <1>7 DEF NoDeltas
<1>10. QED
  BY <1>3, <1>5, <1>8, <1>9, PublishingStep

\* After the tools the model goes on with the next segment, or the answer is ours.
LEMMA AfterToolsTurn ==
    ASSUME DInv, NEW s \in Sessions, turn[s].pc = "tools", AfterTools(s)
    PROVE  \E t \in TurnRecords :
              /\ turn' = [turn EXCEPT ![s] = t]
              /\ TurnOK(t)
              /\ \/ t.pc = "model" /\ t.streamed = <<>>
                 \/ t.pc = "reply" /\ t.said = OurText
<1>1. turn[s] \in TurnRecords /\ OurText \in Seq(Nat) /\ turn[s].streamed = <<>> /\ turn[s].said = <<>>
  BY TurnFields DEF DInv, Turns, TurnOK
<1>2. PICK t : t = IF turn[s].tools < MaxIterations THEN [turn[s] EXCEPT !.pc = "model"]
                   ELSE [turn[s] EXCEPT !.pc = "reply", !.said = OurText]
  OBVIOUS
<1>3. turn' = [turn EXCEPT ![s] = t]
  BY <1>2 DEF AfterTools
<1>4. CASE turn[s].tools < MaxIterations
  <2>1. t = [turn[s] EXCEPT !.pc = "model"]
    BY <1>2, <1>4
  <2>2. t \in TurnRecords /\ t.pc = "model" /\ t.streamed = <<>> /\ TurnOK(t)
    BY <1>1, <2>1 DEF TurnRecords, TurnOK
  <2>3. QED
    BY <1>3, <2>2
<1>5. CASE ~ (turn[s].tools < MaxIterations)
  <2>1. t = [turn[s] EXCEPT !.pc = "reply", !.said = OurText]
    BY <1>2, <1>5
  <2>2. t \in TurnRecords /\ t.pc = "reply" /\ t.said = OurText /\ TurnOK(t)
    BY <1>1, <2>1 DEF TurnRecords, TurnOK
  <2>3. QED
    BY <1>3, <2>2
<1>6. QED
  BY <1>4, <1>5

\* The tools return.
LEMMA ToolsReturnStep ==
    ASSUME DeliveryAssumption, DInv, NEW s \in Sessions, ToolsReturn(s)
    PROVE  DInv'
<1>1. /\ turn[s].pc = "tools" /\ AfterTools(s)
      /\ UNCHANGED <<inbound, queue, pending, hand, buf, shown, typing, used>>
  BY DEF ToolsReturn
<1>2. PICK t \in TurnRecords :
        /\ turn' = [turn EXCEPT ![s] = t] /\ TurnOK(t)
        /\ \/ t.pc = "model" /\ t.streamed = <<>>
           \/ t.pc = "reply" /\ t.said = OurText
  BY <1>1, AfterToolsTurn
<1>3. turn'[s] = t
  BY <1>2 DEF DInv, Turns
<1>4. Working(s)'
  BY <1>2, <1>3 DEF Working
<1>5. QED
  BY <1>1, <1>2, <1>4, QuietStep

\* One of them has sent a message.
LEMMA SendsMessageStep ==
    ASSUME DeliveryAssumption, DInv, NEW s \in Sessions, NEW c \in Chats, SendsMessage(s, c)
    PROVE  DInv'
<1>1. PICK m : m = [Msg("reply", s, c) EXCEPT !.text = OurText]
  OBVIOUS
<1>2. /\ turn[s].pc = "tools" /\ AfterTools(s) /\ Publish(<<m>>)
      /\ UNCHANGED <<inbound, pending, hand, buf, shown, typing, used>>
  BY <1>1 DEF SendsMessage
<1>3. PICK t \in TurnRecords :
        /\ turn' = [turn EXCEPT ![s] = t] /\ TurnOK(t)
        /\ \/ t.pc = "model" /\ t.streamed = <<>>
           \/ t.pc = "reply" /\ t.said = OurText
  BY <1>2, AfterToolsTurn
<1>4. turn'[s] = t
  BY <1>3 DEF DInv, Turns
<1>5. Working(s)'
  BY <1>3, <1>4 DEF Working
<1>6. MsgOK(m) /\ m.kind # "delta"
  BY <1>1, PlainMessage
<1>7. NoDeltas(<<m>>)
  BY <1>6, FewMessages
<1>8. TakesOver(s, <<m>>)
  <2>1. used' = used
    BY <1>2
  <2>2. QED
    BY <1>2, <1>5, <1>7, <2>1 DEF TakesOver, NoDeltas
<1>9. IsList(<<m>>) /\ \A i \in 1..Len(<<m>>) : MsgOK(<<m>>[i])
  BY <1>7 DEF NoDeltas
<1>10. QED
  BY <1>2, <1>3, <1>8, <1>9, PublishingStep

\* The answer is complete, or it failed: the segment is ended, and what was not streamed is ours.
LEMMA AnswerStep ==
    ASSUME DeliveryAssumption, DInv, NEW s \in Sessions, ModelAnswers(s) \/ ModelFails(s)
    PROVE  DInv'
<1>1. PICK u : u = IF ModelAnswers(s) /\ turn[s].said # <<>> THEN turn[s].said ELSE OurText
  OBVIOUS
<1>2. turn[s] \in TurnRecords /\ turn[s].said \in Seq(Nat) /\ OurText \in Seq(Nat) /\ turn \in [Sessions -> TurnRecords]
  BY TurnFields DEF DInv, Turns
<1>3. /\ turn[s].pc = "model" /\ Publish(StreamEnd(s))
      /\ UNCHANGED <<inbound, pending, hand, buf, shown, typing, used>>
  BY DEF ModelAnswers, ModelFails
<1>4. turn' = [turn EXCEPT ![s].pc = "reply", ![s].said = u]
  <2>1. CASE ModelAnswers(s)
    <3>1. CASE turn[s].said # <<>>
      <4>1. u = turn[s].said
        BY <1>1, <2>1, <3>1
      <4>2. QED
        BY <1>2, <2>1, <3>1, <4>1 DEF ModelAnswers, TurnRecords
    <3>2. CASE turn[s].said = <<>>
      <4>1. u = OurText
        BY <1>1, <3>2
      <4>2. QED
        BY <1>2, <2>1, <3>2, <4>1 DEF ModelAnswers, TurnRecords
    <3>3. QED
      BY <3>1, <3>2
  <2>2. CASE ~ ModelAnswers(s)
    BY <1>1, <2>2 DEF ModelFails
  <2>3. QED
    BY <2>1, <2>2
<1>5. u \in Seq(Nat)
  BY <1>1, <1>2
<1>6. PICK t : t = [turn[s] EXCEPT !.pc = "reply", !.said = u]
  OBVIOUS
<1>7. t \in TurnRecords /\ t.pc = "reply" /\ t.said = u /\ TurnOK(t)
  BY <1>2, <1>5, <1>6 DEF TurnRecords, TurnOK
<1>8. turn' = [turn EXCEPT ![s] = t] /\ turn'[s] = t
  BY <1>2, <1>4, <1>6 DEF TurnRecords
<1>9. /\ NoDeltas(StreamEnd(s))
      /\ s \in Streaming => \E j \in 1..Len(StreamEnd(s)) : Ends(StreamEnd(s)[j], StreamId(s))
  BY EndMessages
<1>10. Working(s) => Working(s)'
  <2>1. ASSUME Working(s) PROVE turn[s].said = <<>>
    BY <1>3, <2>1 DEF Working, DInv, Turns, TurnOK
  <2>2. ASSUME Working(s) PROVE u = OurText
    BY <1>1, <2>1, <2>2
  <2>3. QED
    BY <1>7, <1>8, <2>2 DEF Working
<1>11. TakesOver(s, StreamEnd(s))
  <2>1. used' = used /\ inbound' = inbound
    BY <1>3
  <2>2. QED
    BY <1>9, <1>10, <2>1 DEF TakesOver, NoDeltas
<1>12. PICK r : r = StreamEnd(s)
  OBVIOUS
<1>13. IsList(r) /\ (\A i \in 1..Len(r) : MsgOK(r[i])) /\ Publish(r) /\ TakesOver(s, r)
  BY <1>3, <1>9, <1>11, <1>12 DEF NoDeltas
<1>14. QED
  BY <1>3, <1>7, <1>8, <1>13, PublishingStep

\* The turn is over: there is an answer in one piece, or one that has been streamed, or none.
LEMMA ReplyStep ==
    ASSUME DeliveryAssumption, DInv, NEW s \in Sessions, Reply(s)
    PROVE  DInv'
<1>1. /\ turn[s].pc = "reply" /\ turn' = [turn EXCEPT ![s] = IdleTurn(turn[s].n)]
      /\ used' = [used EXCEPT !.muted = IF tool.sent = "yes" \/ (Streams(s) /\ ~ IsStreamed(turn[s].said))
                                       THEN "yes" ELSE @]
      /\ UNCHANGED <<inbound, pending, hand, buf, shown, typing>>
  BY DEF Reply
<1>2. PICK t : t = IdleTurn(turn[s].n)
  OBVIOUS
<1>3. t \in TurnRecords
  BY <1>2, TurnFields DEF DInv
<1>4. t.pc = "idle" /\ TurnOK(t)
  BY <1>2 DEF TurnOK, IdleTurn
<1>5. /\ used \in [messages : 0..MaxMessages, failures : Nat, clash : {"yes", "no"}, muted : {"yes", "no"}, lost : {used.lost}]
      /\ inbound \in [Sessions -> Nat]
  BY DEF DInv, Turns
<1>6. /\ used' \in [messages : 0..MaxMessages, failures : Nat, clash : {"yes", "no"}, muted : {"yes", "no"}, lost : {used'.lost}]
      /\ used'.messages = used.messages /\ used'.failures = used.failures
      /\ used'.muted = "no" => used.muted = "no" /\ ~ (Streams(s) /\ ~ IsStreamed(turn[s].said))
  <2>1. CASE tool.sent = "yes" \/ (Streams(s) /\ ~ IsStreamed(turn[s].said))
    <3>1. used' = [used EXCEPT !.muted = "yes"]
      BY <1>1, <2>1
    <3>2. QED
      BY <1>5, <3>1
  <2>2. CASE ~ (tool.sent = "yes" \/ (Streams(s) /\ ~ IsStreamed(turn[s].said)))
    <3>1. used' = [used EXCEPT !.muted = used.muted]
      BY <1>1, <2>2
    <3>2. QED
      BY <1>5, <2>2, <3>1
  <2>3. QED
    BY <2>1, <2>2
<1>7. Turns' /\ turn'[s] = t /\ \A q \in Sessions \ {s} : turn'[q] = turn[q]
  <2>1. \A q \in Sessions : inbound'[q] <= inbound[q]
    BY <1>1, <1>5
  <2>2. QED
    BY <1>1, <1>2, <1>3, <1>4, <1>5, <1>6, <2>1, TurnsStep DEF DInv
<1>8. Moves(s)
  BY <1>1, <1>6, <1>7 DEF Moves
<1>9. used'.muted = "no" /\ s \in Streaming /\ (inbound[s] > 0 \/ Working(s)) => inbound'[s] > 0
  BY <1>1, <1>6 DEF Working, Streams, IsStreamed
<1>10. CASE tool.sent = "yes"
  <2>1. queue' = queue
    BY <1>10 DEF Reply
  <2>2. Messages' /\ Grows(<<>>)
    BY <1>1, <2>1, SilentStep DEF DInv
  <2>3. IsList(<<>>) /\ Len(<<>>) = 0
    BY ShortLists
  <2>4. TakesOver(s, <<>>)
    BY <1>1, <1>6, <1>9, <2>3 DEF TakesOver
  <2>5. QED
    BY <1>1, <1>7, <1>8, <2>2, <2>3, <2>4, AgentStep
<1>11. CASE tool.sent # "yes"
  <2>1. PICK x : x = IF Streams(s) THEN "yes" ELSE "no"
    OBVIOUS
  <2>2. PICK m : m = [Msg("reply", s, ChatOf[s]) EXCEPT !.text = turn[s].said, !.whole = StreamId(s), !.streamed = x]
    OBVIOUS
  <2>3. Publish(<<m>>)
    BY <1>11, <2>1, <2>2 DEF Reply
  <2>4. ChatOf[s] \in Chats /\ x \in {"yes", "no"}
    BY <2>1 DEF DeliveryAssumption
  <2>5. MsgOK(m) /\ m.kind # "delta"
    BY <2>2, <2>4 DEF Msg, MsgOK, OfStream
  <2>6. NoDeltas(<<m>>)
    BY <2>5, FewMessages
  <2>7. IsList(<<m>>) /\ \A i \in 1..Len(<<m>>) : MsgOK(<<m>>[i])
    BY <2>6 DEF NoDeltas
  <2>8. Messages' /\ Grows(<<m>>)
    BY <1>1, <2>3, <2>7, PublishStep DEF DInv
  <2>9. TakesOver(s, <<m>>)
    BY <1>1, <1>6, <1>9, <2>6 DEF TakesOver, NoDeltas
  <2>10. QED
    BY <1>1, <1>7, <1>8, <2>7, <2>8, <2>9, AgentStep
<1>12. QED
  BY <1>10, <1>11

\* The turn breaks off, and a message in one piece says so.
LEMMA BreakStep ==
    ASSUME DeliveryAssumption, DInv, NEW s \in Sessions, TurnBreaksOff(s)
    PROVE  DInv'
<1>1. PICK m : m = [Msg("reply", s, ChatOf[s]) EXCEPT !.text = OurText]
  OBVIOUS
<1>2. PICK t : t = IdleTurn(turn[s].n)
  OBVIOUS
<1>3. /\ turn' = [turn EXCEPT ![s] = t] /\ Publish(<<m>>)
      /\ UNCHANGED <<inbound, pending, hand, buf, shown, typing, used>>
  BY <1>1, <1>2 DEF TurnBreaksOff
<1>4. t \in TurnRecords
  BY <1>2, TurnFields DEF DInv
<1>5. TurnOK(t)
  BY <1>2 DEF TurnOK, IdleTurn
<1>6. ChatOf[s] \in Chats
  BY DEF DeliveryAssumption
<1>7. MsgOK(m) /\ m.kind # "delta" /\ Whole(m, ChatOf[s])
  BY <1>1, <1>6, PlainMessage
<1>8. NoDeltas(<<m>>) /\ Len(<<m>>) = 1 /\ <<m>>[1] = m
  BY <1>7, FewMessages
<1>9. \E j \in 1..Len(<<m>>) : Whole(<<m>>[j], ChatOf[s])
  BY <1>7, <1>8
<1>10. TakesOver(s, <<m>>)
  <2>1. used' = used
    BY <1>3
  <2>2. QED
    BY <1>8, <1>9, <2>1 DEF TakesOver, NoDeltas
<1>11. IsList(<<m>>) /\ \A i \in 1..Len(<<m>>) : MsgOK(<<m>>[i])
  BY <1>8 DEF NoDeltas
<1>12. QED
  BY <1>3, <1>4, <1>5, <1>10, <1>11, PublishingStep

-----------------------------------------------------------------------------
(* The dispatcher hands a message to the channel. *)

\* There is at least one attempt.
LEMMA AttemptsFacts ==
    ASSUME DeliveryAssumption
    PROVE  Attempts \in Nat /\ 1 \in 0..Attempts /\ 1 \in 1..Attempts /\ 0 \in 0..Attempts
<1>1. SendMaxRetries \in Nat
  BY DEF DeliveryAssumption
<1>2. QED
  BY <1>1 DEF Attempts

\* A call begins.
LEMMA CallHand ==
    ASSUME DeliveryAssumption, NEW m, MsgOK(m), NEW n \in 0..Attempts, NEW op \in {"send", "edit"},
           NEW f \in {"no", "plain"}, Call(m, n, op, f)
    PROVE  Hand' /\ hand'.pc = "call" /\ hand'.msg = m /\ hand'.op = op
<1>1. hand' = [pc |-> "call", msg |-> m, attempt |-> n, op |-> op, fallback |-> f, tries |-> 0]
  BY DEF Call
<1>2. hand'.pc = "call" /\ hand'.msg = m /\ hand'.op = op
  BY <1>1
<1>3. hand' \in [pc : {"idle", "call", "backoff", "stopped"}, msg : {hand'.msg}, attempt : 0..Attempts,
                 op : {"none", "send", "edit"}, fallback : {"no", "plain"}, tries : Nat]
  BY <1>1
<1>4. MsgOK(hand'.msg)
  BY <1>2
<1>5. Hand'
  BY <1>2, <1>3, <1>4 DEF Hand, MsgOK, OfStream
<1>6. QED
  BY <1>2, <1>5

\* There is nothing more to do.
LEMMA SentHand ==
    ASSUME DeliveryAssumption, Sent
    PROVE  Hand' /\ hand'.pc = "idle"
<1>1. hand' = NoHand /\ 0 \in 0..Attempts
  BY AttemptsFacts DEF Sent
<1>2. hand'.pc = "idle"
  BY <1>1 DEF NoHand
<1>3. hand' \in [pc : {"idle", "call", "backoff", "stopped"}, msg : {hand'.msg}, attempt : 0..Attempts,
                 op : {"none", "send", "edit"}, fallback : {"no", "plain"}, tries : Nat]
  BY <1>1 DEF NoHand
<1>4. QED
  BY <1>2, <1>3 DEF Hand

\* The buffers are as the invariant says, and every stream has its first message, unless calls failed.
Settled == Buffers /\ (used.failures = 0 => \A c \in Chats : buf[c].stream # NoStream => buf[c].id # 0)

\* A buffer with a delta added to it.
LEMMA BufferWith ==
    ASSUME DeliveryAssumption, Buffers, NEW m, MsgOK(m), m.kind = "delta", NEW b, b = BufWith(m)
    PROVE  /\ b \in [stream : {b.stream}, text : {b.text}, id : Nat]
           /\ b.stream = m.stream /\ b.stream # NoStream /\ m.chat \in Chats
           /\ b.stream[1] \in Streaming /\ ChatOf[b.stream[1]] = m.chat /\ b.id <= Len(shown[m.chat])
<1>1. m.chat \in Chats /\ m.stream # NoStream /\ m.stream[1] \in Streaming /\ m.chat = ChatOf[m.stream[1]]
  BY DEF MsgOK, OfStream
<1>2. PICK o : o = IF buf[m.chat].stream \in {NoStream, m.stream} THEN buf[m.chat] ELSE NoBuf
  OBVIOUS
<1>3. o.id \in Nat /\ o.id <= Len(shown[m.chat])
  <2>1. buf[m.chat].id \in Nat /\ buf[m.chat].id <= Len(shown[m.chat])
    BY <1>1 DEF Buffers
  <2>2. NoBuf.id = 0 /\ Len(shown[m.chat]) \in Nat
    BY <1>1, ListFacts DEF Buffers, NoBuf
  <2>3. 0 <= Len(shown[m.chat])
    BY <2>2
  <2>4. QED
    BY <1>2, <2>1, <2>2, <2>3
<1>4. PICK x : x = o.text \o m.text
  OBVIOUS
<1>5. b = [stream |-> m.stream, text |-> x, id |-> o.id]
  BY <1>2, <1>4 DEF BufWith
<1>6. QED
  BY <1>1, <1>3, <1>5

\* The channel begins to send a delta.
LEMMA SendDeltaStep ==
    ASSUME DeliveryAssumption, Settled, NEW m, MsgOK(m), m.kind = "delta", NEW n \in 0..Attempts,
           SendDelta(m, n), UNCHANGED <<shown, used>>
    PROVE  /\ Hand' /\ Buffers' /\ typing' = typing
           /\ hand'.pc = "idle" \/ (hand'.pc = "call" /\ hand'.msg = m)
           /\ buf'[m.chat].stream = m.stream /\ \A c \in Chats : c # m.chat => buf'[c] = buf[c]
<1>1. PICK b : b = BufWith(m)
  OBVIOUS
<1>2. /\ b \in [stream : {b.stream}, text : {b.text}, id : Nat]
      /\ b.stream = m.stream /\ b.stream # NoStream /\ m.chat \in Chats
      /\ b.stream[1] \in Streaming /\ ChatOf[b.stream[1]] = m.chat /\ b.id <= Len(shown[m.chat])
  BY <1>1, BufferWith DEF Settled
<1>3. /\ buf' = [buf EXCEPT ![m.chat] = b] /\ typing' = typing
      /\ IF b.id = 0 THEN Call(m, n, "send", "no") ELSE Call(m, n, "edit", "no") \/ Sent
  BY <1>1 DEF SendDelta
<1>4. /\ Hand' /\ (hand'.pc = "idle" \/ (hand'.pc = "call" /\ hand'.msg = m))
      /\ b.id = 0 => hand'.pc = "call" /\ hand'.msg = m /\ hand'.op = "send"
  <2>1. CASE b.id = 0
    <3>1. Call(m, n, "send", "no")
      BY <1>3, <2>1
    <3>2. QED
      BY <3>1, CallHand
  <2>2. CASE b.id # 0 /\ Call(m, n, "edit", "no")
    BY <2>2, CallHand
  <2>3. CASE b.id # 0 /\ Sent
    <3>1. Sent
      BY <2>3
    <3>2. Hand' /\ hand'.pc = "idle"
      BY <3>1, SentHand
    <3>3. QED
      BY <2>3, <3>2
  <2>4. QED
    BY <1>3, <2>1, <2>2, <2>3
<1>5. buf'[m.chat] = b /\ \A c \in Chats : c # m.chat => buf'[c] = buf[c]
  BY <1>2, <1>3 DEF Settled, Buffers
<1>6. ASSUME NEW c \in Chats
      PROVE  /\ buf'[c] \in [stream : {buf'[c].stream}, text : {buf'[c].text}, id : Nat]
             /\ IsList(shown'[c]) /\ buf'[c].id <= Len(shown'[c])
             /\ buf'[c].stream # NoStream => buf'[c].stream[1] \in Streaming /\ ChatOf[buf'[c].stream[1]] = c
             /\ used'.failures = 0 /\ buf'[c].stream # NoStream /\ buf'[c].id = 0 =>
                   hand'.pc = "call" /\ hand'.msg.kind = "delta" /\ hand'.msg.chat = c /\ hand'.op = "send"
  <2>1. shown'[c] = shown[c] /\ IsList(shown[c]) /\ used' = used
    BY DEF Settled, Buffers
  <2>2. CASE c = m.chat
    <3>1. buf'[c] = b
      BY <1>5, <2>2
    <3>2. QED
      BY <1>2, <1>4, <2>1, <2>2, <3>1
  <2>3. CASE c # m.chat
    <3>1. buf'[c] = buf[c]
      BY <1>5, <2>3
    <3>2. QED
      BY <2>1, <3>1 DEF Settled, Buffers
  <2>4. QED
    BY <2>2, <2>3
<1>7. DOMAIN buf' = Chats /\ DOMAIN shown' = Chats /\ typing' \in [Chats -> {"on", "off"}]
  BY <1>3 DEF Settled, Buffers
<1>8. Buffers'
  BY <1>6, <1>7 DEF Buffers
<1>9. QED
  BY <1>2, <1>3, <1>4, <1>5, <1>8

\* Nothing changes but the hand and the indicators, some of which go off.
LEMMA OtherBuffers ==
    ASSUME Settled, UNCHANGED <<buf, shown, used>>, typing' \in [Chats -> {"on", "off"}]
    PROVE  Buffers'
<1>1. ASSUME NEW c \in Chats
      PROVE  /\ buf'[c] \in [stream : {buf'[c].stream}, text : {buf'[c].text}, id : Nat]
             /\ IsList(shown'[c]) /\ buf'[c].id <= Len(shown'[c])
             /\ buf'[c].stream # NoStream => buf'[c].stream[1] \in Streaming /\ ChatOf[buf'[c].stream[1]] = c
             /\ ~ (used'.failures = 0 /\ buf'[c].stream # NoStream /\ buf'[c].id = 0)
  BY DEF Settled, Buffers
<1>2. DOMAIN buf' = Chats /\ DOMAIN shown' = Chats
  BY DEF Settled, Buffers
<1>3. QED
  BY <1>1, <1>2 DEF Buffers

\* The channel begins to send an end.
LEMMA SendEndStep ==
    ASSUME DeliveryAssumption, Settled, NEW m, MsgOK(m), m.kind = "end", NEW n \in 0..Attempts,
           SendEnd(m, n), UNCHANGED <<shown, used>>
    PROVE  /\ Hand' /\ Buffers' /\ buf' = buf
           /\ hand'.pc = "idle" \/ (hand'.pc = "call" /\ hand'.msg = m)
           /\ \A c \in Chats : typing'[c] = "on" => typing[c] = "on"
           /\ buf[m.chat].id # 0 /\ buf[m.chat].stream = m.stream => typing'[m.chat] = "off"
           /\ buf[m.chat].stream # m.stream => hand'.pc = "idle"
<1>1. m.chat \in Chats /\ typing \in [Chats -> {"on", "off"}] /\ buf' = buf
  BY DEF MsgOK, Settled, Buffers, SendEnd
<1>2. CASE buf[m.chat].id # 0 /\ buf[m.chat].stream = m.stream
  <2>1. typing' = [typing EXCEPT ![m.chat] = "off"] /\ Call(m, n, "edit", "plain")
    BY <1>2 DEF SendEnd
  <2>2. Hand' /\ hand'.pc = "call" /\ hand'.msg = m
    BY <2>1, CallHand
  <2>3. typing' \in [Chats -> {"on", "off"}] /\ typing'[m.chat] = "off" /\ \A c \in Chats : typing'[c] = "on" => typing[c] = "on"
    BY <1>1, <2>1
  <2>4. Buffers'
    BY <1>1, <2>3, OtherBuffers
  <2>5. QED
    BY <1>1, <1>2, <2>2, <2>3, <2>4
<1>3. CASE ~ (buf[m.chat].id # 0 /\ buf[m.chat].stream = m.stream)
  <2>1. typing' = typing /\ Sent
    BY <1>3 DEF SendEnd
  <2>2. Hand' /\ hand'.pc = "idle"
    BY <2>1, SentHand
  <2>3. Buffers'
    BY <1>1, <2>1, OtherBuffers
  <2>4. \A c \in Chats : typing'[c] = "on" => typing[c] = "on"
    BY <2>1
  <2>5. QED
    BY <1>1, <1>3, <2>2, <2>3, <2>4
<1>4. QED
  BY <1>2, <1>3

\* The channel begins to send a message in one piece.
LEMMA SendWholeStep ==
    ASSUME DeliveryAssumption, Settled, NEW m, MsgOK(m), m.kind \notin {"delta", "end"}, NEW n \in 0..Attempts,
           SendWhole(m, n), UNCHANGED <<shown, used>>
    PROVE  /\ Hand' /\ Buffers' /\ buf' = buf
           /\ hand'.pc = "idle" \/ (hand'.pc = "call" /\ hand'.msg = m)
           /\ \A c \in Chats : typing'[c] = "on" => typing[c] = "on"
           /\ Whole(m, m.chat) => typing'[m.chat] = "off"
<1>1. m.chat \in Chats /\ typing \in [Chats -> {"on", "off"}] /\ buf' = buf
  BY DEF MsgOK, Settled, Buffers, SendWhole
<1>2. CASE m.streamed = "yes"
  <2>1. typing' = typing /\ Sent
    BY <1>2 DEF SendWhole
  <2>2. Hand' /\ hand'.pc = "idle"
    BY <2>1, SentHand
  <2>3. Buffers'
    BY <1>1, <2>1, OtherBuffers
  <2>4. \A c \in Chats : typing'[c] = "on" => typing[c] = "on"
    BY <2>1
  <2>5. ~ Whole(m, m.chat)
    BY <1>2 DEF Whole
  <2>6. QED
    BY <1>1, <2>2, <2>3, <2>4, <2>5
<1>3. CASE m.streamed # "yes"
  <2>1. typing' = (IF m.kind = "reply" THEN [typing EXCEPT ![m.chat] = "off"] ELSE typing) /\ Call(m, n, "send", "plain")
    BY <1>3 DEF SendWhole
  <2>2. Hand' /\ hand'.pc = "call" /\ hand'.msg = m
    BY <2>1, CallHand
  <2>3. /\ typing' \in [Chats -> {"on", "off"}] /\ \A c \in Chats : typing'[c] = "on" => typing[c] = "on"
        /\ Whole(m, m.chat) => typing'[m.chat] = "off"
    <3>1. CASE m.kind = "reply"
      <4>1. typing' = [typing EXCEPT ![m.chat] = "off"]
        BY <2>1, <3>1
      <4>2. QED
        BY <1>1, <4>1
    <3>2. CASE m.kind # "reply"
      <4>1. typing' = typing
        BY <2>1, <3>2
      <4>2. QED
        BY <1>1, <3>2, <4>1 DEF Whole
    <3>3. QED
      BY <3>1, <3>2
  <2>4. Buffers'
    BY <1>1, <2>3, OtherBuffers
  <2>5. QED
    BY <1>1, <2>2, <2>3, <2>4
<1>4. QED
  BY <1>2, <1>3

\* Which of the three it is.
LEMMA SendOnceCases ==
    ASSUME NEW m, NEW n, SendOnce(m, n)
    PROVE  /\ m.kind = "delta" => SendDelta(m, n)
           /\ m.kind = "end" => SendEnd(m, n)
           /\ m.kind \notin {"delta", "end"} => SendWhole(m, n)
<1>1. CASE m.kind = "delta"
  BY <1>1 DEF SendOnce
<1>2. CASE m.kind = "end"
  BY <1>2 DEF SendOnce
<1>3. CASE m.kind \notin {"delta", "end"}
  BY <1>3 DEF SendOnce
<1>4. QED
  BY <1>1, <1>2, <1>3

\* All of them.
LEMMA SendOnceStep ==
    ASSUME DeliveryAssumption, Settled, NEW m, MsgOK(m), NEW n \in 0..Attempts,
           SendOnce(m, n), UNCHANGED <<shown, used>>
    PROVE  /\ Hand' /\ Buffers'
           /\ hand'.pc = "idle" \/ (hand'.pc = "call" /\ hand'.msg = m)
           /\ \A c \in Chats : typing'[c] = "on" => typing[c] = "on"
<1>1. CASE m.kind = "delta"
  <2>1. SendDelta(m, n)
    BY <1>1, SendOnceCases
  <2>2. QED
    BY <1>1, <2>1, SendDeltaStep
<1>2. CASE m.kind = "end"
  <2>1. SendEnd(m, n)
    BY <1>2, SendOnceCases
  <2>2. QED
    BY <1>2, <2>1, SendEndStep
<1>3. CASE m.kind \notin {"delta", "end"}
  <2>1. SendWhole(m, n)
    BY <1>3, SendOnceCases
  <2>2. QED
    BY <1>3, <2>1, SendWholeStep
<1>4. QED
  BY <1>1, <1>2, <1>3

\* Nothing is in the channel's hands: every stream has its first message, unless calls failed.
LEMMA SettledFacts ==
    ASSUME DInv, hand.pc # "call"
    PROVE  Settled
<1>1. QED
  BY DEF Settled, DInv, Buffers

\* When the dispatcher takes messages, every delta that is left is followed as before.
LEMMA TakeDeltas ==
    ASSUME DeltasEnd, Messages, NEW n \in Nat, Takes(n), UNCHANGED turn
    PROVE  DeltasEnd'
<1>1. /\ n \in 1..Len(Ready) /\ Len(Ready) \in Nat /\ Len(Ready') = Len(Ready) - n
      /\ \A i \in 1..(Len(Ready) - n) : Ready'[i] = Ready[i + n]
  BY DEF Takes
<1>2. SUFFICES ASSUME NEW i \in 1..Len(Ready'), Ready'[i].kind = "delta"
               PROVE  Followed(Ready, i)'
  BY DEF DeltasEnd
<1>3. i \in 1..(Len(Ready) - n) /\ i + n \in 1..Len(Ready) /\ Ready'[i] = Ready[i + n]
  BY <1>1
<1>4. Followed(Ready, i + n)
  BY <1>2, <1>3 DEF DeltasEnd
<1>5. CASE Open(Ready[i + n].stream)
  BY <1>3, <1>5 DEF Followed, Open, StreamId
<1>6. CASE \E j \in 1..Len(Ready) : i + n < j /\ (Ends(Ready[j], Ready[i + n].stream) \/ Whole(Ready[j], Ready[i + n].chat))
  <2>1. PICK j \in 1..Len(Ready) : i + n < j /\ (Ends(Ready[j], Ready[i + n].stream) \/ Whole(Ready[j], Ready[i + n].chat))
    BY <1>6
  <2>2. j - n \in 1..(Len(Ready) - n) /\ (j - n) + n = j /\ i < j - n
    BY <1>1, <1>3, <2>1
  <2>3. Ready'[j - n] = Ready[j]
    BY <1>1, <2>2
  <2>4. Ends(Ready'[j - n], Ready'[i].stream) \/ Whole(Ready'[j - n], Ready'[i].chat)
    BY <1>3, <2>1, <2>3
  <2>5. QED
    BY <1>1, <2>2, <2>4 DEF Followed, Ends, Whole
<1>7. QED
  BY <1>4, <1>5, <1>6 DEF Followed

\* A message that is left, behind the first n.
LEMMA LeftBehind ==
    ASSUME Messages, NEW n \in Nat, Takes(n), NEW i \in 1..Len(Ready), i > n
    PROVE  i - n \in 1..Len(Ready') /\ Ready'[i - n] = Ready[i]
<1>1. /\ n \in 1..Len(Ready) /\ Len(Ready) \in Nat /\ Len(Ready') = Len(Ready) - n
      /\ \A k \in 1..(Len(Ready) - n) : Ready'[k] = Ready[k + n]
  BY DEF Takes
<1>2. i - n \in 1..(Len(Ready) - n) /\ (i - n) + n = i
  BY <1>1
<1>3. QED
  BY <1>1, <1>2

\* A delta for chat c is taken: its stream grows, and something that ends it follows.
LEMMA TakePiece ==
    ASSUME DInv, NEW n \in Nat, Takes(n), UNCHANGED turn, NEW c \in Chats, Piece(Ready[1], c),
           buf'[c].stream = Ready[1].stream, ~ EndingNow(c)'
    PROVE  Reason(c)'
<1>1. Messages /\ DeltasEnd
  BY DEF DInv
<1>2. Ready[1].kind = "delta" /\ Ready[1].chat = c /\ 1 \in 1..Len(Ready)
  BY DEF Piece, Takes
<1>3. MsgOK(Ready[1])
  BY <1>1, <1>2, ReadyFacts
<1>4. PICK z : z = Ready[1].stream
  OBVIOUS
<1>5. z # NoStream /\ buf'[c].stream = z
  BY <1>2, <1>3, <1>4 DEF MsgOK, OfStream
<1>6. Followed(Ready, 1)
  BY <1>1, <1>2 DEF DeltasEnd
<1>7. CASE Open(z)
  <2>1. Open(z)'
    BY <1>7 DEF Open, StreamId
  <2>2. QED
    BY <1>5, <2>1 DEF Reason, Growing, Open, StreamId
<1>8. CASE \E j \in 1..Len(Ready) : 1 < j /\ (Ends(Ready[j], z) \/ Whole(Ready[j], c))
  <2>1. PICK j \in 1..Len(Ready) : 1 < j /\ (Ends(Ready[j], z) \/ Whole(Ready[j], c))
    BY <1>8
  <2>2. j > n
    <3>1. SUFFICES ASSUME ~ (j > n) PROVE FALSE
      OBVIOUS
    <3>2. j \in 2..n
      BY <2>1, <3>1
    <3>3. Ready[j].kind = "delta"
      BY <3>2 DEF Takes, Piece
    <3>4. QED
      BY <2>1, <3>3 DEF Ends, Whole
  <2>3. j - n \in 1..Len(Ready') /\ Ready'[j - n] = Ready[j]
    BY <1>1, <2>2, LeftBehind
  <2>4. CASE Ends(Ready[j], z)
    <3>1. \E k \in 1..Len(Ready') : Ends(Ready'[k], z)
      BY <2>3, <2>4
    <3>2. QED
      BY <1>5, <3>1 DEF Reason, Growing, Ends
  <2>5. CASE Whole(Ready[j], c)
    <3>1. \E k \in 1..Len(Ready') : Whole(Ready'[k], c)
      BY <2>3, <2>5
    <3>2. QED
      BY <3>1 DEF Reason, OnTheWay, Whole
  <2>6. QED
    BY <2>1, <2>4, <2>5
<1>9. QED
  BY <1>2, <1>4, <1>6, <1>7, <1>8 DEF Followed

\* What the channel does with the message that the dispatcher has taken.
LEMMA PassesFacts ==
    ASSUME DeliveryAssumption, DInv, hand.pc = "idle", UNCHANGED <<shown, used>>, NEW m, TakesAs(m)
    PROVE  /\ Hand' /\ Buffers' /\ (hand'.pc = "idle" \/ (hand'.pc = "call" /\ hand'.msg = m))
           /\ \A c \in Chats : typing'[c] = "on" => typing[c] = "on"
           /\ m.kind = "delta" /\ m.chat \in Reachable => buf'[m.chat].stream = m.stream
           /\ \A c \in Chats : c # m.chat \/ m.kind # "delta" => buf'[c] = buf[c]
           /\ Whole(m, m.chat) /\ m.chat \in Reachable => typing'[m.chat] = "off"
           /\ m.kind = "end" /\ m.chat \in Reachable /\ buf[m.chat].id # 0 /\ buf[m.chat].stream = m.stream =>
                 typing'[m.chat] = "off"
           /\ m.kind = "end" /\ buf[m.chat].stream # m.stream => hand'.pc = "idle"
<1>1. Settled
  BY SettledFacts
<1>2. MsgOK(m) /\ Passes(m) /\ 1 \in 0..Attempts
  BY AttemptsFacts DEF TakesAs
<1>3. CASE Sent /\ UNCHANGED <<buf, typing>> /\ (m.kind \in {"hint", "progress"} \/ m.chat \notin Reachable)
  <2>1. Sent /\ buf' = buf /\ typing' = typing
    BY <1>3
  <2>2. Hand' /\ hand'.pc = "idle"
    BY <2>1, SentHand
  <2>3. typing' \in [Chats -> {"on", "off"}] /\ \A c \in Chats : typing'[c] = "on" => typing[c] = "on"
    BY <1>1, <2>1 DEF Settled, Buffers
  <2>4. Buffers'
    BY <1>1, <2>1, <2>3, OtherBuffers
  <2>5. QED
    BY <1>3, <2>1, <2>2, <2>3, <2>4 DEF Whole
<1>4. CASE SendOnce(m, 1)
  <2>1. CASE m.kind = "delta"
    <3>1. SendDelta(m, 1)
      BY <1>4, <2>1, SendOnceCases
    <3>2. /\ Hand' /\ Buffers' /\ typing' = typing
          /\ hand'.pc = "idle" \/ (hand'.pc = "call" /\ hand'.msg = m)
          /\ buf'[m.chat].stream = m.stream /\ \A c \in Chats : c # m.chat => buf'[c] = buf[c]
      BY <1>1, <1>2, <2>1, <3>1, SendDeltaStep
    <3>3. QED
      BY <2>1, <3>2 DEF Whole
  <2>2. CASE m.kind = "end"
    <3>1. SendEnd(m, 1)
      BY <1>4, <2>2, SendOnceCases
    <3>2. /\ Hand' /\ Buffers' /\ buf' = buf
          /\ hand'.pc = "idle" \/ (hand'.pc = "call" /\ hand'.msg = m)
          /\ \A c \in Chats : typing'[c] = "on" => typing[c] = "on"
          /\ buf[m.chat].id # 0 /\ buf[m.chat].stream = m.stream => typing'[m.chat] = "off"
          /\ buf[m.chat].stream # m.stream => hand'.pc = "idle"
      BY <1>1, <1>2, <2>2, <3>1, SendEndStep
    <3>3. QED
      BY <2>2, <3>2 DEF Whole
  <2>3. CASE m.kind \notin {"delta", "end"}
    <3>1. SendWhole(m, 1)
      BY <1>4, <2>3, SendOnceCases
    <3>2. /\ Hand' /\ Buffers' /\ buf' = buf
          /\ hand'.pc = "idle" \/ (hand'.pc = "call" /\ hand'.msg = m)
          /\ \A c \in Chats : typing'[c] = "on" => typing[c] = "on"
          /\ Whole(m, m.chat) => typing'[m.chat] = "off"
      BY <1>1, <1>2, <2>3, <3>1, SendWholeStep
    <3>3. QED
      BY <2>3, <3>2
  <2>4. QED
    BY <2>1, <2>2, <2>3
<1>5. QED
  BY <1>2, <1>3, <1>4 DEF Passes

\* An indicator that stays on when a message is taken still has a reason.
LEMMA TakeReason ==
    ASSUME DeliveryAssumption, DInv, hand.pc = "idle", UNCHANGED <<agent, shown, used>>,
           NEW n \in Nat, Takes(n), NEW m, TakesAs(m),
           NEW c \in Chats, c \in Reachable, typing'[c] = "on", used.failures = 0, Reason(c)
    PROVE  Reason(c)'
<1>1. /\ hand'.pc = "idle" \/ (hand'.pc = "call" /\ hand'.msg = m)
      /\ m.kind = "delta" /\ m.chat \in Reachable => buf'[m.chat].stream = m.stream
      /\ \A d \in Chats : d # m.chat \/ m.kind # "delta" => buf'[d] = buf[d]
      /\ Whole(m, m.chat) /\ m.chat \in Reachable => typing'[m.chat] = "off"
      /\ m.kind = "end" /\ m.chat \in Reachable /\ buf[m.chat].id # 0 /\ buf[m.chat].stream = m.stream =>
            typing'[m.chat] = "off"
      /\ m.kind = "end" /\ buf[m.chat].stream # m.stream => hand'.pc = "idle"
  BY PassesFacts
<1>2. /\ m.kind = Ready[1].kind /\ m.stream = Ready[1].stream /\ m.chat = Ready[1].chat
      /\ m.streamed = Ready[1].streamed /\ MsgOK(m)
  BY DEF TakesAs
<1>3. /\ n \in 1..Len(Ready) /\ Len(Ready) \in Nat
      /\ \A i \in 2..n : Ready[1].kind = "delta" /\ Piece(Ready[i], Ready[1].chat)
  BY DEF Takes
<1>4. Messages /\ turn' = turn /\ inbound' = inbound
  BY DEF DInv, agent
<1>5. CASE AtWork(c)
  BY <1>4, <1>5 DEF Reason, AtWork, Working
<1>6. CASE Piece(Ready[1], c)
  <2>1. m.kind = "delta" /\ m.chat = c
    BY <1>2, <1>6 DEF Piece
  <2>2. buf'[c].stream = Ready[1].stream
    BY <1>1, <1>2, <2>1
  <2>3. ~ EndingNow(c)'
    BY <1>1, <2>1 DEF EndingNow
  <2>4. QED
    BY <1>4, <1>6, <2>2, <2>3, TakePiece
<1>7. CASE OnTheWay(c) /\ ~ Piece(Ready[1], c)
  <2>1. PICK i \in 1..Len(Ready) : Whole(Ready[i], c) \/ Piece(Ready[i], c)
    BY <1>7 DEF OnTheWay
  <2>2. i # 1
    <3>1. SUFFICES ASSUME i = 1 PROVE FALSE
      OBVIOUS
    <3>2. Whole(Ready[1], c)
      BY <1>7, <2>1, <3>1
    <3>3. Whole(m, m.chat) /\ m.chat = c
      BY <1>2, <3>2 DEF Whole
    <3>4. typing'[c] = "off"
      BY <1>1, <3>3
    <3>5. QED
      BY <3>4
  <2>3. ~ (i \in 2..n)
    <3>1. SUFFICES ASSUME i \in 2..n PROVE FALSE
      OBVIOUS
    <3>2. Ready[1].kind = "delta" /\ Ready[i].kind = "delta" /\ Ready[i].chat = Ready[1].chat
      BY <1>3, <3>1 DEF Piece
    <3>3. Ready[i].chat = c
      BY <2>1 DEF Whole, Piece
    <3>4. QED
      BY <1>7, <3>2, <3>3 DEF Piece
  <2>4. i > n
    BY <1>3, <2>2, <2>3
  <2>5. i - n \in 1..Len(Ready') /\ Ready'[i - n] = Ready[i]
    BY <1>4, <2>4, LeftBehind
  <2>6. \E k \in 1..Len(Ready') : Whole(Ready'[k], c) \/ Piece(Ready'[k], c)
    BY <2>1, <2>5
  <2>7. QED
    BY <2>6 DEF Reason, OnTheWay, Whole, Piece
<1>8. CASE Growing(c) /\ ~ Piece(Ready[1], c)
  <2>1. PICK z : z = buf[c].stream
    OBVIOUS
  <2>2. /\ z # NoStream /\ z[1] \in Streaming /\ ChatOf[z[1]] = c /\ buf[c].id # 0
        /\ Open(z) \/ \E i \in 1..Len(Ready) : Ends(Ready[i], z)
    BY <1>8, <2>1 DEF Growing, DInv, Buffers
  <2>3. buf'[c].stream = z
    <3>1. c # m.chat \/ m.kind # "delta"
      BY <1>2, <1>8 DEF Piece
    <3>2. QED
      BY <1>1, <2>1, <3>1
  <2>4. ~ (m.kind = "end" /\ m.chat = c /\ m.stream = z)
    BY <1>1, <2>1, <2>2
  <2>5. ~ EndingNow(c)'
    <3>1. SUFFICES ASSUME hand'.pc = "call", hand'.msg.kind = "end", hand'.msg.chat = c PROVE FALSE
      BY DEF EndingNow
    <3>2. m.kind = "end" /\ m.chat = c
      BY <1>1, <3>1
    <3>3. buf[m.chat].stream = m.stream
      BY <1>1, <3>1, <3>2
    <3>4. QED
      BY <2>1, <2>4, <3>2, <3>3
  <2>6. CASE Open(z)
    <3>1. Open(z)'
      BY <1>4, <2>6 DEF Open, StreamId
    <3>2. QED
      BY <2>2, <2>3, <2>5, <3>1 DEF Reason, Growing, Open, StreamId
  <2>7. CASE \E i \in 1..Len(Ready) : Ends(Ready[i], z)
    <3>1. PICK i \in 1..Len(Ready) : Ends(Ready[i], z)
      BY <2>7
    <3>2. MsgOK(Ready[i]) /\ Ready[i].kind = "end" /\ Ready[i].stream = z
      BY <1>4, <3>1, ReadyFacts DEF Ends
    <3>3. Ready[i].chat = c
      BY <2>2, <3>2 DEF MsgOK, OfStream
    <3>4. i # 1
      BY <1>2, <2>4, <3>2, <3>3
    <3>5. ~ (i \in 2..n)
      BY <1>3, <3>2 DEF Piece
    <3>6. i > n
      BY <1>3, <3>4, <3>5
    <3>7. i - n \in 1..Len(Ready') /\ Ready'[i - n] = Ready[i]
      BY <1>4, <3>6, LeftBehind
    <3>8. \E k \in 1..Len(Ready') : Ends(Ready'[k], z)
      BY <3>1, <3>7
    <3>9. QED
      BY <2>2, <2>3, <2>5, <3>8 DEF Reason, Growing, Ends
  <2>8. QED
    BY <2>2, <2>6, <2>7
<1>9. QED
  BY <1>5, <1>6, <1>7, <1>8 DEF Reason

\* The dispatcher takes a message.
LEMMA TakeInv ==
    ASSUME DeliveryAssumption, DInv, Take
    PROVE  DInv'
<1>1. Turns /\ Messages /\ DeltasEnd /\ Indicators
  BY DEF DInv
<1>2. hand.pc = "idle" /\ UNCHANGED <<agent, shown, used>>
  BY DEF Take
<1>3. turn' = turn /\ inbound' = inbound /\ used' = used
  BY <1>2 DEF agent
<1>4. Messages' /\ (\E n \in Nat : Takes(n)) /\ (\E m : TakesAs(m))
  BY <1>1, TakeStep
<1>5. PICK n \in Nat : Takes(n)
  BY <1>4
<1>6. PICK m : TakesAs(m)
  BY <1>4
<1>7. Turns'
  BY <1>1, <1>3 DEF Turns, TurnOK
<1>8. DeltasEnd'
  BY <1>1, <1>3, <1>5, TakeDeltas
<1>9. Hand' /\ Buffers' /\ \A c \in Chats : typing'[c] = "on" => typing[c] = "on"
  BY <1>2, <1>6, PassesFacts
<1>10. ASSUME NEW c \in Chats, typing'[c] = "on"
       PROVE  c \in Reachable /\ (used'.failures = 0 /\ used'.muted = "no" => Reason(c)')
  <2>1. c \in Reachable /\ (used.failures = 0 /\ used.muted = "no" => Reason(c))
    BY <1>1, <1>9, <1>10 DEF Indicators
  <2>2. ASSUME used.failures = 0, used.muted = "no" PROVE Reason(c)'
    BY <1>2, <1>5, <1>6, <1>10, <2>1, <2>2, TakeReason
  <2>3. QED
    BY <1>3, <2>1, <2>2
<1>11. Indicators'
  BY <1>10 DEF Indicators
<1>12. QED
  BY <1>4, <1>7, <1>8, <1>9, <1>11 DEF DInv

-----------------------------------------------------------------------------
(* The call of the API. *)

\* A list in which one element is replaced.
LEMMA ReplacedIn ==
    ASSUME NEW q, IsList(q), NEW i, NEW e
    PROVE  IsList([q EXCEPT ![i] = e]) /\ Len([q EXCEPT ![i] = e]) = Len(q)
<1>1. Len(q) \in Nat /\ DOMAIN q = 1..Len(q)
  BY ListFacts
<1> DEFINE S == {q[k] : k \in DOMAIN q} \cup {e}
<1>2. q \in Seq(S) /\ e \in S
  BY SeqMonotonic DEF IsList
<1> HIDE DEF S
<1>3. CASE i \in 1..Len(q)
  <2>1. [q EXCEPT ![i] = e] \in Seq(S) /\ Len([q EXCEPT ![i] = e]) = Len(q)
    BY <1>2, <1>3, ExceptSeq
  <2>2. QED
    BY <2>1, ListOf
<1>4. CASE i \notin 1..Len(q)
  <2>1. q \in [1..Len(q) -> S]
    BY <1>2, LenProperties
  <2>2. [q EXCEPT ![i] = e] = q
    BY <1>1, <1>4, <2>1
  <2>3. QED
    BY <2>2
<1>5. QED
  BY <1>3, <1>4

\* A list with one element more.
LEMMA AppendedTo ==
    ASSUME NEW q, IsList(q), NEW e
    PROVE  IsList(Append(q, e)) /\ Len(Append(q, e)) = Len(q) + 1
<1> DEFINE S == {q[k] : k \in DOMAIN q} \cup {e}
<1>1. q \in Seq(S) /\ e \in S
  BY SeqMonotonic DEF IsList
<1> HIDE DEF S
<1>2. Append(q, e) \in Seq(S) /\ Len(Append(q, e)) = Len(q) + 1
  BY <1>1, AppendProperties
<1>3. QED
  BY <1>2, ListOf

\* What the chats show never gets shorter; the first message of a stream is shown last.
LEMMA EffectFacts ==
    ASSUME Buffers, MsgOK(hand.msg), NEW f, f = Effect
    PROVE  /\ DOMAIN f = Chats /\ \A c \in Chats : IsList(f[c]) /\ Len(f[c]) \in Nat /\ Len(shown[c]) <= Len(f[c])
           /\ hand.msg.stream # NoStream /\ hand.op = "send" => Len(f[hand.msg.chat]) = Len(shown[hand.msg.chat]) + 1
<1>1. PICK c : c = hand.msg.chat
  OBVIOUS
<1>2. c \in Chats /\ DOMAIN shown = Chats
  BY <1>1 DEF MsgOK, Buffers
<1>3. \A d \in Chats : IsList(shown[d]) /\ Len(shown[d]) \in Nat
  BY ListFacts DEF Buffers
<1>4. CASE hand.msg.stream = NoStream
  <2>1. f = shown
    BY <1>4 DEF Effect
  <2>2. QED
    BY <1>2, <1>3, <1>4, <2>1
<1>5. CASE hand.msg.stream # NoStream /\ hand.op = "send"
  <2>1. PICK e : e = [stream |-> buf[c].stream, text |-> buf[c].text]
    OBVIOUS
  <2>2. PICK q : q = Append(shown[c], e)
    OBVIOUS
  <2>3. f = [shown EXCEPT ![c] = q]
    BY <1>1, <1>5, <2>1, <2>2 DEF Effect
  <2>4. IsList(q) /\ Len(q) = Len(shown[c]) + 1
    BY <1>2, <1>3, <2>2, AppendedTo
  <2>5. DOMAIN f = Chats /\ f[c] = q /\ \A d \in Chats : d # c => f[d] = shown[d]
    BY <1>2, <2>3
  <2>6. ASSUME NEW d \in Chats PROVE IsList(f[d]) /\ Len(f[d]) \in Nat /\ Len(shown[d]) <= Len(f[d])
    <3>1. IsList(shown[d]) /\ Len(shown[d]) \in Nat
      BY <1>3
    <3>2. CASE d = c
      <4>1. f[d] = q
        BY <2>5, <3>2
      <4>2. Len(f[d]) = Len(shown[d]) + 1 /\ IsList(f[d])
        BY <2>4, <3>2, <4>1
      <4>3. QED
        BY <3>1, <4>2
    <3>3. CASE d # c
      BY <2>5, <3>1, <3>3
    <3>4. QED
      BY <3>2, <3>3
  <2>7. Len(f[c]) = Len(shown[c]) + 1
    BY <2>4, <2>5
  <2>8. QED
    BY <1>1, <2>5, <2>6, <2>7
<1>6. CASE hand.msg.stream # NoStream /\ hand.op # "send"
  <2>1. PICK i, x : i = buf[c].id /\ x = buf[c].text
    OBVIOUS
  <2>2. f = [shown EXCEPT ![c][i].text = x]
    BY <1>1, <1>6, <2>1 DEF Effect
  <2>3. PICK e : e = [shown[c][i] EXCEPT !.text = x]
    OBVIOUS
  <2>4. PICK q : q = [shown[c] EXCEPT ![i] = e]
    OBVIOUS
  <2>5. f = [shown EXCEPT ![c] = q]
    BY <2>2, <2>3, <2>4
  <2>6. IsList(q) /\ Len(q) = Len(shown[c])
    BY <1>2, <1>3, <2>4, ReplacedIn
  <2>7. DOMAIN f = Chats /\ f[c] = q /\ \A d \in Chats : d # c => f[d] = shown[d]
    BY <1>2, <2>5
  <2>8. ASSUME NEW d \in Chats PROVE IsList(f[d]) /\ Len(f[d]) \in Nat /\ Len(shown[d]) <= Len(f[d])
    <3>1. IsList(shown[d]) /\ Len(shown[d]) \in Nat
      BY <1>3
    <3>2. CASE d = c
      <4>1. Len(f[d]) = Len(shown[d]) /\ IsList(f[d])
        BY <2>6, <2>7, <3>2
      <4>2. QED
        BY <3>1, <4>1
    <3>3. CASE d # c
      BY <2>7, <3>1, <3>3
    <3>4. QED
      BY <3>2, <3>3
  <2>9. QED
    BY <1>6, <2>7, <2>8
<1>7. QED
  BY <1>4, <1>5, <1>6

\* What the success of a call changes in the buffers.
LEMMA BufAfterFacts ==
    ASSUME Buffers, MsgOK(hand.msg), NEW g, g = BufAfter
    PROVE  /\ DOMAIN g = Chats
           /\ \A c \in Chats : c # hand.msg.chat => g[c] = buf[c]
           /\ hand.msg.kind = "end" => g[hand.msg.chat] = NoBuf
           /\ hand.msg.kind = "delta" /\ hand.op = "send" =>
                 g[hand.msg.chat] = [buf[hand.msg.chat] EXCEPT !.id = Len(shown[hand.msg.chat]) + 1]
           /\ hand.msg.kind # "end" /\ ~ (hand.msg.kind = "delta" /\ hand.op = "send") => g = buf
<1>1. PICK c : c = hand.msg.chat
  OBVIOUS
<1>2. c \in Chats /\ DOMAIN buf = Chats
  BY <1>1 DEF MsgOK, Buffers
<1>3. CASE hand.msg.kind = "end"
  <2>1. g = [buf EXCEPT ![c] = NoBuf]
    BY <1>1, <1>3 DEF BufAfter
  <2>2. QED
    BY <1>1, <1>2, <1>3, <2>1
<1>4. CASE hand.msg.kind = "delta" /\ hand.op = "send"
  <2>1. PICK b : b = [buf[c] EXCEPT !.id = Len(shown[c]) + 1]
    OBVIOUS
  <2>2. g = [buf EXCEPT ![c] = b]
    BY <1>1, <1>4, <2>1 DEF BufAfter
  <2>3. QED
    BY <1>1, <1>2, <1>4, <2>1, <2>2
<1>5. CASE hand.msg.kind # "end" /\ ~ (hand.msg.kind = "delta" /\ hand.op = "send")
  <2>1. g = buf
    BY <1>5 DEF BufAfter
  <2>2. QED
    BY <1>2, <1>5, <2>1
<1>6. QED
  BY <1>3, <1>4, <1>5

\* The buffers after a call that succeeds.
LEMMA BuffersAfter ==
    ASSUME DInv, CallSucceeds
    PROVE  Buffers'
<1>1. Buffers /\ MsgOK(hand.msg) /\ hand.pc = "call"
  BY DEF DInv, Hand, CallSucceeds
<1>2. typing' = typing /\ used' = used
  BY DEF CallSucceeds
<1>3. PICK f, g : f = Effect /\ g = BufAfter
  OBVIOUS
<1>4. shown' = f /\ buf' = g
  BY <1>3 DEF CallSucceeds
<1>5. /\ DOMAIN f = Chats /\ \A c \in Chats : IsList(f[c]) /\ Len(f[c]) \in Nat /\ Len(shown[c]) <= Len(f[c])
      /\ hand.msg.stream # NoStream /\ hand.op = "send" => Len(f[hand.msg.chat]) = Len(shown[hand.msg.chat]) + 1
  BY <1>1, <1>3, EffectFacts
<1>6. /\ DOMAIN g = Chats
      /\ \A c \in Chats : c # hand.msg.chat => g[c] = buf[c]
      /\ hand.msg.kind = "end" => g[hand.msg.chat] = NoBuf
      /\ hand.msg.kind = "delta" /\ hand.op = "send" =>
            g[hand.msg.chat] = [buf[hand.msg.chat] EXCEPT !.id = Len(shown[hand.msg.chat]) + 1]
      /\ hand.msg.kind # "end" /\ ~ (hand.msg.kind = "delta" /\ hand.op = "send") => g = buf
  BY <1>1, <1>3, BufAfterFacts
<1>7. ASSUME NEW c \in Chats
      PROVE  /\ g[c] \in [stream : {g[c].stream}, text : {g[c].text}, id : Nat] /\ g[c].id <= Len(f[c])
             /\ g[c].stream # NoStream => g[c].stream[1] \in Streaming /\ ChatOf[g[c].stream[1]] = c
             /\ used.failures = 0 /\ g[c].stream # NoStream => g[c].id # 0
  <2>1. /\ buf[c] \in [stream : {buf[c].stream}, text : {buf[c].text}, id : Nat]
        /\ buf[c].id <= Len(shown[c]) /\ Len(shown[c]) \in Nat
        /\ buf[c].stream # NoStream => buf[c].stream[1] \in Streaming /\ ChatOf[buf[c].stream[1]] = c
        /\ used.failures = 0 /\ buf[c].stream # NoStream /\ buf[c].id = 0 =>
              hand.msg.kind = "delta" /\ hand.msg.chat = c /\ hand.op = "send"
    BY <1>1, ListFacts DEF Buffers
  <2>2. Len(shown[c]) <= Len(f[c]) /\ Len(f[c]) \in Nat
    BY <1>5
  <2>3. CASE g[c] = buf[c] /\ ~ (hand.msg.kind = "delta" /\ hand.msg.chat = c /\ hand.op = "send")
    <3>1. buf[c].id \in Nat /\ buf[c].id <= Len(f[c])
      BY <2>1, <2>2
    <3>2. QED
      BY <2>1, <2>3, <3>1
  <2>4. CASE c = hand.msg.chat /\ hand.msg.kind = "end"
    <3>1. g[c] = NoBuf
      BY <1>6, <2>4
    <3>2. g[c].id = 0 /\ g[c].stream = NoStream /\ g[c] \in [stream : {g[c].stream}, text : {g[c].text}, id : Nat]
      BY <3>1 DEF NoBuf
    <3>3. QED
      BY <2>2, <3>2
  <2>5. CASE c = hand.msg.chat /\ hand.msg.kind = "delta" /\ hand.op = "send"
    <3>1. g[c] = [buf[c] EXCEPT !.id = Len(shown[c]) + 1]
      BY <1>6, <2>5
    <3>2. /\ g[c].id = Len(shown[c]) + 1 /\ g[c].stream = buf[c].stream
          /\ g[c] \in [stream : {g[c].stream}, text : {g[c].text}, id : Nat]
      BY <2>1, <3>1
    <3>3. hand.msg.stream # NoStream
      BY <1>1, <2>5 DEF MsgOK, OfStream
    <3>4. Len(f[c]) = Len(shown[c]) + 1
      BY <1>5, <2>5, <3>3
    <3>5. g[c].id <= Len(f[c]) /\ g[c].id # 0
      BY <2>1, <2>2, <3>2, <3>4
    <3>6. QED
      BY <2>1, <3>2, <3>5
  <2>6. QED
    BY <1>6, <2>3, <2>4, <2>5
<1>8. typing' \in [Chats -> {"on", "off"}]
  BY <1>1, <1>2 DEF Buffers
<1>9. QED
  BY <1>2, <1>4, <1>5, <1>6, <1>7, <1>8 DEF Buffers

\* A call succeeds.
LEMMA CallSucceedsInv ==
    ASSUME DeliveryAssumption, DInv, CallSucceeds
    PROVE  DInv'
<1>1. Turns /\ Messages /\ DeltasEnd /\ Indicators /\ Buffers /\ MsgOK(hand.msg) /\ hand.pc = "call"
  BY DEF DInv, Hand, CallSucceeds
<1>2. /\ Sent /\ inbound' = inbound /\ turn' = turn /\ queue' = queue /\ pending' = pending
      /\ typing' = typing /\ used' = used
  BY DEF CallSucceeds, agent
<1>3. Hand' /\ hand'.pc = "idle"
  BY <1>2, SentHand
<1>4. Buffers'
  BY BuffersAfter
<1>5. Turns'
  BY <1>1, <1>2 DEF Turns, TurnOK
<1>6. Messages' /\ Ready' = Ready
  BY <1>1, <1>2 DEF Messages, Ready
<1>7. DeltasEnd'
  BY <1>1, <1>2, <1>6 DEF DeltasEnd, Followed, Open, StreamId, Ends, Whole
<1>8. ASSUME NEW c \in Chats, Growing(c) PROVE Growing(c)'
  <2>1. PICK g : g = BufAfter
    OBVIOUS
  <2>2. buf' = g
    BY <2>1 DEF CallSucceeds
  <2>3. ~ (hand.msg.kind = "end" /\ hand.msg.chat = c)
    BY <1>1, <1>8 DEF Growing, EndingNow
  <2>4. g[c].stream = buf[c].stream
    <3>1. /\ c # hand.msg.chat => g[c] = buf[c]
          /\ hand.msg.kind = "delta" /\ hand.op = "send" =>
                g[hand.msg.chat] = [buf[hand.msg.chat] EXCEPT !.id = Len(shown[hand.msg.chat]) + 1]
          /\ hand.msg.kind # "end" /\ ~ (hand.msg.kind = "delta" /\ hand.op = "send") => g = buf
      BY <1>1, <2>1, BufAfterFacts
    <3>2. buf[c] \in [stream : {buf[c].stream}, text : {buf[c].text}, id : Nat]
      BY <1>1 DEF Buffers
    <3>3. CASE c = hand.msg.chat /\ hand.msg.kind = "delta" /\ hand.op = "send"
      <4>1. g[c] = [buf[c] EXCEPT !.id = Len(shown[c]) + 1]
        BY <3>1, <3>3
      <4>2. QED
        BY <3>2, <4>1
    <3>4. QED
      BY <2>3, <3>1, <3>3
  <2>5. ~ EndingNow(c)'
    BY <1>3 DEF EndingNow
  <2>6. QED
    BY <1>2, <1>6, <1>8, <2>2, <2>4, <2>5 DEF Growing, Ends, Open, StreamId
<1>9. ASSUME NEW c \in Chats, Reason(c) PROVE Reason(c)'
  <2>1. AtWork(c) => AtWork(c)'
    BY <1>2 DEF AtWork, Working
  <2>2. OnTheWay(c) => OnTheWay(c)'
    BY <1>6 DEF OnTheWay, Whole, Piece
  <2>3. QED
    BY <1>8, <1>9, <2>1, <2>2 DEF Reason
<1>10. Indicators'
  <2>1. ASSUME NEW c \in Chats, typing'[c] = "on"
        PROVE  c \in Reachable /\ (used'.failures = 0 /\ used'.muted = "no" => Reason(c)')
    BY <1>1, <1>2, <1>9, <2>1 DEF Indicators
  <2>2. QED
    BY <2>1 DEF Indicators
<1>11. QED
  BY <1>3, <1>4, <1>5, <1>6, <1>7, <1>10 DEF DInv

\* After a failure nothing is promised of the indicators, but that they belong to enabled channels.
LEMMA FailedIndicators ==
    ASSUME Indicators, used'.failures > 0, \A c \in Chats : typing'[c] = "on" => typing[c] = "on"
    PROVE  Indicators'
<1>1. used'.failures # 0
  OBVIOUS
<1>2. QED
  BY <1>1 DEF Indicators

\* The call has raised: it is made again as plain text, or later, or given up.
LEMMA RaisedHand ==
    ASSUME DeliveryAssumption, Hand, hand.pc = "call", Raised, used'.failures > 0
    PROVE  Hand'
<1>1. /\ hand \in [pc : {"idle", "call", "backoff", "stopped"}, msg : {hand.msg}, attempt : 0..Attempts,
                   op : {"none", "send", "edit"}, fallback : {"no", "plain"}, tries : Nat]
      /\ MsgOK(hand.msg) /\ hand.attempt \in 0..Attempts
  BY DEF Hand
<1>2. CASE hand' = [hand EXCEPT !.fallback = "no", !.tries = 0]
  <2>1. /\ hand'.pc = "call" /\ hand'.msg = hand.msg
        /\ hand' \in [pc : {"idle", "call", "backoff", "stopped"}, msg : {hand'.msg}, attempt : 0..Attempts,
                      op : {"none", "send", "edit"}, fallback : {"no", "plain"}, tries : Nat]
    BY <1>1, <1>2
  <2>2. MsgOK(hand'.msg)
    BY <1>1, <2>1
  <2>3. QED
    BY <2>1, <2>2 DEF Hand, MsgOK, OfStream
<1>3. CASE /\ hand.attempt < Attempts
           /\ hand' = [NoHand EXCEPT !.pc = "backoff", !.msg = hand.msg, !.attempt = hand.attempt]
  <2>1. /\ hand'.pc = "backoff" /\ hand'.msg = hand.msg /\ hand'.attempt = hand.attempt
        /\ hand' \in [pc : {"idle", "call", "backoff", "stopped"}, msg : {hand'.msg}, attempt : 0..Attempts,
                      op : {"none", "send", "edit"}, fallback : {"no", "plain"}, tries : Nat]
    BY <1>1, <1>3 DEF NoHand
  <2>2. MsgOK(hand'.msg)
    BY <1>1, <2>1
  <2>3. QED
    BY <1>3, <2>1, <2>2 DEF Hand, MsgOK, OfStream
<1>4. CASE hand' = NoHand
  <2>1. Sent
    BY <1>4 DEF Sent
  <2>2. QED
    BY <2>1, SentHand
<1>5. QED
  BY <1>2, <1>3, <1>4 DEF Raised

\* One more failure is counted, and nothing else but the streams that were given up.
LEMMA CountedFacts ==
    ASSUME DInv, Counted
    PROVE  /\ used' \in [messages : 0..MaxMessages, failures : Nat, clash : {"yes", "no"}, muted : {"yes", "no"}, lost : {used'.lost}]
           /\ used'.messages = used.messages /\ used'.failures > 0 /\ used'.failures # 0
<1>1. used \in [messages : 0..MaxMessages, failures : Nat, clash : {"yes", "no"}, muted : {"yes", "no"}, lost : {used.lost}]
  BY DEF DInv, Turns
<1>2. used.failures \in Nat
  BY <1>1
<1>3. PICK n \in Nat : n = used.failures + 1
  BY <1>2
<1>4. PICK x : used' = [used EXCEPT !.failures = n, !.lost = x]
  BY <1>3 DEF Counted
<1>5. used' = [messages |-> used.messages, failures |-> n, clash |-> used.clash, muted |-> used.muted, lost |-> x]
  BY <1>1, <1>4
<1>6. used.messages \in 0..MaxMessages /\ used.clash \in {"yes", "no"} /\ used.muted \in {"yes", "no"}
  BY <1>1
<1>7. n > 0 /\ n # 0
  BY <1>2, <1>3
<1>8. QED
  BY <1>3, <1>5, <1>6, <1>7

\* A call fails: the buffers stay, and the chat may show what it did.
LEMMA FailedInv ==
    ASSUME DeliveryAssumption, DInv, Fails, Counted, shown' = shown \/ shown' = Effect, Hand'
    PROVE  DInv'
<1>1. Turns /\ Messages /\ DeltasEnd /\ Indicators /\ Buffers /\ MsgOK(hand.msg)
  BY DEF DInv, Hand, Fails
<1>2. /\ inbound' = inbound /\ turn' = turn /\ queue' = queue
      /\ pending' = pending /\ buf' = buf /\ typing' = typing
  BY DEF Fails, agent
<1>4. /\ used' \in [messages : 0..MaxMessages, failures : Nat, clash : {"yes", "no"}, muted : {"yes", "no"}, lost : {used'.lost}]
      /\ used'.messages = used.messages /\ used'.failures > 0 /\ used'.failures # 0
  BY CountedFacts
<1>5. Turns'
  BY <1>1, <1>2, <1>4 DEF Turns, TurnOK
<1>6. Messages' /\ Ready' = Ready
  BY <1>1, <1>2 DEF Messages, Ready
<1>7. DeltasEnd'
  BY <1>1, <1>2, <1>6 DEF DeltasEnd, Followed, Open, StreamId, Ends, Whole
<1>8. Indicators'
  BY <1>1, <1>2, <1>4, FailedIndicators
<1>9. DOMAIN shown' = Chats /\ \A c \in Chats : IsList(shown'[c]) /\ Len(shown'[c]) \in Nat /\ Len(shown[c]) <= Len(shown'[c])
  <2>1. CASE shown' = shown
    <3>1. \A c \in Chats : IsList(shown[c]) /\ Len(shown[c]) \in Nat
      BY <1>1, ListFacts DEF Buffers
    <3>2. DOMAIN shown = Chats
      BY <1>1 DEF Buffers
    <3>3. QED
      BY <2>1, <3>1, <3>2
  <2>2. CASE shown' = Effect
    <3>1. PICK f : f = Effect
      OBVIOUS
    <3>2. DOMAIN f = Chats /\ \A c \in Chats : IsList(f[c]) /\ Len(f[c]) \in Nat /\ Len(shown[c]) <= Len(f[c])
      BY <1>1, <3>1, EffectFacts
    <3>3. QED
      BY <2>2, <3>1, <3>2
  <2>3. QED
    BY <2>1, <2>2
<1>10. ASSUME NEW c \in Chats
       PROVE  /\ buf'[c] \in [stream : {buf'[c].stream}, text : {buf'[c].text}, id : Nat]
              /\ buf'[c].id <= Len(shown'[c])
              /\ buf'[c].stream # NoStream => buf'[c].stream[1] \in Streaming /\ ChatOf[buf'[c].stream[1]] = c
  <2>1. /\ buf[c] \in [stream : {buf[c].stream}, text : {buf[c].text}, id : Nat]
        /\ buf[c].id <= Len(shown[c]) /\ Len(shown[c]) \in Nat
        /\ buf[c].stream # NoStream => buf[c].stream[1] \in Streaming /\ ChatOf[buf[c].stream[1]] = c
    BY <1>1, ListFacts DEF Buffers
  <2>2. Len(shown'[c]) \in Nat /\ Len(shown[c]) <= Len(shown'[c])
    BY <1>9
  <2>3. buf[c].id \in Nat
    BY <2>1
  <2>4. buf[c].id <= Len(shown'[c])
    BY <2>1, <2>2, <2>3
  <2>5. QED
    BY <1>2, <2>1, <2>4
<1>11. DOMAIN buf' = Chats /\ typing' \in [Chats -> {"on", "off"}]
  BY <1>1, <1>2 DEF Buffers
<1>12. Buffers'
  BY <1>4, <1>9, <1>10, <1>11 DEF Buffers
<1>13. QED
  BY <1>5, <1>6, <1>7, <1>8, <1>12 DEF DInv

\* A call times out.
LEMMA TimesOutInv ==
    ASSUME DeliveryAssumption, DInv, TimesOut
    PROVE  DInv'
<1>1. /\ Fails /\ Counted /\ (shown' = shown \/ shown' = Effect) /\ hand.pc = "call"
      /\ IF hand.tries + 1 < ApiTries THEN hand' = [hand EXCEPT !.tries = @ + 1] ELSE Raised
  BY DEF TimesOut, Fails
<1>2. Hand /\ used'.failures > 0
  BY <1>1, CountedFacts DEF DInv
<1>3. CASE hand' = [hand EXCEPT !.tries = @ + 1]
  <2>1. /\ hand \in [pc : {"idle", "call", "backoff", "stopped"}, msg : {hand.msg}, attempt : 0..Attempts,
                     op : {"none", "send", "edit"}, fallback : {"no", "plain"}, tries : Nat]
        /\ MsgOK(hand.msg)
    BY <1>1, <1>2 DEF Hand
  <2>2. /\ hand'.pc = "call" /\ hand'.msg = hand.msg
        /\ hand' \in [pc : {"idle", "call", "backoff", "stopped"}, msg : {hand'.msg}, attempt : 0..Attempts,
                      op : {"none", "send", "edit"}, fallback : {"no", "plain"}, tries : Nat]
    BY <1>1, <1>3, <2>1
  <2>3. MsgOK(hand'.msg)
    BY <2>1, <2>2
  <2>4. Hand'
    BY <2>2, <2>3 DEF Hand, MsgOK, OfStream
  <2>5. QED
    BY <1>1, <2>4, FailedInv
<1>4. CASE Raised
  <2>1. Hand'
    BY <1>1, <1>2, <1>4, RaisedHand
  <2>2. QED
    BY <1>1, <2>1, FailedInv
<1>5. QED
  BY <1>1, <1>3, <1>4

\* A call is refused.
LEMMA RefusedInv ==
    ASSUME DeliveryAssumption, DInv, Refused
    PROVE  DInv'
<1>1. Fails /\ Counted /\ shown' = shown /\ hand.pc = "call" /\ Raised
  BY DEF Refused, Fails
<1>2. Hand /\ used'.failures > 0
  BY <1>1, CountedFacts DEF DInv
<1>3. Hand'
  BY <1>1, <1>2, RaisedHand
<1>4. QED
  BY <1>1, <1>3, FailedInv

\* The message is sent again.
LEMMA SendAgainInv ==
    ASSUME DeliveryAssumption, DInv, SendAgain
    PROVE  DInv'
<1>1. Turns /\ Messages /\ DeltasEnd /\ Indicators /\ Hand
  BY DEF DInv
<1>2. /\ hand.pc = "backoff" /\ SendOnce(hand.msg, hand.attempt + 1) /\ shown' = shown /\ used' = used
      /\ inbound' = inbound /\ turn' = turn /\ queue' = queue /\ pending' = pending
  BY DEF SendAgain, agent
<1>3. MsgOK(hand.msg) /\ hand.attempt < Attempts /\ used.failures > 0 /\ hand.attempt \in 0..Attempts /\ Attempts \in Nat
  BY <1>1, <1>2, AttemptsFacts DEF Hand
<1>4. hand.attempt + 1 \in 0..Attempts
  BY <1>3
<1>5. Settled
  BY <1>2, SettledFacts
<1>6. Hand' /\ Buffers' /\ \A c \in Chats : typing'[c] = "on" => typing[c] = "on"
  <2>1. PICK m, n : m = hand.msg /\ n = hand.attempt + 1
    OBVIOUS
  <2>2. MsgOK(m) /\ n \in 0..Attempts /\ SendOnce(m, n)
    BY <1>2, <1>3, <1>4, <2>1
  <2>3. QED
    BY <1>2, <1>5, <2>2, SendOnceStep
<1>7. Turns'
  BY <1>1, <1>2 DEF Turns, TurnOK
<1>8. Messages' /\ Ready' = Ready
  BY <1>1, <1>2 DEF Messages, Ready
<1>9. DeltasEnd'
  BY <1>1, <1>2, <1>8 DEF DeltasEnd, Followed, Open, StreamId, Ends, Whole
<1>10. Indicators'
  BY <1>1, <1>2, <1>3, <1>6, FailedIndicators
<1>11. QED
  BY <1>6, <1>7, <1>8, <1>9, <1>10 DEF DInv

-----------------------------------------------------------------------------
(* The theorem. *)

\* Nothing is buffered, and nothing is on its way.
LEMMA EmptyBus ==
    ASSUME pending = <<>>, queue = <<>>
    PROVE  Messages /\ DeltasEnd
<1>1. IsList(<<>>) /\ Len(<<>>) = 0
  BY ShortLists
<1>2. Messages
  BY <1>1 DEF Messages
<1>3. Len(Ready) = 0
  BY <1>1, <1>2, ReadyFacts
<1>4. QED
  BY <1>2, <1>3 DEF DeltasEnd

\* No session is in a turn, and no message waits.
LEMMA NoTurns ==
    ASSUME DeliveryAssumption,
           used \in [messages : 0..MaxMessages, failures : Nat, clash : {"yes", "no"}, muted : {"yes", "no"}, lost : {used.lost}],
           inbound = [s \in Sessions |-> 0],
           NEW f \in [Sessions -> Nat], turn = [s \in Sessions |-> IdleTurn(f[s])]
    PROVE  Turns
<1>1. \A k \in Nat : IdleTurn(k) \in TurnRecords /\ TurnOK(IdleTurn(k))
  <2>1. <<>> \in Seq(Nat)
    OBVIOUS
  <2>2. QED
    BY <2>1 DEF IdleTurn, TurnRecords, TurnOK
<1>2. turn \in [Sessions -> TurnRecords] /\ inbound \in [Sessions -> Nat]
  BY <1>1
<1>3. \A s \in Sessions : TurnOK(turn[s]) /\ inbound[s] <= used.messages
  BY <1>1
<1>4. QED
  BY <1>2, <1>3 DEF Turns

\* No stream has a buffer, and no indicator is on.
LEMMA NoBuffers ==
    ASSUME buf = [c \in Chats |-> NoBuf], typing = [c \in Chats |-> "off"],
           DOMAIN shown = Chats, \A c \in Chats : IsList(shown[c])
    PROVE  Buffers /\ Indicators
<1>1. ASSUME NEW c \in Chats
      PROVE  /\ buf[c] \in [stream : {buf[c].stream}, text : {buf[c].text}, id : Nat]
             /\ IsList(shown[c]) /\ buf[c].id <= Len(shown[c]) /\ buf[c].stream = NoStream
  <2>1. buf[c] = NoBuf /\ NoBuf.id = 0 /\ NoBuf.stream = NoStream
    BY DEF NoBuf
  <2>2. Len(shown[c]) \in Nat
    BY ListFacts
  <2>3. QED
    BY <2>1, <2>2 DEF NoBuf
<1>2. Buffers
  BY <1>1 DEF Buffers
<1>3. Indicators
  BY DEF Indicators
<1>4. QED
  BY <1>2, <1>3

\* It holds at the beginning.
LEMMA DInitInv ==
    ASSUME DeliveryAssumption, Init
    PROVE  DInv
<1>1. Messages /\ DeltasEnd
  BY EmptyBus DEF Init
<1>2. Turns
  <2>1. PICK f : f = [s \in Sessions |-> 0]
    OBVIOUS
  <2>2. f \in [Sessions -> Nat] /\ turn = [s \in Sessions |-> IdleTurn(f[s])]
    BY <2>1 DEF Init
  <2>3. used \in [messages : 0..MaxMessages, failures : Nat, clash : {"yes", "no"}, muted : {"yes", "no"}, lost : {used.lost}]
    BY DEF Init, DeliveryAssumption
  <2>4. QED
    BY <2>2, <2>3, NoTurns DEF Init
<1>3. Buffers /\ Indicators
  <2>1. IsList(<<>>)
    BY ShortLists
  <2>2. DOMAIN shown = Chats /\ \A c \in Chats : IsList(shown[c])
    BY <2>1 DEF Init
  <2>3. QED
    BY <2>2, NoBuffers DEF Init
<1>4. Hand
  <2>1. hand = NoHand /\ 0 \in 0..Attempts
    BY AttemptsFacts DEF Init
  <2>2. hand.pc = "idle"
    BY <2>1 DEF NoHand
  <2>3. QED
    BY <2>1, <2>2 DEF Hand, NoHand
<1>5. QED
  BY <1>1, <1>2, <1>3, <1>4 DEF DInv

\* The gateway stops.
LEMMA StopAllInv ==
    ASSUME DeliveryAssumption, DInv, StopAll
    PROVE  DInv'
<1>1. Turns /\ Buffers
  BY DEF DInv
<1>2. /\ hand' = [NoHand EXCEPT !.pc = "stopped"] /\ turn' = [s \in Sessions |-> IdleTurn(turn[s].n)]
      /\ inbound' = [s \in Sessions |-> 0] /\ queue' = <<>> /\ pending' = <<>>
      /\ buf' = [c \in Chats |-> NoBuf] /\ typing' = [c \in Chats |-> "off"]
      /\ shown' = shown /\ used' = used
  BY DEF StopAll
<1>3. IsList(<<>>) /\ Len(<<>>) = 0
  BY ShortLists
<1>4. Messages'
  BY <1>2, <1>3 DEF Messages
<1>5. DeltasEnd'
  <2>1. Ready' = <<>> \o <<>>
    BY <1>2 DEF Ready
  <2>2. Len(<<>> \o <<>>) = 0
    BY <1>3, Joined
  <2>3. QED
    BY <2>1, <2>2 DEF DeltasEnd
<1>6. Turns'
  <2>1. ASSUME NEW s \in Sessions
        PROVE  IdleTurn(turn[s].n) \in TurnRecords /\ TurnOK(IdleTurn(turn[s].n))
    BY <1>1, TurnFields DEF TurnOK, IdleTurn
  <2>2. turn' \in [Sessions -> TurnRecords] /\ inbound' \in [Sessions -> Nat]
    BY <1>2, <2>1
  <2>3. ASSUME NEW s \in Sessions PROVE TurnOK(turn'[s]) /\ inbound'[s] <= used'.messages
    <3>1. turn'[s] = IdleTurn(turn[s].n) /\ inbound'[s] = 0
      BY <1>2
    <3>2. used'.messages \in Nat
      BY <1>1, <1>2 DEF Turns
    <3>3. QED
      BY <2>1, <3>1, <3>2
  <2>4. QED
    BY <1>1, <1>2, <2>2, <2>3 DEF Turns, TurnOK
<1>7. Hand'
  <2>1. 0 \in 0..Attempts
    BY AttemptsFacts
  <2>2. /\ hand'.pc = "stopped"
        /\ hand' \in [pc : {"idle", "call", "backoff", "stopped"}, msg : {hand'.msg}, attempt : 0..Attempts,
                      op : {"none", "send", "edit"}, fallback : {"no", "plain"}, tries : Nat]
    BY <1>2, <2>1 DEF NoHand
  <2>3. QED
    BY <2>2 DEF Hand
<1>8. Indicators'
  BY <1>2 DEF Indicators
<1>9. Buffers'
  <2>1. ASSUME NEW c \in Chats
        PROVE  /\ buf'[c] \in [stream : {buf'[c].stream}, text : {buf'[c].text}, id : Nat]
               /\ IsList(shown'[c]) /\ buf'[c].id <= Len(shown'[c]) /\ buf'[c].stream = NoStream
    <3>1. buf'[c] = NoBuf /\ NoBuf.id = 0 /\ NoBuf.stream = NoStream
      BY <1>2 DEF NoBuf
    <3>2. IsList(shown[c]) /\ Len(shown[c]) \in Nat
      BY <1>1, ListFacts DEF Buffers
    <3>3. QED
      BY <1>2, <3>1, <3>2 DEF NoBuf
  <2>2. DOMAIN buf' = Chats /\ DOMAIN shown' = Chats /\ typing' \in [Chats -> {"on", "off"}]
    BY <1>1, <1>2 DEF Buffers
  <2>3. QED
    BY <2>1, <2>2 DEF Buffers
<1>10. QED
  BY <1>4, <1>5, <1>6, <1>7, <1>8, <1>9 DEF DInv

\* Nothing changes.
LEMMA StutterInv ==
    ASSUME DInv, UNCHANGED vars
    PROVE  DInv'
<1>1. /\ inbound' = inbound /\ turn' = turn /\ queue' = queue /\ pending' = pending /\ hand' = hand
      /\ buf' = buf /\ shown' = shown /\ typing' = typing /\ used' = used
  BY DEF vars
<1>2. Ready' = Ready
  BY <1>1 DEF Ready
<1>3. Turns' /\ Messages' /\ Hand' /\ Buffers'
  BY <1>1 DEF DInv, Turns, TurnOK, Messages, Hand, Buffers, MsgOK, OfStream
<1>4. DeltasEnd'
  BY <1>1, <1>2 DEF DInv, DeltasEnd, Followed, Open, StreamId, Ends, Whole
<1>5. Indicators'
  BY <1>1, <1>2
     DEF DInv, Indicators, Reason, AtWork, OnTheWay, Growing, EndingNow, Working, Open, StreamId, Ends, Whole, Piece
<1>6. QED
  BY <1>3, <1>4, <1>5 DEF DInv

\* Every step keeps it.
LEMMA DNextInv ==
    ASSUME DeliveryAssumption, DInv, [Next]_vars
    PROVE  DInv'
<1>1. ASSUME NEW s \in Sessions, MessageArrives(s) PROVE DInv'
  BY <1>1, MessageArrivesStep
<1>2. ASSUME NEW s \in Sessions, TurnStarts(s) PROVE DInv'
  BY <1>2, TurnStartsStep
<1>3. ASSUME NEW s \in Sessions, Turn(s) PROVE DInv'
  <2>1. CASE Delta(s)
    BY <2>1, DeltaStep
  <2>2. CASE ProviderRetries(s)
    BY <2>2, ProviderRetriesStep
  <2>3. CASE ToolCalls(s)
    BY <2>3, ToolCallsStep
  <2>4. CASE ToolsReturn(s)
    BY <2>4, ToolsReturnStep
  <2>5. ASSUME NEW c \in Chats, SendsMessage(s, c) PROVE DInv'
    BY <2>5, SendsMessageStep
  <2>6. CASE ModelAnswers(s) \/ ModelFails(s)
    BY <2>6, AnswerStep
  <2>7. CASE Reply(s)
    BY <2>7, ReplyStep
  <2>8. CASE TurnBreaksOff(s)
    BY <2>8, BreakStep
  <2>9. QED
    BY <1>3, <2>1, <2>2, <2>3, <2>4, <2>5, <2>6, <2>7, <2>8 DEF Turn
<1>4. CASE Dispatch
  <2>1. CASE Take
    BY <2>1, TakeInv
  <2>2. CASE CallSucceeds
    BY <2>2, CallSucceedsInv
  <2>3. CASE TimesOut
    BY <2>3, TimesOutInv
  <2>4. CASE Refused
    BY <2>4, RefusedInv
  <2>5. CASE SendAgain
    BY <2>5, SendAgainInv
  <2>6. QED
    BY <1>4, <2>1, <2>2, <2>3, <2>4, <2>5 DEF Dispatch
<1>5. CASE StopAll
  BY <1>5, StopAllInv
<1>6. CASE UNCHANGED vars
  BY <1>6, StutterInv
<1>7. QED
  BY <1>1, <1>2, <1>3, <1>4, <1>5, <1>6 DEF Next

\* In every state reached by any sequence of steps, each stream has its buffer, every delta on
\* its way is followed by what ends it, and an indicator that is on has a reason.
THEOREM DeliveryInvariant == Spec => []DInv
<1>1. Init => DInv
  BY DInitInv, DeliveryAssumption
<1>2. DInv /\ [Next]_vars => DInv'
  BY DNextInv, DeliveryAssumption
<1>3. QED
  BY <1>1, <1>2, PTL DEF Spec

\* When all work is done nobody is left who would have to stop an indicator.
LEMMA ChatsFollow ==
    ASSUME DeliveryAssumption, DInv
    PROVE  ChatsAreSound
<1>1. Turns /\ Messages /\ Hand /\ Buffers /\ Indicators
  BY DEF DInv
<1>2. TypeOK
  <2>1. ASSUME NEW s \in Sessions PROVE inbound[s] \in 0..MaxMessages /\ turn[s].pc \in {"idle", "model", "tools", "reply"}
    <3>1. inbound[s] \in Nat /\ inbound[s] <= used.messages /\ used.messages \in 0..MaxMessages /\ MaxMessages \in Nat
      BY <1>1 DEF Turns, DeliveryAssumption
    <3>2. QED
      BY <1>1, <3>1, TurnFields
  <2>2. hand.pc \in {"idle", "call", "backoff", "stopped"} /\ hand.attempt \in 0..Attempts
    BY <1>1 DEF Hand
  <2>3. ASSUME NEW c \in Chats PROVE buf[c].id \in 0..Len(shown[c])
    <3>1. buf[c].id \in Nat /\ buf[c].id <= Len(shown[c]) /\ Len(shown[c]) \in Nat
      BY <1>1, ListFacts DEF Buffers
    <3>2. QED
      BY <3>1
  <2>4. QED
    BY <1>1, <2>1, <2>2, <2>3 DEF TypeOK, Messages
<1>3. TypingStops
  <2>1. SUFFICES ASSUME Quiet, used.failures = 0, used.muted = "no", NEW c \in Chats, typing[c] = "on"
                 PROVE  FALSE
    <3>1. typing \in [Chats -> {"on", "off"}]
      BY <1>1 DEF Buffers
    <3>2. QED
      BY <3>1 DEF TypingStops
  <2>2. Reason(c)
    BY <1>1, <2>1 DEF Indicators
  <2>3. Len(Ready) = 0
    <3>1. Len(<<>>) = 0
      BY ShortLists
    <3>2. QED
      BY <1>1, <2>1, <3>1, ReadyFacts DEF Quiet, Handed
  <2>4. \A s \in Streaming : inbound[s] = 0 /\ turn[s].pc = "idle"
    BY <2>1 DEF Quiet, DeliveryAssumption
  <2>5. ~ AtWork(c)
    BY <2>4 DEF AtWork, Working
  <2>6. ~ OnTheWay(c)
    BY <2>3 DEF OnTheWay
  <2>7. ~ Growing(c)
    BY <2>3, <2>4 DEF Growing, Open
  <2>8. QED
    BY <2>2, <2>5, <2>6, <2>7 DEF Reason
<1>4. QED
  BY <1>2, <1>3 DEF ChatsAreSound

\* The "typing" indicator does not outlive the work, unless a call failed or an answer was never
\* handed to the channel; a buffer names a message that its chat shows.
THEOREM ChatsSound == Spec => []ChatsAreSound
<1>1. DInv => ChatsAreSound
  BY ChatsFollow, DeliveryAssumption
<1>2. QED
  BY <1>1, DeliveryInvariant, PTL
=============================================================================
