------------------------- MODULE Standalone_proofs --------------------------
(* The parts that share no state with another, for every value of their      *)
(* bounds.  What `nanobot agent` prints and what `nanobot onboard` saves:    *)
(* no text is printed twice, the prompt means that the turn is done, and     *)
(* config.json is the user's.  What becomes of a session's transcript:       *)
(* nothing that was said is forgotten, and the APIs take every request.      *)
EXTENDS MC_Standalone, SequenceTheorems, FiniteSetTheorems, WellFoundedInduction, TLAPS

-----------------------------------------------------------------------------
(* The terminal: the inductive invariant. *)

Busy == {"queued", "running", "streaming", "tools", "ended", "silent"}
States == Busy \cup {"none", "typed", "done", "cancelled"}
Kinds == {"delta", "resume", "progress", "end", "streamed", "empty", "plain"}
Packets == [kind : Kinds, turn : 0..MaxInputs, n : Nat]
Lines == [kind : {"turn", "stop"}, turn : Turns, n : Nat]
Ids == (0..MaxInputs) \X Nat

ChatTypes ==
    /\ prompt \in {"reading", "waiting", "exited"} /\ turn_done \in BOOLEAN
    /\ turn_response \in Seq(Ids) /\ Len(turn_response) <= 1
    /\ renderer \in [streamed : BOOLEAN, live : BOOLEAN, spins : BOOLEAN]
    /\ inbound \in Seq(Lines) /\ turns \in [Turns -> States] /\ parts \in [Turns -> 0..MaxParts]
    /\ sent \subseteq Ids /\ outbound \in Seq(Packets) /\ background \in Nat /\ printed \in Seq(Ids)
    /\ upset \in [unasked : BOOLEAN, unended : BOOLEAN]

\* The numbers of the texts: those of subagents, of the message tool, the one answer of a
\* turn that fails or stops, and the loop's own.
Numbered ==
    \A id \in sent :
        \/ id[1] = 0 /\ id[2] \in 1..background
        \/ id[1] \in Turns /\ id[2] \in 1..parts[id[1]]
        \/ id[1] \in Turns /\ id[2] = MaxParts + 1 /\ turns[id[1]] \in {"done", "cancelled"}
        \/ id \in OwnAnswers

\* Each line in the inbound queue is another turn that was typed.
LinesAreTyped ==
    /\ \A i \in DOMAIN inbound : turns[inbound[i].turn] = "typed"
    /\ \A i, j \in DOMAIN inbound : inbound[i].turn = inbound[j].turn => i = j

\* The prompt waits for the event, and has no response before it is set.
EventIsSet ==
    /\ prompt = "reading" => turn_done
    /\ ~ turn_done => turn_response = <<>>

\* A text is in one place only.
InOnePlace ==
    /\ IsInjective(printed)
    /\ Range(printed) \subseteq sent /\ Pending \subseteq sent /\ Range(printed) \cap Pending = {}
    /\ \A i \in DOMAIN outbound : HasContent(outbound[i]) =>
          /\ Id(outbound[i]) \in sent \ (Range(printed) \cup Pending)
          /\ \A j \in DOMAIN outbound : HasContent(outbound[j]) /\ Id(outbound[i]) = Id(outbound[j]) => i = j

Quiet(t) == turns[t] \in {"none", "done", "cancelled"}
Alone(t) == \A u \in Turns : u # t => Quiet(u)
Ending(m) == m.kind \in {"streamed", "empty", "plain"}

\* Where the one line is that the prompt waits for, as long as only turns write to the
\* terminal: in the inbound queue, at work, answered, or the answer was consumed.
Asked == ~ turn_done /\ outbound = <<>> /\ Len(inbound) = 1 /\ \E t \in Turns : turns[t] = "typed" /\ Alone(t)
Worked ==
    /\ ~ turn_done /\ inbound = <<>> /\ \A i \in DOMAIN outbound : ~ Ending(outbound[i])
    /\ \E t \in Turns : turns[t] \in Busy /\ Alone(t)
Answered ==
    /\ ~ turn_done /\ inbound = <<>> /\ \A t \in Turns : Quiet(t)
    /\ outbound # <<>> /\ \A i \in DOMAIN outbound : Ending(outbound[i]) <=> i = Len(outbound)
AllQuiet == inbound = <<>> /\ outbound = <<>> /\ \A t \in Turns : Quiet(t)
OneAtATime ==
    ~ upset.unasked =>
        /\ prompt = "reading" => AllQuiet
        /\ prompt = "waiting" => Asked \/ Worked \/ Answered \/ (turn_done /\ AllQuiet)

\* The stream has ended, and the answer is still to come.
Finished(t) == turns[t] \in {"ended", "silent"}

\* The display rests, or will when the terminal has consumed the first k messages.
Still == ~ renderer.spins /\ ~ renderer.live
StillAfter(k) == IF k = 0 THEN Still ELSE outbound[k].kind = "end"
DisplayEnds ==
    ~ upset.unasked /\ ~ upset.unended =>
        /\ prompt = "reading" => Still
        /\ prompt = "waiting" =>
              /\ (\E t \in Turns : Finished(t)) => StillAfter(Len(outbound))
              /\ outbound # <<>> /\ outbound[Len(outbound)].kind \in {"streamed", "empty"} => StillAfter(Len(outbound) - 1)
              /\ turn_done => turn_response # <<>> \/ Still

\* No text is swallowed, but the loop's own answers.
AllShown ==
    prompt # "exited" =>
        \A id \in sent \ OwnAnswers :
           \/ id \in Range(printed) \cup Pending
           \/ \E k \in DOMAIN outbound : Id(outbound[k]) = id /\ HasContent(outbound[k])

ChatInv ==
    /\ ChatTypes /\ Numbered /\ LinesAreTyped /\ EventIsSet /\ InOnePlace /\ AllShown
    /\ OneAtATime /\ DisplayEnds
-----------------------------------------------------------------------------
(* Sequences. *)

LEMMA Appended ==
    ASSUME NEW S, NEW q \in Seq(S), NEW x \in S, NEW r, r = Append(q, x)
    PROVE  /\ r \in Seq(S) /\ r # <<>> /\ Len(q) \in Nat /\ Len(r) = Len(q) + 1
           /\ DOMAIN q = 1..Len(q) /\ DOMAIN r = 1..Len(r)
           /\ \A i \in DOMAIN q : i \in DOMAIN r /\ r[i] = q[i]
           /\ Len(r) \in DOMAIN r /\ r[Len(r)] = x
           /\ \A i \in DOMAIN r : i \in DOMAIN q \/ i = Len(r)
           /\ Range(r) = Range(q) \cup {x}
<1>1. Len(q) \in Nat /\ DOMAIN q = 1..Len(q)
  BY LenProperties
<1>2. r \in Seq(S) /\ Len(r) = Len(q) + 1 /\ DOMAIN r = 1..Len(r)
  BY AppendProperties, LenProperties
<1>3. \A i \in 1..Len(q) : r[i] = q[i]
  BY AppendProperties, <1>1
<1>4. r[Len(r)] = x
  BY AppendProperties, <1>1
<1>5. /\ \A i \in DOMAIN q : i \in DOMAIN r
      /\ Len(r) \in DOMAIN r
      /\ \A i \in DOMAIN r : i \in DOMAIN q \/ i = Len(r)
  BY <1>1, <1>2
<1>6. Range(r) = Range(q) \cup {x}
  BY <1>1, <1>3, <1>4, <1>5 DEF Range
<1>7. r # <<>>
  BY <1>1, <1>2
<1>8. QED
  BY <1>1, <1>2, <1>3, <1>4, <1>5, <1>6, <1>7

LEMMA Shortened ==
    ASSUME NEW S, NEW q \in Seq(S), q # <<>>, NEW r, r = Tail(q)
    PROVE  /\ r \in Seq(S) /\ Head(q) = q[1] /\ Head(q) \in S
           /\ Len(q) \in Nat /\ Len(q) >= 1 /\ Len(r) = Len(q) - 1 /\ (r = <<>> <=> Len(q) = 1)
           /\ DOMAIN q = 1..Len(q) /\ DOMAIN r = 1..Len(r) /\ 1 \in DOMAIN q
           /\ \A i \in DOMAIN r : i + 1 \in DOMAIN q /\ r[i] = q[i + 1]
           /\ \A i \in DOMAIN q : i # 1 => i - 1 \in DOMAIN r /\ r[i - 1] = q[i]
<1>1. Len(q) \in Nat /\ DOMAIN q = 1..Len(q) /\ Len(q) >= 1
  BY LenProperties, EmptySeq
<1>2. r \in Seq(S) /\ Head(q) = q[1] /\ Head(q) \in S
  BY HeadTailProperties
<1>3. Len(r) = Len(q) - 1 /\ \A i \in 1..Len(r) : r[i] = q[i + 1]
  BY HeadTailProperties
<1>4. DOMAIN r = 1..Len(r)
  BY <1>2, LenProperties
<1>5. r = <<>> <=> Len(q) = 1
  BY <1>1, <1>2, <1>3, EmptySeq
<1>6. \A i \in DOMAIN r : i + 1 \in DOMAIN q
  BY <1>1, <1>3, <1>4
<1>7. \A i \in DOMAIN q : i # 1 => i - 1 \in 1..Len(r) /\ (i - 1) + 1 = i
  BY <1>1, <1>3
<1>8. \A i \in DOMAIN q : i # 1 => i - 1 \in DOMAIN r /\ r[i - 1] = q[i]
  BY <1>3, <1>4, <1>7
<1>9. QED
  BY <1>1, <1>2, <1>3, <1>4, <1>5, <1>6, <1>8

LEMMA NothingIn ==
    Len(<<>>) = 0 /\ DOMAIN <<>> = {} /\ Range(<<>>) = {} /\ \A S : <<>> \in Seq(S)
<1>1. \A S : <<>> \in Seq(S) /\ Len(<<>>) = 0
  BY EmptySeq
<1>2. DOMAIN <<>> = {}
  <2>1. <<>> \in Seq({}) /\ Len(<<>>) = 0
    BY <1>1
  <2>2. DOMAIN <<>> = 1..0
    BY <2>1, LenProperties
  <2>3. QED
    BY <2>2
<1>3. QED
  BY <1>1, <1>2 DEF Range

\* A response is none or one text.
LEMMA OneText ==
    ASSUME ChatTypes, turn_response # <<>>
    PROVE  /\ Len(turn_response) = 1 /\ Head(turn_response) \in Ids
           /\ Range(turn_response) = {Head(turn_response)}
<1>1. turn_response \in Seq(Ids) /\ Len(turn_response) <= 1
  BY DEF ChatTypes
<1>2. /\ Head(turn_response) = turn_response[1] /\ Head(turn_response) \in Ids /\ Len(turn_response) \in Nat
      /\ Len(turn_response) >= 1 /\ DOMAIN turn_response = 1..Len(turn_response)
  BY <1>1, Shortened
<1>3. Len(turn_response) = 1 /\ DOMAIN turn_response = {1}
  BY <1>1, <1>2
<1>4. QED
  BY <1>2, <1>3 DEF Range

\* What is next to an unused turn.
LEMMA NatLeast ==
    ASSUME NEW T, T \subseteq Nat, T # {}
    PROVE  \E x \in T : \A y \in T : x <= y
<1>1. \E x \in T : \A y \in T : ~ (<<y, x>> \in OpToRel(<, Nat))
  BY NatLessThanWellFounded, WFMin
<1>2. ASSUME NEW x \in T, NEW y \in T, ~ (<<y, x>> \in OpToRel(<, Nat))
      PROVE  x <= y
  <2>1. x \in Nat /\ y \in Nat
    OBVIOUS
  <2>2. ~ (<<y, x>>[1] < <<y, x>>[2])
    BY <1>2, <2>1 DEF OpToRel
  <2>3. ~ (y < x)
    BY <2>2
  <2>4. QED
    BY <2>1, <2>3
<1>3. QED
  BY <1>1, <1>2

-----------------------------------------------------------------------------
(* What publishing does to the texts. *)

LEMMA PacketFields ==
    ASSUME NEW k, NEW t, NEW n
    PROVE  /\ Packet(k, t, n).kind = k /\ Packet(k, t, n).turn = t /\ Packet(k, t, n).n = n
           /\ (k \in Kinds /\ t \in 0..MaxInputs /\ n \in Nat => Packet(k, t, n) \in Packets)
           /\ (HasContent(Packet(k, t, n)) <=> k = "plain")
           /\ Id(Packet(k, t, n)) = <<t, n>>
           /\ (Ending(Packet(k, t, n)) <=> k \in {"streamed", "empty", "plain"})
BY DEF Packet, Packets, HasContent, Id, Ending

LEMMA PendingStays ==
    ASSUME UNCHANGED <<prompt, turn_response>>
    PROVE  Pending' = Pending
BY DEF Pending

\* Nothing with a content is added, and no text but the loop's own.
LEMMA PlacesStay ==
    ASSUME ChatTypes, InOnePlace, AllShown, UNCHANGED <<prompt, turn_response, printed>>,
           sent \subseteq sent', sent' \ OwnAnswers \subseteq sent,
           DOMAIN outbound \subseteq DOMAIN outbound',
           \A i \in DOMAIN outbound : outbound'[i] = outbound[i],
           \A i \in DOMAIN outbound' : i \in DOMAIN outbound \/ ~ HasContent(outbound'[i])
    PROVE  InOnePlace' /\ AllShown'
<1>1. Pending' = Pending /\ printed' = printed /\ prompt' = prompt
  BY PendingStays
<1>2. ASSUME NEW i \in DOMAIN outbound', HasContent(outbound'[i])
      PROVE  i \in DOMAIN outbound /\ outbound'[i] = outbound[i] /\ HasContent(outbound[i])
  BY <1>2
<1>3. InOnePlace'
  BY <1>1, <1>2 DEF InOnePlace
<1>4. AllShown'
  <2>1. SUFFICES ASSUME prompt # "exited", NEW id \in sent' \ OwnAnswers
                 PROVE  \/ id \in Range(printed) \cup Pending
                        \/ \E k \in DOMAIN outbound' : Id(outbound'[k]) = id /\ HasContent(outbound'[k])
    BY <1>1 DEF AllShown
  <2>2. CASE \E k \in DOMAIN outbound : Id(outbound[k]) = id /\ HasContent(outbound[k])
    BY <2>2
  <2>3. QED
    BY <2>1, <2>2 DEF AllShown
<1>5. QED
  BY <1>3, <1>4

\* A new text is added.
LEMMA SpeaksPlaces ==
    ASSUME ChatTypes, InOnePlace, AllShown, UNCHANGED <<prompt, turn_response, printed>>,
           NEW t \in 0..MaxInputs, NEW n \in Nat, <<t, n>> \notin sent, Speaks(t, n)
    PROVE  InOnePlace' /\ AllShown' /\ outbound' \in Seq(Packets) /\ sent' \subseteq Ids
<1> DEFINE m == Packet("plain", t, n)
<1>1. Pending' = Pending /\ printed' = printed /\ prompt' = prompt
  BY PendingStays
<1>2. m \in Packets /\ HasContent(m) /\ Id(m) = <<t, n>>
  BY PacketFields DEF Kinds
<1>3. outbound' = Append(outbound, m) /\ sent' = sent \cup {<<t, n>>}
  BY DEF Speaks, Publish
<1> HIDE DEF m
<1>4. outbound \in Seq(Packets) /\ sent \subseteq Ids /\ <<t, n>> \in Ids
  BY DEF ChatTypes, Ids
<1>5. /\ outbound' \in Seq(Packets) /\ Len(outbound') \in DOMAIN outbound' /\ outbound'[Len(outbound')] = m
      /\ \A i \in DOMAIN outbound : i \in DOMAIN outbound' /\ outbound'[i] = outbound[i]
      /\ \A i \in DOMAIN outbound' : i \in DOMAIN outbound \/ i = Len(outbound')
  BY <1>2, <1>3, <1>4, Appended
<1>6. \A i \in DOMAIN outbound : HasContent(outbound[i]) => Id(outbound[i]) # <<t, n>>
  BY DEF InOnePlace
<1>7. ASSUME NEW i \in DOMAIN outbound', HasContent(outbound'[i])
      PROVE  /\ Id(outbound'[i]) \in sent' \ (Range(printed) \cup Pending)
             /\ \A j \in DOMAIN outbound' : HasContent(outbound'[j]) /\ Id(outbound'[i]) = Id(outbound'[j]) => i = j
  <2>1. CASE i \in DOMAIN outbound
    <3>1. HasContent(outbound[i]) /\ outbound'[i] = outbound[i]
      BY <1>5, <1>7, <2>1
    <3>2. Id(outbound[i]) # <<t, n>>
      BY <1>6, <2>1, <3>1
    <3>3. Id(outbound'[i]) \in sent' \ (Range(printed) \cup Pending)
      BY <1>3, <2>1, <3>1 DEF InOnePlace
    <3>4. ASSUME NEW j \in DOMAIN outbound', HasContent(outbound'[j]), Id(outbound'[i]) = Id(outbound'[j])
          PROVE  i = j
      <4>1. CASE j \in DOMAIN outbound
        <5>1. outbound'[j] = outbound[j]
          BY <1>5, <4>1
        <5>2. QED
          BY <2>1, <3>1, <3>4, <4>1, <5>1 DEF InOnePlace
      <4>2. CASE j = Len(outbound')
        BY <1>2, <1>5, <3>1, <3>2, <3>4, <4>2
      <4>3. QED
        BY <1>5, <4>1, <4>2
    <3>5. QED
      BY <3>3, <3>4
  <2>2. CASE i \notin DOMAIN outbound
    <3>1. i = Len(outbound') /\ Id(outbound'[i]) = <<t, n>>
      BY <1>2, <1>5, <2>2
    <3>2. <<t, n>> \notin Range(printed) \cup Pending
      BY DEF InOnePlace
    <3>3. ASSUME NEW j \in DOMAIN outbound', HasContent(outbound'[j]), Id(outbound'[j]) = <<t, n>>
          PROVE  j = Len(outbound')
      BY <1>5, <1>6, <3>3
    <3>4. QED
      BY <1>3, <3>1, <3>2, <3>3
  <2>3. QED
    BY <2>1, <2>2
<1>8. InOnePlace'
  BY <1>1, <1>3, <1>7 DEF InOnePlace
<1>9. AllShown'
  <2>1. SUFFICES ASSUME prompt # "exited", NEW id \in sent' \ OwnAnswers
                 PROVE  \/ id \in Range(printed) \cup Pending
                        \/ \E k \in DOMAIN outbound' : Id(outbound'[k]) = id /\ HasContent(outbound'[k])
    BY <1>1 DEF AllShown
  <2>2. CASE id = <<t, n>>
    BY <1>2, <1>5, <2>2
  <2>3. CASE id \in sent
    <3>1. CASE \E k \in DOMAIN outbound : Id(outbound[k]) = id /\ HasContent(outbound[k])
      BY <1>5, <3>1
    <3>2. QED
      BY <2>1, <2>3, <3>1 DEF AllShown
  <2>4. QED
    BY <1>3, <2>2, <2>3
<1>10. QED
  BY <1>3, <1>4, <1>5, <1>8, <1>9

-----------------------------------------------------------------------------
(* The steps of the agent loop. *)

LEMMA ChatStarts ==
    ASSUME ChatAssumption, ChatInit
    PROVE  ChatInv
<1>1. /\ prompt = "reading" /\ turn_done = TRUE /\ turn_response = <<>> /\ inbound = <<>> /\ outbound = <<>>
      /\ sent = {} /\ printed = <<>> /\ background = 0
      /\ turns = [t \in Turns |-> "none"] /\ parts = [t \in Turns |-> 0]
      /\ renderer = [streamed |-> FALSE, live |-> FALSE, spins |-> FALSE]
      /\ upset = [unasked |-> FALSE, unended |-> FALSE]
  BY DEF ChatInit
<1>2. MaxParts \in Nat
  BY DEF ChatAssumption
<1>3. ChatTypes
  <2>1. turns \in [Turns -> States] /\ parts \in [Turns -> 0..MaxParts]
    BY <1>1, <1>2 DEF States
  <2>2. renderer \in [streamed : BOOLEAN, live : BOOLEAN, spins : BOOLEAN]
    BY <1>1
  <2>3. upset \in [unasked : BOOLEAN, unended : BOOLEAN]
    BY <1>1
  <2>4. QED
    BY <1>1, <2>1, <2>2, <2>3, NothingIn DEF ChatTypes
<1>4. Numbered /\ AllShown
  BY <1>1 DEF Numbered, AllShown
<1>5. LinesAreTyped /\ EventIsSet
  BY <1>1, NothingIn DEF LinesAreTyped, EventIsSet
<1>6. InOnePlace
  BY <1>1, NothingIn DEF InOnePlace, IsInjective, Pending
<1>7. OneAtATime /\ DisplayEnds
  BY <1>1 DEF OneAtATime, DisplayEnds, AllQuiet, Quiet, Still
<1>8. QED
  BY <1>3, <1>4, <1>5, <1>6, <1>7 DEF ChatInv

\* The prompt is not concerned when the state of another variable changes.
LEMMA EventStays ==
    ASSUME EventIsSet, UNCHANGED <<prompt, turn_done, turn_response>>
    PROVE  EventIsSet'
BY DEF EventIsSet

\* While only turns write, an inbound line is the one that is waited for.
LEMMA TheLine ==
    ASSUME ChatTypes, LinesAreTyped, OneAtATime, ~ upset.unasked, prompt # "exited", inbound # <<>>
    PROVE  /\ prompt = "waiting" /\ ~ turn_done /\ outbound = <<>> /\ Tail(inbound) = <<>>
           /\ Alone(Head(inbound).turn)
<1>1. prompt \in {"reading", "waiting", "exited"} /\ inbound \in Seq(Lines)
  BY DEF ChatTypes
<1>2. prompt = "waiting" /\ Asked
  BY <1>1 DEF OneAtATime, AllQuiet, Worked, Answered
<1>3. PICK t \in Turns : turns[t] = "typed" /\ Alone(t)
  BY <1>2 DEF Asked
<1>4. Head(inbound) = inbound[1] /\ 1 \in DOMAIN inbound /\ Head(inbound) \in Lines /\ (Len(inbound) = 1 => Tail(inbound) = <<>>)
  BY <1>1, Shortened
<1>5. turns[Head(inbound).turn] = "typed" /\ Head(inbound).turn \in Turns
  BY <1>4 DEF LinesAreTyped, Lines
<1>6. Head(inbound).turn = t
  BY <1>3, <1>5 DEF Alone, Quiet
<1>7. QED
  BY <1>2, <1>3, <1>4, <1>6 DEF Asked

LEMMA ReceiveStep ==
    ASSUME ChatAssumption, ChatInv, Receive
    PROVE  ChatInv'
<1>1. ChatTypes /\ Numbered /\ LinesAreTyped /\ EventIsSet /\ InOnePlace /\ AllShown /\ OneAtATime /\ DisplayEnds
  BY DEF ChatInv
<1>2. PICK t \in {Head(inbound).turn} :
         IF Head(inbound).kind = "stop"
         THEN /\ turns' = [u \in Turns |-> IF u = t THEN "done"
                             ELSE IF turns[u] = "queued" \/ Active(u) THEN "cancelled"
                             ELSE turns[u]]
              /\ Speaks(t, MaxParts + 1)
              /\ upset' = [upset EXCEPT !.unended = @ \/ \E u \in Turns : turns[u] \in {"running", "streaming", "tools"}]
         ELSE /\ turns' = [turns EXCEPT ![t] = "queued"]
              /\ UNCHANGED <<outbound, sent, upset>>
  BY DEF Receive
<1>3. /\ inbound # <<>> /\ inbound' = Tail(inbound)
      /\ UNCHANGED <<prompt, turn_done, turn_response, renderer, parts, background, printed>>
  BY DEF Receive
<1>4. inbound \in Seq(Lines) /\ turns \in [Turns -> States] /\ parts \in [Turns -> 0..MaxParts]
      /\ upset \in [unasked : BOOLEAN, unended : BOOLEAN]
  BY <1>1 DEF ChatTypes
<1>5. /\ inbound' \in Seq(Lines) /\ Head(inbound) = inbound[1] /\ Head(inbound) \in Lines /\ 1 \in DOMAIN inbound
      /\ \A i \in DOMAIN inbound' : i + 1 \in DOMAIN inbound /\ inbound'[i] = inbound[i + 1]
      /\ DOMAIN inbound' = 1..Len(inbound') /\ Len(inbound) \in Nat /\ Len(inbound') = Len(inbound) - 1
  BY <1>3, <1>4, Shortened
<1>6. t \in Turns /\ turns[t] = "typed" /\ t = inbound[1].turn
  BY <1>1, <1>2, <1>5 DEF LinesAreTyped, Lines
<1>7. \A i \in DOMAIN inbound' : i \in Nat /\ inbound'[i].turn # t /\ turns[inbound'[i].turn] = "typed" /\ inbound'[i].turn \in Turns
  <2>1. SUFFICES ASSUME NEW i \in DOMAIN inbound'
                 PROVE  i \in Nat /\ inbound'[i].turn # t /\ turns[inbound'[i].turn] = "typed" /\ inbound'[i].turn \in Turns
    OBVIOUS
  <2>2. i \in Nat /\ i + 1 # 1 /\ i + 1 \in DOMAIN inbound /\ inbound'[i] = inbound[i + 1]
    BY <1>5, <2>1
  <2>3. inbound[i + 1].turn # inbound[1].turn
    BY <1>1, <1>5, <2>2 DEF LinesAreTyped
  <2>4. inbound[i + 1] \in Lines
    BY <1>4, <2>2, ElementOfSeq, <1>5, LenProperties
  <2>5. QED
    BY <1>1, <1>6, <2>2, <2>3, <2>4 DEF LinesAreTyped, Lines
<1>8. \A i, j \in DOMAIN inbound' : inbound'[i].turn = inbound'[j].turn => i = j
  <2>1. SUFFICES ASSUME NEW i \in DOMAIN inbound', NEW j \in DOMAIN inbound', inbound'[i].turn = inbound'[j].turn
                 PROVE  i = j
    OBVIOUS
  <2>2. i + 1 \in DOMAIN inbound /\ j + 1 \in DOMAIN inbound /\ inbound[i + 1].turn = inbound[j + 1].turn
    BY <1>5, <2>1
  <2>3. i + 1 = j + 1
    BY <1>1, <2>2 DEF LinesAreTyped
  <2>4. QED
    BY <1>7, <2>3
<1>9. EventIsSet'
  BY <1>1, <1>3, EventStays
<1>10. ASSUME ~ upset'.unasked, upset'.unasked = upset.unasked, prompt' # "exited"
       PROVE  /\ prompt' = "waiting" /\ ~ turn_done' /\ outbound = <<>> /\ inbound' = <<>>
              /\ \A u \in Turns : u # t => Quiet(u)
  <2>1. ~ upset.unasked /\ prompt # "exited"
    BY <1>3, <1>10
  <2>2. prompt = "waiting" /\ ~ turn_done /\ outbound = <<>> /\ Tail(inbound) = <<>> /\ Alone(Head(inbound).turn)
    BY <1>1, <1>3, <2>1, TheLine
  <2>3. QED
    BY <1>2, <1>3, <2>2 DEF Alone
<1>11. CASE Head(inbound).kind = "stop"
  <2>1. /\ turns' = [u \in Turns |-> IF u = t THEN "done"
                       ELSE IF turns[u] = "queued" \/ Active(u) THEN "cancelled"
                       ELSE turns[u]]
        /\ Speaks(t, MaxParts + 1)
        /\ upset' = [upset EXCEPT !.unended = @ \/ \E u \in Turns : turns[u] \in {"running", "streaming", "tools"}]
    BY <1>2, <1>11
  <2>2. /\ turns'[t] = "done"
        /\ \A u \in Turns : u # t => turns'[u] = IF turns[u] = "queued" \/ Active(u) THEN "cancelled" ELSE turns[u]
    BY <1>6, <2>1
  <2>3. turns' \in [Turns -> States]
    BY <1>4, <2>1 DEF States
  <2>4. upset' \in [unasked : BOOLEAN, unended : BOOLEAN] /\ upset'.unasked = upset.unasked
    <3>1. PICK b \in BOOLEAN : b = (upset.unended \/ \E u \in Turns : turns[u] \in {"running", "streaming", "tools"})
      OBVIOUS
    <3>2. upset' = [upset EXCEPT !.unended = b]
      BY <2>1, <3>1
    <3>3. QED
      BY <1>4, <3>2
  <2>5. t \in 0..MaxInputs /\ MaxParts + 1 \in Nat /\ MaxParts \in Nat
    BY <1>6 DEF Turns, ChatAssumption
  <2>6. <<t, MaxParts + 1>> \notin sent
    <3>1. parts[t] \in 0..MaxParts /\ t # 0
      BY <1>4, <1>6, ChatAssumption DEF Turns, ChatAssumption
    <3>2. SUFFICES ASSUME <<t, MaxParts + 1>> \in sent
                   PROVE  FALSE
      OBVIOUS
    <3>3. <<t, MaxParts + 1>>[1] = t /\ <<t, MaxParts + 1>>[2] = MaxParts + 1
      OBVIOUS
    <3>4. MaxParts + 1 \in 1..parts[t] \/ turns[t] \in {"done", "cancelled"}
      BY <1>1, <2>5, <3>1, <3>2, <3>3 DEF Numbered, OwnAnswers
    <3>5. QED
      BY <1>6, <2>5, <3>1, <3>4
  <2>7. InOnePlace' /\ AllShown' /\ outbound' \in Seq(Packets) /\ sent' \subseteq Ids
    BY <1>1, <1>3, <2>1, <2>5, <2>6, SpeaksPlaces
  <2>8. ChatTypes'
    BY <1>1, <1>3, <1>5, <2>3, <2>4, <2>7 DEF ChatTypes
  <2>9. Numbered'
    <3>1. sent' = sent \cup {<<t, MaxParts + 1>>} /\ parts' = parts /\ background' = background
      BY <1>3, <2>1 DEF Speaks
    <3>2. ASSUME NEW id \in sent
          PROVE  \/ id[1] = 0 /\ id[2] \in 1..background
                 \/ id[1] \in Turns /\ id[2] \in 1..parts[id[1]]
                 \/ id[1] \in Turns /\ id[2] = MaxParts + 1 /\ turns'[id[1]] \in {"done", "cancelled"}
                 \/ id \in OwnAnswers
      <4>1. ASSUME id[1] \in Turns, turns[id[1]] \in {"done", "cancelled"}
            PROVE  turns'[id[1]] \in {"done", "cancelled"}
        BY <2>2, <4>1
      <4>2. QED
        BY <1>1, <4>1 DEF Numbered
    <3>3. <<t, MaxParts + 1>>[1] \in Turns /\ <<t, MaxParts + 1>>[2] = MaxParts + 1 /\ turns'[<<t, MaxParts + 1>>[1]] = "done"
      BY <1>6, <2>2
    <3>4. QED
      BY <3>1, <3>2, <3>3 DEF Numbered
  <2>10. LinesAreTyped'
    BY <1>7, <1>8, <2>2 DEF LinesAreTyped, Active
  <2>11. OneAtATime' /\ DisplayEnds'
    <3>1. SUFFICES ASSUME ~ upset'.unasked, prompt' # "exited"
                   PROVE  /\ OneAtATime' /\ DisplayEnds'
      BY <1>1, <1>3 DEF OneAtATime, DisplayEnds, ChatTypes
    <3>2. /\ prompt' = "waiting" /\ ~ turn_done' /\ outbound = <<>> /\ inbound' = <<>>
          /\ \A u \in Turns : u # t => Quiet(u)
      BY <1>10, <2>4, <3>1
    <3>3. \A u \in Turns : turns'[u] \in {"none", "done", "cancelled"}
      BY <2>2, <3>2 DEF Quiet
    <3>4. outbound' = <<Packet("plain", t, MaxParts + 1)>>
      BY <2>1, <3>2 DEF Speaks, Publish
    <3>5. Packet("plain", t, MaxParts + 1).kind = "plain"
      BY PacketFields
    <3>6. Len(outbound') = 1 /\ outbound' # <<>> /\ DOMAIN outbound' = {1} /\ outbound'[1].kind = "plain"
      BY <3>4, <3>5
    <3>7. Answered'
      BY <3>2, <3>3, <3>6 DEF Answered, Quiet, Ending
    <3>8. OneAtATime'
      BY <3>2, <3>7 DEF OneAtATime
    <3>9. DisplayEnds'
      BY <3>2, <3>3, <3>6 DEF DisplayEnds, Finished
    <3>10. QED
      BY <3>8, <3>9
  <2>12. QED
    BY <1>9, <2>7, <2>8, <2>9, <2>10, <2>11 DEF ChatInv
<1>12. CASE Head(inbound).kind # "stop"
  <2>1. turns' = [turns EXCEPT ![t] = "queued"] /\ UNCHANGED <<outbound, sent, upset>>
    BY <1>2, <1>12
  <2>2. turns'[t] = "queued" /\ (\A u \in Turns : u # t => turns'[u] = turns[u]) /\ turns' \in [Turns -> States]
    BY <1>4, <1>6, <2>1 DEF States, Busy
  <2>3. ChatTypes'
    BY <1>1, <1>3, <1>5, <2>1, <2>2 DEF ChatTypes
  <2>4. Numbered'
    <3>1. \A u \in Turns : turns[u] \in {"done", "cancelled"} => turns'[u] \in {"done", "cancelled"}
      BY <1>6, <2>2
    <3>2. QED
      BY <1>1, <1>3, <2>1, <3>1 DEF Numbered
  <2>5. LinesAreTyped'
    BY <1>7, <1>8, <2>2 DEF LinesAreTyped
  <2>6. InOnePlace' /\ AllShown'
    BY <1>1, <1>3, <2>1, PlacesStay
  <2>7. OneAtATime' /\ DisplayEnds'
    <3>1. SUFFICES ASSUME ~ upset'.unasked, prompt' # "exited"
                   PROVE  /\ OneAtATime' /\ DisplayEnds'
      BY <1>1, <1>3 DEF OneAtATime, DisplayEnds, ChatTypes
    <3>2. /\ prompt' = "waiting" /\ ~ turn_done' /\ outbound' = <<>> /\ inbound' = <<>>
          /\ \A u \in Turns : u # t => Quiet(u)
      BY <1>10, <2>1, <3>1
    <3>3. \A u \in Turns : u # t => turns'[u] \in {"none", "done", "cancelled"}
      BY <2>2, <3>2 DEF Quiet
    <3>4. Worked'
      BY <1>6, <2>2, <3>2, <3>3, NothingIn DEF Worked, Alone, Quiet, Busy
    <3>5. OneAtATime'
      BY <3>2, <3>4 DEF OneAtATime
    <3>6. DisplayEnds'
      BY <2>2, <3>2, <3>3 DEF DisplayEnds, Finished
    <3>7. QED
      BY <3>5, <3>6
  <2>8. QED
    BY <1>9, <2>3, <2>4, <2>5, <2>6, <2>7 DEF ChatInv
<1>13. QED
  BY <1>11, <1>12

\* While only turns write, a turn at work is the one that is waited for.
LEMMA TheTurn ==
    ASSUME ChatTypes, OneAtATime, ~ upset.unasked, prompt # "exited", NEW t \in Turns, turns[t] \in Busy
    PROVE  prompt = "waiting" /\ Worked /\ Alone(t)
<1>1. prompt \in {"reading", "waiting", "exited"}
  BY DEF ChatTypes
<1>2. ~ Quiet(t) /\ turns[t] # "typed"
  BY DEF Quiet, Busy
<1>3. ~ AllQuiet /\ ~ Answered
  BY <1>2 DEF AllQuiet, Answered
<1>4. ~ Asked
  <2>1. ASSUME NEW u \in Turns, turns[u] = "typed", Alone(u)
        PROVE  FALSE
    BY <1>2, <2>1 DEF Alone
  <2>2. QED
    BY <2>1 DEF Asked
<1>5. prompt = "waiting" /\ Worked
  BY <1>1, <1>3, <1>4 DEF OneAtATime
<1>6. PICK u \in Turns : turns[u] \in Busy /\ Alone(u)
  BY <1>5 DEF Worked
<1>7. u = t
  BY <1>2, <1>6 DEF Alone
<1>8. QED
  BY <1>5, <1>6, <1>7

agentOthers == <<prompt, turn_done, turn_response, inbound, printed>>

\* What a turn's step leaves as it is.
LEMMA TurnFrame ==
    ASSUME ChatTypes, LinesAreTyped, EventIsSet, UNCHANGED agentOthers, UNCHANGED <<renderer, background>>,
           NEW t \in Turns, turns[t] \in Busy,
           NEW new \in Busy \cup {"done"}, turns' = [turns EXCEPT ![t] = new],
           parts' \in [Turns -> 0..MaxParts], sent' \subseteq Ids, outbound' \in Seq(Packets),
           upset' \in [unasked : BOOLEAN, unended : BOOLEAN]
    PROVE  /\ ChatTypes' /\ LinesAreTyped' /\ EventIsSet'
           /\ turns'[t] = new /\ \A u \in Turns : u # t => turns'[u] = turns[u]
<1>1. turns \in [Turns -> States]
  BY DEF ChatTypes
<1>2. turns'[t] = new /\ (\A u \in Turns : u # t => turns'[u] = turns[u]) /\ turns' \in [Turns -> States]
  BY <1>1 DEF States, Busy
<1>3. UNCHANGED <<prompt, turn_done, turn_response, inbound, printed>>
  BY DEF agentOthers
<1>4. ChatTypes'
  BY <1>2, <1>3 DEF ChatTypes
<1>5. EventIsSet'
  BY <1>3, EventStays
<1>6. LinesAreTyped'
  <2>1. \A i \in DOMAIN inbound : inbound[i].turn \in Turns
    <3>1. inbound \in Seq(Lines)
      BY DEF ChatTypes
    <3>2. \A i \in DOMAIN inbound : inbound[i] \in Lines
      BY <3>1, ElementOfSeq, LenProperties
    <3>3. QED
      BY <3>2 DEF Lines
  <2>2. \A u \in Turns : turns[u] = "typed" => turns'[u] = "typed"
    BY <1>2 DEF Busy
  <2>3. QED
    BY <1>3, <2>1, <2>2 DEF LinesAreTyped
<1>7. QED
  BY <1>2, <1>4, <1>5, <1>6

\* The turns that have spoken stay done, and parts only grow.
LEMMA NumbersStay ==
    ASSUME ChatAssumption, ChatTypes, Numbered, UNCHANGED background,
           parts' \in [Turns -> 0..MaxParts], \A u \in Turns : parts'[u] >= parts[u],
           \A u \in Turns : turns[u] \in {"done", "cancelled"} => turns'[u] \in {"done", "cancelled"}
    PROVE  \A id \in sent :
               \/ id[1] = 0 /\ id[2] \in 1..background'
               \/ id[1] \in Turns /\ id[2] \in 1..parts'[id[1]]
               \/ id[1] \in Turns /\ id[2] = MaxParts + 1 /\ turns'[id[1]] \in {"done", "cancelled"}
               \/ id \in OwnAnswers
<1>1. SUFFICES ASSUME NEW id \in sent
               PROVE  \/ id[1] = 0 /\ id[2] \in 1..background'
                      \/ id[1] \in Turns /\ id[2] \in 1..parts'[id[1]]
                      \/ id[1] \in Turns /\ id[2] = MaxParts + 1 /\ turns'[id[1]] \in {"done", "cancelled"}
                      \/ id \in OwnAnswers
  OBVIOUS
<1>2. CASE id[1] \in Turns /\ id[2] \in 1..parts[id[1]]
  <2>1. parts \in [Turns -> 0..MaxParts] /\ MaxParts \in Nat
    BY DEF ChatTypes, ChatAssumption
  <2>2. parts[id[1]] \in Nat /\ parts'[id[1]] \in Nat /\ parts'[id[1]] >= parts[id[1]]
    BY <1>2, <2>1
  <2>3. id[2] \in 1..parts'[id[1]]
    BY <1>2, <2>2
  <2>4. QED
    BY <1>2, <2>3
<1>3. QED
  BY <1>2 DEF Numbered

LEMMA ShownStays ==
    ASSUME ChatTypes, InOnePlace, AllShown, UNCHANGED agentOthers,
           sent \subseteq sent', sent' \ OwnAnswers \subseteq sent,
           DOMAIN outbound \subseteq DOMAIN outbound',
           \A i \in DOMAIN outbound : outbound'[i] = outbound[i],
           \A i \in DOMAIN outbound' : i \in DOMAIN outbound \/ ~ HasContent(outbound'[i])
    PROVE  InOnePlace' /\ AllShown'
BY PlacesStay DEF agentOthers

\* A turn works on: what it adds to the queue is part of a stream.
LEMMA WorkStep ==
    ASSUME ChatAssumption, ChatInv, UNCHANGED agentOthers, UNCHANGED <<renderer, background, sent, upset>>,
           NEW t \in Turns, turns[t] \in Busy, NEW new \in Busy, turns' = [turns EXCEPT ![t] = new],
           parts' \in [Turns -> 0..MaxParts], \A u \in Turns : parts'[u] >= parts[u],
           outbound' \in Seq(Packets), DOMAIN outbound \subseteq DOMAIN outbound',
           \A i \in DOMAIN outbound : outbound'[i] = outbound[i],
           \A i \in DOMAIN outbound' : i \in DOMAIN outbound \/ ~ Ending(outbound'[i]),
           new \in {"ended", "silent"} => outbound' # <<>> /\ outbound'[Len(outbound')].kind = "end"
    PROVE  ChatInv'
<1>1. ChatTypes /\ Numbered /\ LinesAreTyped /\ EventIsSet /\ InOnePlace /\ AllShown /\ OneAtATime /\ DisplayEnds
  BY DEF ChatInv
<1>2. sent' \subseteq Ids /\ upset' \in [unasked : BOOLEAN, unended : BOOLEAN] /\ new \in Busy \cup {"done"}
  BY <1>1 DEF ChatTypes
<1>3. /\ ChatTypes' /\ LinesAreTyped' /\ EventIsSet'
      /\ turns'[t] = new /\ \A u \in Turns : u # t => turns'[u] = turns[u]
  BY <1>1, <1>2, TurnFrame
<1>4. Numbered'
  <2>1. \A u \in Turns : turns[u] \in {"done", "cancelled"} => turns'[u] \in {"done", "cancelled"}
    BY <1>3 DEF Busy
  <2>2. QED
    BY <1>1, <2>1, NumbersStay DEF Numbered
<1>5. InOnePlace' /\ AllShown'
  <2>1. \A i \in DOMAIN outbound' : i \in DOMAIN outbound \/ ~ HasContent(outbound'[i])
    BY DEF HasContent, Ending
  <2>2. QED
    BY <1>1, <2>1, ShownStays
<1>6. ASSUME ~ upset'.unasked, prompt' # "exited"
      PROVE  prompt' = "waiting" /\ Worked' /\ Alone(t)'
  <2>1. ~ upset.unasked /\ prompt # "exited" /\ prompt' = prompt /\ turn_done' = turn_done /\ inbound' = inbound
    BY <1>6 DEF agentOthers
  <2>2. prompt = "waiting" /\ Worked /\ Alone(t)
    BY <1>1, <2>1, TheTurn
  <2>3. Alone(t)'
    BY <1>3, <2>2 DEF Alone, Quiet
  <2>4. \A i \in DOMAIN outbound' : ~ Ending(outbound'[i])
    BY <2>2 DEF Worked
  <2>5. turns'[t] \in Busy
    BY <1>3
  <2>6. Worked'
    BY <2>1, <2>2, <2>3, <2>4, <2>5 DEF Worked, Ending
  <2>7. QED
    BY <2>1, <2>2, <2>3, <2>6
<1>7. OneAtATime'
  BY <1>3, <1>6 DEF OneAtATime, ChatTypes
<1>8. DisplayEnds'
  <2>1. SUFFICES ASSUME ~ upset'.unasked, prompt' # "exited"
                 PROVE  DisplayEnds'
    BY DEF DisplayEnds
  <2>2. prompt' = "waiting" /\ Worked' /\ Alone(t)' /\ ~ turn_done'
    BY <1>6, <2>1 DEF Worked
  <2>3. Len(outbound') \in Nat /\ DOMAIN outbound' = 1..Len(outbound') /\ (outbound' # <<>> => Len(outbound') # 0)
    BY LenProperties, EmptySeq
  <2>4. (\E u \in Turns : Finished(u)') => StillAfter(Len(outbound))'
    <3>1. ASSUME NEW u \in Turns, Finished(u)'
          PROVE  new \in {"ended", "silent"}
      BY <1>3, <2>2, <3>1 DEF Alone, Quiet, Finished
    <3>2. QED
      BY <2>3, <3>1 DEF StillAfter
  <2>5. outbound' # <<>> => outbound'[Len(outbound')].kind \notin {"streamed", "empty"}
    <3>1. outbound' # <<>> => Len(outbound') \in DOMAIN outbound'
      BY <2>3
    <3>2. QED
      BY <2>2, <3>1 DEF Worked, Ending
  <2>6. QED
    BY <2>2, <2>4, <2>5 DEF DisplayEnds
<1>9. QED
  BY <1>3, <1>4, <1>5, <1>7, <1>8 DEF ChatInv

\* A turn is over, and its answer is published.
LEMMA AnswerStep ==
    ASSUME ChatAssumption, ChatInv, UNCHANGED agentOthers, UNCHANGED <<renderer, background, parts>>,
           NEW t \in Turns, turns[t] \in Busy, turns' = [turns EXCEPT ![t] = "done"],
           NEW m \in Packets, Ending(m), outbound' = Append(outbound, m),
           upset' \in [unasked : BOOLEAN, unended : BOOLEAN],
           upset'.unasked = upset.unasked, upset.unended => upset'.unended,
           m.kind = "plain" \/ upset'.unended \/ Finished(t),
           sent' \subseteq Ids, Numbered', InOnePlace', AllShown'
    PROVE  ChatInv'
<1>1. ChatTypes /\ LinesAreTyped /\ EventIsSet /\ OneAtATime /\ DisplayEnds
  BY DEF ChatInv
<1>2. outbound \in Seq(Packets) /\ parts \in [Turns -> 0..MaxParts]
  BY <1>1 DEF ChatTypes
<1>3. /\ outbound' \in Seq(Packets) /\ outbound' # <<>> /\ Len(outbound) \in Nat /\ Len(outbound') = Len(outbound) + 1
      /\ DOMAIN outbound = 1..Len(outbound) /\ DOMAIN outbound' = 1..Len(outbound')
      /\ \A i \in DOMAIN outbound : i \in DOMAIN outbound' /\ outbound'[i] = outbound[i]
      /\ Len(outbound') \in DOMAIN outbound' /\ outbound'[Len(outbound')] = m
      /\ \A i \in DOMAIN outbound' : i \in DOMAIN outbound \/ i = Len(outbound')
  BY <1>2, Appended
<1>4. /\ ChatTypes' /\ LinesAreTyped' /\ EventIsSet'
      /\ turns'[t] = "done" /\ \A u \in Turns : u # t => turns'[u] = turns[u]
  BY <1>1, <1>2, <1>3, TurnFrame
<1>5. ASSUME ~ upset'.unasked, prompt' # "exited"
      PROVE  prompt' = "waiting" /\ Answered' /\ prompt = "waiting" /\ ~ upset.unasked
  <2>1. ~ upset.unasked /\ prompt # "exited" /\ prompt' = prompt /\ turn_done' = turn_done /\ inbound' = inbound
    BY <1>5 DEF agentOthers
  <2>2. prompt = "waiting" /\ Worked /\ Alone(t)
    BY <1>1, <2>1, TheTurn
  <2>3. \A u \in Turns : Quiet(u)'
    BY <1>4, <2>2 DEF Alone, Quiet
  <2>4. \A i \in DOMAIN outbound' : Ending(outbound'[i]) <=> i = Len(outbound')
    <3>1. \A i \in DOMAIN outbound : ~ Ending(outbound[i]) /\ i # Len(outbound')
      BY <1>3, <2>2 DEF Worked
    <3>2. QED
      BY <1>3, <3>1
  <2>5. Answered'
    BY <1>3, <2>1, <2>2, <2>3, <2>4 DEF Answered, Worked, Ending
  <2>6. QED
    BY <2>1, <2>2, <2>5
<1>6. OneAtATime'
  BY <1>4, <1>5 DEF OneAtATime, ChatTypes
<1>7. DisplayEnds'
  <2>1. SUFFICES ASSUME ~ upset'.unasked, ~ upset'.unended, prompt' # "exited"
                 PROVE  DisplayEnds'
    BY DEF DisplayEnds
  <2>2. prompt' = "waiting" /\ Answered' /\ prompt = "waiting" /\ ~ upset.unasked /\ ~ upset.unended
    BY <1>5, <2>1
  <2>3. ~ turn_done' /\ \A u \in Turns : ~ Finished(u)'
    BY <2>2 DEF Answered, Quiet, Finished
  <2>4. ASSUME outbound'[Len(outbound')].kind \in {"streamed", "empty"}
        PROVE  StillAfter(Len(outbound) - 1)'
    <3>1. Finished(t)
      BY <1>3, <2>1, <2>4
    <3>2. StillAfter(Len(outbound))
      BY <1>1, <2>2, <3>1 DEF DisplayEnds
    <3>3. Len(outbound') - 1 = Len(outbound) /\ (Len(outbound) # 0 => Len(outbound) \in DOMAIN outbound)
      BY <1>3
    <3>4. QED
      BY <1>3, <3>2, <3>3 DEF StillAfter, Still
  <2>5. QED
    BY <2>2, <2>3, <2>4 DEF DisplayEnds
<1>8. QED
  BY <1>4, <1>6, <1>7 DEF ChatInv

\* Somebody else than a turn's answer speaks.
LEMMA UnaskedStep ==
    ASSUME ChatTypes', Numbered', LinesAreTyped', EventIsSet', InOnePlace', AllShown', upset'.unasked
    PROVE  ChatInv'
BY DEF ChatInv, OneAtATime, DisplayEnds

LEMMA AgentTypes ==
    ASSUME ChatAssumption, ChatTypes, NEW t \in Turns
    PROVE  /\ turns \in [Turns -> States] /\ parts \in [Turns -> 0..MaxParts] /\ parts[t] \in 0..MaxParts
           /\ MaxParts \in Nat /\ t \in 0..MaxInputs /\ t # 0 /\ outbound \in Seq(Packets) /\ sent \subseteq Ids
           /\ upset \in [unasked : BOOLEAN, unended : BOOLEAN]
           /\ \A u \in Turns : parts[u] >= parts[u]
BY DEF ChatAssumption, ChatTypes, Turns

LEMMA BeginStep ==
    ASSUME ChatAssumption, ChatInv, NEW t \in Turns, Begin(t)
    PROVE  ChatInv'
<1>1. ChatTypes
  BY DEF ChatInv
<1>2. /\ turns[t] \in Busy /\ turns' = [turns EXCEPT ![t] = "running"] /\ "running" \in Busy
      /\ UNCHANGED agentOthers /\ UNCHANGED <<renderer, background, parts, sent, outbound, upset>>
  BY DEF Begin, agentOnly, agentOthers, Busy
<1>3. QED
  BY <1>1, <1>2, AgentTypes, WorkStep

LEMMA ToolsDoneStep ==
    ASSUME ChatAssumption, ChatInv, NEW t \in Turns, ToolsDone(t)
    PROVE  ChatInv'
<1>1. ChatTypes
  BY DEF ChatInv
<1>2. /\ turns[t] \in Busy /\ turns' = [turns EXCEPT ![t] = "running"] /\ "running" \in Busy
      /\ UNCHANGED agentOthers /\ UNCHANGED <<renderer, background, parts, sent, outbound, upset>>
  BY DEF ToolsDone, agentOnly, agentOthers, Busy
<1>3. QED
  BY <1>1, <1>2, AgentTypes, WorkStep

\* parts counts what a turn does.
LEMMA PartGrows ==
    ASSUME ChatAssumption, ChatTypes, NEW t \in Turns, Part(t)
    PROVE  /\ parts' \in [Turns -> 0..MaxParts] /\ parts'[t] = parts[t] + 1 /\ parts'[t] \in 1..MaxParts
           /\ \A u \in Turns : parts'[u] >= parts[u]
<1>1. parts \in [Turns -> 0..MaxParts] /\ MaxParts \in Nat /\ parts[t] < MaxParts /\ parts' = [parts EXCEPT ![t] = @ + 1]
  BY AgentTypes DEF Part
<1>2. parts[t] \in 0..MaxParts /\ parts[t] + 1 \in 1..MaxParts /\ parts[t] + 1 \in 0..MaxParts
  BY <1>1
<1>3. parts'[t] = parts[t] + 1 /\ (\A u \in Turns : u # t => parts'[u] = parts[u]) /\ parts' \in [Turns -> 0..MaxParts]
  BY <1>1, <1>2
<1>4. \A u \in Turns : parts[u] \in Nat
  BY <1>1
<1>5. QED
  BY <1>2, <1>3, <1>4

LEMMA StreamsStep ==
    ASSUME ChatAssumption, ChatInv, NEW t \in Turns, Streams(t)
    PROVE  ChatInv'
<1>1. ChatTypes
  BY DEF ChatInv
<1>2. /\ turns[t] \in Busy /\ Part(t) /\ outbound' = Append(outbound, Packet("delta", t, parts'[t]))
      /\ UNCHANGED agentOthers /\ UNCHANGED <<renderer, background, sent, upset>>
  BY DEF Streams, Answering, Publish, agentOnly, agentOthers, Busy
<1>3. turns' = [turns EXCEPT ![t] = "streaming"] /\ "streaming" \in Busy
  BY DEF Streams, Busy
<1>4. /\ parts' \in [Turns -> 0..MaxParts] /\ parts'[t] \in Nat /\ \A u \in Turns : parts'[u] >= parts[u]
  BY <1>1, <1>2, PartGrows, AgentTypes
<1>5. Packet("delta", t, parts'[t]) \in Packets /\ ~ Ending(Packet("delta", t, parts'[t]))
  <2>1. t \in 0..MaxInputs /\ parts'[t] \in Nat
    BY <1>1, <1>4, AgentTypes
  <2>2. "delta" \in Kinds
    BY DEF Kinds
  <2>3. QED
    BY <2>1, <2>2, PacketFields
<1>6. /\ outbound' \in Seq(Packets) /\ DOMAIN outbound \subseteq DOMAIN outbound'
      /\ \A i \in DOMAIN outbound : outbound'[i] = outbound[i]
      /\ \A i \in DOMAIN outbound' : i \in DOMAIN outbound \/ ~ Ending(outbound'[i])
  BY <1>1, <1>2, <1>5, AgentTypes, Appended
<1>7. QED
  BY <1>2, <1>3, <1>4, <1>6, WorkStep DEF Busy

LEMMA EndsStreamStep ==
    ASSUME ChatAssumption, ChatInv, NEW t \in Turns, EndsStream(t)
    PROVE  ChatInv'
<1>1. ChatTypes
  BY DEF ChatInv
<1>2. PICK new \in {"ended", "silent"} : turns' = [turns EXCEPT ![t] = new]
  BY DEF EndsStream
<1>6. /\ turns[t] \in Busy /\ new \in Busy /\ outbound' = Append(outbound, Packet("end", t, 0))
      /\ UNCHANGED agentOthers /\ UNCHANGED <<renderer, background, parts, sent, upset>>
  BY DEF EndsStream, Answering, Publish, agentOnly, agentOthers, Busy
<1>3. Packet("end", t, 0) \in Packets /\ ~ Ending(Packet("end", t, 0)) /\ Packet("end", t, 0).kind = "end"
  <2>1. t \in 0..MaxInputs /\ 0 \in Nat
    BY <1>1, AgentTypes
  <2>2. "end" \in Kinds
    BY DEF Kinds
  <2>3. QED
    BY <2>1, <2>2, PacketFields
<1>4. /\ outbound' \in Seq(Packets) /\ DOMAIN outbound \subseteq DOMAIN outbound' /\ outbound' # <<>>
      /\ \A i \in DOMAIN outbound : outbound'[i] = outbound[i]
      /\ outbound'[Len(outbound')].kind = "end"
      /\ \A i \in DOMAIN outbound' : i \in DOMAIN outbound \/ ~ Ending(outbound'[i])
  BY <1>1, <1>3, <1>6, AgentTypes, Appended
<1>5. QED
  BY <1>1, <1>2, <1>4, <1>6, AgentTypes, WorkStep

LEMMA CallsToolsStep ==
    ASSUME ChatAssumption, ChatInv, NEW t \in Turns, CallsTools(t)
    PROVE  ChatInv'
<1> DEFINE a == Packet("resume", t, 0)
           b == Packet("progress", t, 0)
<1>1. ChatTypes
  BY DEF ChatInv
<1>2. /\ turns[t] \in Busy /\ "tools" \in Busy /\ Part(t) /\ turns' = [turns EXCEPT ![t] = "tools"]
      /\ outbound' = outbound \o <<a, b>>
      /\ UNCHANGED agentOthers /\ UNCHANGED <<renderer, background, sent, upset>>
  BY DEF CallsTools, Answering, agentOnly, agentOthers, Busy
<1>3. a \in Packets /\ b \in Packets /\ ~ Ending(a) /\ ~ Ending(b)
  <2>1. t \in 0..MaxInputs /\ 0 \in Nat
    BY <1>1, AgentTypes
  <2>2. "resume" \in Kinds /\ "progress" \in Kinds
    BY DEF Kinds
  <2>3. QED
    BY <2>1, <2>2, PacketFields
<1> HIDE DEF a, b
<1>4. /\ parts' \in [Turns -> 0..MaxParts] /\ \A u \in Turns : parts'[u] >= parts[u]
  BY <1>1, <1>2, PartGrows
<1>5. outbound \in Seq(Packets) /\ <<a, b>> \in Seq(Packets) /\ Len(<<a, b>>) = 2 /\ <<a, b>>[1] = a /\ <<a, b>>[2] = b
  BY <1>1, <1>3, AgentTypes
<1>6. /\ outbound' \in Seq(Packets) /\ Len(outbound') = Len(outbound) + 2 /\ Len(outbound) \in Nat
      /\ DOMAIN outbound = 1..Len(outbound) /\ DOMAIN outbound' = 1..Len(outbound')
      /\ \A i \in 1..Len(outbound') : outbound'[i] = IF i <= Len(outbound) THEN outbound[i] ELSE <<a, b>>[i - Len(outbound)]
  <2>1. Len(outbound) \in Nat /\ DOMAIN outbound = 1..Len(outbound)
    BY <1>5, LenProperties
  <2>2. outbound' \in Seq(Packets) /\ Len(outbound') = Len(outbound) + 2
    BY <1>2, <1>5, ConcatProperties
  <2>3. DOMAIN outbound' = 1..Len(outbound')
    BY <2>2, LenProperties
  <2>4. \A i \in 1..Len(outbound') : outbound'[i] = IF i <= Len(outbound) THEN outbound[i] ELSE <<a, b>>[i - Len(outbound)]
    BY <1>2, <1>5, <2>2, ConcatProperties
  <2>5. QED
    BY <2>1, <2>2, <2>3, <2>4
<1>7. DOMAIN outbound \subseteq DOMAIN outbound' /\ \A i \in DOMAIN outbound : outbound'[i] = outbound[i]
  BY <1>6
<1>8. \A i \in DOMAIN outbound' : i \in DOMAIN outbound \/ ~ Ending(outbound'[i])
  <2>1. ASSUME NEW i \in DOMAIN outbound', i \notin DOMAIN outbound
        PROVE  ~ Ending(outbound'[i])
    <3>1. i \in 1..Len(outbound') /\ ~ (i <= Len(outbound)) /\ i - Len(outbound) \in {1, 2}
      BY <1>6, <2>1
    <3>2. outbound'[i] = a \/ outbound'[i] = b
      BY <1>5, <1>6, <3>1
    <3>3. QED
      BY <1>3, <3>2
  <2>2. QED
    BY <2>1
<1>9. QED
  BY <1>2, <1>4, <1>6, <1>7, <1>8, WorkStep

\* A turn that has streamed, or given up, is over: its answer is no content for the terminal.
LEMMA ConcludesStep ==
    ASSUME ChatAssumption, ChatInv, NEW t \in Turns, turns[t] \in Busy, turns' = [turns EXCEPT ![t] = "done"],
           NEW own \in BOOLEAN, Concludes(t, own), UNCHANGED <<agentOnly, parts>>,
           upset' \in [unasked : BOOLEAN, unended : BOOLEAN],
           upset'.unasked = upset.unasked, upset.unended => upset'.unended,
           upset'.unended \/ Finished(t)
    PROVE  ChatInv'
<1>1. ChatTypes /\ Numbered /\ InOnePlace /\ AllShown
  BY DEF ChatInv
<1>2. PICK k \in {"empty", "streamed"} : outbound' = Append(outbound, Packet(k, t, 0))
  BY DEF Concludes, Publish
<1>3. Packet(k, t, 0) \in Packets /\ Ending(Packet(k, t, 0)) /\ ~ HasContent(Packet(k, t, 0))
  <2>1. t \in 0..MaxInputs /\ 0 \in Nat /\ k \in Kinds /\ k # "plain" /\ k \in {"streamed", "empty", "plain"}
    BY <1>1, AgentTypes DEF Kinds
  <2>2. QED
    BY <2>1, PacketFields
<1>4. /\ <<t, 0>> \in OwnAnswers /\ <<t, 0>> \in Ids
      /\ sent' = sent \/ sent' = sent \cup {<<t, 0>>}
  <2>1. t \in 0..MaxInputs
    BY <1>1, AgentTypes
  <2>2. QED
    BY <2>1 DEF Concludes, OwnAnswers, Ids
<1>5. UNCHANGED agentOthers /\ UNCHANGED <<renderer, background, parts>>
  BY DEF agentOnly, agentOthers
<1>6. /\ DOMAIN outbound \subseteq DOMAIN outbound' /\ \A i \in DOMAIN outbound : outbound'[i] = outbound[i]
      /\ \A i \in DOMAIN outbound' : i \in DOMAIN outbound \/ ~ HasContent(outbound'[i])
  BY <1>1, <1>2, <1>3, AgentTypes, Appended
<1>7. InOnePlace' /\ AllShown'
  BY <1>1, <1>4, <1>5, <1>6, ShownStays
<1>8. Numbered'
  <2>1. \A u \in Turns : turns[u] \in {"done", "cancelled"} => turns'[u] \in {"done", "cancelled"}
    BY <1>1, AgentTypes
  <2>2. parts' \in [Turns -> 0..MaxParts] /\ \A u \in Turns : parts'[u] >= parts[u]
    BY <1>1, <1>5, AgentTypes
  <2>3. \A id \in sent :
            \/ id[1] = 0 /\ id[2] \in 1..background'
            \/ id[1] \in Turns /\ id[2] \in 1..parts'[id[1]]
            \/ id[1] \in Turns /\ id[2] = MaxParts + 1 /\ turns'[id[1]] \in {"done", "cancelled"}
            \/ id \in OwnAnswers
    BY <1>1, <1>5, <2>1, <2>2, NumbersStay
  <2>4. QED
    BY <1>4, <2>3 DEF Numbered
<1>9. sent' \subseteq Ids
  BY <1>1, <1>4, AgentTypes
<1>10. QED
  BY <1>2, <1>3, <1>5, <1>7, <1>8, <1>9, AnswerStep

LEMMA RespondsStep ==
    ASSUME ChatAssumption, ChatInv, NEW t \in Turns, Responds(t)
    PROVE  ChatInv'
<1>1. ChatTypes
  BY DEF ChatInv
<1>2. PICK own \in BOOLEAN : Concludes(t, own)
  BY DEF Responds
<1>3. /\ turns[t] \in Busy /\ Finished(t) /\ turns' = [turns EXCEPT ![t] = "done"]
      /\ UNCHANGED <<agentOnly, parts, upset>>
  BY DEF Responds, Busy, Finished
<1>4. upset' \in [unasked : BOOLEAN, unended : BOOLEAN] /\ upset' = upset
  BY <1>1, <1>3, AgentTypes
<1>5. QED
  BY <1>2, <1>3, <1>4, ConcludesStep

LEMMA GivesUpStep ==
    ASSUME ChatAssumption, ChatInv, NEW t \in Turns, GivesUp(t)
    PROVE  ChatInv'
<1>1. ChatTypes
  BY DEF ChatInv
<1>2. turns[t] \in Busy /\ upset' = [upset EXCEPT !.unended = TRUE]
  BY DEF GivesUp, Busy
<1>3. upset' \in [unasked : BOOLEAN, unended : BOOLEAN] /\ upset'.unasked = upset.unasked /\ upset'.unended
  BY <1>1, <1>2, AgentTypes
<1>4. QED
  BY <1>2, <1>3, ConcludesStep DEF GivesUp

\* A text of a turn's own is new.
LEMMA NewText ==
    ASSUME ChatAssumption, ChatTypes, Numbered, NEW t \in Turns, turns[t] \notin {"done", "cancelled"},
           NEW n \in Nat, n > parts[t]
    PROVE  <<t, n>> \notin sent
<1>1. SUFFICES ASSUME <<t, n>> \in sent
               PROVE  FALSE
  OBVIOUS
<1>2. <<t, n>>[1] = t /\ <<t, n>>[2] = n /\ t # 0 /\ parts[t] \in Nat
  BY AgentTypes
<1>3. n \in 1..parts[t]
  BY <1>1, <1>2 DEF Numbered, OwnAnswers
<1>4. QED
  BY <1>2, <1>3

LEMMA FailsStep ==
    ASSUME ChatAssumption, ChatInv, NEW t \in Turns, Fails(t)
    PROVE  ChatInv'
<1> DEFINE m == Packet("plain", t, MaxParts + 1)
<1>1. ChatTypes /\ Numbered /\ InOnePlace /\ AllShown
  BY DEF ChatInv
<1>2. /\ turns[t] \in {"running", "streaming"} /\ turns[t] \in Busy /\ turns' = [turns EXCEPT ![t] = "done"] /\ Speaks(t, MaxParts + 1)
      /\ UNCHANGED agentOthers /\ UNCHANGED <<renderer, background, parts, upset>>
      /\ UNCHANGED <<prompt, turn_response, printed>>
  BY DEF Fails, Answering, agentOnly, agentOthers, Busy
<1>3. t \in 0..MaxInputs /\ MaxParts + 1 \in Nat /\ MaxParts + 1 > parts[t] /\ upset' \in [unasked : BOOLEAN, unended : BOOLEAN]
  <2>1. parts[t] \in 0..MaxParts /\ MaxParts \in Nat
    BY <1>1, AgentTypes
  <2>2. QED
    BY <1>1, <1>2, <2>1, AgentTypes
<1>4. <<t, MaxParts + 1>> \notin sent
  BY <1>1, <1>2, <1>3, NewText
<1>5. InOnePlace' /\ AllShown' /\ sent' \subseteq Ids
  BY <1>1, <1>2, <1>3, <1>4, SpeaksPlaces
<1>6. m \in Packets /\ Ending(m) /\ m.kind = "plain"
  <2>1. "plain" \in Kinds
    BY DEF Kinds
  <2>2. QED
    BY <1>3, <2>1, PacketFields
<1>7. outbound' = Append(outbound, m) /\ sent' = sent \cup {<<t, MaxParts + 1>>}
  BY <1>2 DEF Speaks, Publish
<1>8. Numbered'
  <2>1. turns'[t] = "done" /\ \A u \in Turns : u # t => turns'[u] = turns[u]
    BY <1>1, <1>2, AgentTypes
  <2>2. \A u \in Turns : turns[u] \in {"done", "cancelled"} => turns'[u] \in {"done", "cancelled"}
    BY <2>1
  <2>3. parts' \in [Turns -> 0..MaxParts] /\ \A u \in Turns : parts'[u] >= parts[u]
    BY <1>1, <1>2, AgentTypes
  <2>4. \A id \in sent :
            \/ id[1] = 0 /\ id[2] \in 1..background'
            \/ id[1] \in Turns /\ id[2] \in 1..parts'[id[1]]
            \/ id[1] \in Turns /\ id[2] = MaxParts + 1 /\ turns'[id[1]] \in {"done", "cancelled"}
            \/ id \in OwnAnswers
    BY <1>1, <1>2, <2>2, <2>3, NumbersStay
  <2>5. <<t, MaxParts + 1>>[1] = t /\ <<t, MaxParts + 1>>[2] = MaxParts + 1
    OBVIOUS
  <2>6. QED
    BY <1>7, <2>1, <2>4, <2>5 DEF Numbered
<1>9. QED
  BY <1>2, <1>3, <1>5, <1>6, <1>7, <1>8, AnswerStep

LEMMA ToolSendsStep ==
    ASSUME ChatAssumption, ChatInv, NEW t \in Turns, ToolSends(t)
    PROVE  ChatInv'
<1>1. ChatTypes /\ Numbered /\ LinesAreTyped /\ EventIsSet /\ InOnePlace /\ AllShown
  BY DEF ChatInv
<1>2. /\ turns[t] = "tools" /\ turns[t] \in Busy /\ turns' = turns /\ Part(t) /\ Speaks(t, parts'[t])
      /\ upset' = [upset EXCEPT !.unasked = TRUE]
      /\ UNCHANGED agentOthers /\ UNCHANGED <<renderer, background>>
      /\ UNCHANGED <<prompt, turn_response, printed>>
  BY DEF ToolSends, agentOnly, agentOthers, Busy
<1>3. /\ parts' \in [Turns -> 0..MaxParts] /\ parts'[t] = parts[t] + 1 /\ parts'[t] \in 1..MaxParts
      /\ \A u \in Turns : parts'[u] >= parts[u]
  BY <1>1, <1>2, PartGrows
<1>4. t \in 0..MaxInputs /\ parts'[t] \in Nat /\ parts'[t] > parts[t]
  BY <1>1, <1>3, AgentTypes
<1>5. <<t, parts'[t]>> \notin sent
  BY <1>1, <1>2, <1>4, NewText
<1>6. InOnePlace' /\ AllShown' /\ sent' \subseteq Ids /\ outbound' \in Seq(Packets)
  BY <1>1, <1>2, <1>4, <1>5, SpeaksPlaces
<1>7. upset' \in [unasked : BOOLEAN, unended : BOOLEAN] /\ upset'.unasked
  BY <1>1, <1>2, AgentTypes
<1>8. turns' = [turns EXCEPT ![t] = "tools"] /\ "tools" \in Busy \cup {"done"}
  BY <1>1, <1>2, AgentTypes DEF Busy
<1>9. ChatTypes' /\ LinesAreTyped' /\ EventIsSet'
  BY <1>1, <1>2, <1>3, <1>6, <1>7, <1>8, TurnFrame
<1>10. Numbered'
  <2>1. \A id \in sent :
            \/ id[1] = 0 /\ id[2] \in 1..background'
            \/ id[1] \in Turns /\ id[2] \in 1..parts'[id[1]]
            \/ id[1] \in Turns /\ id[2] = MaxParts + 1 /\ turns'[id[1]] \in {"done", "cancelled"}
            \/ id \in OwnAnswers
    BY <1>1, <1>2, <1>3, NumbersStay
  <2>2. <<t, parts'[t]>>[1] = t /\ <<t, parts'[t]>>[2] = parts'[t] /\ parts'[t] \in 1..parts'[t]
    BY <1>3, <1>4
  <2>3. sent' = sent \cup {<<t, parts'[t]>>}
    BY <1>2 DEF Speaks
  <2>4. QED
    BY <2>1, <2>2, <2>3 DEF Numbered
<1>11. QED
  BY <1>6, <1>7, <1>9, <1>10, UnaskedStep

LEMMA SubagentAnswersStep ==
    ASSUME ChatAssumption, ChatInv, SubagentAnswers
    PROVE  ChatInv'
<1>1. ChatTypes /\ Numbered /\ LinesAreTyped /\ EventIsSet /\ InOnePlace /\ AllShown
  BY DEF ChatInv
<1>2. /\ background' = background + 1 /\ Speaks(0, background') /\ upset' = [upset EXCEPT !.unasked = TRUE]
      /\ UNCHANGED <<prompt, turn_done, turn_response, renderer, inbound, turns, parts, printed>>
      /\ UNCHANGED <<prompt, turn_response, printed>>
  BY DEF SubagentAnswers
<1>3. background \in Nat /\ background' \in Nat /\ 0 \in 0..MaxInputs
  BY <1>1, <1>2 DEF ChatTypes, ChatAssumption
<1>4. 0 \notin Turns
  BY DEF Turns
<1>5. <<0, background'>> \notin sent
  <2>1. SUFFICES ASSUME <<0, background'>> \in sent
                 PROVE  FALSE
    OBVIOUS
  <2>2. <<0, background'>>[1] = 0 /\ <<0, background'>>[2] = background'
    OBVIOUS
  <2>3. background' \in 1..background
    BY <1>1, <1>4, <2>1, <2>2 DEF Numbered, OwnAnswers
  <2>4. QED
    BY <1>2, <1>3, <2>3
<1>6. InOnePlace' /\ AllShown' /\ outbound' \in Seq(Packets) /\ sent' \subseteq Ids
  BY <1>1, <1>2, <1>3, <1>5, SpeaksPlaces
<1>7. upset' \in [unasked : BOOLEAN, unended : BOOLEAN] /\ upset'.unasked
  BY <1>1, <1>2 DEF ChatTypes
<1>8. ChatTypes'
  BY <1>1, <1>2, <1>3, <1>6, <1>7 DEF ChatTypes
<1>9. LinesAreTyped' /\ EventIsSet'
  BY <1>1, <1>2 DEF LinesAreTyped, EventIsSet
<1>10. Numbered'
  <2>1. sent' = sent \cup {<<0, background'>>}
    BY <1>2 DEF Speaks
  <2>2. <<0, background'>>[1] = 0 /\ <<0, background'>>[2] = background' /\ background' \in 1..background'
    BY <1>2, <1>3
  <2>3. \A k \in 1..background : k \in 1..background'
    BY <1>2, <1>3
  <2>4. QED
    BY <1>1, <1>2, <2>1, <2>2, <2>3 DEF Numbered
<1>11. QED
  BY <1>6, <1>7, <1>8, <1>9, <1>10, UnaskedStep

-----------------------------------------------------------------------------
(* The steps of the terminal. *)

LEMMA TypesStep ==
    ASSUME ChatAssumption, ChatInv, NEW kind \in {"turn", "stop"}, Types(kind)
    PROVE  ChatInv'
<1>1. ChatTypes /\ Numbered /\ LinesAreTyped /\ EventIsSet /\ InOnePlace /\ AllShown /\ OneAtATime /\ DisplayEnds
  BY DEF ChatInv
<1>2. PICK t \in Turns : /\ turns[t] = "none" /\ turns' = [turns EXCEPT ![t] = "typed"]
                         /\ inbound' = Append(inbound, Packet(kind, t, 0))
  <2> DEFINE T == {u \in Turns : turns[u] = "none"}
             F(u) == turns[u] = "none" /\ \A v \in Turns : v < u => turns[v] # "none"
  <2>1. T \subseteq Nat /\ T # {} /\ \A u \in Turns : u \in Nat
    BY DEF Types, Turns
  <2>2. PICK u \in T : \A v \in T : u <= v
    BY <2>1, NatLeast
  <2>3. \A v \in Turns : v < u => turns[v] # "none"
    BY <2>1, <2>2
  <2>4. \E w \in Turns : F(w)
    BY <2>2, <2>3
  <2> DEFINE t == CHOOSE w \in Turns : F(w)
  <2>5. t \in Turns /\ F(t)
    BY <2>4
  <2>6. turns' = [turns EXCEPT ![t] = "typed"] /\ inbound' = Append(inbound, Packet(kind, t, 0))
    BY DEF Types
  <2>7. QED
    BY <2>5, <2>6
<1>3. /\ prompt = "reading" /\ prompt' = "waiting" /\ turn_done' = FALSE /\ turn_response' = <<>> /\ renderer' = Fresh
      /\ UNCHANGED <<parts, sent, outbound, background, printed, upset>>
  BY DEF Types
<1>4. inbound \in Seq(Lines) /\ turns \in [Turns -> States]
  BY <1>1 DEF ChatTypes
<1>5. turns'[t] = "typed" /\ (\A u \in Turns : u # t => turns'[u] = turns[u]) /\ turns' \in [Turns -> States]
  BY <1>2, <1>4 DEF States
<1>6. Packet(kind, t, 0) \in Lines /\ Packet(kind, t, 0).turn = t
  BY DEF Packet, Lines
<1>7. /\ inbound' \in Seq(Lines) /\ Len(inbound') = Len(inbound) + 1
      /\ \A i \in DOMAIN inbound : i \in DOMAIN inbound' /\ inbound'[i] = inbound[i]
      /\ inbound'[Len(inbound')].turn = t
      /\ \A i \in DOMAIN inbound' : i \in DOMAIN inbound \/ i = Len(inbound')
  BY <1>2, <1>4, <1>6, Appended
<1>8. \A i \in DOMAIN inbound : inbound[i].turn \in Turns /\ inbound[i].turn # t
  <2>1. \A i \in DOMAIN inbound : inbound[i] \in Lines
    BY <1>4, ElementOfSeq, LenProperties
  <2>2. QED
    BY <1>1, <1>2, <2>1 DEF Lines, LinesAreTyped
<1>9. ChatTypes'
  <2>1. renderer' \in [streamed : BOOLEAN, live : BOOLEAN, spins : BOOLEAN]
    BY <1>3 DEF Fresh
  <2>2. turn_response' \in Seq(Ids) /\ Len(turn_response') = 0
    BY <1>3, NothingIn
  <2>3. Len(turn_response') <= 1 /\ prompt' \in {"reading", "waiting", "exited"}
    BY <1>3, <2>2
  <2>4. turn_done' \in BOOLEAN
    BY <1>3
  <2>5. QED
    BY <1>1, <1>3, <1>5, <1>7, <2>1, <2>2, <2>3, <2>4 DEF ChatTypes
<1>10. Numbered'
  <2>1. \A u \in Turns : turns[u] \in {"done", "cancelled"} => turns'[u] \in {"done", "cancelled"}
    BY <1>2, <1>5
  <2>2. QED
    BY <1>1, <1>3, <2>1 DEF Numbered
<1>11. LinesAreTyped'
  <2>1. \A i \in DOMAIN inbound' : turns'[inbound'[i].turn] = "typed"
    BY <1>1, <1>5, <1>7, <1>8 DEF LinesAreTyped
  <2>2. ASSUME NEW i \in DOMAIN inbound', NEW j \in DOMAIN inbound', inbound'[i].turn = inbound'[j].turn
        PROVE  i = j
    <3>1. CASE i \in DOMAIN inbound /\ j \in DOMAIN inbound
      BY <1>1, <1>7, <2>2, <3>1 DEF LinesAreTyped
    <3>2. CASE i \notin DOMAIN inbound \/ j \notin DOMAIN inbound
      BY <1>7, <1>8, <2>2, <3>2
    <3>3. QED
      BY <3>1, <3>2
  <2>3. QED
    BY <2>1, <2>2 DEF LinesAreTyped
<1>12. EventIsSet'
  BY <1>3 DEF EventIsSet
<1>13. Pending = {} /\ Pending' = {}
  BY <1>3, NothingIn DEF Pending
<1>14. InOnePlace'
  BY <1>1, <1>3, <1>13 DEF InOnePlace
<1>15. AllShown'
  BY <1>1, <1>3, <1>13 DEF AllShown
<1>16. ASSUME ~ upset'.unasked
       PROVE  Asked' /\ outbound' = <<>> /\ \A u \in Turns : ~ Finished(u)'
  <2>1. AllQuiet
    BY <1>1, <1>3, <1>16 DEF OneAtATime
  <2>2. Len(inbound') = 1 /\ outbound' = <<>>
    BY <1>3, <1>7, <2>1, NothingIn DEF AllQuiet
  <2>3. Alone(t)'
    BY <1>5, <2>1 DEF AllQuiet, Alone, Quiet
  <2>4. \A u \in Turns : ~ Finished(u)'
    BY <1>5, <2>3 DEF Alone, Quiet, Finished
  <2>5. QED
    BY <1>3, <1>5, <2>2, <2>3, <2>4 DEF Asked
<1>17. OneAtATime'
  BY <1>3, <1>16 DEF OneAtATime
<1>18. DisplayEnds'
  BY <1>3, <1>16 DEF DisplayEnds
<1>19. QED
  BY <1>9, <1>10, <1>11, <1>12, <1>14, <1>15, <1>17, <1>18 DEF ChatInv

LEMMA ReturnsStep ==
    ASSUME ChatAssumption, ChatInv, Returns
    PROVE  ChatInv'
<1>1. ChatTypes /\ Numbered /\ LinesAreTyped /\ EventIsSet /\ InOnePlace /\ AllShown /\ OneAtATime /\ DisplayEnds
  BY DEF ChatInv
<1>2. /\ prompt = "waiting" /\ turn_done /\ prompt' = "reading"
      /\ UNCHANGED <<turn_done, turn_response, outbound, inbound, turns, parts, sent, background, upset>>
      /\ IF turn_response # <<>>
         THEN renderer' = Closed /\ printed' = Append(printed, Head(turn_response))
         ELSE /\ renderer' = IF renderer.streamed THEN renderer ELSE Closed
              /\ UNCHANGED printed
  BY DEF Returns, terminalOnly
<1>3. /\ renderer \in [streamed : BOOLEAN, live : BOOLEAN, spins : BOOLEAN] /\ printed \in Seq(Ids)
  BY <1>1 DEF ChatTypes
<1>4. Closed \in [streamed : BOOLEAN, live : BOOLEAN, spins : BOOLEAN] /\ ~ Closed.spins /\ ~ Closed.live
  BY <1>3 DEF Closed
<1>5. renderer' \in [streamed : BOOLEAN, live : BOOLEAN, spins : BOOLEAN] /\ (renderer' = renderer \/ renderer' = Closed)
  BY <1>2, <1>3, <1>4
<1>6. /\ Pending' = {} /\ printed' \in Seq(Ids) /\ Range(printed') = Range(printed) \cup Pending /\ IsInjective(printed')
  <2>1. Pending' = {} /\ Pending = Range(turn_response)
    BY <1>2 DEF Pending
  <2>2. CASE turn_response = <<>>
    BY <1>1, <1>2, <1>3, <2>1, <2>2, NothingIn DEF InOnePlace
  <2>3. CASE turn_response # <<>>
    <3>1. PICK h \in Ids : Pending = {h} /\ printed' = Append(printed, h)
      BY <1>1, <1>2, <2>1, <2>3, OneText
    <3>2. /\ printed' \in Seq(Ids)
          /\ \A i \in DOMAIN printed : i \in DOMAIN printed' /\ printed'[i] = printed[i]
          /\ Len(printed') \in DOMAIN printed' /\ printed'[Len(printed')] = h
          /\ \A i \in DOMAIN printed' : i \in DOMAIN printed \/ i = Len(printed')
      BY <1>3, <3>1, Appended
    <3>6. Range(printed') = Range(printed) \cup {h}
      BY <3>2 DEF Range
    <3>3. h \notin Range(printed) /\ IsInjective(printed)
      BY <1>1, <3>1 DEF InOnePlace
    <3>4. \A i \in DOMAIN printed : printed[i] # h
      BY <3>3 DEF Range
    <3>5. IsInjective(printed')
      BY <3>2, <3>3, <3>4 DEF IsInjective
    <3>7. QED
      BY <2>1, <3>1, <3>2, <3>5, <3>6
  <2>4. QED
    BY <2>2, <2>3
<1>7. ChatTypes'
  BY <1>1, <1>2, <1>5, <1>6 DEF ChatTypes
<1>8. Numbered' /\ LinesAreTyped' /\ EventIsSet'
  BY <1>1, <1>2 DEF Numbered, LinesAreTyped, EventIsSet
<1>9. InOnePlace'
  BY <1>1, <1>2, <1>6 DEF InOnePlace
<1>10. AllShown'
  BY <1>1, <1>2, <1>6 DEF AllShown
<1>11. ASSUME ~ upset'.unasked
       PROVE  AllQuiet
  BY <1>1, <1>2, <1>11 DEF OneAtATime, Asked, Worked, Answered
<1>12. OneAtATime'
  BY <1>2, <1>11 DEF OneAtATime, AllQuiet, Quiet
<1>13. DisplayEnds'
  <2>1. ASSUME ~ upset.unasked, ~ upset.unended
        PROVE  Still'
    <3>1. turn_response # <<>> \/ Still
      BY <1>1, <1>2, <2>1 DEF DisplayEnds
    <3>2. CASE renderer' = Closed
      BY <1>4, <3>2 DEF Still
    <3>3. CASE renderer' = renderer /\ Still
      BY <3>3 DEF Still
    <3>4. QED
      BY <1>2, <1>5, <3>1, <3>2, <3>3
  <2>2. QED
    BY <1>2, <2>1 DEF DisplayEnds
<1>14. QED
  BY <1>7, <1>8, <1>9, <1>10, <1>12, <1>13 DEF ChatInv

LEMMA ExitsStep ==
    ASSUME ChatAssumption, ChatInv, Exits
    PROVE  ChatInv'
<1>1. ChatTypes /\ Numbered /\ EventIsSet /\ InOnePlace
  BY DEF ChatInv
<1>2. /\ prompt' = "exited" /\ inbound' = <<>> /\ outbound' = <<>>
      /\ turns' = [t \in Turns |-> IF turns[t] = "none" THEN "none" ELSE "cancelled"]
      /\ UNCHANGED <<turn_done, turn_response, renderer, parts, sent, background, printed, upset>>
  BY DEF Exits
<1>3. turns' \in [Turns -> States] /\ \A t \in Turns : turns[t] \in {"done", "cancelled"} => turns'[t] \in {"done", "cancelled"}
  BY <1>2 DEF States
<1>4. ChatTypes'
  BY <1>1, <1>2, <1>3, NothingIn DEF ChatTypes
<1>5. Numbered'
  BY <1>1, <1>2, <1>3 DEF Numbered
<1>6. LinesAreTyped' /\ EventIsSet'
  BY <1>1, <1>2, NothingIn DEF LinesAreTyped, EventIsSet
<1>7. InOnePlace'
  <2>1. Pending' = {} /\ DOMAIN outbound' = {}
    BY <1>2, NothingIn DEF Pending
  <2>2. QED
    BY <1>1, <1>2, <2>1 DEF InOnePlace
<1>8. AllShown' /\ OneAtATime' /\ DisplayEnds'
  BY <1>2 DEF AllShown, OneAtATime, DisplayEnds
<1>9. QED
  BY <1>4, <1>5, <1>6, <1>7, <1>8 DEF ChatInv

\* What the terminal consumes has no content, or is printed, or kept for the prompt.
LEMMA ConsumedPlaces ==
    ASSUME ChatTypes, InOnePlace, AllShown, outbound # <<>>, outbound' = Tail(outbound), prompt' = prompt, sent' = sent,
           IsInjective(printed'), Range(printed') \cap Pending' = {},
           Range(printed') \cup Pending' =
               IF HasContent(Head(outbound)) THEN Range(printed) \cup Pending \cup {Id(Head(outbound))}
               ELSE Range(printed) \cup Pending
    PROVE  InOnePlace' /\ AllShown'
<1> DEFINE m == Head(outbound)
<1>1. outbound \in Seq(Packets)
  BY DEF ChatTypes
<1>2. /\ m = outbound[1] /\ 1 \in DOMAIN outbound
      /\ \A i \in DOMAIN outbound' : i + 1 \in DOMAIN outbound /\ outbound'[i] = outbound[i + 1]
      /\ \A i \in DOMAIN outbound : i # 1 => i - 1 \in DOMAIN outbound' /\ outbound'[i - 1] = outbound[i]
      /\ DOMAIN outbound' = 1..Len(outbound')
  BY <1>1, Shortened
<1>3. \A i \in DOMAIN outbound' : i \in Nat /\ i # 0
  BY <1>2
<1> HIDE DEF m
<1>4. HasContent(m) => Id(m) \in sent
  BY <1>2 DEF InOnePlace
<1>5. ASSUME NEW i \in DOMAIN outbound', HasContent(outbound'[i])
      PROVE  /\ Id(outbound'[i]) \in sent' \ (Range(printed') \cup Pending')
             /\ \A j \in DOMAIN outbound' : HasContent(outbound'[j]) /\ Id(outbound'[i]) = Id(outbound'[j]) => i = j
  <2>1. i + 1 \in DOMAIN outbound /\ outbound'[i] = outbound[i + 1] /\ i + 1 # 1 /\ HasContent(outbound[i + 1])
    BY <1>2, <1>3, <1>5
  <2>2. Id(outbound[i + 1]) \in sent \ (Range(printed) \cup Pending)
    BY <2>1 DEF InOnePlace
  <2>3. HasContent(m) => Id(outbound[i + 1]) # Id(m)
    BY <1>2, <2>1 DEF InOnePlace
  <2>4. Id(outbound'[i]) \in sent' \ (Range(printed') \cup Pending')
    BY <2>1, <2>2, <2>3 DEF m
  <2>5. ASSUME NEW j \in DOMAIN outbound', HasContent(outbound'[j]), Id(outbound'[i]) = Id(outbound'[j])
        PROVE  i = j
    <3>1. j + 1 \in DOMAIN outbound /\ outbound'[j] = outbound[j + 1]
      BY <1>2, <2>5
    <3>2. i + 1 = j + 1
      BY <2>1, <2>5, <3>1 DEF InOnePlace
    <3>3. QED
      BY <1>3, <3>2
  <2>6. QED
    BY <2>4, <2>5
<1>6. InOnePlace'
  <2>1. Range(printed') \subseteq sent' /\ Pending' \subseteq sent'
    BY <1>4 DEF InOnePlace, m
  <2>2. QED
    BY <1>5, <2>1 DEF InOnePlace
<1>7. AllShown'
  <2>1. SUFFICES ASSUME prompt # "exited", NEW id \in sent \ OwnAnswers
                 PROVE  \/ id \in Range(printed') \cup Pending'
                        \/ \E k \in DOMAIN outbound' : Id(outbound'[k]) = id /\ HasContent(outbound'[k])
    BY DEF AllShown
  <2>2. CASE id \in Range(printed) \cup Pending
    BY <2>2
  <2>3. CASE \E k \in DOMAIN outbound : Id(outbound[k]) = id /\ HasContent(outbound[k])
    <3>1. PICK k \in DOMAIN outbound : Id(outbound[k]) = id /\ HasContent(outbound[k])
      BY <2>3
    <3>2. CASE k = 1
      BY <1>2, <3>1, <3>2 DEF m
    <3>3. CASE k # 1
      BY <1>2, <3>1, <3>3
    <3>4. QED
      BY <3>2, <3>3
  <2>4. QED
    BY <2>1, <2>2, <2>3 DEF AllShown
<1>8. QED
  BY <1>6, <1>7

\* What the terminal does with a message, by its kind.
LEMMA ConsumesFacts ==
    ASSUME ChatTypes, EventIsSet, InOnePlace, Consumes
    PROVE  LET m == Head(outbound)
           IN  /\ m = outbound[1] /\ m \in Packets /\ outbound # <<>> /\ outbound' = Tail(outbound) /\ prompt # "exited"
               /\ UNCHANGED <<prompt, inbound, turns, parts, sent, background, upset>>
               /\ turn_done' \in BOOLEAN /\ (turn_done => turn_done')
               /\ renderer' \in [streamed : BOOLEAN, live : BOOLEAN, spins : BOOLEAN]
               /\ turn_response' \in Seq(Ids) /\ Len(turn_response') <= 1 /\ printed' \in Seq(Ids)
               /\ ~ Ending(m) => UNCHANGED turn_done
               /\ Ending(m) => UNCHANGED renderer /\ turn_done'
               /\ m.kind = "end" => Still'
               /\ m.kind = "plain" /\ ~ turn_done => turn_response' # <<>>
               /\ IsInjective(printed') /\ Range(printed') \cap Pending' = {}
               /\ Range(printed') \cup Pending' =
                      IF HasContent(m) THEN Range(printed) \cup Pending \cup {Id(m)} ELSE Range(printed) \cup Pending
<1>1. PICK m : m = Head(outbound)
  OBVIOUS
<1>2. /\ outbound \in Seq(Packets) /\ turn_done \in BOOLEAN /\ turn_response \in Seq(Ids) /\ Len(turn_response) <= 1
      /\ printed \in Seq(Ids) /\ renderer \in [streamed : BOOLEAN, live : BOOLEAN, spins : BOOLEAN]
      /\ prompt \in {"reading", "waiting", "exited"}
  BY DEF ChatTypes
<1>3. /\ prompt # "exited" /\ outbound # <<>> /\ outbound' = Tail(outbound)
      /\ UNCHANGED <<prompt, inbound, turns, parts, sent, background, upset>>
  BY DEF Consumes, terminalOnly
<1>4. m = outbound[1] /\ m \in Packets /\ 1 \in DOMAIN outbound
  BY <1>1, <1>2, <1>3, Shortened
<1>5. \/ m.kind = "delta" /\ OnDelta /\ UNCHANGED <<turn_done, turn_response, printed>>
      \/ m.kind \in {"end", "resume"} /\ OnEnd(m.kind = "resume") /\ UNCHANGED <<turn_done, turn_response, printed>>
      \/ m.kind = "streamed" /\ turn_done' = TRUE /\ UNCHANGED <<turn_response, renderer, printed>>
      \/ m.kind = "progress" /\ UNCHANGED <<turn_done, turn_response, renderer, printed>>
      \/ m.kind \in {"plain", "empty"} /\ TakesPlain(m) /\ UNCHANGED renderer
  BY <1>1 DEF Consumes
<1>6. IsInjective(printed) /\ Range(printed) \cap Pending = {}
  BY DEF InOnePlace
<1>7. CASE m.kind \in {"delta", "end", "resume", "progress", "streamed"}
  <2>1. UNCHANGED <<turn_response, printed>> /\ ~ HasContent(m)
    BY <1>5, <1>7 DEF HasContent
  <2>2. Pending' = Pending
    BY <1>3, <2>1, PendingStays
  <2>3. renderer' \in [streamed : BOOLEAN, live : BOOLEAN, spins : BOOLEAN] /\ (m.kind = "end" => Still')
    <3>1. CASE m.kind = "delta"
      <4>1. renderer' = [streamed |-> TRUE, live |-> TRUE, spins |-> FALSE]
        BY <1>5, <3>1 DEF OnDelta
      <4>2. QED
        BY <3>1, <4>1
    <3>2. CASE m.kind \in {"end", "resume"}
      <4>1. PICK b \in BOOLEAN : b = (m.kind = "resume")
        OBVIOUS
      <4>2. renderer' = [renderer EXCEPT !.live = FALSE, !.spins = b]
        BY <1>5, <3>2, <4>1 DEF OnEnd
      <4>3. m.kind = "end" => b = FALSE
        BY <4>1
      <4>4. QED
        BY <1>2, <4>2, <4>3 DEF Still
    <3>3. CASE m.kind \in {"progress", "streamed"}
      BY <1>2, <1>5, <3>3
    <3>4. QED
      BY <1>7, <3>1, <3>2, <3>3
  <2>4. CASE m.kind = "streamed"
    <3>1. turn_done' = TRUE /\ UNCHANGED renderer /\ Ending(m) /\ m.kind # "plain"
      BY <1>5, <2>4 DEF Ending
    <3>2. turn_done' \in BOOLEAN
      BY <3>1
    <3>3. QED
      BY <1>1, <1>2, <1>3, <1>4, <1>6, <2>1, <2>2, <2>3, <3>1, <3>2
  <2>5. CASE m.kind # "streamed"
    <3>1. turn_done' = turn_done /\ ~ Ending(m) /\ m.kind # "plain"
      BY <1>5, <1>7, <2>5 DEF Ending
    <3>2. QED
      BY <1>1, <1>2, <1>3, <1>4, <1>6, <2>1, <2>2, <2>3, <3>1
  <2>6. QED
    BY <2>4, <2>5
<1>8. CASE m.kind \in {"plain", "empty"}
  <2>1. TakesPlain(m) /\ UNCHANGED renderer /\ Ending(m) /\ m.kind # "end"
    BY <1>5, <1>8 DEF Ending
  <2>2. Id(m) \in Ids
    BY <1>4 DEF Id, Ids, Packets
  <2>3. HasContent(m) => Id(m) \notin Range(printed) \cup Pending
    BY <1>4 DEF InOnePlace
  <2>4. CASE ~ turn_done
    <3>1. /\ prompt = "waiting" /\ turn_response = <<>> /\ Pending = {}
      BY <1>2, <1>3, <2>4, NothingIn DEF EventIsSet, Pending
    <3>2. /\ turn_response' = IF HasContent(m) THEN Append(turn_response, Id(m)) ELSE turn_response
          /\ turn_done' = TRUE /\ printed' = printed
      BY <2>1, <2>4 DEF TakesPlain
    <3>3. turn_done' \in BOOLEAN /\ turn_done'
      BY <3>2
    <3>4. CASE HasContent(m)
      <4>1. turn_response' = Append(turn_response, Id(m))
        BY <3>2, <3>4
      <4>2. /\ turn_response' \in Seq(Ids) /\ turn_response' # <<>> /\ Len(turn_response') = Len(turn_response) + 1
            /\ \A i \in DOMAIN turn_response' : i \in DOMAIN turn_response \/ i = Len(turn_response')
            /\ Len(turn_response') \in DOMAIN turn_response' /\ turn_response'[Len(turn_response')] = Id(m)
        BY <1>2, <2>2, <4>1, Appended
      <4>3. Len(turn_response) = 0 /\ DOMAIN turn_response = {}
        BY <3>1, NothingIn
      <4>4. Len(turn_response') <= 1
        BY <4>2, <4>3
      <4>5. Range(turn_response') = {Id(m)}
        BY <4>2, <4>3 DEF Range
      <4>6. Pending' = {Id(m)}
        BY <1>3, <3>1, <4>5 DEF Pending
      <4>7. Range(printed') \cap Pending' = {} /\ Range(printed') \cup Pending' = Range(printed) \cup Pending \cup {Id(m)}
        BY <2>3, <3>1, <3>2, <3>4, <4>6
      <4>8. IsInjective(printed')
        BY <1>6, <3>2
      <4>9. QED
        BY <1>1, <1>2, <1>3, <1>4, <2>1, <3>2, <3>3, <3>4, <4>2, <4>4, <4>7, <4>8
    <3>5. CASE ~ HasContent(m)
      <4>1. UNCHANGED <<turn_response, printed>> /\ m.kind # "plain"
        BY <3>2, <3>5 DEF HasContent
      <4>2. Pending' = Pending
        BY <1>3, <4>1, PendingStays
      <4>3. QED
        BY <1>1, <1>2, <1>3, <1>4, <1>6, <2>1, <3>3, <3>5, <4>1, <4>2
    <3>6. QED
      BY <3>4, <3>5
  <2>5. CASE turn_done
    <3>1. /\ printed' = IF HasContent(m) THEN Append(printed, Id(m)) ELSE printed
          /\ turn_response' = turn_response /\ turn_done' = turn_done
      BY <2>1, <2>5 DEF TakesPlain
    <3>2. Pending' = Pending /\ turn_done' \in BOOLEAN /\ turn_done'
      BY <1>2, <1>3, <2>5, <3>1, PendingStays
    <3>3. CASE HasContent(m)
      <4>1. printed' = Append(printed, Id(m))
        BY <3>1, <3>3
      <4>2. /\ printed' \in Seq(Ids)
            /\ \A i \in DOMAIN printed : i \in DOMAIN printed' /\ printed'[i] = printed[i]
            /\ \A i \in DOMAIN printed' : i \in DOMAIN printed \/ i = Len(printed')
            /\ Len(printed') \in DOMAIN printed' /\ printed'[Len(printed')] = Id(m)
        BY <1>2, <2>2, <4>1, Appended
      <4>3. Range(printed') = Range(printed) \cup {Id(m)}
        BY <4>2 DEF Range
      <4>4. \A i \in DOMAIN printed : printed[i] # Id(m)
        BY <2>3, <3>3 DEF Range
      <4>5. IsInjective(printed')
        BY <1>6, <4>2, <4>4 DEF IsInjective
      <4>6. Range(printed') \cap Pending' = {} /\ Range(printed') \cup Pending' = Range(printed) \cup Pending \cup {Id(m)}
        BY <1>6, <2>3, <3>2, <3>3, <4>3
      <4>7. QED
        BY <1>1, <1>2, <1>3, <1>4, <2>1, <2>5, <3>1, <3>2, <3>3, <4>2, <4>5, <4>6
    <3>4. CASE ~ HasContent(m)
      <4>1. printed' = printed
        BY <3>1, <3>4
      <4>2. QED
        BY <1>1, <1>2, <1>3, <1>4, <1>6, <2>1, <2>5, <3>1, <3>2, <3>4, <4>1
    <3>5. QED
      BY <3>3, <3>4
  <2>6. QED
    BY <1>2, <2>4, <2>5
<1>9. m.kind \in {"delta", "end", "resume", "progress", "streamed", "plain", "empty"}
  BY <1>4 DEF Packets, Kinds
<1>10. QED
  BY <1>7, <1>8, <1>9

\* The display rests after k messages: after k - 1 when the terminal has consumed one.
LEMMA StillShifts ==
    ASSUME ChatTypes, outbound # <<>>, outbound' = Tail(outbound), NEW k \in 1..Len(outbound), StillAfter(k),
           Head(outbound).kind = "end" => Still'
    PROVE  StillAfter(k - 1)'
<1>1. /\ outbound \in Seq(Packets) /\ Head(outbound) = outbound[1] /\ Len(outbound) \in Nat
      /\ DOMAIN outbound = 1..Len(outbound)
      /\ \A i \in DOMAIN outbound : i # 1 => outbound'[i - 1] = outbound[i]
  BY Shortened DEF ChatTypes
<1>2. k # 0 /\ outbound[k].kind = "end"
  BY <1>1 DEF StillAfter
<1>3. CASE k = 1
  BY <1>1, <1>2, <1>3 DEF StillAfter
<1>4. CASE k # 1
  <2>1. k - 1 # 0 /\ outbound'[k - 1] = outbound[k]
    BY <1>1, <1>4
  <2>2. QED
    BY <1>2, <2>1 DEF StillAfter
<1>5. QED
  BY <1>3, <1>4

LEMMA ConsumesStep ==
    ASSUME ChatAssumption, ChatInv, Consumes
    PROVE  ChatInv'
<1>1. ChatTypes /\ Numbered /\ LinesAreTyped /\ EventIsSet /\ InOnePlace /\ AllShown /\ OneAtATime /\ DisplayEnds
  BY DEF ChatInv
<1>2. PICK m : m = Head(outbound)
  OBVIOUS
<1>3. /\ m = outbound[1] /\ m \in Packets /\ outbound # <<>> /\ outbound' = Tail(outbound) /\ prompt # "exited"
      /\ UNCHANGED <<prompt, inbound, turns, parts, sent, background, upset>>
      /\ turn_done' \in BOOLEAN /\ (turn_done => turn_done')
      /\ renderer' \in [streamed : BOOLEAN, live : BOOLEAN, spins : BOOLEAN]
      /\ turn_response' \in Seq(Ids) /\ Len(turn_response') <= 1 /\ printed' \in Seq(Ids)
      /\ ~ Ending(m) => UNCHANGED turn_done
      /\ Ending(m) => UNCHANGED renderer /\ turn_done'
      /\ m.kind = "end" => Still'
      /\ m.kind = "plain" /\ ~ turn_done => turn_response' # <<>>
      /\ IsInjective(printed') /\ Range(printed') \cap Pending' = {}
      /\ Range(printed') \cup Pending' =
             IF HasContent(m) THEN Range(printed) \cup Pending \cup {Id(m)} ELSE Range(printed) \cup Pending
  BY <1>1, <1>2, ConsumesFacts
<1>4. InOnePlace' /\ AllShown'
  BY <1>1, <1>2, <1>3, ConsumedPlaces
<1>5. /\ outbound \in Seq(Packets) /\ outbound' \in Seq(Packets) /\ Len(outbound) \in Nat /\ Len(outbound) >= 1
      /\ Len(outbound') = Len(outbound) - 1 /\ (outbound' = <<>> <=> Len(outbound) = 1)
      /\ DOMAIN outbound = 1..Len(outbound) /\ DOMAIN outbound' = 1..Len(outbound') /\ 1 \in DOMAIN outbound
      /\ \A i \in DOMAIN outbound' : i + 1 \in DOMAIN outbound /\ outbound'[i] = outbound[i + 1]
      /\ \A i \in DOMAIN outbound : i # 1 => i - 1 \in DOMAIN outbound' /\ outbound'[i - 1] = outbound[i]
  <2>1. outbound \in Seq(Packets) /\ outbound # <<>> /\ outbound' = Tail(outbound)
    BY <1>1, <1>3 DEF ChatTypes
  <2>2. /\ outbound' \in Seq(Packets) /\ Len(outbound) \in Nat /\ Len(outbound) >= 1
        /\ Len(outbound') = Len(outbound) - 1
        /\ DOMAIN outbound = 1..Len(outbound) /\ DOMAIN outbound' = 1..Len(outbound') /\ 1 \in DOMAIN outbound
    BY <2>1, Shortened
  <2>3. outbound' = <<>> <=> Len(outbound) = 1
    BY <2>2, EmptySeq
  <2>4. /\ \A i \in DOMAIN outbound' : i + 1 \in DOMAIN outbound /\ outbound'[i] = outbound[i + 1]
        /\ \A i \in DOMAIN outbound : i # 1 => i - 1 \in DOMAIN outbound' /\ outbound'[i - 1] = outbound[i]
    BY <2>1, Shortened
  <2>5. QED
    BY <2>1, <2>2, <2>3, <2>4
<1>6. ChatTypes'
  BY <1>1, <1>3, <1>5 DEF ChatTypes
<1>7. Numbered' /\ LinesAreTyped'
  BY <1>1, <1>3 DEF Numbered, LinesAreTyped
<1>8. EventIsSet'
  <2>1. ASSUME ~ turn_done'
        PROVE  turn_response' = <<>>
    <3>1. ~ turn_done /\ ~ Ending(m)
      BY <1>3, <2>1
    <3>2. UNCHANGED turn_response
      BY <1>2, <3>1 DEF Consumes, Ending
    <3>3. QED
      BY <1>1, <3>1, <3>2 DEF EventIsSet
  <2>2. prompt' = "reading" => turn_done'
    BY <1>1, <1>3 DEF EventIsSet
  <2>3. QED
    BY <2>1, <2>2 DEF EventIsSet
<1>9. ASSUME ~ upset.unasked
      PROVE  prompt = "waiting" /\ (Worked \/ Answered)
  BY <1>1, <1>3, <1>9 DEF OneAtATime, AllQuiet, Asked, ChatTypes
<1>10. ASSUME ~ upset.unasked, Worked
       PROVE  Worked'
  <2>1. ~ Ending(m) /\ turn_done' = turn_done /\ inbound' = inbound /\ turns' = turns
    BY <1>3, <1>5, <1>10 DEF Worked
  <2>2. \A i \in DOMAIN outbound' : ~ Ending(outbound'[i])
    BY <1>5, <1>10 DEF Worked
  <2>3. QED
    BY <1>10, <2>1, <2>2 DEF Worked, Ending, Alone, Quiet
<1>11. ASSUME ~ upset.unasked, Answered, outbound' = <<>>
       PROVE  /\ turn_done' /\ AllQuiet' /\ Ending(m) /\ Len(outbound) = 1
  <2>1. Len(outbound) = 1 /\ Ending(m)
    BY <1>3, <1>5, <1>11 DEF Answered
  <2>2. AllQuiet'
    BY <1>3, <1>11 DEF Answered, AllQuiet, Quiet
  <2>3. QED
    BY <1>3, <2>1, <2>2
<1>12. ASSUME ~ upset.unasked, Answered, outbound' # <<>>
       PROVE  Answered'
  <2>1. Len(outbound) # 1 /\ ~ Ending(m)
    BY <1>3, <1>5, <1>12 DEF Answered
  <2>2. turn_done' = turn_done /\ inbound' = inbound /\ turns' = turns
    BY <1>3, <2>1
  <2>3. \A i \in DOMAIN outbound' : Ending(outbound'[i]) <=> i = Len(outbound')
    <3>1. SUFFICES ASSUME NEW i \in DOMAIN outbound'
                   PROVE  Ending(outbound'[i]) <=> i = Len(outbound')
      OBVIOUS
    <3>2. i + 1 \in DOMAIN outbound /\ outbound'[i] = outbound[i + 1] /\ i \in Nat
      BY <1>5, <3>1
    <3>3. Ending(outbound[i + 1]) <=> i + 1 = Len(outbound)
      BY <1>12, <3>2 DEF Answered
    <3>4. i + 1 = Len(outbound) <=> i = Len(outbound')
      BY <1>5, <3>2
    <3>5. QED
      BY <3>2, <3>3, <3>4
  <2>4. QED
    BY <1>12, <2>2, <2>3 DEF Answered, Quiet, Ending
<1>13. OneAtATime'
  <2>1. SUFFICES ASSUME ~ upset.unasked
                 PROVE  OneAtATime'
    BY <1>3 DEF OneAtATime
  <2>2. prompt' = "waiting" /\ (Worked' \/ Answered' \/ (turn_done' /\ AllQuiet'))
    BY <1>3, <1>9, <1>10, <1>11, <1>12, <2>1
  <2>3. QED
    BY <2>2 DEF OneAtATime
<1>14. DisplayEnds'
  <2>1. SUFFICES ASSUME ~ upset.unasked, ~ upset.unended
                 PROVE  DisplayEnds'
    BY <1>3 DEF DisplayEnds
  <2>2. prompt = "waiting" /\ prompt' = "waiting" /\ (Worked \/ Answered)
    BY <1>3, <1>9, <2>1
  <2>3. /\ (\E t \in Turns : Finished(t)) => StillAfter(Len(outbound))
        /\ outbound[Len(outbound)].kind \in {"streamed", "empty"} => StillAfter(Len(outbound) - 1)
    BY <1>1, <1>3, <2>1, <2>2 DEF DisplayEnds
  <2>4. (\E t \in Turns : Finished(t)') => StillAfter(Len(outbound))'
    <3>1. SUFFICES ASSUME \E t \in Turns : Finished(t)
                   PROVE  StillAfter(Len(outbound))'
      BY <1>3 DEF Finished
    <3>2. StillAfter(Len(outbound)) /\ Len(outbound) \in 1..Len(outbound) /\ Len(outbound') = Len(outbound) - 1
      BY <1>5, <2>3, <3>1
    <3>3. PICK k \in 1..Len(outbound) : k = Len(outbound) /\ StillAfter(k)
      BY <3>2
    <3>4. StillAfter(k - 1)'
      BY <1>1, <1>2, <1>3, <3>3, StillShifts
    <3>5. QED
      BY <3>2, <3>3, <3>4 DEF StillAfter
  <2>5. outbound' # <<>> /\ outbound'[Len(outbound')].kind \in {"streamed", "empty"}
        => IF Len(outbound') - 1 = 0 THEN Still' ELSE outbound'[Len(outbound') - 1].kind = "end"
    <3>1. SUFFICES ASSUME outbound' # <<>>, outbound'[Len(outbound')].kind \in {"streamed", "empty"}
                   PROVE  IF Len(outbound') - 1 = 0 THEN Still' ELSE outbound'[Len(outbound') - 1].kind = "end"
      OBVIOUS
    <3>2. Len(outbound') \in DOMAIN outbound' /\ Len(outbound') + 1 = Len(outbound) /\ Len(outbound) - 1 \in 1..Len(outbound)
      BY <1>5, <3>1
    <3>3. outbound[Len(outbound)].kind \in {"streamed", "empty"}
      BY <1>5, <3>1, <3>2
    <3>4. PICK k \in 1..Len(outbound) : k = Len(outbound) - 1 /\ StillAfter(k)
      BY <2>3, <3>2, <3>3
    <3>5. StillAfter(k - 1)'
      BY <1>1, <1>2, <1>3, <3>4, StillShifts
    <3>6. k - 1 = Len(outbound') - 1
      BY <1>5, <3>4
    <3>7. QED
      BY <3>5, <3>6 DEF StillAfter
  <2>6. turn_done' => turn_response' # <<>> \/ Still'
    <3>1. SUFFICES ASSUME turn_done'
                   PROVE  turn_response' # <<>> \/ Still'
      OBVIOUS
    <3>2. ~ Worked' /\ ~ Answered'
      BY <3>1 DEF Worked, Answered
    <3>3. Answered /\ outbound' = <<>>
      BY <1>10, <1>12, <2>1, <2>2, <3>2
    <3>4. Ending(m) /\ Len(outbound) = 1 /\ ~ turn_done
      BY <1>11, <2>1, <3>3 DEF Answered
    <3>5. CASE m.kind = "plain"
      BY <1>3, <3>4, <3>5
    <3>6. CASE m.kind \in {"streamed", "empty"}
      <4>1. StillAfter(0)
        BY <1>3, <2>3, <3>4, <3>6
      <4>2. Still /\ renderer' = renderer
        BY <1>3, <3>4, <4>1 DEF StillAfter
      <4>3. QED
        BY <4>2 DEF Still
    <3>7. QED
      BY <3>4, <3>5, <3>6 DEF Ending
  <2>7. QED
    BY <2>2, <2>4, <2>5, <2>6 DEF DisplayEnds, StillAfter
<1>15. QED
  BY <1>4, <1>6, <1>7, <1>8, <1>13, <1>14 DEF ChatInv

LEMMA ChatStutters ==
    ASSUME ChatInv, UNCHANGED chat
    PROVE  ChatInv'
<1>1. UNCHANGED <<prompt, turn_done, turn_response, renderer, inbound, turns, parts, sent, outbound, background, printed, upset>>
  BY DEF chat
<1>2. ChatTypes' /\ Numbered' /\ LinesAreTyped' /\ EventIsSet'
  BY <1>1 DEF ChatInv, ChatTypes, Numbered, LinesAreTyped, EventIsSet
<1>3. Pending' = Pending
  BY <1>1, PendingStays
<1>4. InOnePlace' /\ AllShown'
  BY <1>1, <1>3 DEF ChatInv, InOnePlace, AllShown
<1>5. OneAtATime' /\ DisplayEnds'
  BY <1>1 DEF ChatInv, OneAtATime, DisplayEnds, AllQuiet, Asked, Worked, Answered, Alone, Quiet, Still, StillAfter, Finished
<1>6. QED
  BY <1>2, <1>4, <1>5 DEF ChatInv

\* One step of the agent loop, of the terminal, or of neither.
LEMMA ChatStep ==
    ASSUME ChatAssumption, ChatInv, [ChatNext]_chat
    PROVE  ChatInv'
<1>1. CASE Receive
  BY <1>1, ReceiveStep
<1>2. CASE SubagentAnswers
  BY <1>2, SubagentAnswersStep
<1>3. ASSUME NEW t \in Turns, TurnStep(t)
      PROVE  ChatInv'
  BY <1>3, BeginStep, StreamsStep, CallsToolsStep, ToolSendsStep, ToolsDoneStep, EndsStreamStep,
     RespondsStep, GivesUpStep, FailsStep DEF TurnStep
<1>4. ASSUME NEW kind \in {"turn", "stop"}, Types(kind)
      PROVE  ChatInv'
  BY <1>4, TypesStep
<1>5. CASE Consumes
  BY <1>5, ConsumesStep
<1>6. CASE Returns
  BY <1>6, ReturnsStep
<1>7. CASE Exits
  BY <1>7, ExitsStep
<1>8. CASE UNCHANGED chat
  BY <1>8, ChatStutters
<1>9. QED
  BY <1>1, <1>2, <1>3, <1>4, <1>5, <1>6, <1>7, <1>8 DEF ChatNext

LEMMA TerminalSound ==
    ASSUME ChatAssumption, ChatInv
    PROVE  TerminalIsSound
<1>1. ChatTypes /\ EventIsSet /\ InOnePlace /\ AllShown /\ OneAtATime /\ DisplayEnds
  BY DEF ChatInv
<1>2. ChatTypeOK
  <2>1. \A k \in DOMAIN outbound : outbound[k].turn \in 0..MaxInputs
    <3>1. outbound \in Seq(Packets)
      BY <1>1 DEF ChatTypes
    <3>2. \A k \in DOMAIN outbound : outbound[k] \in Packets
      BY <3>1, ElementOfSeq, LenProperties
    <3>3. QED
      BY <3>2 DEF Packets
  <2>2. QED
    BY <1>1, <2>1 DEF ChatTypeOK, ChatTypes, Ids
<1>3. PrintedOnce
  BY <1>1 DEF PrintedOnce, InOnePlace, AllShown
<1>4. PromptMeansDone
  BY <1>1 DEF PromptMeansDone, OneAtATime, AllQuiet, Quiet
<1>5. SpinnerRests
  BY <1>1 DEF SpinnerRests, DisplayEnds, Still
<1>6. QED
  BY <1>2, <1>3, <1>4, <1>5 DEF TerminalIsSound

-----------------------------------------------------------------------------
(* The onboarding: the inductive invariant. *)

Values == {"absent", "default", "user", "new", "preset", "empty", "recommended"}
Drafts == [section : DOMAIN Sections, values : [Fields -> Values], entered : SUBSET Fields]

OnboardTypes ==
    /\ config_file.kind \in {"ok", "invalid", "removed", "none"} /\ config_file.values \in [Fields -> Values]
    /\ before.kind \in {"ok", "invalid", "removed", "none"}
    /\ before.values \in [Fields -> {"absent", "default", "user"}]
    /\ before.kind = "none" => before = NoFile
    /\ config \in [Fields -> Values] /\ confirmed \subseteq Fields
    /\ phase \in {"start", "confirm", "menu", "ask", "save", "write", "plugins", "rewrite", "done"}
    /\ ending \in {"none", "refused", "overwritten", "saved", "crashed", "discarded", "left"}

\* The values are the user's: exactly those in entered are new, and what the old file had is
\* there or among them.
OfUser(values, entered) ==
    /\ \A f \in Fields : values[f] = "new" <=> f \in entered
    /\ before.kind # "invalid" /\ ending # "overwritten" =>
          \A f \in Fields : Migrated(before)[f] = "user" => values[f] = "user" \/ f \in entered

Outside == {"agent", "provider", "channel", "tools"}
HonestDraft(d, around) ==
    d.entered \subseteq FieldsIn(d.section) /\ OfUser(d.values, d.entered \cup around \cup confirmed)
OneDraft == \E d \in Drafts : drafts = <<d>> /\ d.section \in Outside /\ HonestDraft(d, {})
TwoDrafts ==
    \E c, d \in Drafts : /\ drafts = <<c, d>> /\ c.section = "tools" /\ d.section = "web"
                         /\ HonestDraft(c, {}) /\ HonestDraft(d, c.entered)
DraftsAreHonest ==
    /\ drafts = <<>> \/ OneDraft \/ TwoDrafts
    /\ drafts # <<>> => phase = "menu"

\* Where the configuration is, in the course of the command.
Phases ==
    /\ phase \in {"start", "confirm"} => ending = "none" /\ confirmed = {} /\ config = Defaults
    /\ phase \in {"start", "confirm", "menu", "ask", "save"} => config_file = before
    /\ phase \in {"menu", "ask"} => ending = "none" /\ \A f \in Fields : original[f] # "new"
    /\ phase \in {"save", "write", "plugins", "rewrite"} => ending \in {"none", "overwritten"}
    /\ phase \in {"menu", "ask", "save", "write", "rewrite"} => OfUser(config, confirmed)
    /\ phase = "plugins" => OfUser(config_file.values, confirmed)
    /\ phase = "done" =>
          /\ ending \in {"discarded", "left", "refused"} => config_file = before
          /\ ending = "left" => confirmed = {}
          /\ ending = "saved" => OfUser(config_file.values, confirmed)

OnboardInv == OnboardTypes /\ DraftsAreHonest /\ Phases /\ OnlyDoneCommits
-----------------------------------------------------------------------------
(* Fields and values. *)

LEMMA SectionFacts ==
    /\ DOMAIN Sections = {"agent", "provider", "channel", "tools", "web"}
    /\ Sections["agent"] = {"model", "context"} /\ Sections["provider"] = {"key", "base"}
    /\ Sections["channel"] = {"token"} /\ Sections["tools"] = {"restrict"} /\ Sections["web"] = {"search"}
    /\ DOMAIN Nested = {"tools"} /\ Nested["tools"] = {"web"}
    /\ \A s \in DOMAIN Sections : Inner(s) = IF s = "tools" THEN {"web"} ELSE {}
<1>1. /\ DOMAIN Sections = {"agent", "provider", "channel", "tools", "web"}
      /\ Sections["agent"] = {"model", "context"} /\ Sections["provider"] = {"key", "base"}
      /\ Sections["channel"] = {"token"} /\ Sections["tools"] = {"restrict"} /\ Sections["web"] = {"search"}
  BY DEF Sections
<1>2. DOMAIN Nested = {"tools"} /\ Nested["tools"] = {"web"}
  BY DEF Nested
<1>3. QED
  BY <1>1, <1>2 DEF Inner

LEMMA FieldFacts ==
    /\ Fields = {"model", "context", "key", "base", "token", "restrict", "search"}
    /\ \A s \in DOMAIN Sections : Sections[s] \subseteq FieldsIn(s) /\ FieldsIn(s) \subseteq Fields
    /\ FieldsIn("web") \subseteq FieldsIn("tools")
<1>1. Fields = {"model", "context", "key", "base", "token", "restrict", "search"}
  BY SectionFacts DEF Fields
<1>2. \A s \in DOMAIN Sections : Sections[s] \subseteq FieldsIn(s) /\ FieldsIn(s) \subseteq Fields
  <2>1. SUFFICES ASSUME NEW s \in DOMAIN Sections
                 PROVE  Sections[s] \subseteq FieldsIn(s) /\ FieldsIn(s) \subseteq Fields
    OBVIOUS
  <2>2. \A i \in DOMAIN Sections : Sections[i] \subseteq Fields
    BY DEF Fields
  <2>3. \A i \in Inner(s) : i \in DOMAIN Sections
    BY SectionFacts
  <2>4. QED
    BY <2>2, <2>3 DEF FieldsIn
<1>3. FieldsIn("web") \subseteq FieldsIn("tools")
  <2>1. Inner("web") = {} /\ Inner("tools") = {"web"}
    BY SectionFacts
  <2>2. FieldsIn("web") = Sections["web"]
    BY <2>1 DEF FieldsIn
  <2>3. Sections["web"] \subseteq FieldsIn("tools")
    BY <2>1 DEF FieldsIn
  <2>4. QED
    BY <2>2, <2>3
<1>4. QED
  BY <1>1, <1>2, <1>3

LEMMA DefaultFacts ==
    /\ Defaults \in [Fields -> {"absent", "default", "user"}] /\ Defaults \in [Fields -> Values]
    /\ \A f \in Fields : Defaults[f] # "new" /\ Defaults[f] # "user"
BY DEF Defaults, Values

\* What the command finds: nothing there is new.
LEMMA LoadedFacts ==
    ASSUME OnboardTypes, config_file = before
    PROVE  /\ Migrated(before) \in [Fields -> {"absent", "default", "user"}]
           /\ Loaded(config_file) \in [Fields -> Values] /\ \A f \in Fields : Loaded(config_file)[f] # "new"
           /\ before.kind \notin {"invalid", "removed"} =>
                 \A f \in Fields : Migrated(before)[f] = "user" => Loaded(config_file)[f] = "user"
<1>1. before.values \in [Fields -> {"absent", "default", "user"}]
  BY DEF OnboardTypes
<1>2. Migrated(before) \in [Fields -> {"absent", "default", "user"}]
  <2>1. [before.values EXCEPT !["restrict"] = "user"] \in [Fields -> {"absent", "default", "user"}]
    BY <1>1
  <2>2. QED
    BY <1>1, <2>1 DEF Migrated
<1>3. Migrated(before) \in [Fields -> Values] /\ \A f \in Fields : Migrated(before)[f] # "new"
  BY <1>2 DEF Values
<1>4. Loaded(config_file) \in [Fields -> Values] /\ \A f \in Fields : Loaded(config_file)[f] # "new"
  BY <1>3, DefaultFacts DEF Loaded
<1>5. before.kind \notin {"invalid", "removed"} =>
          \A f \in Fields : Migrated(before)[f] = "user" => Loaded(config_file)[f] = "user"
  <2>1. CASE before.kind = "ok"
    BY <2>1 DEF Loaded
  <2>2. CASE before.kind = "none"
    <3>1. before = NoFile
      BY <2>2 DEF OnboardTypes
    <3>2. NoFile.moved = FALSE /\ NoFile.values = Defaults
      BY DEF NoFile
    <3>3. Migrated(before) = Defaults
      BY <3>1, <3>2 DEF Migrated
    <3>4. QED
      BY <3>3, DefaultFacts
  <2>3. QED
    BY <2>1, <2>2 DEF OnboardTypes
<1>6. QED
  BY <1>2, <1>4, <1>5

LEMMA OnboardStarts ==
    ASSUME OnboardingInit
    PROVE  OnboardInv
<1>1. /\ config_file \in Files \cup {NoFile} /\ before = config_file /\ phase = "start" /\ config = Defaults
      /\ drafts = <<>> /\ confirmed = {} /\ ending = "none"
  BY DEF OnboardingInit
<1>2. /\ config_file.kind \in {"ok", "invalid", "removed", "none"}
      /\ config_file.values \in [Fields -> {"absent", "default", "user"}]
      /\ config_file.kind = "none" => config_file = NoFile
  <2>1. CASE config_file = NoFile
    BY <2>1, DefaultFacts DEF NoFile
  <2>2. CASE config_file \in Files
    <3>1. PICK k \in {"ok", "invalid", "removed"}, m \in BOOLEAN, S \in SUBSET {"context", "base", "token", "restrict"} :
             config_file = [kind |-> k, values |-> [f \in Fields |-> IF f \in S THEN "user" ELSE Defaults[f]], moved |-> m]
      BY <2>2 DEF Files
    <3>2. [f \in Fields |-> IF f \in S THEN "user" ELSE Defaults[f]] \in [Fields -> {"absent", "default", "user"}]
      BY DefaultFacts
    <3>3. QED
      BY <3>1, <3>2
  <2>3. QED
    BY <1>1, <2>1, <2>2
<1>3. config_file.values \in [Fields -> Values] /\ \A f \in Fields : config_file.values[f] # "new"
  BY <1>2 DEF Values
<1>4. OnboardTypes
  BY <1>1, <1>2, <1>3, DefaultFacts DEF OnboardTypes
<1>5. DraftsAreHonest /\ Phases
  BY <1>1 DEF DraftsAreHonest, Phases
<1>6. OnlyDoneCommits
  BY <1>1, <1>3, DefaultFacts DEF OnlyDoneCommits
<1>7. QED
  BY <1>4, <1>5, <1>6 DEF OnboardInv

-----------------------------------------------------------------------------
(* The steps of the command. *)

LEMMA OfUserStays ==
    ASSUME UNCHANGED before, ending' # "overwritten" => ending # "overwritten",
           NEW v, NEW e, OfUser(v, e)
    PROVE  OfUser(v, e)'
BY DEF OfUser

\* Outside the menu there are no drafts.
LEMMA NoDrafts ==
    ASSUME DraftsAreHonest, phase # "menu", UNCHANGED drafts
    PROVE  DraftsAreHonest'
BY DEF DraftsAreHonest

\* load_config: the configuration is that of the file, or the command is refused.
LEMMA LoadsStep ==
    ASSUME OnboardInv, phase \in {"start", "confirm"}, NEW next \in {"menu", "save"}, Loads(next),
           UNCHANGED <<config_file, before, drafts, confirmed>>
    PROVE  OnboardInv'
<1>1. OnboardTypes /\ DraftsAreHonest /\ Phases /\ OnlyDoneCommits
  BY DEF OnboardInv
<1>2. config_file = before /\ ending = "none" /\ confirmed = {} /\ config = Defaults
  BY <1>1 DEF Phases
<1>3. DraftsAreHonest'
  BY <1>1, NoDrafts
<1>4. CASE config_file.kind = "removed"
  <2>1. phase' = "done" /\ ending' = "refused" /\ config' = config
    BY <1>4 DEF Loads, Ends
  <2>2. OnboardTypes'
    BY <1>1, <2>1 DEF OnboardTypes
  <2>3. Phases'
    BY <1>2, <2>1 DEF Phases
  <2>4. OnlyDoneCommits'
    BY <1>1, <2>1 DEF OnlyDoneCommits
  <2>5. QED
    BY <1>3, <2>2, <2>3, <2>4 DEF OnboardInv
<1>5. CASE config_file.kind # "removed"
  <2>1. config' = Loaded(config_file) /\ original' = Loaded(config_file) /\ phase' = next /\ ending' = "none"
    BY <1>2, <1>5 DEF Loads
  <2>2. /\ Loaded(config_file) \in [Fields -> Values] /\ \A f \in Fields : Loaded(config_file)[f] # "new"
        /\ before.kind # "invalid" => \A f \in Fields : Migrated(before)[f] = "user" => Loaded(config_file)[f] = "user"
    BY <1>1, <1>2, <1>5, LoadedFacts
  <2>3. OfUser(config, confirmed)'
    BY <1>2, <2>1, <2>2 DEF OfUser
  <2>4. OnboardTypes'
    BY <1>1, <2>1, <2>2 DEF OnboardTypes
  <2>5. Phases'
    BY <1>2, <2>1, <2>2, <2>3 DEF Phases
  <2>6. OnlyDoneCommits'
    BY <1>1, <2>1, <2>2 DEF OnlyDoneCommits
  <2>7. QED
    BY <1>3, <2>4, <2>5, <2>6 DEF OnboardInv
<1>6. QED
  BY <1>4, <1>5

LEMMA StartsStep ==
    ASSUME OnboardInv, Starts
    PROVE  OnboardInv'
<1>1. OnboardTypes /\ DraftsAreHonest /\ Phases /\ OnlyDoneCommits
  BY DEF OnboardInv
<1>2. phase = "start" /\ UNCHANGED <<config_file, before, drafts, confirmed>>
  BY DEF Starts
<1>3. CASE wizard
  <2>1. Loads("menu")
    BY <1>3 DEF Starts
  <2>2. QED
    BY <1>2, <2>1, LoadsStep
<1>4. CASE ~ wizard
  <2>1. phase' = (IF config_file.kind = "none" THEN "save" ELSE "confirm") /\ UNCHANGED <<config, ending>>
    BY <1>4 DEF Starts
  <2>2. config_file = before /\ ending = "none" /\ confirmed = {} /\ config = Defaults
    BY <1>1, <1>2 DEF Phases
  <2>3. DraftsAreHonest'
    BY <1>1, <1>2, NoDrafts
  <2>4. OnboardTypes' /\ OnlyDoneCommits'
    BY <1>1, <1>2, <2>1 DEF OnboardTypes, OnlyDoneCommits
  <2>5. CASE config_file.kind = "none"
    <3>1. before = NoFile /\ Loaded(config_file) = Defaults
      BY <1>1, <2>2, <2>5 DEF OnboardTypes, Loaded
    <3>2. \A f \in Fields : Migrated(before)[f] = "user" => Defaults[f] = "user"
      BY <1>1, <2>2, <2>5, <3>1, LoadedFacts
    <3>3. OfUser(config, confirmed)'
      BY <1>2, <2>1, <2>2, <3>2, DefaultFacts DEF OfUser
    <3>4. Phases'
      BY <1>2, <2>1, <2>2, <2>5, <3>3 DEF Phases
    <3>5. QED
      BY <2>3, <2>4, <3>4 DEF OnboardInv
  <2>6. CASE config_file.kind # "none"
    <3>1. Phases'
      BY <1>2, <2>1, <2>2, <2>6 DEF Phases
    <3>2. QED
      BY <2>3, <2>4, <3>1 DEF OnboardInv
  <2>7. QED
    BY <2>5, <2>6
<1>5. QED
  BY <1>3, <1>4

LEMMA OverwritesStep ==
    ASSUME OnboardInv, Overwrites
    PROVE  OnboardInv'
<1>1. OnboardTypes /\ DraftsAreHonest /\ Phases /\ OnlyDoneCommits
  BY DEF OnboardInv
<1>2. /\ phase = "confirm" /\ phase' = "save" /\ ending' = "overwritten"
      /\ UNCHANGED <<config_file, before, config, drafts, confirmed>>
  BY DEF Overwrites
<1>3. config_file = before /\ confirmed = {} /\ config = Defaults
  BY <1>1, <1>2 DEF Phases
<1>4. OfUser(config, confirmed)'
  BY <1>2, <1>3, DefaultFacts DEF OfUser
<1>5. Phases'
  BY <1>2, <1>3, <1>4 DEF Phases
<1>6. OnboardTypes' /\ OnlyDoneCommits'
  BY <1>1, <1>2 DEF OnboardTypes, OnlyDoneCommits
<1>7. DraftsAreHonest'
  BY <1>1, <1>2, NoDrafts
<1>8. QED
  BY <1>5, <1>6, <1>7 DEF OnboardInv

LEMMA RefreshesStep ==
    ASSUME OnboardInv, Refreshes
    PROVE  OnboardInv'
BY LoadsStep DEF Refreshes

LEMMA TornFacts ==
    Torn.kind = "invalid" /\ Torn.values = Defaults
BY DEF Torn

LEMMA EmptiesStep ==
    ASSUME OnboardInv, Empties
    PROVE  OnboardInv'
<1>1. OnboardTypes /\ DraftsAreHonest /\ Phases /\ OnlyDoneCommits
  BY DEF OnboardInv
<1>2. /\ phase = "save" /\ config_file' = Torn /\ phase' = "write"
      /\ UNCHANGED <<before, config, drafts, confirmed, ending>>
  BY DEF Empties
<1>3. OfUser(config, confirmed) /\ ending \in {"none", "overwritten"}
  BY <1>1, <1>2 DEF Phases
<1>4. OfUser(config, confirmed)'
  BY <1>2, <1>3 DEF OfUser
<1>5. Phases'
  BY <1>2, <1>3, <1>4 DEF Phases
<1>6. OnboardTypes' /\ OnlyDoneCommits'
  BY <1>1, <1>2, TornFacts, DefaultFacts DEF OnboardTypes, OnlyDoneCommits
<1>7. DraftsAreHonest'
  BY <1>1, <1>2, NoDrafts
<1>8. QED
  BY <1>5, <1>6, <1>7 DEF OnboardInv

LEMMA SavedFacts ==
    ASSUME NEW v
    PROVE  Saved(v).kind = "ok" /\ Saved(v).values = v
BY DEF Saved

LEMMA WritesStep ==
    ASSUME OnboardInv, Writes
    PROVE  OnboardInv'
<1>1. OnboardTypes /\ DraftsAreHonest /\ Phases /\ OnlyDoneCommits
  BY DEF OnboardInv
<1>2. /\ phase = "write" /\ config_file' = Saved(config) /\ phase' = "plugins"
      /\ UNCHANGED <<before, config, drafts, confirmed, ending>>
  BY DEF Writes
<1>3. OfUser(config, confirmed) /\ ending \in {"none", "overwritten"}
  BY <1>1, <1>2 DEF Phases
<1>4. config_file'.kind = "ok" /\ config_file'.values = config
  BY <1>2, SavedFacts
<1>5. OfUser(config_file.values, confirmed)'
  BY <1>2, <1>3, <1>4 DEF OfUser
<1>6. Phases'
  BY <1>2, <1>3, <1>5 DEF Phases
<1>7. OnboardTypes' /\ OnlyDoneCommits'
  BY <1>1, <1>2, <1>4 DEF OnboardTypes, OnlyDoneCommits
<1>8. DraftsAreHonest'
  BY <1>1, <1>2, NoDrafts
<1>9. QED
  BY <1>6, <1>7, <1>8 DEF OnboardInv

LEMMA PluginsEmptyStep ==
    ASSUME OnboardInv, PluginsEmpty
    PROVE  OnboardInv'
<1>1. OnboardTypes /\ DraftsAreHonest /\ Phases /\ OnlyDoneCommits
  BY DEF OnboardInv
<1>2. /\ phase = "plugins" /\ config' = MergeMissingDefaults(config_file.values) /\ config_file' = Torn
      /\ phase' = "rewrite" /\ UNCHANGED <<before, drafts, confirmed, ending>>
  BY DEF PluginsEmpty
<1>3. OfUser(config_file.values, confirmed) /\ ending \in {"none", "overwritten"}
  BY <1>1, <1>2 DEF Phases
<1>4. /\ config' \in [Fields -> Values]
      /\ \A f \in Fields : config'[f] = config_file.values[f] \/ (config'[f] = "default" /\ config_file.values[f] \in {"absent", "empty"})
  <2>1. config_file.values \in [Fields -> Values]
    BY <1>1 DEF OnboardTypes
  <2>2. QED
    BY <1>2, <2>1 DEF MergeMissingDefaults, Values
<1>5. OfUser(config, confirmed)'
  BY <1>2, <1>3, <1>4 DEF OfUser
<1>6. Phases'
  BY <1>2, <1>3, <1>5 DEF Phases
<1>7. OnboardTypes'
  BY <1>1, <1>2, <1>4, TornFacts, DefaultFacts DEF OnboardTypes
<1>8. OnlyDoneCommits'
  BY <1>2, <1>3, <1>4, TornFacts, DefaultFacts DEF OnlyDoneCommits, OfUser
<1>9. DraftsAreHonest'
  BY <1>1, <1>2, NoDrafts
<1>10. QED
  BY <1>6, <1>7, <1>8, <1>9 DEF OnboardInv

LEMMA PluginsWriteStep ==
    ASSUME OnboardInv, PluginsWrite
    PROVE  OnboardInv'
<1>1. OnboardTypes /\ DraftsAreHonest /\ Phases /\ OnlyDoneCommits
  BY DEF OnboardInv
<1>2. /\ phase = "rewrite" /\ config_file' = Saved(config) /\ phase' = "done"
      /\ ending' = (IF ending = "none" THEN "saved" ELSE ending)
      /\ UNCHANGED <<before, config, drafts, confirmed>>
  BY DEF PluginsWrite, Ends
<1>3. OfUser(config, confirmed) /\ ending \in {"none", "overwritten"}
  BY <1>1, <1>2 DEF Phases
<1>4. config_file'.kind = "ok" /\ config_file'.values = config
  BY <1>2, SavedFacts
<1>5. OfUser(config_file.values, confirmed)' /\ ending' \in {"saved", "overwritten"}
  BY <1>2, <1>3, <1>4 DEF OfUser
<1>6. Phases'
  BY <1>2, <1>5 DEF Phases
<1>7. OnboardTypes' /\ OnlyDoneCommits'
  BY <1>1, <1>2, <1>4, <1>5 DEF OnboardTypes, OnlyDoneCommits
<1>8. DraftsAreHonest'
  BY <1>1, <1>2, NoDrafts
<1>9. QED
  BY <1>6, <1>7, <1>8 DEF OnboardInv

\* The command is over in another way: nothing is written any more.
LEMMA EndsStep ==
    ASSUME OnboardInv, NEW how \in {"crashed", "discarded", "left"}, Ends(how),
           drafts' = <<>>, UNCHANGED <<config_file, before, config, confirmed>>,
           how \in {"discarded", "left"} => config_file = before, how = "left" => confirmed = {}
    PROVE  OnboardInv'
<1>1. OnboardTypes /\ OnlyDoneCommits
  BY DEF OnboardInv
<1>2. phase' = "done" /\ ending' = how
  BY DEF Ends
<1>3. Phases' /\ DraftsAreHonest'
  BY <1>2 DEF Phases, DraftsAreHonest
<1>4. OnboardTypes' /\ OnlyDoneCommits'
  BY <1>1, <1>2 DEF OnboardTypes, OnlyDoneCommits
<1>5. QED
  BY <1>3, <1>4 DEF OnboardInv

LEMMA CrashStep ==
    ASSUME OnboardInv, Crash
    PROVE  OnboardInv'
BY EndsStep DEF Crash

-----------------------------------------------------------------------------
(* The steps of the wizard. *)

LEMMA ListOne ==
    ASSUME NEW d
    PROVE  <<d>> # <<>> /\ Last(<<d>>) = d /\ Front(<<d>>) = <<>>
<1>1. <<d>> # <<>> /\ Last(<<d>>) = d
  BY DEF Last
<1>2. Front(<<d>>) = <<>>
  BY DEF Front
<1>3. QED
  BY <1>1, <1>2

LEMMA ListTwo ==
    ASSUME NEW c, NEW d
    PROVE  /\ <<c, d>> # <<>> /\ Last(<<c, d>>) = d /\ Front(<<c, d>>) = <<c>>
           /\ Append(<<c>>, d) = <<c, d>> /\ <<c>> \o <<d>> = <<c, d>> /\ <<>> \o <<d>> = <<d>>
<1>1. <<c, d>> # <<>> /\ Last(<<c, d>>) = d
  BY DEF Last
<1>2. /\ <<c, d>> \in Seq({c, d}) /\ Len(<<c, d>>) = 2 /\ <<c, d>>[1] = c /\ <<c, d>>[2] = d
      /\ <<c>> \in Seq({c, d}) /\ Len(<<c>>) = 1 /\ <<c>>[1] = c
      /\ <<d>> \in Seq({c, d}) /\ Len(<<d>>) = 1 /\ <<d>>[1] = d
  OBVIOUS
<1>3. Front(<<c, d>>) = <<c>>
  <2>1. PICK r : r = Front(<<c, d>>)
    OBVIOUS
  <2>2. r = SubSeq(<<c, d>>, 1, 1)
    BY <1>2, <2>1 DEF Front
  <2>3. r \in Seq({c, d}) /\ Len(r) = 1 /\ r[1] = c
    BY <1>2, <2>2
  <2>4. \A i \in 1..Len(r) : r[i] = <<c>>[i]
    BY <1>2, <2>3
  <2>5. r = <<c>>
    BY <1>2, <2>3, <2>4, SeqEqual
  <2>6. QED
    BY <2>1, <2>5
<1>4. Append(<<c>>, d) = <<c, d>>
  <2>1. PICK r : r = Append(<<c>>, d)
    OBVIOUS
  <2>2. r \in Seq({c, d}) /\ Len(r) = 2 /\ r[1] = c /\ r[2] = d
    BY <1>2, <2>1
  <2>3. \A i \in 1..Len(r) : r[i] = <<c, d>>[i]
    BY <1>2, <2>2
  <2>4. r = <<c, d>>
    BY <1>2, <2>2, <2>3, SeqEqual
  <2>5. QED
    BY <2>1, <2>4
<1>5. <<c>> \o <<d>> = <<c, d>>
  <2>1. PICK r : r = <<c>> \o <<d>>
    OBVIOUS
  <2>2. r \in Seq({c, d}) /\ Len(r) = 2 /\ r[1] = c /\ r[2] = d
    BY <1>2, <2>1
  <2>3. \A i \in 1..Len(r) : r[i] = <<c, d>>[i]
    BY <1>2, <2>2
  <2>4. r = <<c, d>>
    BY <1>2, <2>2, <2>3, SeqEqual
  <2>5. QED
    BY <2>1, <2>4
<1>6. <<>> \o <<d>> = <<d>>
  OBVIOUS
<1>7. QED
  BY <1>1, <1>3, <1>4, <1>5, <1>6

\* The wizard at work: the command has not ended, and nothing is written.
LEMMA AtWork ==
    ASSUME OnboardInv, phase = "menu" \/ drafts # <<>>
    PROVE  /\ phase = "menu" /\ ending = "none" /\ config_file = before /\ OfUser(config, confirmed)
           /\ config \in [Fields -> Values] /\ confirmed \subseteq Fields
           /\ drafts = <<>> \/ OneDraft \/ TwoDrafts
BY DEF OnboardInv, DraftsAreHonest, Phases, OnboardTypes

\* A step within the menu.
LEMMA MenuStep ==
    ASSUME OnboardInv, phase = "menu", UNCHANGED <<config_file, before, phase, original, ending>>,
           config' \in [Fields -> Values], confirmed' \subseteq Fields, confirmed \subseteq confirmed',
           OfUser(config, confirmed)', (drafts = <<>> \/ OneDraft \/ TwoDrafts)'
    PROVE  OnboardInv'
<1>1. OnboardTypes /\ Phases /\ OnlyDoneCommits
  BY DEF OnboardInv
<1>2. OnboardTypes'
  BY <1>1 DEF OnboardTypes
<1>3. Phases'
  BY <1>1 DEF Phases
<1>4. DraftsAreHonest'
  BY DEF DraftsAreHonest
<1>5. OnlyDoneCommits'
  BY <1>1 DEF OnlyDoneCommits, OfUser
<1>6. QED
  BY <1>2, <1>3, <1>4, <1>5 DEF OnboardInv

LEMMA HonestStays ==
    ASSUME UNCHANGED <<before, ending, confirmed>>, NEW d, NEW around, HonestDraft(d, around)
    PROVE  HonestDraft(d, around)'
<1>1. OfUser(d.values, d.entered \cup around \cup confirmed)'
  BY OfUserStays DEF HonestDraft
<1>2. QED
  BY <1>1 DEF HonestDraft

LEMMA OpensStep ==
    ASSUME OnboardInv, NEW s \in Outside, Opens(s)
    PROVE  OnboardInv'
<1>0. PICK d : d = [section |-> s, values |-> Model(s, config'), entered |-> {}]
  OBVIOUS
<1>1. /\ phase = "menu" /\ config' = Prepared(s) /\ drafts' = <<d>>
      /\ UNCHANGED <<config_file, before, phase, original, confirmed, ending>>
  BY <1>0 DEF Opens, AtMenu
<1>2. OfUser(config, confirmed) /\ config \in [Fields -> Values] /\ confirmed \subseteq Fields
  BY <1>1, AtWork
<1>3. /\ config' \in [Fields -> Values]
      /\ \A f \in Fields : config'[f] = config[f] \/ (config[f] \notin {"new", "user"} /\ config'[f] \notin {"new", "user"})
  <2>1. /\ [config EXCEPT !["base"] = "preset"] \in [Fields -> Values]
        /\ [config EXCEPT !["token"] = "empty"] \in [Fields -> Values]
    BY <1>2 DEF Values
  <2>2. CASE s = "provider" /\ config["base"] = "default"
    <3>1. config' = [config EXCEPT !["base"] = "preset"]
      BY <1>1, <2>2 DEF Prepared
    <3>2. QED
      BY <1>2, <2>1, <2>2, <3>1
  <2>3. CASE s = "channel" /\ config["token"] = "absent"
    <3>1. config' = [config EXCEPT !["token"] = "empty"]
      BY <1>1, <2>3 DEF Prepared
    <3>2. QED
      BY <1>2, <2>1, <2>3, <3>1
  <2>4. CASE ~ (s = "provider" /\ config["base"] = "default") /\ ~ (s = "channel" /\ config["token"] = "absent")
    <3>1. config' = config
      BY <1>1, <2>4 DEF Prepared
    <3>2. QED
      BY <1>2, <3>1
  <2>5. QED
    BY <2>2, <2>3, <2>4
<1>4. /\ Model(s, config') \in [Fields -> Values]
      /\ \A f \in Fields : Model(s, config')[f] = config[f] \/ (config[f] \notin {"new", "user"} /\ Model(s, config')[f] \notin {"new", "user"})
  <2>1. CASE s = "channel" /\ config'["token"] = "empty"
    <3>1. Model(s, config') = [config' EXCEPT !["token"] = "default"]
      BY <2>1 DEF Model
    <3>2. [config' EXCEPT !["token"] = "default"] \in [Fields -> Values]
      BY <1>3 DEF Values
    <3>3. QED
      BY <1>3, <2>1, <3>1, <3>2
  <2>2. CASE ~ (s = "channel" /\ config'["token"] = "empty")
    <3>1. Model(s, config') = config'
      BY <2>2 DEF Model
    <3>2. QED
      BY <1>3, <3>1
  <2>3. QED
    BY <2>1, <2>2
<1>5. OfUser(config, confirmed)'
  BY <1>1, <1>2, <1>3 DEF OfUser
<1>6. d \in Drafts /\ d.section \in Outside /\ d.values = Model(s, config') /\ d.entered = {}
  BY <1>0, <1>4, SectionFacts DEF Drafts, Outside
<1>7. HonestDraft(d, {})'
  <2>1. OfUser(d.values, confirmed)'
    BY <1>1, <1>2, <1>4, <1>6 DEF OfUser
  <2>2. d.entered \cup {} \cup confirmed' = confirmed' /\ d.entered \subseteq FieldsIn(d.section)
    BY <1>6
  <2>3. QED
    BY <2>1, <2>2 DEF HonestDraft, OfUser
<1>8. OneDraft'
  BY <1>1, <1>6, <1>7 DEF OneDraft
<1>9. QED
  BY <1>1, <1>2, <1>3, <1>5, <1>8, MenuStep

LEMMA OpensNestedStep ==
    ASSUME OnboardInv, OpensNested("web")
    PROVE  OnboardInv'
<1>1. /\ drafts # <<>> /\ "web" \in Inner(Last(drafts).section)
      /\ drafts' = Append(drafts, [section |-> "web", values |-> Last(drafts).values, entered |-> {}])
      /\ UNCHANGED <<config_file, before, phase, original, config, confirmed, ending>>
  BY DEF OpensNested, Top
<1>2. /\ phase = "menu" /\ OfUser(config, confirmed) /\ config \in [Fields -> Values] /\ confirmed \subseteq Fields
      /\ OneDraft \/ TwoDrafts
  BY <1>1, AtWork
<1>3. ~ TwoDrafts
  <2>1. ASSUME NEW c \in Drafts, NEW d \in Drafts, drafts = <<c, d>>, d.section = "web"
        PROVE  FALSE
    BY <1>1, <2>1, ListTwo, SectionFacts
  <2>2. QED
    BY <2>1 DEF TwoDrafts
<1>4. PICK c \in Drafts : drafts = <<c>> /\ c.section \in Outside /\ HonestDraft(c, {})
  BY <1>2, <1>3 DEF OneDraft
<1>5. PICK d : d = [section |-> "web", values |-> c.values, entered |-> {}]
  OBVIOUS
<1>6. Last(drafts) = c /\ c.section = "tools" /\ drafts' = <<c, d>>
  <2>1. Last(drafts) = c
    BY <1>4, ListOne
  <2>2. c.section = "tools"
    BY <1>1, <1>4, <2>1, SectionFacts DEF Outside
  <2>3. drafts' = <<c, d>>
    BY <1>1, <1>4, <1>5, <2>1, ListTwo
  <2>4. QED
    BY <2>1, <2>2, <2>3
<1>7. d \in Drafts /\ d.section = "web" /\ d.values = c.values /\ d.entered = {}
  BY <1>4, <1>5, SectionFacts DEF Drafts
<1>8. HonestDraft(c, {})' /\ OfUser(config, confirmed)'
  BY <1>1, <1>2, <1>4, HonestStays, OfUserStays
<1>9. HonestDraft(d, c.entered)'
  <2>1. OfUser(c.values, c.entered \cup {} \cup confirmed)' /\ d.entered \cup c.entered \cup confirmed' = c.entered \cup {} \cup confirmed'
    BY <1>7, <1>8 DEF HonestDraft
  <2>2. QED
    BY <1>7, <2>1 DEF HonestDraft, OfUser
<1>10. TwoDrafts'
  BY <1>4, <1>6, <1>7, <1>8, <1>9 DEF TwoDrafts
<1>11. QED
  BY <1>1, <1>2, <1>8, <1>10, MenuStep

\* A field of the innermost draft is edited.
LEMMA EditsStep ==
    ASSUME OnboardInv, drafts # <<>>, NEW f, f \in Sections[Top.section], NEW v, Edits(v, f), UNCHANGED config,
           v \in [Fields -> Values], v[f] = "new",
           \A g \in Fields \ {f} : v[g] = Top.values[g] \/ (v[g] \notin {"new", "user"} /\ Top.values[g] \notin {"new", "user"})
    PROVE  OnboardInv'
<1>1. /\ drafts' = Front(drafts) \o <<[Last(drafts) EXCEPT !.values = v, !.entered = @ \cup {f}]>>
      /\ UNCHANGED <<config_file, before, phase, original, config, confirmed, ending>>
      /\ f \in Sections[Last(drafts).section]
      /\ \A g \in Fields \ {f} : v[g] = Last(drafts).values[g] \/ (v[g] \notin {"new", "user"} /\ Last(drafts).values[g] \notin {"new", "user"})
  BY DEF Edits, Top
<1>2. /\ phase = "menu" /\ OfUser(config, confirmed) /\ config \in [Fields -> Values] /\ confirmed \subseteq Fields
      /\ OneDraft \/ TwoDrafts
  BY AtWork
<1>3. OfUser(config, confirmed)'
  BY <1>1, <1>2, OfUserStays
<1>4. ASSUME NEW d \in Drafts, d = Last(drafts), NEW around, HonestDraft(d, around),
             NEW e, e = [d EXCEPT !.values = v, !.entered = @ \cup {f}]
      PROVE  e \in Drafts /\ e.section = d.section /\ HonestDraft(e, around)'
  <2>1. d.section \in DOMAIN Sections /\ d.entered \subseteq Fields /\ f \in FieldsIn(d.section) /\ f \in Fields
    BY <1>1, <1>4, FieldFacts DEF Drafts
  <2>2. e \in Drafts /\ e.section = d.section /\ e.values = v /\ e.entered = d.entered \cup {f}
    BY <1>4, <2>1 DEF Drafts
  <2>3. OfUser(d.values, d.entered \cup around \cup confirmed) /\ d.entered \subseteq FieldsIn(d.section)
    BY <1>4 DEF HonestDraft
  <2>4. OfUser(e.values, e.entered \cup around \cup confirmed)'
    BY <1>1, <1>4, <2>2, <2>3 DEF OfUser
  <2>5. QED
    BY <2>1, <2>2, <2>3, <2>4 DEF HonestDraft
<1>5. CASE OneDraft
  <2>1. PICK d \in Drafts : drafts = <<d>> /\ d.section \in Outside /\ HonestDraft(d, {})
    BY <1>5 DEF OneDraft
  <2>2. PICK e : e = [d EXCEPT !.values = v, !.entered = @ \cup {f}]
    OBVIOUS
  <2>3. Last(drafts) = d /\ drafts' = <<e>>
    <3>1. Last(drafts) = d /\ Front(drafts) = <<>>
      BY <2>1, ListOne
    <3>2. drafts' = <<>> \o <<e>>
      BY <1>1, <2>2, <3>1
    <3>3. QED
      BY <3>1, <3>2, ListTwo
  <2>4. e \in Drafts /\ e.section = d.section /\ HonestDraft(e, {})'
    BY <1>4, <2>1, <2>2, <2>3
  <2>5. OneDraft'
    BY <2>1, <2>3, <2>4 DEF OneDraft
  <2>6. QED
    BY <1>1, <1>2, <1>3, <2>5, MenuStep
<1>6. CASE TwoDrafts
  <2>1. PICK c \in Drafts, d \in Drafts : /\ drafts = <<c, d>> /\ c.section = "tools" /\ d.section = "web"
                                          /\ HonestDraft(c, {}) /\ HonestDraft(d, c.entered)
    BY <1>6 DEF TwoDrafts
  <2>2. PICK e : e = [d EXCEPT !.values = v, !.entered = @ \cup {f}]
    OBVIOUS
  <2>3. Last(drafts) = d /\ drafts' = <<c, e>>
    <3>1. Last(drafts) = d /\ Front(drafts) = <<c>>
      BY <2>1, ListTwo
    <3>2. drafts' = <<c>> \o <<e>>
      BY <1>1, <2>2, <3>1
    <3>3. QED
      BY <3>1, <3>2, ListTwo
  <2>4. e \in Drafts /\ e.section = d.section /\ HonestDraft(e, c.entered)'
    BY <1>4, <2>1, <2>2, <2>3
  <2>5. HonestDraft(c, {})'
    BY <1>1, <2>1, HonestStays
  <2>6. TwoDrafts'
    BY <2>1, <2>3, <2>4, <2>5 DEF TwoDrafts
  <2>7. QED
    BY <1>1, <1>2, <1>3, <2>6, MenuStep
<1>7. QED
  BY <1>2, <1>5, <1>6


\* What [Done] makes of the values around the draft.
Taken(s, inner, values) == [f \in Fields |-> IF f \in FieldsIn(s) THEN inner[f] ELSE values[f]]

LEMMA TakenIsOfUser ==
    ASSUME NEW s \in DOMAIN Sections, NEW inner \in [Fields -> Values], NEW values \in [Fields -> Values],
           NEW entered, entered \subseteq FieldsIn(s), NEW around,
           OfUser(inner, entered \cup around), OfUser(values, around)
    PROVE  Taken(s, inner, values) \in [Fields -> Values] /\ OfUser(Taken(s, inner, values), entered \cup around)
<1>1. PICK taken : taken = Taken(s, inner, values)
  OBVIOUS
<1>2. taken \in [Fields -> Values] /\ \A f \in Fields : taken[f] = IF f \in FieldsIn(s) THEN inner[f] ELSE values[f]
  BY <1>1 DEF Taken
<1>3. OfUser(taken, entered \cup around)
  BY <1>2 DEF OfUser
<1>4. QED
  BY <1>1, <1>2, <1>3

LEMMA DoneStep ==
    ASSUME OnboardInv, Done
    PROVE  OnboardInv'
<1>1. drafts # <<>> /\ UNCHANGED <<config_file, before, phase, original, ending>>
  BY DEF Done
<1>2. /\ phase = "menu" /\ OfUser(config, confirmed) /\ config \in [Fields -> Values] /\ confirmed \subseteq Fields
      /\ OneDraft \/ TwoDrafts
  BY <1>1, AtWork
<1>3. CASE OneDraft
  <2>1. PICK d \in Drafts : drafts = <<d>> /\ d.section \in Outside /\ HonestDraft(d, {})
    BY <1>3 DEF OneDraft
  <2>2. Last(drafts) = d /\ Front(drafts) = <<>>
    BY <2>1, ListOne
  <2>3. /\ config' = Taken(d.section, d.values, config) /\ drafts' = <<>>
        /\ confirmed' = confirmed \cup d.entered
    BY <2>2 DEF Done, Top, Taken
  <2>4. /\ d.section \in DOMAIN Sections /\ d.values \in [Fields -> Values] /\ d.entered \subseteq Fields
        /\ d.entered \subseteq FieldsIn(d.section) /\ OfUser(d.values, d.entered \cup confirmed)
    <3>1. d.entered \cup {} \cup confirmed = d.entered \cup confirmed
      OBVIOUS
    <3>2. QED
      BY <2>1, <3>1 DEF Drafts, HonestDraft
  <2>5. PICK taken : taken = Taken(d.section, d.values, config)
    OBVIOUS
  <2>6. taken \in [Fields -> Values] /\ OfUser(taken, d.entered \cup confirmed)
    BY <1>2, <2>4, <2>5, TakenIsOfUser
  <2>7. config' = taken /\ confirmed' = d.entered \cup confirmed
    BY <2>3, <2>5
  <2>8. OfUser(config, confirmed)'
    BY <1>1, <2>6, <2>7 DEF OfUser
  <2>9. config' \in [Fields -> Values] /\ confirmed' \subseteq Fields /\ confirmed \subseteq confirmed'
    BY <1>2, <2>4, <2>6, <2>7
  <2>10. QED
    BY <1>1, <1>2, <2>3, <2>8, <2>9, MenuStep
<1>4. CASE TwoDrafts
  <2>1. PICK c \in Drafts, d \in Drafts : /\ drafts = <<c, d>> /\ c.section = "tools" /\ d.section = "web"
                                          /\ HonestDraft(c, {}) /\ HonestDraft(d, c.entered)
    BY <1>4 DEF TwoDrafts
  <2>2. Last(drafts) = d /\ Front(drafts) = <<c>> /\ Last(<<c>>) = c /\ Front(<<c>>) = <<>> /\ <<c>> # <<>>
    BY <2>1, ListOne, ListTwo
  <2>3. PICK e : e = [c EXCEPT !.values = Taken(d.section, d.values, c.values), !.entered = c.entered \cup d.entered]
    OBVIOUS
  <2>4. drafts' = <<e>> /\ UNCHANGED <<config, confirmed>>
    <3>1. /\ drafts' = <<>> \o <<[c EXCEPT !.values = [f \in Fields |-> IF f \in FieldsIn(d.section) THEN d.values[f] ELSE @[f]],
                                           !.entered = @ \cup d.entered]>>
          /\ UNCHANGED <<config, confirmed>>
      BY <2>2 DEF Done, Top
    <3>2. e = [c EXCEPT !.values = [f \in Fields |-> IF f \in FieldsIn(d.section) THEN d.values[f] ELSE @[f]],
                        !.entered = @ \cup d.entered]
      BY <2>1, <2>3 DEF Taken, Drafts
    <3>3. QED
      BY <3>1, <3>2, ListTwo
  <2>5. /\ d.section \in DOMAIN Sections /\ d.values \in [Fields -> Values] /\ c.values \in [Fields -> Values]
        /\ d.entered \subseteq FieldsIn("web") /\ c.entered \subseteq FieldsIn("tools")
        /\ d.entered \subseteq Fields /\ c.entered \subseteq Fields
        /\ OfUser(d.values, d.entered \cup (c.entered \cup confirmed)) /\ OfUser(c.values, c.entered \cup confirmed)
    <3>1. d.entered \cup c.entered \cup confirmed = d.entered \cup (c.entered \cup confirmed)
      OBVIOUS
    <3>2. c.entered \cup {} \cup confirmed = c.entered \cup confirmed
      OBVIOUS
    <3>3. QED
      BY <2>1, <3>1, <3>2 DEF Drafts, HonestDraft
  <2>6. PICK taken : taken = Taken(d.section, d.values, c.values)
    OBVIOUS
  <2>7. taken \in [Fields -> Values] /\ OfUser(taken, d.entered \cup (c.entered \cup confirmed))
    BY <2>1, <2>5, <2>6, TakenIsOfUser
  <2>8. e \in Drafts /\ e.section = "tools" /\ e.values = taken /\ e.entered = c.entered \cup d.entered
    BY <2>1, <2>3, <2>5, <2>6, <2>7 DEF Drafts
  <2>9. HonestDraft(e, {})'
    <3>1. e.entered \subseteq FieldsIn(e.section)
      BY <2>5, <2>8, FieldFacts
    <3>2. OfUser(e.values, e.entered \cup {} \cup confirmed)'
      BY <1>1, <2>4, <2>7, <2>8 DEF OfUser
    <3>3. QED
      BY <3>1, <3>2 DEF HonestDraft
  <2>10. OneDraft'
    BY <2>4, <2>8, <2>9 DEF OneDraft, Outside
  <2>11. OfUser(config, confirmed)'
    BY <1>1, <1>2, <2>4, OfUserStays
  <2>12. QED
    BY <1>1, <1>2, <2>4, <2>10, <2>11, MenuStep
<1>5. QED
  BY <1>2, <1>3, <1>4

LEMMA BackStep ==
    ASSUME OnboardInv, Back
    PROVE  OnboardInv'
<1>1. drafts # <<>> /\ drafts' = Front(drafts) /\ UNCHANGED <<config_file, before, phase, original, config, confirmed, ending>>
  BY DEF Back
<1>2. /\ phase = "menu" /\ OfUser(config, confirmed) /\ config \in [Fields -> Values] /\ confirmed \subseteq Fields
      /\ OneDraft \/ TwoDrafts
  BY <1>1, AtWork
<1>3. OfUser(config, confirmed)'
  BY <1>1, <1>2, OfUserStays
<1>4. (drafts = <<>> \/ OneDraft \/ TwoDrafts)'
  <2>1. CASE OneDraft
    BY <1>1, <2>1, ListOne DEF OneDraft
  <2>2. CASE TwoDrafts
    <3>1. PICK c \in Drafts, d \in Drafts : drafts = <<c, d>> /\ c.section = "tools" /\ HonestDraft(c, {})
      BY <2>2 DEF TwoDrafts
    <3>2. drafts' = <<c>> /\ HonestDraft(c, {})'
      BY <1>1, <3>1, ListTwo, HonestStays
    <3>3. OneDraft'
      BY <3>1, <3>2 DEF OneDraft, Outside
    <3>4. QED
      BY <3>3
  <2>3. QED
    BY <1>2, <2>1, <2>2
<1>5. QED
  BY <1>1, <1>2, <1>3, <1>4, MenuStep

\* The draft that is edited, and the fields it is offered for.
LEMMA OfferedFacts ==
    ASSUME OnboardInv, drafts # <<>>, NEW f, f \in Sections[Top.section]
    PROVE  f \in Fields /\ Top.values \in [Fields -> Values]
<1>1. OneDraft \/ TwoDrafts
  BY AtWork
<1>2. Top \in Drafts
  <2>1. CASE OneDraft
    BY <2>1, ListOne DEF OneDraft, Top
  <2>2. CASE TwoDrafts
    <3>1. PICK c \in Drafts, d \in Drafts : drafts = <<c, d>>
      BY <2>2 DEF TwoDrafts
    <3>2. QED
      BY <3>1, ListTwo DEF Top
  <2>3. QED
    BY <1>1, <2>1, <2>2
<1>3. Top.section \in DOMAIN Sections /\ Top.values \in [Fields -> Values]
  BY <1>2 DEF Drafts
<1>4. QED
  BY <1>3, FieldFacts

LEMMA EntersStep ==
    ASSUME OnboardInv, NEW f \in Fields, Enters(f)
    PROVE  OnboardInv'
<1>1. PICK v : v = [Top.values EXCEPT ![f] = "new"]
  OBVIOUS
<1>2. drafts # <<>> /\ f \in Sections[Top.section] /\ Edits(v, f) /\ UNCHANGED config
  BY <1>1 DEF Enters, Offers
<1>3. Top.values \in [Fields -> Values]
  BY <1>2, OfferedFacts
<1>4. v \in [Fields -> Values] /\ v[f] = "new" /\ \A g \in Fields \ {f} : v[g] = Top.values[g]
  BY <1>1, <1>3 DEF Values
<1>5. QED
  BY <1>2, <1>4, EditsStep

LEMMA EntersModelStep ==
    ASSUME OnboardInv, EntersModel
    PROVE  OnboardInv'
<1>1. PICK c \in {Top.values["context"]} \cup (IF Top.values["context"] = "default" THEN {"recommended"} ELSE {}) :
         Edits([Top.values EXCEPT !["model"] = "new", !["context"] = c], "model")
  BY DEF EntersModel
<1>2. PICK v : v = [Top.values EXCEPT !["model"] = "new", !["context"] = c]
  OBVIOUS
<1>3. drafts # <<>> /\ "model" \in Sections[Top.section] /\ Edits(v, "model") /\ UNCHANGED config
  BY <1>1, <1>2 DEF EntersModel, Offers
<1>4. Top.values \in [Fields -> Values]
  BY <1>3, OfferedFacts
<1>5. c = Top.values["context"] \/ (Top.values["context"] = "default" /\ c = "recommended")
  BY <1>1
<1>6. "model" \in Fields /\ "context" \in Fields /\ c \in Values
  BY <1>4, <1>5, FieldFacts DEF Values
<1>7. /\ v \in [Fields -> Values] /\ v["model"] = "new" /\ v["context"] = c
      /\ \A g \in Fields \ {"model", "context"} : v[g] = Top.values[g]
  BY <1>2, <1>4, <1>6 DEF Values
<1>8. \A g \in Fields \ {"model"} : v[g] = Top.values[g] \/ (v[g] \notin {"new", "user"} /\ Top.values[g] \notin {"new", "user"})
  BY <1>5, <1>7
<1>9. QED
  BY <1>3, <1>7, <1>8, EditsStep

LEMMA EntersContextWindowStep ==
    ASSUME OnboardInv, EntersContextWindow
    PROVE  OnboardInv'
<1>1. Enters("context") /\ "context" \in Fields
  BY FieldFacts DEF EntersContextWindow, Enters
<1>2. QED
  BY <1>1, EntersStep

\* In the menu, and when the user is asked: the drafts are closed, and nothing is written.
LEMMA MenuClosed ==
    ASSUME OnboardInv, AtMenu \/ phase = "ask"
    PROVE  /\ phase \in {"menu", "ask"} /\ drafts = <<>> /\ ending = "none" /\ config_file = before
           /\ OfUser(config, confirmed) /\ \A f \in Fields : original[f] # "new"
BY DEF OnboardInv, AtMenu, DraftsAreHonest, Phases

\* The wizard is left for saving, for the question, or for the menu.
LEMMA MovesStep ==
    ASSUME OnboardInv, AtMenu \/ phase = "ask", phase' \in {"menu", "ask", "save"},
           UNCHANGED <<config_file, before, original, config, drafts, confirmed, ending>>
    PROVE  OnboardInv'
<1>1. OnboardTypes /\ OnlyDoneCommits
  BY DEF OnboardInv
<1>2. /\ drafts = <<>> /\ ending = "none" /\ config_file = before
      /\ OfUser(config, confirmed) /\ \A f \in Fields : original[f] # "new"
  BY MenuClosed
<1>3. OfUser(config, confirmed)'
  BY <1>2, OfUserStays
<1>4. OnboardTypes' /\ OnlyDoneCommits'
  BY <1>1 DEF OnboardTypes, OnlyDoneCommits
<1>5. Phases' /\ DraftsAreHonest'
  BY <1>2, <1>3 DEF Phases, DraftsAreHonest
<1>6. QED
  BY <1>4, <1>5 DEF OnboardInv

LEMMA SavesAndExitsStep ==
    ASSUME OnboardInv, SavesAndExits
    PROVE  OnboardInv'
BY MovesStep DEF SavesAndExits

LEMMA ExitsWithoutSavingStep ==
    ASSUME OnboardInv, ExitsWithoutSaving
    PROVE  OnboardInv'
<1>1. /\ AtMenu /\ Ends("discarded") /\ drafts' = drafts
      /\ UNCHANGED <<config_file, before, config, confirmed>>
  BY DEF ExitsWithoutSaving
<1>2. drafts' = <<>> /\ config_file = before
  BY <1>1, MenuClosed
<1>3. QED
  BY <1>1, <1>2, EndsStep

\* What is taken over is a change: the configuration the wizard started from has nothing new.
LEMMA CancelsStep ==
    ASSUME OnboardInv, Cancels
    PROVE  OnboardInv'
<1>1. AtMenu /\ UNCHANGED <<config_file, before, original, config, drafts, confirmed>>
  BY DEF Cancels
<1>2. CASE HasUnsavedChanges
  <2>1. phase' = "ask" /\ UNCHANGED ending
    BY <1>2 DEF Cancels
  <2>2. QED
    BY <1>1, <2>1, MovesStep
<1>3. CASE ~ HasUnsavedChanges
  <2>1. Ends("left") /\ config = original
    BY <1>3 DEF Cancels, HasUnsavedChanges
  <2>2. /\ drafts = <<>> /\ config_file = before /\ confirmed \subseteq Fields
        /\ OfUser(config, confirmed) /\ \A f \in Fields : original[f] # "new"
    BY <1>1, MenuClosed DEF OnboardInv, OnboardTypes
  <2>3. confirmed = {}
    BY <2>1, <2>2 DEF OfUser
  <2>4. QED
    BY <1>1, <2>1, <2>2, <2>3, EndsStep
<1>4. QED
  BY <1>2, <1>3

LEMMA AnswersStep ==
    ASSUME OnboardInv, NEW choice \in {"save", "discard", "resume"}, Answers(choice)
    PROVE  OnboardInv'
<1>1. phase = "ask" /\ UNCHANGED <<config_file, before, original, config, drafts, confirmed>>
  BY DEF Answers
<1>2. CASE choice = "discard"
  <2>1. Ends("discarded")
    BY <1>2 DEF Answers
  <2>2. drafts' = <<>> /\ config_file = before
    BY <1>1, MenuClosed
  <2>3. QED
    BY <1>1, <2>1, <2>2, EndsStep
<1>3. CASE choice # "discard"
  <2>1. phase' \in {"menu", "ask", "save"} /\ UNCHANGED ending
    BY <1>3 DEF Answers
  <2>2. QED
    BY <1>1, <2>1, MovesStep
<1>4. QED
  BY <1>2, <1>3

LEMMA OnboardingStutters ==
    ASSUME OnboardInv, UNCHANGED onboarding
    PROVE  OnboardInv'
<1>1. UNCHANGED <<config_file, before, phase, original, config, drafts, confirmed, ending>>
  BY DEF onboarding
<1>2. OnboardTypes' /\ OnlyDoneCommits'
  BY <1>1 DEF OnboardInv, OnboardTypes, OnlyDoneCommits
<1>3. Phases'
  <2>1. OfUser(config, confirmed) => OfUser(config, confirmed)'
    BY <1>1, OfUserStays
  <2>2. OfUser(config_file.values, confirmed) => OfUser(config_file.values, confirmed)'
    BY <1>1, OfUserStays
  <2>3. QED
    BY <1>1, <2>1, <2>2 DEF OnboardInv, Phases
<1>4. DraftsAreHonest'
  <2>1. CASE drafts = <<>>
    BY <1>1, <2>1 DEF DraftsAreHonest
  <2>2. CASE OneDraft
    <3>1. PICK d \in Drafts : drafts = <<d>> /\ d.section \in Outside /\ HonestDraft(d, {})
      BY <2>2 DEF OneDraft
    <3>2. HonestDraft(d, {})'
      BY <1>1, <3>1, HonestStays
    <3>3. OneDraft'
      BY <1>1, <3>1, <3>2 DEF OneDraft
    <3>4. QED
      BY <1>1, <3>3 DEF OnboardInv, DraftsAreHonest
  <2>3. CASE TwoDrafts
    <3>1. PICK c \in Drafts, d \in Drafts : /\ drafts = <<c, d>> /\ c.section = "tools" /\ d.section = "web"
                                            /\ HonestDraft(c, {}) /\ HonestDraft(d, c.entered)
      BY <2>3 DEF TwoDrafts
    <3>2. HonestDraft(c, {})' /\ HonestDraft(d, c.entered)'
      BY <1>1, <3>1, HonestStays
    <3>3. TwoDrafts'
      BY <1>1, <3>1, <3>2 DEF TwoDrafts
    <3>4. QED
      BY <1>1, <3>3 DEF OnboardInv, DraftsAreHonest
  <2>4. QED
    BY <2>1, <2>2, <2>3 DEF OnboardInv, DraftsAreHonest
<1>5. QED
  BY <1>2, <1>3, <1>4 DEF OnboardInv

\* One step of the command, of its wizard, or of neither.
LEMMA OnboardStep ==
    ASSUME OnboardInv, [OnboardingNext]_onboarding
    PROVE  OnboardInv'
<1>1. CASE Starts \/ Overwrites \/ Refreshes
  BY <1>1, StartsStep, OverwritesStep, RefreshesStep
<1>2. CASE Empties \/ Writes \/ PluginsEmpty \/ PluginsWrite \/ Crash
  BY <1>2, EmptiesStep, WritesStep, PluginsEmptyStep, PluginsWriteStep, CrashStep
<1>3. ASSUME NEW s \in {"agent", "provider", "channel", "tools"}, Opens(s)
      PROVE  OnboardInv'
  BY <1>3, OpensStep DEF Outside
<1>4. CASE OpensNested("web")
  BY <1>4, OpensNestedStep
<1>5. ASSUME NEW f \in Fields \ {"model", "context"}, Enters(f)
      PROVE  OnboardInv'
  BY <1>5, EntersStep
<1>6. CASE EntersModel \/ EntersContextWindow
  BY <1>6, EntersModelStep, EntersContextWindowStep
<1>7. CASE Done \/ Back \/ SavesAndExits \/ ExitsWithoutSaving \/ Cancels
  BY <1>7, DoneStep, BackStep, SavesAndExitsStep, ExitsWithoutSavingStep, CancelsStep
<1>8. ASSUME NEW choice \in {"save", "discard", "resume"}, Answers(choice)
      PROVE  OnboardInv'
  BY <1>8, AnswersStep
<1>9. CASE UNCHANGED onboarding
  BY <1>9, OnboardingStutters
<1>10. QED
  BY <1>1, <1>2, <1>3, <1>4, <1>5, <1>6, <1>7, <1>8, <1>9 DEF OnboardingNext, WizardNext

LEMMA ConfigSound ==
    ASSUME OnboardInv
    PROVE  ConfigIsTheUsers
<1>1. OnboardTypes /\ DraftsAreHonest /\ Phases /\ OnlyDoneCommits
  BY DEF OnboardInv
<1>2. Len(drafts) <= 2
  <2>1. CASE drafts = <<>>
    BY <2>1
  <2>2. CASE OneDraft
    <3>1. PICK d : drafts = <<d>>
      BY <2>2 DEF OneDraft
    <3>2. QED
      BY <3>1
  <2>3. CASE TwoDrafts
    <3>1. PICK c, d : drafts = <<c, d>>
      BY <2>3 DEF TwoDrafts
    <3>2. QED
      BY <3>1
  <2>4. QED
    BY <1>1, <2>1, <2>2, <2>3 DEF DraftsAreHonest
<1>3. OnboardingTypeOK
  BY <1>1, <1>2 DEF OnboardingTypeOK, OnboardTypes
<1>4. NothingDroppedUnasked
  BY <1>1 DEF NothingDroppedUnasked, Phases, OfUser, OnboardTypes
<1>5. LoadedValuesKept
  BY <1>1 DEF LoadedValuesKept, Phases, OfUser
<1>6. QED
  BY <1>1, <1>3, <1>4, <1>5 DEF ConfigIsTheUsers
-----------------------------------------------------------------------------
(* The theorems. *)

\* The invariant of the terminal is one: the consumer, the renderer, the prompt and the agent
\* loop keep it in every order of their steps.
THEOREM ChatInvariant == ChatSpec => []ChatInv
<1>1. ChatInit => ChatInv
  BY ChatAssumption, ChatStarts
<1>2. ChatInv /\ [ChatNext]_chat => ChatInv'
  BY ChatAssumption, ChatStep
<1>3. QED
  BY <1>1, <1>2, PTL DEF ChatSpec

\* `nanobot agent`: no text is printed twice; the answers of subagents, of the message tool
\* and of /stop, and the error of a failed turn, are printed, but the loop's own answers,
\* marked as streamed, are dropped; the prompt comes back only when the turn is done, as
\* long as only turns write to the terminal, and the display rests then if the stream ended.
THEOREM TerminalIsSoundAlways == ChatSpec => []TerminalIsSound
<1>1. ChatInv => TerminalIsSound
  BY ChatAssumption, TerminalSound
<1>2. QED
  BY <1>1, ChatInvariant, PTL

\* The invariant of the onboarding is one: the command, its drafts and a crash keep it.
THEOREM OnboardInvariant == OnboardingSpec => []OnboardInv
<1>1. OnboardingInit => OnboardInv
  BY OnboardStarts
<1>2. OnboardInv /\ [OnboardingNext]_onboarding => OnboardInv'
  BY OnboardStep
<1>3. QED
  BY <1>1, <1>2, PTL DEF OnboardingSpec

\* `nanobot onboard`: what the user confirmed, and nothing else, is new in config.json; what
\* is dropped is dropped because the user said so; and what the old file had is kept.
THEOREM ConfigIsTheUsersAlways == OnboardingSpec => []ConfigIsTheUsers
<1>1. OnboardInv => ConfigIsTheUsers
  BY ConfigSound
<1>2. QED
  BY <1>1, OnboardInvariant, PTL

\* The commands as the run checks them, beside the other parts: what `nanobot agent` prints,
\* the loop's own answers excepted, and what `nanobot onboard` saves.
THEOREM CommandLineIsSoundAlways == MCSpec => []CommandLineIsSound
<1>1. MCInit => ChatInv /\ OnboardInv
  BY ChatAssumption, ChatStarts, OnboardStarts DEF MCInit, OnboardingRests
<1>2. ChatInv /\ OnboardInv /\ [MCNext]_mc => ChatInv' /\ OnboardInv'
  <2>1. SUFFICES ASSUME ChatInv, OnboardInv, [MCNext]_mc
                 PROVE  ChatInv' /\ OnboardInv'
    OBVIOUS
  <2>2. [ChatNext]_chat /\ [OnboardingNext]_onboarding
    BY <2>1 DEF MCNext, Agent, mc
  <2>3. QED
    BY <2>1, <2>2, ChatAssumption, ChatStep, OnboardStep
<1>3. ChatInv /\ OnboardInv => CommandLineIsSound
  BY ChatAssumption, TerminalSound, ConfigSound DEF CommandLineIsSound
<1>4. QED
  BY <1>1, <1>2, <1>3, PTL DEF MCSpec

-----------------------------------------------------------------------------
(* The transcript: the inductive invariant. *)

CallIds == Nat \X Nat \X Nat
Messages == [role : {"user", "assistant", "tool"}, n : Nat,
             content : {"text", "blank", "image", "empty", "none"},
             calls : Seq(CallIds), answers : CallIds \cup {<<>>}]
Places == {"idle", "prepare", "model", "tools", "save", "retain"}
TurnRecords == [pc : Places, no : Nat, msgs : Seq(Messages), skip : Nat, seen : SUBSET Nat,
                iteration : 0..MaxIterations, attempt : 0..RetryDelays, stripped : BOOLEAN]

SessionRecords == [messages : Seq(Messages), last : Nat]
JobRecords == [by : Lanes \cup {"nobody", "background"}, end : Nat, chunk : SUBSET Nat]
UsedRecords == [n : Nat, turns : Nat, archives : Nat, errors : Nat, restarts : Nat, shifted : BOOLEAN]
Beats == {"idle", "deciding", "running", "evaluating"}

TranscriptTypes ==
    /\ key \in {"chat", "heartbeat"} /\ session \in SessionRecords /\ file = session
    /\ turn \in [Lanes -> TurnRecords] /\ job \in JobRecords /\ waiting \in Nat /\ beat \in Beats
    /\ archived \subseteq Nat /\ used \in UsedRecords

\* The result at i has its call before it, from "from" on and in the same turn of the user.
CalledFrom(s, from, i) ==
    \E j \in from..(i - 1) : /\ s[j].role = "assistant" /\ s[i].answers \in Range(s[j].calls)
                             /\ \A k \in j..i : s[k].role # "user"

\* Only the rest of an old transcript, before any message of the user, has results without calls.
CallsAreKept(s) ==
    \A i \in DOMAIN s : s[i].role = "tool" => CalledFrom(s, 1, i) \/ \A k \in 1..i : s[k].role # "user"

NumbersGiven(s, n) == \A i \in DOMAIN s : s[i].n \in 1..n

\* A turn, n messages of the session being numbered.
AsksModel(t) == t.pc \in {"model", "tools"}
TurnIsSound(t, n) ==
    /\ t.pc \in {"idle", "prepare"} => t.iteration = 0
    /\ AsksModel(t) => t.iteration < MaxIterations
    /\ t.pc \in {"model", "tools", "save"} =>
          /\ t.skip <= Len(t.msgs) /\ t.seen \subseteq 1..n
          /\ \A i \in DOMAIN t.msgs : i > t.skip /\ t.msgs[i].role = "tool" => CalledFrom(t.msgs, t.skip + 1, i)
    /\ t.pc = "tools" => Len(t.msgs) > t.skip /\ Last(t.msgs).role = "assistant"

\* A consolidation is scheduled at the end of a turn.
OpenTurn(t) == IF t.pc \in {"prepare", "model", "tools", "save"} THEN 1 ELSE 0
TurnsCounted == used.turns <= MaxTurns /\ waiting + OpenTurn(turn["user"]) + OpenTurn(turn["system"]) <= used.turns

\* The position: all before it is archived, or about to be, and a message of the user follows it.
UserFollows(s, end) == end < Len(s) /\ s[end + 1].role = "user"
PositionIsSound(s, last, done) ==
    /\ last = 0 \/ UserFollows(s, last)
    /\ \A i \in 1..last : s[i].n \in done
JobIsSound(s, last, j) ==
    j.by # "nobody" => /\ last <= j.end /\ UserFollows(s, j.end)
                       /\ j.chunk = {s[i].n : i \in (last + 1)..j.end}

\* What was there when the request was built, and is not in the memory, is in the request.
SeenIsSent(t, s, done) ==
    AsksModel(t) => \A i \in DOMAIN s :
        s[i].n \in t.seen /\ s[i].n \notin done /\ (\E j \in 1..i : s[j].role = "user")
            => \E j \in DOMAIN t.msgs : t.msgs[j].n = s[i].n

TranscriptInv ==
    /\ TranscriptTypes /\ CallsAreKept(session.messages) /\ NumbersGiven(session.messages, used.n)
    /\ TurnsCounted /\ \A l \in Lanes : TurnIsSound(turn[l], used.n)
    /\ ~ used.shifted => /\ PositionIsSound(session.messages, session.last, archived)
                         /\ JobIsSound(session.messages, session.last, job)
                         /\ \A l \in Lanes : SeenIsSent(turn[l], session.messages, archived)

-----------------------------------------------------------------------------
(* Induction, and functions defined by it. *)

LEMMA Induct ==
    ASSUME NEW T, 0 \in T, \A n \in Nat : n \in T => n + 1 \in T
    PROVE  Nat \subseteq T
<1>1. SUFFICES ASSUME Nat \ T # {}
               PROVE  FALSE
  OBVIOUS
<1>2. PICK m \in Nat \ T : \A y \in Nat \ T : m <= y
  BY <1>1, NatLeast
<1>3. m # 0 /\ m - 1 \in Nat /\ ~ (m <= m - 1) /\ (m - 1) + 1 = m
  BY <1>2
<1>4. m - 1 \in T
  BY <1>2, <1>3
<1>5. QED
  BY <1>2, <1>3, <1>4

\* A function on 0..n, given by its first value and its steps.
LEMMA Recursion ==
    ASSUME NEW S, NEW a \in S, NEW n \in Nat, NEW step \in [1..n -> [S -> S]]
    PROVE  \E f \in [0..n -> S] : f[0] = a /\ \A i \in 1..n : f[i] = step[i][f[i - 1]]
<1> DEFINE Run(f, k) == f \in [0..k -> S] /\ f[0] = a /\ \A i \in 1..k : f[i] = step[i][f[i - 1]]
           T == {k \in Nat : k <= n => \E f : Run(f, k)}
<1>1. 0 \in T
  <2>1. Run([i \in 0..0 |-> a], 0)
    OBVIOUS
  <2>2. QED
    BY <2>1
<1>2. ASSUME NEW k \in Nat, k \in T
      PROVE  k + 1 \in T
  <2>1. SUFFICES ASSUME k + 1 <= n
                 PROVE  \E f : Run(f, k + 1)
    OBVIOUS
  <2>2. PICK f : Run(f, k)
    BY <1>2, <2>1
  <2>3. PICK g : g = [i \in 0..(k + 1) |-> IF i = k + 1 THEN step[k + 1][f[k]] ELSE f[i]]
    OBVIOUS
  <2>4. step[k + 1] \in [S -> S] /\ k \in 0..k
    BY <2>1
  <2>5. f[k] \in S
    BY <2>2, <2>4
  <2>6. step[k + 1][f[k]] \in S
    BY <2>4, <2>5
  <2>7. g \in [0..(k + 1) -> S]
    BY <2>2, <2>3, <2>6
  <2>8. ASSUME NEW i \in 1..(k + 1)
        PROVE  g[i] = step[i][g[i - 1]]
    <3>1. i \in 0..(k + 1) /\ i - 1 \in 0..(k + 1) /\ i - 1 # k + 1
      BY <2>8
    <3>2. g[i - 1] = f[i - 1]
      BY <2>3, <3>1
    <3>3. CASE i = k + 1
      <4>1. g[i] = step[k + 1][f[k]] /\ i - 1 = k
        BY <2>3, <3>1, <3>3
      <4>2. QED
        BY <3>2, <3>3, <4>1
    <3>4. CASE i # k + 1
      <4>1. g[i] = f[i] /\ i \in 1..k
        BY <2>3, <2>8, <3>1, <3>4
      <4>2. QED
        BY <2>2, <3>2, <4>1
    <3>5. QED
      BY <3>3, <3>4
  <2>9. g[0] = a
    BY <2>2, <2>3
  <2>10. Run(g, k + 1)
    BY <2>7, <2>8, <2>9
  <2>11. QED
    BY <2>10
<1>3. n \in T
  <2> HIDE DEF T
  <2>1. QED
    BY <1>1, <1>2, Induct
<1>4. QED
  BY <1>3

\* The rest of a sequence.
LEMMA Dropped ==
    ASSUME NEW S, NEW s \in Seq(S), NEW k \in Nat, NEW r, r = Drop(s, k)
    PROVE  /\ r \in Seq(S) /\ Len(s) \in Nat /\ Len(r) \in Nat /\ DOMAIN r = 1..Len(r) /\ DOMAIN s = 1..Len(s)
           /\ Len(r) = IF k <= Len(s) THEN Len(s) - k ELSE 0
           /\ \A i \in 1..Len(r) : i + k \in 1..Len(s) /\ r[i] = s[i + k] /\ r[i] \in S
<1>1. Len(s) \in Nat /\ DOMAIN s = 1..Len(s) /\ r = SubSeq(s, k + 1, Len(s))
  BY LenProperties DEF Drop
<1>2. \A i \in 1..Len(s) : s[i] \in S
  BY ElementOfSeq
<1>3. PICK m, n : m = k + 1 /\ n = Len(s) /\ m \in Int /\ n \in Int
  <2>1. k + 1 \in Int /\ Len(s) \in Int
    BY <1>1
  <2>2. QED
    BY <2>1
<1>4. \A i \in m..n : s[i] \in S
  BY <1>1, <1>2, <1>3
<1>5. /\ r \in Seq(S) /\ Len(r) = IF m <= n THEN n - m + 1 ELSE 0
      /\ \A i \in 1..(n - m + 1) : r[i] = s[m + i - 1]
  BY <1>1, <1>3, <1>4, SubSeqProperties
<1>6. DOMAIN r = 1..Len(r) /\ Len(r) \in Nat
  BY <1>5, LenProperties
<1>7. Len(r) = IF k <= Len(s) THEN Len(s) - k ELSE 0
  BY <1>1, <1>3, <1>5
<1>8. ASSUME NEW i \in 1..Len(r)
      PROVE  i + k \in 1..Len(s) /\ r[i] = s[i + k] /\ r[i] \in S
  <2>1. i \in 1..(n - m + 1) /\ m + i - 1 = i + k /\ i + k \in 1..Len(s)
    BY <1>1, <1>3, <1>7, <1>8
  <2>2. r[i] = s[i + k]
    BY <1>5, <2>1
  <2>3. QED
    BY <1>2, <2>1, <2>2
<1>9. QED
  BY <1>1, <1>5, <1>6, <1>7, <1>8

LEMMA Positions ==
    ASSUME NEW S, NEW s \in Seq(S)
    PROVE  Len(s) \in Nat /\ DOMAIN s = 1..Len(s) /\ \A i \in DOMAIN s : s[i] \in S
BY LenProperties, ElementOfSeq

LEMMA GreatestIn ==
    ASSUME NEW n \in Nat, NEW T, T \subseteq 1..n, T # {}
    PROVE  Greatest(T) \in T
<1> DEFINE R == {k \in Nat : \E x \in T : k = n - x}
<1>1. R \subseteq Nat /\ R # {}
  <2>1. \A x \in T : n - x \in Nat
    OBVIOUS
  <2>2. QED
    BY <2>1
<1>2. PICK m \in R : \A y \in R : m <= y
  <2> HIDE DEF R
  <2>1. QED
    BY <1>1, NatLeast
<1>3. PICK x \in T : m = n - x
  BY <1>2
<1>4. ASSUME NEW y \in T
      PROVE  y <= x
  <2>1. n - y \in R
    BY <1>4
  <2>2. m <= n - y
    BY <1>2, <2>1
  <2>3. QED
    BY <1>3, <2>2
<1>5. QED
  BY <1>3, <1>4 DEF Greatest

LEMMA LeastIn ==
    ASSUME NEW T, T \subseteq Nat, T # {}
    PROVE  Least(T) \in T /\ \A i \in T : Least(T) <= i
BY NatLeast DEF Least

-----------------------------------------------------------------------------
(* _find_legal_start and _save_turn. *)

\* The function of FindLegalStart: where the transcript begins after i messages, and the
\* calls declared since.
LEMMA LegalWalk ==
    ASSUME NEW s \in Seq(Messages)
    PROVE  \E walk \in [0..Len(s) -> [start : Nat, declared : SUBSET CallIds]] :
              /\ FindLegalStart(s) = walk[Len(s)].start
              /\ walk[0] = [start |-> 0, declared |-> {}]
              /\ \A i \in 1..Len(s) :
                    walk[i] = IF s[i].role = "assistant"
                              THEN [walk[i - 1] EXCEPT !.declared = @ \cup Range(s[i].calls)]
                              ELSE IF s[i].role = "tool" /\ s[i].answers \notin walk[i - 1].declared
                              THEN [start |-> i, declared |-> {}]
                              ELSE walk[i - 1]
<1> DEFINE S == [start : Nat, declared : SUBSET CallIds]
           After(a, i) == IF s[i].role = "assistant" THEN [a EXCEPT !.declared = @ \cup Range(s[i].calls)]
                          ELSE IF s[i].role = "tool" /\ s[i].answers \notin a.declared
                          THEN [start |-> i, declared |-> {}]
                          ELSE a
           Body(f) == [i \in 0..Len(s) |->
                          IF i = 0 THEN [start |-> 0, declared |-> {}] ELSE After(f[i - 1], i)]
<1>1. Len(s) \in Nat /\ \A i \in 1..Len(s) : s[i] \in Messages
  BY Positions
<1>2. ASSUME NEW i \in 1..Len(s), NEW a \in S
      PROVE  After(a, i) \in S
  <2>1. s[i].calls \in Seq(CallIds)
    BY <1>1 DEF Messages
  <2>2. Range(s[i].calls) \subseteq CallIds
    BY <2>1, Positions DEF Range
  <2>3. QED
    BY <1>1, <2>2
<1>3. PICK step : step = [i \in 1..Len(s) |-> [a \in S |-> After(a, i)]]
  OBVIOUS
<1>4. step \in [1..Len(s) -> [S -> S]]
  BY <1>2, <1>3
<1>5. [start |-> 0, declared |-> {}] \in S
  OBVIOUS
<1>6. PICK g \in [0..Len(s) -> S] :
         g[0] = [start |-> 0, declared |-> {}] /\ \A i \in 1..Len(s) : g[i] = step[i][g[i - 1]]
  <2>1. PICK S0, a, n : S0 = S /\ a = [start |-> 0, declared |-> {}] /\ n = Len(s)
    OBVIOUS
  <2> HIDE DEF S, After
  <2>2. a \in S0 /\ n \in Nat /\ step \in [1..n -> [S0 -> S0]]
    BY <1>1, <1>4, <1>5, <2>1
  <2>3. \E g \in [0..n -> S0] : g[0] = a /\ \A i \in 1..n : g[i] = step[i][g[i - 1]]
    BY <2>2, Recursion
  <2>4. QED
    BY <2>1, <2>3
<1>7. ASSUME NEW i \in 1..Len(s)
      PROVE  g[i] = After(g[i - 1], i)
  <2>1. i - 1 \in 0..Len(s)
    BY <1>1
  <2>2. g[i - 1] \in S
    BY <1>6, <2>1
  <2>3. QED
    BY <1>3, <1>6, <2>2
<1>8. g = Body(g)
  <2> HIDE DEF S, After
  <2>1. \A i \in 0..Len(s) : i = 0 \/ i \in 1..Len(s)
    BY <1>1
  <2>2. \A i \in 0..Len(s) : g[i] = IF i = 0 THEN [start |-> 0, declared |-> {}] ELSE After(g[i - 1], i)
    BY <1>6, <1>7, <2>1
  <2>3. QED
    BY <1>6, <2>2
<1>9. PICK walk : walk = CHOOSE f : f = Body(f)
  OBVIOUS
<1>10. walk = Body(walk)
  <2> HIDE DEF Body
  <2>1. QED
    BY <1>8, <1>9
<1>11. FindLegalStart(s) = walk[Len(s)].start
  BY <1>9 DEF FindLegalStart
<1>12. walk[0] = [start |-> 0, declared |-> {}] /\ \A i \in 1..Len(s) : walk[i] = After(walk[i - 1], i)
  <2> HIDE DEF S, After
  <2>1. 0 \in 0..Len(s) /\ \A i \in 1..Len(s) : i \in 0..Len(s) /\ i # 0
    BY <1>1
  <2>2. \A i \in 0..Len(s) : walk[i] = IF i = 0 THEN [start |-> 0, declared |-> {}] ELSE After(walk[i - 1], i)
    BY <1>10
  <2>3. QED
    BY <2>1, <2>2
<1>13. walk \in [0..Len(s) -> S]
  <2> DEFINE T == {i \in Nat : i <= Len(s) => walk[i] \in S}
  <2>1. 0 \in T
    BY <1>5, <1>12
  <2>2. ASSUME NEW i \in Nat, i \in T
        PROVE  i + 1 \in T
    <3>1. SUFFICES ASSUME i + 1 <= Len(s)
                   PROVE  walk[i + 1] \in S
      OBVIOUS
    <3>2. i + 1 \in 1..Len(s) /\ (i + 1) - 1 = i /\ i <= Len(s)
      BY <1>1, <3>1
    <3>3. walk[i] \in S /\ walk[i + 1] = After(walk[i], i + 1)
      BY <1>12, <2>2, <3>2
    <3>4. QED
      BY <1>2, <3>2, <3>3
  <2>3. Nat \subseteq T
    <3> HIDE DEF T
    <3>1. QED
      BY <2>1, <2>2, Induct
  <2>4. \A i \in 0..Len(s) : walk[i] \in S
    BY <1>1, <2>3
  <2>5. QED
    BY <1>10, <2>4
<1>14. QED
  BY <1>11, <1>12, <1>13

LEMMA FunctionIsSeq ==
    ASSUME NEW S, NEW n \in Nat, NEW f \in [1..n -> S]
    PROVE  f \in Seq(S) /\ Len(f) = n
<1>1. PICK g : g = SubSeq(f, 1, n)
  OBVIOUS
<1>2. \A i \in 1..n : f[i] \in S
  OBVIOUS
<1>3. g \in Seq(S) /\ Len(g) = n /\ \A i \in 1..n : g[i] = f[i]
  <2>1. PICK one : one = 1
    OBVIOUS
  <2>2. /\ g \in Seq(S) /\ Len(g) = IF one <= n THEN n - one + 1 ELSE 0
        /\ \A i \in 1..(n - one + 1) : g[i] = f[one + i - 1]
    BY <1>1, <1>2, <2>1, SubSeqProperties
  <2>3. QED
    BY <2>1, <2>2
<1>4. g \in [1..n -> S]
  BY <1>3, LenProperties
<1>5. f = g
  BY <1>3, <1>4
<1>6. QED
  BY <1>3, <1>5

\* What is dropped is a part of the transcript.
LEMMA LegalStartBound ==
    ASSUME NEW s \in Seq(Messages)
    PROVE  FindLegalStart(s) \in 0..Len(s)
<1>1. Len(s) \in Nat
  BY Positions
<1>2. PICK walk \in [0..Len(s) -> [start : Nat, declared : SUBSET CallIds]] :
              /\ FindLegalStart(s) = walk[Len(s)].start
              /\ walk[0] = [start |-> 0, declared |-> {}]
              /\ \A i \in 1..Len(s) :
                    walk[i] = IF s[i].role = "assistant"
                              THEN [walk[i - 1] EXCEPT !.declared = @ \cup Range(s[i].calls)]
                              ELSE IF s[i].role = "tool" /\ s[i].answers \notin walk[i - 1].declared
                              THEN [start |-> i, declared |-> {}]
                              ELSE walk[i - 1]
  BY LegalWalk
<1> DEFINE T == {i \in Nat : i <= Len(s) => walk[i].start <= i}
<1>3. 0 \in T
  BY <1>2
<1>4. ASSUME NEW i \in Nat, i \in T
      PROVE  i + 1 \in T
  <2>1. SUFFICES ASSUME i + 1 <= Len(s)
                 PROVE  walk[i + 1].start <= i + 1
    OBVIOUS
  <2>2. i + 1 \in 1..Len(s) /\ (i + 1) - 1 = i /\ i \in 0..Len(s)
    BY <1>1, <2>1
  <2>3. walk[i].start <= i /\ walk[i] \in [start : Nat, declared : SUBSET CallIds]
    BY <1>2, <1>4, <2>2
  <2>4. walk[i + 1] = IF s[i + 1].role = "assistant"
                      THEN [walk[i] EXCEPT !.declared = @ \cup Range(s[i + 1].calls)]
                      ELSE IF s[i + 1].role = "tool" /\ s[i + 1].answers \notin walk[i].declared
                      THEN [start |-> i + 1, declared |-> {}]
                      ELSE walk[i]
    BY <1>2, <2>2
  <2>5. walk[i + 1].start = walk[i].start \/ walk[i + 1].start = i + 1
    BY <2>3, <2>4
  <2>6. QED
    BY <2>3, <2>5
<1>5. Nat \subseteq T
  <2> HIDE DEF T
  <2>1. QED
    BY <1>3, <1>4, Induct
<1>6. walk[Len(s)].start <= Len(s) /\ walk[Len(s)].start \in Nat
  <2>1. Len(s) \in 0..Len(s)
    BY <1>1
  <2>2. walk[Len(s)] \in [start : Nat, declared : SUBSET CallIds]
    BY <1>2, <2>1
  <2>3. QED
    BY <1>1, <1>5, <2>2
<1>7. QED
  BY <1>1, <1>2, <1>6

\* Nothing is dropped if every result has its call before it.
LEMMA LegalStartZero ==
    ASSUME NEW s \in Seq(Messages),
           \A i \in DOMAIN s : s[i].role = "tool" =>
               \E j \in 1..(i - 1) : s[j].role = "assistant" /\ s[i].answers \in Range(s[j].calls)
    PROVE  FindLegalStart(s) = 0
<1>1. Len(s) \in Nat /\ DOMAIN s = 1..Len(s)
  BY Positions
<1>2. PICK walk \in [0..Len(s) -> [start : Nat, declared : SUBSET CallIds]] :
              /\ FindLegalStart(s) = walk[Len(s)].start
              /\ walk[0] = [start |-> 0, declared |-> {}]
              /\ \A i \in 1..Len(s) :
                    walk[i] = IF s[i].role = "assistant"
                              THEN [walk[i - 1] EXCEPT !.declared = @ \cup Range(s[i].calls)]
                              ELSE IF s[i].role = "tool" /\ s[i].answers \notin walk[i - 1].declared
                              THEN [start |-> i, declared |-> {}]
                              ELSE walk[i - 1]
  BY LegalWalk
<1> DEFINE Seen(i) == \A j \in 1..i : s[j].role = "assistant" => Range(s[j].calls) \subseteq walk[i].declared
           T == {i \in Nat : i <= Len(s) => walk[i].start = 0 /\ Seen(i)}
<1>3. 0 \in T
  BY <1>2
<1>4. ASSUME NEW i \in Nat, i \in T
      PROVE  i + 1 \in T
  <2>1. SUFFICES ASSUME i + 1 <= Len(s)
                 PROVE  walk[i + 1].start = 0 /\ Seen(i + 1)
    OBVIOUS
  <2>2. i + 1 \in 1..Len(s) /\ (i + 1) - 1 = i /\ i \in 0..Len(s)
    BY <1>1, <2>1
  <2>3. walk[i].start = 0 /\ Seen(i) /\ walk[i] \in [start : Nat, declared : SUBSET CallIds]
    BY <1>2, <1>4, <2>2
  <2>4. walk[i + 1] = IF s[i + 1].role = "assistant"
                      THEN [walk[i] EXCEPT !.declared = @ \cup Range(s[i + 1].calls)]
                      ELSE IF s[i + 1].role = "tool" /\ s[i + 1].answers \notin walk[i].declared
                      THEN [start |-> i + 1, declared |-> {}]
                      ELSE walk[i]
    BY <1>2, <2>2
  <2>5. CASE s[i + 1].role = "assistant"
    <3>1. walk[i + 1].start = 0 /\ walk[i + 1].declared = walk[i].declared \cup Range(s[i + 1].calls)
      BY <2>3, <2>4, <2>5
    <3>2. ASSUME NEW j \in 1..(i + 1), s[j].role = "assistant"
          PROVE  Range(s[j].calls) \subseteq walk[i + 1].declared
      <4>1. j \in 1..i \/ j = i + 1
        BY <3>2
      <4>2. QED
        BY <2>3, <3>1, <3>2, <4>1
    <3>3. QED
      BY <3>1, <3>2
  <2>6. CASE s[i + 1].role # "assistant"
    <3>1. ASSUME s[i + 1].role = "tool"
          PROVE  s[i + 1].answers \in walk[i].declared
      <4>1. PICK j \in 1..((i + 1) - 1) : s[j].role = "assistant" /\ s[i + 1].answers \in Range(s[j].calls)
        BY <1>1, <2>2, <3>1
      <4>2. j \in 1..i
        BY <2>2
      <4>3. QED
        BY <2>3, <4>1, <4>2
    <3>2. walk[i + 1] = walk[i]
      BY <2>4, <2>6, <3>1
    <3>3. \A j \in 1..(i + 1) : s[j].role = "assistant" => j \in 1..i
      BY <2>6
    <3>4. QED
      BY <2>3, <3>2, <3>3
  <2>7. QED
    BY <2>5, <2>6
<1>5. Nat \subseteq T
  <2> HIDE DEF T
  <2>1. QED
    BY <1>3, <1>4, Induct
<1>6. QED
  BY <1>1, <1>2, <1>5

\* What _save_turn keeps, and the function of Persisted.
Keeps(m) ==
    /\ ~ (m.role = "assistant" /\ m.content \in {"none", "empty"} /\ m.calls = <<>>)
    /\ ~ (m.role = "user" /\ m.content = "blank")

LEMMA SaveWalk ==
    ASSUME NEW ms \in Seq(Messages)
    PROVE  \E walk \in [0..Len(ms) -> Seq(Messages)] :
              /\ Persisted(ms) = [i \in DOMAIN walk[Len(ms)] |->
                    [walk[Len(ms)][i] EXCEPT !.n = used.n + i, !.content = IF @ = "image" THEN "text" ELSE @]]
              /\ walk[0] = <<>>
              /\ \A i \in 1..Len(ms) :
                    walk[i] = IF Keeps(ms[i]) THEN Append(walk[i - 1], ms[i]) ELSE walk[i - 1]
<1> DEFINE S == Seq(Messages)
           After(a, i) == IF Keeps(ms[i]) THEN Append(a, ms[i]) ELSE a
           Body(f) == [i \in 0..Len(ms) |-> IF i = 0 THEN <<>> ELSE After(f[i - 1], i)]
<1>1. Len(ms) \in Nat /\ \A i \in 1..Len(ms) : ms[i] \in Messages
  BY Positions
<1>2. ASSUME NEW i \in 1..Len(ms), NEW a \in S
      PROVE  After(a, i) \in S
  BY <1>1, AppendProperties
<1>3. PICK step : step = [i \in 1..Len(ms) |-> [a \in S |-> After(a, i)]]
  OBVIOUS
<1>4. step \in [1..Len(ms) -> [S -> S]]
  <2> HIDE DEF S, After
  <2>1. QED
    BY <1>2, <1>3
<1>5. <<>> \in S
  OBVIOUS
<1>6. PICK g \in [0..Len(ms) -> S] : g[0] = <<>> /\ \A i \in 1..Len(ms) : g[i] = step[i][g[i - 1]]
  <2>1. PICK S0, a, n : S0 = S /\ a = <<>> /\ n = Len(ms)
    OBVIOUS
  <2> HIDE DEF S, After
  <2>2. a \in S0 /\ n \in Nat /\ step \in [1..n -> [S0 -> S0]]
    BY <1>1, <1>4, <1>5, <2>1
  <2>3. \E g \in [0..n -> S0] : g[0] = a /\ \A i \in 1..n : g[i] = step[i][g[i - 1]]
    BY <2>2, Recursion
  <2>4. QED
    BY <2>1, <2>3
<1>7. ASSUME NEW i \in 1..Len(ms)
      PROVE  g[i] = After(g[i - 1], i)
  <2> HIDE DEF S, After
  <2>1. i - 1 \in 0..Len(ms)
    BY <1>1
  <2>2. g[i - 1] \in S
    BY <1>6, <2>1
  <2>3. QED
    BY <1>3, <1>6, <2>2
<1>8. g = Body(g)
  <2> HIDE DEF S, After
  <2>1. \A i \in 0..Len(ms) : i = 0 \/ i \in 1..Len(ms)
    BY <1>1
  <2>2. \A i \in 0..Len(ms) : g[i] = IF i = 0 THEN <<>> ELSE After(g[i - 1], i)
    BY <1>6, <1>7, <2>1
  <2>3. QED
    BY <1>6, <2>2
<1>9. PICK walk : walk = CHOOSE f : f = Body(f)
  OBVIOUS
<1>10. walk = Body(walk)
  <2> HIDE DEF Body
  <2>1. QED
    BY <1>8, <1>9
<1>11. Persisted(ms) = [i \in DOMAIN walk[Len(ms)] |->
          [walk[Len(ms)][i] EXCEPT !.n = used.n + i, !.content = IF @ = "image" THEN "text" ELSE @]]
  BY <1>9 DEF Persisted, Keeps
<1>12. walk[0] = <<>> /\ \A i \in 1..Len(ms) : walk[i] = After(walk[i - 1], i)
  <2> HIDE DEF S, After
  <2>1. 0 \in 0..Len(ms) /\ \A i \in 1..Len(ms) : i \in 0..Len(ms) /\ i # 0
    BY <1>1
  <2>2. \A i \in 0..Len(ms) : walk[i] = IF i = 0 THEN <<>> ELSE After(walk[i - 1], i)
    BY <1>10
  <2>3. QED
    BY <2>1, <2>2
<1>13. walk \in [0..Len(ms) -> S]
  <2> DEFINE T == {i \in Nat : i <= Len(ms) => walk[i] \in S}
  <2>1. 0 \in T
    BY <1>5, <1>12
  <2>2. ASSUME NEW i \in Nat, i \in T
        PROVE  i + 1 \in T
    <3>1. SUFFICES ASSUME i + 1 <= Len(ms)
                   PROVE  walk[i + 1] \in S
      OBVIOUS
    <3>2. i + 1 \in 1..Len(ms) /\ (i + 1) - 1 = i /\ i <= Len(ms)
      BY <1>1, <3>1
    <3> HIDE DEF S, After
    <3>3. walk[i] \in S /\ walk[i + 1] = After(walk[i], i + 1)
      BY <1>12, <2>2, <3>2
    <3>4. QED
      BY <1>2, <3>2, <3>3
  <2>3. Nat \subseteq T
    <3> HIDE DEF T
    <3>1. QED
      BY <2>1, <2>2, Induct
  <2>4. \A i \in 0..Len(ms) : walk[i] \in S
    BY <1>1, <2>3
  <2>5. QED
    <3> HIDE DEF S, After
    <3>1. QED
      BY <1>10, <2>4
<1>14. QED
  BY <1>11, <1>12, <1>13

\* What is kept keeps its order, and everything that Keeps allows is kept.
Embeds(e, kept, ms, n) ==
    /\ e \in [1..Len(kept) -> 1..n]
    /\ \A x \in 1..Len(kept) : kept[x] = ms[e[x]] /\ Keeps(kept[x])
    /\ \A x, y \in 1..Len(kept) : x < y => e[x] < e[y]
    /\ \A p \in 1..n : Keeps(ms[p]) => \E x \in 1..Len(kept) : e[x] = p

LEMMA EmbedsMore ==
    ASSUME NEW ms \in Seq(Messages), NEW n \in Nat, n + 1 \in DOMAIN ms, NEW kept \in Seq(Messages),
           NEW e, Embeds(e, kept, ms, n), NEW more,
           more = IF Keeps(ms[n + 1]) THEN Append(kept, ms[n + 1]) ELSE kept
    PROVE  \E d : Embeds(d, more, ms, n + 1)
<1>1. ms[n + 1] \in Messages /\ Len(kept) \in Nat
  BY Positions
<1>2. \A p \in 1..(n + 1) : p \in 1..n \/ p = n + 1
  OBVIOUS
<1>3. /\ e \in [1..Len(kept) -> 1..n] /\ \A x \in 1..Len(kept) : kept[x] = ms[e[x]] /\ Keeps(kept[x])
      /\ \A x, y \in 1..Len(kept) : x < y => e[x] < e[y]
      /\ \A p \in 1..n : Keeps(ms[p]) => \E x \in 1..Len(kept) : e[x] = p
  BY DEF Embeds
<1>4. CASE ~ Keeps(ms[n + 1])
  <2>1. more = kept /\ e \in [1..Len(kept) -> 1..(n + 1)]
    BY <1>3, <1>4
  <2>2. Embeds(e, more, ms, n + 1)
    BY <1>2, <1>3, <1>4, <2>1 DEF Embeds
  <2>3. QED
    BY <2>2
<1>5. CASE Keeps(ms[n + 1])
  <2>1. more = Append(kept, ms[n + 1])
    BY <1>5
  <2>2. /\ Len(more) = Len(kept) + 1 /\ more[Len(kept) + 1] = ms[n + 1]
        /\ \A x \in 1..Len(kept) : more[x] = kept[x]
    BY <1>1, <2>1, AppendProperties
  <2>3. PICK d : d = [x \in 1..(Len(kept) + 1) |-> IF x = Len(kept) + 1 THEN n + 1 ELSE e[x]]
    OBVIOUS
  <2>4. \A x \in 1..(Len(kept) + 1) : x \in 1..Len(kept) \/ x = Len(kept) + 1
    BY <1>1
  <2>5. /\ \A x \in 1..Len(kept) : x \in 1..(Len(kept) + 1) /\ x # Len(kept) + 1 /\ d[x] = e[x] /\ d[x] \in 1..n
        /\ Len(kept) + 1 \in 1..(Len(kept) + 1) /\ d[Len(kept) + 1] = n + 1
    <3>1. /\ \A x \in 1..Len(kept) : x \in 1..(Len(kept) + 1) /\ x # Len(kept) + 1
          /\ Len(kept) + 1 \in 1..(Len(kept) + 1)
      BY <1>1
    <3>2. \A x \in 1..Len(kept) : e[x] \in 1..n
      BY <1>3
    <3>3. QED
      BY <2>3, <3>1, <3>2
  <2>6. d \in [1..Len(more) -> 1..(n + 1)]
    <3>1. \A x \in 1..(Len(kept) + 1) : d[x] \in 1..(n + 1)
      BY <2>4, <2>5
    <3>2. QED
      BY <2>2, <2>3, <3>1
  <2>7. \A x \in 1..Len(more) : more[x] = ms[d[x]] /\ Keeps(more[x])
    BY <1>3, <1>5, <2>2, <2>4, <2>5
  <2>8. ASSUME NEW x \in 1..Len(more), NEW y \in 1..Len(more), x < y
        PROVE  d[x] < d[y]
    <3>1. x \in 1..Len(kept)
      BY <1>1, <2>2, <2>8
    <3>2. CASE y \in 1..Len(kept)
      BY <1>3, <2>5, <2>8, <3>1, <3>2
    <3>3. CASE y = Len(kept) + 1
      BY <2>5, <3>1, <3>3
    <3>4. QED
      BY <2>2, <2>4, <3>2, <3>3
  <2>9. ASSUME NEW p \in 1..(n + 1), Keeps(ms[p])
        PROVE  \E x \in 1..Len(more) : d[x] = p
    BY <1>2, <1>3, <2>2, <2>5, <2>9
  <2>10. Embeds(d, more, ms, n + 1)
    BY <2>6, <2>7, <2>8, <2>9 DEF Embeds
  <2>11. QED
    BY <2>10
<1>6. QED
  BY <1>4, <1>5

\* What is saved of a turn: what Keeps allows, numbered from the next number on.
SavedAs(new, kept) ==
    /\ new \in Seq(Messages) /\ DOMAIN new = 1..Len(kept) /\ Len(kept) \in Nat
    /\ \A i \in 1..Len(kept) :
          /\ kept[i] \in Messages /\ new[i] \in Messages /\ new[i].n = used.n + i
          /\ new[i].role = kept[i].role /\ new[i].calls = kept[i].calls /\ new[i].answers = kept[i].answers
          /\ new[i].content = IF kept[i].content = "image" THEN "text" ELSE kept[i].content

LEMMA SavedPart ==
    ASSUME NEW ms \in Seq(Messages), used.n \in Nat, NEW new, new = Persisted(ms)
    PROVE  \E kept, e : Embeds(e, kept, ms, Len(ms)) /\ SavedAs(new, kept)
<1>1. Len(ms) \in Nat /\ DOMAIN ms = 1..Len(ms) /\ \A i \in DOMAIN ms : ms[i] \in Messages
  BY Positions
<1>2. PICK walk \in [0..Len(ms) -> Seq(Messages)] :
              /\ Persisted(ms) = [i \in DOMAIN walk[Len(ms)] |->
                    [walk[Len(ms)][i] EXCEPT !.n = used.n + i, !.content = IF @ = "image" THEN "text" ELSE @]]
              /\ walk[0] = <<>>
              /\ \A i \in 1..Len(ms) :
                    walk[i] = IF Keeps(ms[i]) THEN Append(walk[i - 1], ms[i]) ELSE walk[i - 1]
  BY SaveWalk
<1> DEFINE T == {i \in Nat : i <= Len(ms) => \E e : Embeds(e, walk[i], ms, i)}
<1>3. 0 \in T
  <2>1. Embeds([x \in 1..0 |-> x], <<>>, ms, 0)
    BY DEF Embeds
  <2>2. QED
    BY <1>2, <2>1
<1>4. ASSUME NEW i \in Nat, i \in T
      PROVE  i + 1 \in T
  <2>1. SUFFICES ASSUME i + 1 <= Len(ms)
                 PROVE  \E e : Embeds(e, walk[i + 1], ms, i + 1)
    OBVIOUS
  <2>2. i + 1 \in 1..Len(ms) /\ (i + 1) - 1 = i /\ i \in 0..Len(ms)
    BY <1>1, <2>1
  <2>3. PICK e : Embeds(e, walk[i], ms, i)
    BY <1>4, <2>2
  <2>4. walk[i] \in Seq(Messages) /\ walk[i + 1] = IF Keeps(ms[i + 1]) THEN Append(walk[i], ms[i + 1]) ELSE walk[i]
    BY <1>2, <2>2
  <2>5. QED
    BY <1>1, <2>2, <2>3, <2>4, EmbedsMore
<1>5. Nat \subseteq T
  <2> HIDE DEF T
  <2>1. QED
    BY <1>3, <1>4, Induct
<1>6. PICK kept : kept = walk[Len(ms)]
  OBVIOUS
<1>7. kept \in Seq(Messages) /\ Len(kept) \in Nat /\ DOMAIN kept = 1..Len(kept) /\ \A x \in 1..Len(kept) : kept[x] \in Messages
  <2>1. Len(ms) \in 0..Len(ms)
    BY <1>1
  <2>2. kept \in Seq(Messages)
    BY <1>2, <1>6, <2>1
  <2>3. QED
    BY <2>2, Positions
<1>8. PICK e : Embeds(e, kept, ms, Len(ms))
  BY <1>1, <1>5, <1>6
<1>9. /\ e \in [1..Len(kept) -> 1..Len(ms)] /\ \A x \in 1..Len(kept) : kept[x] = ms[e[x]]
      /\ \A x, y \in 1..Len(kept) : x < y => e[x] < e[y]
      /\ \A p \in 1..Len(ms) : Keeps(ms[p]) => \E x \in 1..Len(kept) : e[x] = p
  BY <1>8 DEF Embeds
<1>10. new = [i \in 1..Len(kept) |-> [kept[i] EXCEPT !.n = used.n + i, !.content = IF @ = "image" THEN "text" ELSE @]]
  BY <1>2, <1>6, <1>7
<1>11. ASSUME NEW i \in 1..Len(kept)
       PROVE  /\ new[i] \in Messages /\ new[i].n = used.n + i
              /\ new[i].role = kept[i].role /\ new[i].calls = kept[i].calls /\ new[i].answers = kept[i].answers
              /\ new[i].content = IF kept[i].content = "image" THEN "text" ELSE kept[i].content
  <2>1. new[i] = [kept[i] EXCEPT !.n = used.n + i, !.content = IF @ = "image" THEN "text" ELSE @] /\ kept[i] \in Messages
    BY <1>7, <1>10
  <2>2. used.n + i \in Nat
    OBVIOUS
  <2>3. QED
    BY <2>1, <2>2 DEF Messages
<1>12. new \in Seq(Messages) /\ DOMAIN new = 1..Len(kept)
  <2>1. new \in [1..Len(kept) -> Messages]
    BY <1>10, <1>11
  <2>2. QED
    BY <1>7, <1>10, <2>1, FunctionIsSeq
<1>13. SavedAs(new, kept)
  BY <1>7, <1>11, <1>12 DEF SavedAs
<1>14. QED
  BY <1>8, <1>13

\* Each result that is saved comes after its call.
LEMMA SavedTurn ==
    ASSUME NEW ms \in Seq(Messages), used.n \in Nat, NEW new, new = Persisted(ms),
           \A i \in DOMAIN ms : ms[i].role = "tool" => CalledFrom(ms, 1, i)
    PROVE  /\ new \in Seq(Messages)
           /\ \A i \in DOMAIN new : /\ new[i].n = used.n + i
                                    /\ new[i].role = "tool" => CalledFrom(new, 1, i)
<1>1. Len(ms) \in Nat /\ DOMAIN ms = 1..Len(ms) /\ \A i \in DOMAIN ms : ms[i] \in Messages
  BY Positions
<1>2. PICK kept, e : Embeds(e, kept, ms, Len(ms)) /\ SavedAs(new, kept)
  BY SavedPart
<1>3. Len(kept) \in Nat
  BY <1>2 DEF SavedAs
<1>4. /\ e \in [1..Len(kept) -> 1..Len(ms)] /\ \A x \in 1..Len(kept) : kept[x] = ms[e[x]]
      /\ \A x, y \in 1..Len(kept) : x < y => e[x] < e[y]
      /\ \A p \in 1..Len(ms) : Keeps(ms[p]) => \E x \in 1..Len(kept) : e[x] = p
  BY <1>2 DEF Embeds
<1>5. \A i \in 1..Len(kept) : /\ new[i] \in Messages /\ new[i].n = used.n + i
              /\ new[i].role = kept[i].role /\ new[i].calls = kept[i].calls /\ new[i].answers = kept[i].answers
  BY <1>2 DEF SavedAs
<1>6. new \in Seq(Messages) /\ DOMAIN new = 1..Len(kept)
  BY <1>2 DEF SavedAs
<1>7. ASSUME NEW i \in 1..Len(kept), kept[i].role = "tool"
       PROVE  CalledFrom(new, 1, i)
  <2>1. e[i] \in 1..Len(ms) /\ ms[e[i]] = kept[i] /\ e[i] \in Int
    BY <1>4
  <2>2. PICK j \in 1..(e[i] - 1) : /\ ms[j].role = "assistant" /\ ms[e[i]].answers \in Range(ms[j].calls)
                                   /\ \A k \in j..e[i] : ms[k].role # "user"
    BY <1>1, <1>7, <2>1 DEF CalledFrom
  <2>3. j \in 1..Len(ms) /\ j < e[i]
    BY <1>1, <2>1
  <2>4. Keeps(ms[j])
    <3>1. ms[j].calls # <<>>
      BY <2>2 DEF Range
    <3>2. QED
      BY <2>2, <3>1 DEF Keeps
  <2>5. PICK x \in 1..Len(kept) : e[x] = j
    BY <1>4, <2>3, <2>4
  <2>6. x < i
    <3>1. e[x] < e[i]
      BY <2>3, <2>5
    <3>2. ~ (i < x) /\ i # x
      <4>1. i < x => e[i] < e[x]
        BY <1>4
      <4>2. e[x] \in Int
        BY <1>4
      <4>3. QED
        BY <2>1, <3>1, <4>1, <4>2
    <3>3. QED
      BY <3>2
  <2>7. ASSUME NEW y \in x..i
        PROVE  new[y].role # "user"
    <3>1. y \in 1..Len(kept)
      BY <1>3, <2>5, <2>7
    <3>2. e[y] \in Int
      BY <1>4, <3>1
    <3>3. e[y] \in j..e[i]
      <4>1. y = x \/ x < y
        BY <2>5, <2>7
      <4>2. y = i \/ y < i
        BY <2>7
      <4>3. j <= e[y]
        <5>1. x < y => e[x] < e[y]
          BY <1>4, <3>1
        <5>2. j \in Int /\ e[x] = j
          BY <2>3, <2>5
        <5>3. QED
          BY <3>2, <4>1, <5>1, <5>2
      <4>4. e[y] <= e[i]
        <5>1. y < i => e[y] < e[i]
          BY <1>4, <3>1
        <5>2. e[i] \in Int
          BY <2>1
        <5>3. QED
          BY <3>2, <4>2, <5>1, <5>2
      <4>5. QED
        BY <2>1, <2>3, <3>2, <4>3, <4>4
    <3>4. kept[y].role # "user"
      BY <1>4, <2>2, <3>1, <3>3
    <3>5. QED
      BY <1>5, <3>1, <3>4
  <2>8. new[x].role = "assistant" /\ new[i].answers \in Range(new[x].calls) /\ x \in 1..(i - 1)
    <3>1. kept[x] = ms[j]
      BY <1>4, <2>5
    <3>2. new[x].role = ms[j].role /\ new[x].calls = ms[j].calls /\ new[i].answers = ms[e[i]].answers
      BY <1>5, <2>1, <3>1
    <3>3. x \in 1..(i - 1)
      BY <2>5, <2>6
    <3>4. QED
      BY <2>2, <3>2, <3>3
  <2>9. QED
    BY <2>7, <2>8 DEF CalledFrom
<1>8. QED
  BY <1>5, <1>6, <1>7

LEMMA MessagesAt ==
    ASSUME NEW s \in Seq(Messages)
    PROVE  Len(s) \in Nat /\ DOMAIN s = 1..Len(s) /\ \A i \in 1..Len(s) : s[i] \in Messages
BY Positions

LEMMA MessagesDropped ==
    ASSUME NEW s \in Seq(Messages), NEW k \in Nat, NEW r, r = Drop(s, k)
    PROVE  /\ r \in Seq(Messages) /\ Len(s) \in Nat /\ Len(r) \in Nat /\ DOMAIN r = 1..Len(r) /\ DOMAIN s = 1..Len(s)
           /\ Len(r) = IF k <= Len(s) THEN Len(s) - k ELSE 0
           /\ \A i \in 1..Len(r) : i + k \in 1..Len(s) /\ r[i] = s[i + k]
<1>1. PICK S : S = Messages
  OBVIOUS
<1>2. s \in Seq(S)
  BY <1>1
<1>3. /\ r \in Seq(S) /\ Len(s) \in Nat /\ Len(r) \in Nat /\ DOMAIN r = 1..Len(r) /\ DOMAIN s = 1..Len(s)
      /\ Len(r) = IF k <= Len(s) THEN Len(s) - k ELSE 0
      /\ \A i \in 1..Len(r) : i + k \in 1..Len(s) /\ r[i] = s[i + k] /\ r[i] \in S
  BY <1>2, Dropped
<1>4. QED
  BY <1>1, <1>3

-----------------------------------------------------------------------------
(* Steps that touch one turn, and steps that touch none. *)

LEMMA TurnMoves ==
    ASSUME TranscriptInv, NEW l \in Lanes, NEW t \in TurnRecords, turn' = [turn EXCEPT ![l] = t],
           UNCHANGED <<key, session, file, job, waiting, archived>>, beat' \in Beats,
           used' \in UsedRecords, used'.n = used.n, used'.shifted = used.shifted, used'.turns <= MaxTurns,
           OpenTurn(t) - OpenTurn(turn[l]) <= used'.turns - used.turns,
           TurnIsSound(t, used.n), ~ used.shifted => SeenIsSent(t, session.messages, archived)
    PROVE  TranscriptInv'
<1>1. TranscriptTypes'
  BY DEF TranscriptInv, TranscriptTypes
<1>2. turn \in [Lanes -> TurnRecords] /\ turn'[l] = t /\ \A k \in Lanes : k # l => turn'[k] = turn[k]
  BY DEF TranscriptInv, TranscriptTypes
<1>3. TurnsCounted'
  <2>1. "user" \in Lanes /\ "system" \in Lanes /\ \A k \in Lanes : k \in {"user", "system"}
    BY DEF Lanes
  <2>2. waiting \in Nat /\ used.turns \in Nat /\ used'.turns \in Nat
    BY DEF TranscriptInv, TranscriptTypes, UsedRecords
  <2>3. \A u : OpenTurn(u) \in {0, 1}
    BY DEF OpenTurn
  <2>4. waiting + OpenTurn(turn["user"]) + OpenTurn(turn["system"]) <= used.turns
    BY DEF TranscriptInv, TurnsCounted
  <2>5. waiting + OpenTurn(turn'["user"]) + OpenTurn(turn'["system"]) <= used'.turns
    <3>1. CASE l = "user"
      BY <1>2, <2>1, <2>2, <2>3, <2>4, <3>1
    <3>2. CASE l = "system"
      BY <1>2, <2>1, <2>2, <2>3, <2>4, <3>2
    <3>3. QED
      BY <2>1, <3>1, <3>2
  <2>6. QED
    BY <2>5 DEF TurnsCounted
<1>4. \A k \in Lanes : TurnIsSound(turn'[k], used.n)
  BY <1>2 DEF TranscriptInv
<1>5. ~ used.shifted => \A k \in Lanes : SeenIsSent(turn'[k], session.messages, archived)
  BY <1>2 DEF TranscriptInv
<1>6. QED
  BY <1>1, <1>3, <1>4, <1>5 DEF TranscriptInv

LEMMA JobMoves ==
    ASSUME TranscriptInv, UNCHANGED <<key, session, file, turn, archived>>, beat' \in Beats, job' \in JobRecords,
           waiting' \in Nat, waiting' <= waiting,
           used' \in UsedRecords, used'.n = used.n, used'.shifted = used.shifted, used'.turns = used.turns,
           ~ used.shifted => JobIsSound(session.messages, session.last, job')
    PROVE  TranscriptInv'
<1>1. TranscriptTypes'
  BY DEF TranscriptInv, TranscriptTypes
<1>2. TurnsCounted'
  <2>1. waiting \in Nat /\ used.turns \in Nat /\ \A u : OpenTurn(u) \in {0, 1}
    BY DEF TranscriptInv, TranscriptTypes, UsedRecords, OpenTurn
  <2>2. QED
    BY <2>1 DEF TranscriptInv, TurnsCounted
<1>3. QED
  BY <1>1, <1>2 DEF TranscriptInv

\* A longer transcript has the same calls.
LEMMA CalledLonger ==
    ASSUME NEW s, NEW r, NEW from \in Nat, NEW i \in Nat, CalledFrom(s, from, i), \A k \in from..i : r[k] = s[k]
    PROVE  CalledFrom(r, from, i)
<1>1. PICK j \in from..(i - 1) : /\ s[j].role = "assistant" /\ s[i].answers \in Range(s[j].calls)
                                 /\ \A k \in j..i : s[k].role # "user"
  BY DEF CalledFrom
<1>2. j \in from..i /\ i \in from..i /\ \A k \in j..i : k \in from..i
  BY <1>1
<1>3. r[j] = s[j] /\ r[i] = s[i] /\ \A k \in j..i : r[k].role # "user"
  BY <1>1, <1>2
<1>4. QED
  BY <1>1, <1>3 DEF CalledFrom

\* So has one that was moved.
LEMMA CalledMoved ==
    ASSUME NEW s, NEW r, NEW from \in Nat, NEW i \in Nat, NEW by \in Int, from + by \in Nat,
           CalledFrom(s, from, i), \A k \in from..i : r[k + by] = s[k]
    PROVE  CalledFrom(r, from + by, i + by)
<1>1. PICK j \in from..(i - 1) : /\ s[j].role = "assistant" /\ s[i].answers \in Range(s[j].calls)
                                 /\ \A k \in j..i : s[k].role # "user"
  BY DEF CalledFrom
<1>2. PICK to, at, first : to = i + by /\ at = j + by /\ first = from + by
  OBVIOUS
<1>3. at \in first..(to - 1) /\ j \in from..i /\ i \in from..i
  BY <1>1, <1>2
<1>4. r[at] = s[j] /\ r[to] = s[i]
  BY <1>2, <1>3
<1>5. ASSUME NEW k \in at..to
      PROVE  r[k].role # "user"
  <2>1. k - by \in j..i /\ k - by \in from..i /\ (k - by) + by = k
    BY <1>1, <1>2, <1>3
  <2>2. r[k] = s[k - by]
    BY <2>1
  <2>3. QED
    BY <1>1, <2>1, <2>2
<1>6. CalledFrom(r, first, to)
  BY <1>1, <1>3, <1>4, <1>5 DEF CalledFrom
<1>7. QED
  BY <1>2, <1>6

-----------------------------------------------------------------------------
(* The steps of a turn. *)

LEMMA InvTurn ==
    ASSUME TranscriptInv, NEW l \in Lanes
    PROVE  /\ turn \in [Lanes -> TurnRecords] /\ turn[l] \in TurnRecords /\ TurnIsSound(turn[l], used.n)
           /\ used \in UsedRecords /\ used.turns <= MaxTurns /\ beat \in Beats
           /\ session.messages \in Seq(Messages) /\ session.last \in Nat /\ used.n \in Nat /\ used.shifted \in BOOLEAN
           /\ ~ used.shifted => SeenIsSent(turn[l], session.messages, archived)
BY DEF TranscriptInv, TranscriptTypes, UsedRecords, SessionRecords, TurnsCounted

LEMMA BeginsStep ==
    ASSUME TranscriptInv, NEW l \in Lanes, Begins(l), UNCHANGED <<key, session, file, job, waiting, archived>>,
           beat' \in Beats
    PROVE  TranscriptInv'
<1>1. PICK t : t = [turn[l] EXCEPT !.pc = "prepare", !.no = used.turns + 1]
  OBVIOUS
<1>2. used' \in UsedRecords /\ used'.n = used.n /\ used'.shifted = used.shifted
      /\ used'.turns = used.turns + 1 /\ used'.turns <= MaxTurns
  <2>1. used' = [used EXCEPT !.turns = @ + 1] /\ used.turns < MaxTurns
    BY DEF Begins
  <2>2. used \in UsedRecords /\ used.turns \in Nat /\ MaxTurns \in Nat
    BY InvTurn, TranscriptAssumption DEF UsedRecords
  <2>3. QED
    BY <2>1, <2>2 DEF UsedRecords
<1>3. turn[l].pc = "idle" /\ turn' = [turn EXCEPT ![l] = t]
  <2>1. turn' = [turn EXCEPT ![l].pc = "prepare", ![l].no = used.turns + 1]
    BY DEF Begins
  <2>2. QED
    BY <1>1, <2>1, InvTurn DEF Begins
<1>4. t \in TurnRecords /\ t.pc = "prepare" /\ t.iteration = turn[l].iteration
  <2>1. used.turns + 1 \in Nat /\ "prepare" \in Places
    BY InvTurn DEF Places, UsedRecords
  <2>2. QED
    BY <1>1, <2>1, InvTurn DEF TurnRecords
<1>5. TurnIsSound(t, used.n) /\ SeenIsSent(t, session.messages, archived)
  BY <1>3, <1>4, InvTurn DEF TurnIsSound, AsksModel, SeenIsSent
<1>6. OpenTurn(t) - OpenTurn(turn[l]) <= used'.turns - used.turns
  BY <1>2, <1>3, <1>4, InvTurn DEF OpenTurn, UsedRecords
<1>7. QED
  BY <1>2, <1>3, <1>4, <1>5, <1>6, TurnMoves

LEMMA MessageArrivesStep ==
    ASSUME TranscriptInv, NEW l \in Lanes, MessageArrives(l)
    PROVE  TranscriptInv'
BY InvTurn, BeginsStep DEF MessageArrives

LEMMA BeatRunsStep ==
    ASSUME TranscriptInv, BeatRuns
    PROVE  TranscriptInv'
BY BeginsStep DEF BeatRuns, Lanes, Beats

\* What the turn appends is no result: every result still has its call.
LEMMA NoResultAdded ==
    ASSUME NEW s \in Seq(Messages), NEW k \in Nat, NEW m \in Messages, m.role # "tool", NEW r, r = Append(s, m),
           \A i \in DOMAIN s : i > k /\ s[i].role = "tool" => CalledFrom(s, k + 1, i)
    PROVE  /\ r \in Seq(Messages) /\ Len(r) = Len(s) + 1 /\ Last(r) = m
           /\ \A i \in DOMAIN s : i \in DOMAIN r /\ r[i] = s[i]
           /\ \A i \in DOMAIN r : i > k /\ r[i].role = "tool" => CalledFrom(r, k + 1, i)
<1>1. Len(s) \in Nat /\ DOMAIN s = 1..Len(s)
  BY MessagesAt
<1>2. r \in Seq(Messages) /\ Len(r) = Len(s) + 1 /\ r[Len(s) + 1] = m /\ \A i \in 1..Len(s) : r[i] = s[i]
  BY AppendProperties
<1>3. DOMAIN r = 1..(Len(s) + 1)
  BY <1>2, MessagesAt
<1>4. ASSUME NEW i \in DOMAIN r, i > k, r[i].role = "tool"
      PROVE  CalledFrom(r, k + 1, i)
  <2>1. i \in 1..Len(s) /\ i \in Nat
    BY <1>1, <1>2, <1>3, <1>4
  <2>2. CalledFrom(s, k + 1, i)
    BY <1>1, <1>2, <1>4, <2>1
  <2>3. PICK from : from = k + 1 /\ from \in Nat
    OBVIOUS
  <2>4. \A j \in from..i : j \in 1..Len(s)
    BY <1>1, <2>1, <2>3
  <2>5. QED
    BY <1>2, <2>1, <2>2, <2>3, <2>4, CalledLonger
<1>5. QED
  BY <1>1, <1>2, <1>3, <1>4 DEF Last

LEMMA SaysStep ==
    ASSUME TranscriptInv, NEW l \in Lanes, turn[l].pc = "model", NEW pc \in {"tools", "save"},
           NEW m \in Messages, m.role = "assistant", Says(l, pc, m)
    PROVE  TranscriptInv'
<1>1. PICK t : t = [turn[l] EXCEPT !.pc = pc, !.attempt = 0, !.stripped = FALSE, !.msgs = Append(@, m)]
  OBVIOUS
<1>2. turn' = [turn EXCEPT ![l] = t] /\ UNCHANGED <<key, session, file, job, waiting, beat, archived, used>>
  BY <1>1 DEF Says
<1>3. turn[l].msgs \in Seq(Messages) /\ turn[l].skip \in Nat /\ turn[l].iteration \in Nat /\ Len(turn[l].msgs) \in Nat
  BY InvTurn, MessagesAt, TranscriptAssumption DEF TurnRecords
<1>4. /\ turn[l].iteration < MaxIterations /\ turn[l].skip <= Len(turn[l].msgs) /\ turn[l].seen \subseteq 1..used.n
      /\ \A i \in DOMAIN turn[l].msgs : i > turn[l].skip /\ turn[l].msgs[i].role = "tool" =>
            CalledFrom(turn[l].msgs, turn[l].skip + 1, i)
  BY InvTurn DEF TurnIsSound, AsksModel
<1>5. PICK s, r, k : s = turn[l].msgs /\ r = Append(s, m) /\ k = turn[l].skip
  OBVIOUS
<1>6. /\ r \in Seq(Messages) /\ Len(r) = Len(s) + 1 /\ Last(r) = m
      /\ \A i \in DOMAIN s : i \in DOMAIN r /\ r[i] = s[i]
      /\ \A i \in DOMAIN r : i > k /\ r[i].role = "tool" => CalledFrom(r, k + 1, i)
  <2>1. s \in Seq(Messages) /\ k \in Nat /\ m \in Messages /\ m.role # "tool" /\ r = Append(s, m)
    BY <1>3, <1>5
  <2>2. \A i \in DOMAIN s : i > k /\ s[i].role = "tool" => CalledFrom(s, k + 1, i)
    BY <1>4, <1>5
  <2>3. QED
    BY <2>1, <2>2, NoResultAdded
<1>7. /\ t.pc = pc /\ t.msgs = r /\ t.skip = k /\ t.seen = turn[l].seen /\ t.iteration = turn[l].iteration
      /\ t \in TurnRecords
  <2>1. 0 \in 0..RetryDelays /\ pc \in Places
    BY TranscriptAssumption DEF Places
  <2>2. turn[l] \in TurnRecords
    BY InvTurn
  <2>3. QED
    BY <1>1, <1>5, <1>6, <2>1, <2>2 DEF TurnRecords
<1>8. TurnIsSound(t, used.n)
  BY <1>3, <1>4, <1>5, <1>6, <1>7 DEF TurnIsSound, AsksModel
<1>9. ~ used.shifted => SeenIsSent(t, session.messages, archived)
  <2>1. SeenIsSent(turn[l], session.messages, archived) => SeenIsSent(t, session.messages, archived)
    BY <1>5, <1>6, <1>7 DEF SeenIsSent, AsksModel
  <2>2. QED
    BY <2>1, InvTurn
<1>10. OpenTurn(t) = OpenTurn(turn[l])
  BY <1>7 DEF OpenTurn
<1>11. used.turns \in Nat /\ OpenTurn(t) \in {0, 1}
  BY InvTurn DEF OpenTurn, UsedRecords
<1>12. QED
  <2>1. used \in UsedRecords /\ used.turns <= MaxTurns /\ beat \in Beats
    BY InvTurn
  <2>2. OpenTurn(t) - OpenTurn(turn[l]) <= used.turns - used.turns
    BY <1>10, <1>11
  <2>3. QED
    BY <1>2, <1>7, <1>8, <1>9, <2>1, <2>2, TurnMoves

LEMMA ModelCallsStep ==
    ASSUME TranscriptInv, NEW l \in Lanes, ModelCalls(l)
    PROVE  TranscriptInv'
<1>1. PICK k \in 1..MaxCalls, content \in {"text", "empty"} :
          Says(l, "tools", Calling(content, [i \in 1..k |-> <<turn[l].no, turn[l].iteration, i>>]))
  BY DEF ModelCalls
<1>2. PICK ids : ids = [i \in 1..k |-> <<turn[l].no, turn[l].iteration, i>>]
  OBVIOUS
<1>3. k \in Nat /\ turn[l].no \in Nat /\ turn[l].iteration \in Nat
  BY InvTurn, TranscriptAssumption DEF TurnRecords
<1>4. ids \in [1..k -> CallIds]
  BY <1>2, <1>3 DEF CallIds
<1>5. ids \in Seq(CallIds)
  BY <1>3, <1>4, FunctionIsSeq
<1>6. PICK m : m = Calling(content, ids)
  OBVIOUS
<1>7. m \in Messages /\ m.role = "assistant"
  BY <1>5, <1>6 DEF Calling, Message, Messages
<1>8. Says(l, "tools", m)
  BY <1>1, <1>2, <1>6
<1>9. QED
  BY <1>7, <1>8, SaysStep DEF ModelCalls

LEMMA ModelAnswersStep ==
    ASSUME TranscriptInv, NEW l \in Lanes, ModelAnswers(l)
    PROVE  TranscriptInv'
<1>1. PICK content \in {"text", "none"} : Says(l, "save", Message("assistant", content))
  BY DEF ModelAnswers
<1>2. PICK m : m = Message("assistant", content)
  OBVIOUS
<1>3. m \in Messages /\ m.role = "assistant"
  BY <1>2 DEF Message, Messages
<1>4. QED
  BY <1>1, <1>2, <1>3, SaysStep DEF ModelAnswers

LEMMA ModelErrsStep ==
    ASSUME TranscriptInv, NEW l \in Lanes, ModelErrs(l)
    PROVE  TranscriptInv'
<1>1. used' \in UsedRecords /\ used'.n = used.n /\ used'.shifted = used.shifted /\ used'.turns = used.turns
  BY InvTurn DEF ModelErrs, UsedRecords
<1>2. PICK t : /\ turn' = [turn EXCEPT ![l] = t] /\ t \in TurnRecords /\ t.pc \in {"model", "save"}
               /\ t.msgs = turn[l].msgs /\ t.skip = turn[l].skip /\ t.seen = turn[l].seen /\ t.iteration = turn[l].iteration
  <2>1. \/ turn[l].attempt < RetryDelays /\ turn' = [turn EXCEPT ![l].attempt = @ + 1]
        \/ turn' = [turn EXCEPT ![l].stripped = TRUE]
        \/ turn' = [turn EXCEPT ![l].pc = "save"]
    BY DEF ModelErrs
  <2>2. turn[l].attempt \in 0..RetryDelays /\ turn[l].pc = "model" /\ RetryDelays \in Nat
    BY InvTurn, TranscriptAssumption DEF ModelErrs, TurnRecords
  <2>3. CASE turn[l].attempt < RetryDelays /\ turn' = [turn EXCEPT ![l].attempt = @ + 1]
    <3>1. PICK t : t = [turn[l] EXCEPT !.attempt = @ + 1]
      OBVIOUS
    <3>2. turn' = [turn EXCEPT ![l] = t]
      BY <2>3, <3>1, InvTurn
    <3>3. t \in TurnRecords /\ t.pc = "model" /\ t.msgs = turn[l].msgs /\ t.skip = turn[l].skip
          /\ t.seen = turn[l].seen /\ t.iteration = turn[l].iteration
      <4>1. turn[l].attempt + 1 \in 0..RetryDelays
        BY <2>2, <2>3
      <4>2. turn[l] \in TurnRecords
        BY InvTurn
      <4>3. QED
        BY <2>2, <3>1, <4>1, <4>2 DEF TurnRecords
    <3>4. QED
      BY <3>2, <3>3
  <2>4. CASE turn' = [turn EXCEPT ![l].stripped = TRUE]
    <3>1. PICK t : t = [turn[l] EXCEPT !.stripped = TRUE]
      OBVIOUS
    <3>2. turn' = [turn EXCEPT ![l] = t]
      BY <2>4, <3>1, InvTurn
    <3>3. t \in TurnRecords /\ t.pc = "model" /\ t.msgs = turn[l].msgs /\ t.skip = turn[l].skip
          /\ t.seen = turn[l].seen /\ t.iteration = turn[l].iteration
      BY <2>2, <3>1, InvTurn DEF TurnRecords
    <3>4. QED
      BY <3>2, <3>3
  <2>5. CASE turn' = [turn EXCEPT ![l].pc = "save"]
    <3>1. PICK t : t = [turn[l] EXCEPT !.pc = "save"]
      OBVIOUS
    <3>2. turn' = [turn EXCEPT ![l] = t]
      BY <2>5, <3>1, InvTurn
    <3>3. t \in TurnRecords /\ t.pc = "save" /\ t.msgs = turn[l].msgs /\ t.skip = turn[l].skip
          /\ t.seen = turn[l].seen /\ t.iteration = turn[l].iteration
      BY <2>2, <3>1, InvTurn DEF TurnRecords, Places
    <3>4. QED
      BY <3>2, <3>3
  <2>6. QED
    BY <2>1, <2>3, <2>4, <2>5
<1>3. turn[l].pc = "model" /\ OpenTurn(t) - OpenTurn(turn[l]) <= used'.turns - used.turns
  BY <1>1, <1>2, InvTurn DEF ModelErrs, OpenTurn, UsedRecords
<1>4. TurnIsSound(t, used.n) /\ (~ used.shifted => SeenIsSent(t, session.messages, archived))
  BY <1>2, <1>3, InvTurn DEF TurnIsSound, AsksModel, SeenIsSent
<1>5. UNCHANGED <<key, session, file, job, waiting, beat, archived>>
  BY DEF ModelErrs
<1>6. QED
  BY <1>1, <1>2, <1>3, <1>4, <1>5, InvTurn, TurnMoves

LEMMA IdleIsATurn == IdleTurn \in TurnRecords
<1>1. 0 \in 0..MaxIterations /\ 0 \in 0..RetryDelays /\ <<>> \in Seq(Messages)
  BY TranscriptAssumption
<1>2. QED
  BY <1>1 DEF IdleTurn, TurnRecords, Places

LEMMA TurnBreaksOffStep ==
    ASSUME TranscriptInv, NEW l \in Lanes, TurnBreaksOff(l)
    PROVE  TranscriptInv'
<1>1. used' \in UsedRecords /\ used'.n = used.n /\ used'.shifted = used.shifted /\ used'.turns = used.turns
  BY InvTurn DEF TurnBreaksOff, UsedRecords
<1>2. PICK t : t = IdleTurn
  OBVIOUS
<1>3. t \in TurnRecords /\ t.pc = "idle" /\ t.iteration = 0 /\ turn' = [turn EXCEPT ![l] = t]
  BY <1>2, IdleIsATurn DEF IdleTurn, TurnBreaksOff
<1>4. TurnIsSound(t, used.n) /\ SeenIsSent(t, session.messages, archived)
  BY <1>3 DEF TurnIsSound, AsksModel, SeenIsSent
<1>5. OpenTurn(t) - OpenTurn(turn[l]) <= used'.turns - used.turns
  BY <1>1, <1>3, InvTurn DEF OpenTurn, UsedRecords
<1>6. UNCHANGED <<key, session, file, job, waiting, archived>> /\ beat' \in Beats
  BY InvTurn DEF TurnBreaksOff, Beats
<1>7. QED
  BY <1>1, <1>3, <1>4, <1>5, <1>6, InvTurn, TurnMoves

\* One transcript after another.
LEMMA Joined ==
    ASSUME NEW s \in Seq(Messages), NEW t \in Seq(Messages), NEW r, r = s \o t
    PROVE  /\ r \in Seq(Messages) /\ Len(s) \in Nat /\ Len(t) \in Nat
           /\ DOMAIN s = 1..Len(s) /\ DOMAIN t = 1..Len(t) /\ DOMAIN r = 1..(Len(s) + Len(t)) /\ Len(r) = Len(s) + Len(t)
           /\ \A i \in 1..Len(s) : i \in DOMAIN r /\ r[i] = s[i]
           /\ \A i \in 1..Len(t) : i + Len(s) \in DOMAIN r /\ r[i + Len(s)] = t[i]
           /\ \A i \in DOMAIN r : i \in 1..Len(s) \/ i - Len(s) \in 1..Len(t)
<1>1. Len(s) \in Nat /\ Len(t) \in Nat /\ DOMAIN s = 1..Len(s) /\ DOMAIN t = 1..Len(t)
  BY MessagesAt
<1>2. /\ r \in Seq(Messages) /\ Len(r) = Len(s) + Len(t)
      /\ \A i \in 1..(Len(s) + Len(t)) : r[i] = IF i <= Len(s) THEN s[i] ELSE t[i - Len(s)]
  BY ConcatProperties
<1>3. DOMAIN r = 1..(Len(s) + Len(t))
  BY <1>2, MessagesAt
<1>4. \A i \in 1..Len(s) : i \in DOMAIN r /\ r[i] = s[i]
  BY <1>1, <1>2, <1>3
<1>5. ASSUME NEW i \in 1..Len(t)
      PROVE  i + Len(s) \in DOMAIN r /\ r[i + Len(s)] = t[i]
  <2>1. i + Len(s) \in 1..(Len(s) + Len(t)) /\ ~ (i + Len(s) <= Len(s)) /\ (i + Len(s)) - Len(s) = i
    BY <1>1
  <2>2. QED
    BY <1>2, <1>3, <2>1
<1>6. \A i \in DOMAIN r : i \in 1..Len(s) \/ i - Len(s) \in 1..Len(t)
  BY <1>1, <1>3
<1>7. QED
  BY <1>1, <1>2, <1>3, <1>4, <1>5, <1>6

LEMMA ToolsReturnStep ==
    ASSUME TranscriptInv, NEW l \in Lanes, ToolsReturn(l)
    PROVE  TranscriptInv'
<1>1. PICK s, k, ids : s = turn[l].msgs /\ k = turn[l].skip /\ ids = Last(s).calls
  OBVIOUS
<1>2. PICK results : results = [i \in DOMAIN ids |-> Result(ids[i])]
  OBVIOUS
<1>3. PICK r : r = s \o results
  OBVIOUS
<1>4. PICK t : t = [turn[l] EXCEPT !.msgs = r, !.iteration = @ + 1,
                                   !.pc = IF turn[l].iteration + 1 < MaxIterations THEN "model" ELSE "save"]
  OBVIOUS
<1>5. turn[l].pc = "tools" /\ UNCHANGED <<key, session, file, job, waiting, beat, archived, used>>
  BY DEF ToolsReturn
<1>6. turn' = [turn EXCEPT ![l] = t]
  BY <1>1, <1>2, <1>3, <1>4 DEF ToolsReturn
<1>7. s \in Seq(Messages) /\ k \in Nat /\ turn[l].iteration \in Nat /\ MaxIterations \in Nat
  BY <1>1, InvTurn, TranscriptAssumption DEF TurnRecords
<1>8. /\ turn[l].iteration < MaxIterations /\ k < Len(s) /\ turn[l].seen \subseteq 1..used.n
      /\ \A i \in DOMAIN s : i > k /\ s[i].role = "tool" => CalledFrom(s, k + 1, i)
      /\ Last(s).role = "assistant"
  BY <1>1, <1>5, InvTurn DEF TurnIsSound, AsksModel
<1>9. PICK n : n = Len(s) /\ n \in 1..Len(s) /\ s[n] \in Messages /\ s[n].role = "assistant" /\ s[n].calls = ids
  <2>1. Len(s) \in 1..Len(s) /\ \A i \in 1..Len(s) : s[i] \in Messages
    BY <1>7, <1>8, MessagesAt
  <2>2. QED
    BY <1>1, <1>8, <2>1 DEF Last
<1>10. ids \in Seq(CallIds)
  BY <1>9 DEF Messages
<1>11. PICK m \in Nat : DOMAIN ids = 1..m /\ \A i \in 1..m : ids[i] \in CallIds
  BY <1>10, Positions
<1>12. \A i \in 1..m : /\ results[i] \in Messages /\ results[i].role = "tool" /\ results[i].answers = ids[i]
                       /\ ids[i] \in Range(ids)
  <2>1. \A id \in CallIds : Result(id) \in Messages /\ Result(id).role = "tool" /\ Result(id).answers = id
    <3>1. \A id : Result(id) = [role |-> "tool", n |-> 0, content |-> "text", calls |-> <<>>, answers |-> id]
      BY DEF Result, Message
    <3>2. <<>> \in Seq(CallIds)
      OBVIOUS
    <3>3. QED
      BY <3>1, <3>2 DEF Messages
  <2>2. \A i \in 1..m : results[i] = Result(ids[i]) /\ ids[i] \in CallIds /\ ids[i] \in Range(ids)
    BY <1>2, <1>11 DEF Range
  <2>3. QED
    BY <2>1, <2>2
<1>13. results \in Seq(Messages) /\ Len(results) = m
  <2>1. results \in [1..m -> Messages]
    BY <1>2, <1>11, <1>12
  <2>2. QED
    BY <2>1, FunctionIsSeq
<1>14. /\ r \in Seq(Messages) /\ n \in Nat /\ Len(r) = n + m /\ DOMAIN s = 1..n /\ DOMAIN r = 1..(n + m)
       /\ \A i \in 1..n : i \in DOMAIN r /\ r[i] = s[i]
       /\ \A i \in 1..m : i + n \in DOMAIN r /\ r[i + n] = results[i]
       /\ \A i \in DOMAIN r : i \in 1..n \/ i - n \in 1..m
  <2>1. s \in Seq(Messages) /\ results \in Seq(Messages) /\ r = s \o results
    BY <1>3, <1>7, <1>13
  <2>2. /\ r \in Seq(Messages) /\ Len(s) \in Nat
        /\ DOMAIN s = 1..Len(s) /\ DOMAIN r = 1..(Len(s) + Len(results)) /\ Len(r) = Len(s) + Len(results)
        /\ \A i \in 1..Len(s) : i \in DOMAIN r /\ r[i] = s[i]
        /\ \A i \in 1..Len(results) : i + Len(s) \in DOMAIN r /\ r[i + Len(s)] = results[i]
        /\ \A i \in DOMAIN r : i \in 1..Len(s) \/ i - Len(s) \in 1..Len(results)
    BY <2>1, Joined
  <2>3. Len(s) = n /\ Len(results) = m
    BY <1>9, <1>13
  <2>4. QED
    BY <2>2, <2>3
<1>15. ASSUME NEW i \in DOMAIN r, i > k, r[i].role = "tool"
       PROVE  CalledFrom(r, k + 1, i)
  <2>1. CASE i \in 1..n
    <3>1. CalledFrom(s, k + 1, i)
      BY <1>8, <1>14, <1>15, <2>1
    <3>2. PICK from \in Nat : from = k + 1 /\ \A j \in from..i : r[j] = s[j]
      <4>1. k + 1 \in Nat /\ \A j \in (k + 1)..i : j \in 1..n
        BY <1>7, <1>14, <2>1
      <4>2. QED
        BY <1>14, <4>1
    <3>3. i \in Nat
      BY <2>1
    <3>4. QED
      BY <3>1, <3>2, <3>3, CalledLonger
  <2>2. CASE i - n \in 1..m
    <3>1. PICK x \in 1..m : x = i - n /\ i = x + n
      BY <1>14, <2>2
    <3>2. r[i] = results[x] /\ r[n] = s[n]
      BY <1>9, <1>14, <3>1
    <3>3. n \in (k + 1)..(i - 1)
      BY <1>7, <1>8, <1>9, <1>14, <3>1
    <3>4. r[n].role = "assistant" /\ r[i].answers \in Range(r[n].calls)
      BY <1>9, <1>12, <3>2
    <3>5. ASSUME NEW j \in n..i
          PROVE  r[j].role # "user"
      <4>1. CASE j = n
        BY <1>9, <3>2, <4>1
      <4>2. CASE j # n
        <5>1. PICK y \in 1..m : j = y + n
          <6>1. j - n \in 1..m /\ j = (j - n) + n
            BY <1>14, <2>2, <4>2
          <6>2. QED
            BY <6>1
        <5>2. r[j] = results[y]
          BY <1>14, <5>1
        <5>3. QED
          BY <1>12, <5>2
      <4>3. QED
        BY <4>1, <4>2
    <3>6. QED
      BY <3>3, <3>4, <3>5 DEF CalledFrom
  <2>3. QED
    BY <1>14, <2>1, <2>2
<1>16. t \in TurnRecords /\ t.msgs = r /\ t.skip = k /\ t.seen = turn[l].seen /\ t.iteration = turn[l].iteration + 1
       /\ t.pc = IF turn[l].iteration + 1 < MaxIterations THEN "model" ELSE "save"
  <2>1. turn[l].iteration + 1 \in 0..MaxIterations
    BY <1>7, <1>8
  <2>2. turn[l] \in TurnRecords
    BY InvTurn
  <2>3. (IF turn[l].iteration + 1 < MaxIterations THEN "model" ELSE "save") \in Places
    BY DEF Places
  <2>4. QED
    BY <1>1, <1>4, <1>14, <2>1, <2>2, <2>3 DEF TurnRecords
<1>17. TurnIsSound(t, used.n)
  <2>1. k <= Len(r)
    BY <1>7, <1>8, <1>9, <1>14
  <2>2. QED
    BY <1>8, <1>15, <1>16, <2>1 DEF TurnIsSound, AsksModel
<1>18. ~ used.shifted => SeenIsSent(t, session.messages, archived)
  <2>1. \A i \in DOMAIN turn[l].msgs : i \in DOMAIN t.msgs /\ t.msgs[i] = turn[l].msgs[i]
    BY <1>1, <1>14, <1>16
  <2>2. SeenIsSent(turn[l], session.messages, archived) => SeenIsSent(t, session.messages, archived)
    BY <1>5, <1>16, <2>1 DEF SeenIsSent, AsksModel
  <2>3. QED
    BY <2>2, InvTurn
<1>19. OpenTurn(t) - OpenTurn(turn[l]) <= used.turns - used.turns
  BY <1>5, <1>16, InvTurn DEF OpenTurn, UsedRecords
<1>20. used \in UsedRecords /\ used.turns <= MaxTurns /\ beat \in Beats
  BY InvTurn
<1>21. QED
  BY <1>5, <1>6, <1>16, <1>17, <1>18, <1>19, <1>20, TurnMoves

\* The history of a request: a part of the transcript, and all of it from the first message of
\* the user on, as far as it is not archived.
LEMMA HistoryHolds ==
    ASSUME TranscriptInv, NEW h, h = History
    PROVE  /\ h \in Seq(Messages)
           /\ PositionIsSound(session.messages, session.last, archived) =>
                 \A i \in DOMAIN session.messages :
                    session.messages[i].n \notin archived /\ (\E j \in 1..i : session.messages[j].role = "user")
                        => \E x \in DOMAIN h : h[x] = session.messages[i]
<1>1. PICK all, last, s : all = session.messages /\ last = session.last /\ s = Drop(all, last)
  OBVIOUS
<1>2. all \in Seq(Messages) /\ last \in Nat /\ CallsAreKept(all) /\ Len(all) \in Nat /\ DOMAIN all = 1..Len(all)
  <2>1. all \in Seq(Messages) /\ last \in Nat /\ CallsAreKept(all)
    BY <1>1 DEF TranscriptInv, TranscriptTypes, SessionRecords
  <2>2. QED
    BY <2>1, MessagesAt
<1>3. /\ s \in Seq(Messages) /\ Len(s) \in Nat /\ DOMAIN s = 1..Len(s)
      /\ Len(s) = IF last <= Len(all) THEN Len(all) - last ELSE 0
      /\ \A i \in 1..Len(s) : i + last \in 1..Len(all) /\ s[i] = all[i + last]
  BY <1>1, <1>2, MessagesDropped
<1>4. UserAt(s) = {i \in 1..Len(s) : s[i].role = "user"}
  BY <1>3 DEF UserAt
<1>5. PICK cut \in Nat : cut = IF UserAt(s) = {} THEN 0 ELSE Least(UserAt(s)) - 1
  <2>1. UserAt(s) # {} => Least(UserAt(s)) - 1 \in Nat
    <3>1. UserAt(s) # {} => Least(UserAt(s)) \in UserAt(s)
      BY <1>4, LeastIn
    <3>2. QED
      BY <1>3, <1>4, <3>1
  <2>2. QED
    BY <2>1
<1>6. PICK t : t = Drop(s, cut)
  OBVIOUS
<1>7. /\ t \in Seq(Messages) /\ Len(t) \in Nat /\ DOMAIN t = 1..Len(t)
      /\ Len(t) = IF cut <= Len(s) THEN Len(s) - cut ELSE 0
      /\ \A i \in 1..Len(t) : i + cut \in 1..Len(s) /\ t[i] = s[i + cut]
  <2>1. s \in Seq(Messages) /\ cut \in Nat
    BY <1>3, <1>5
  <2>2. QED
    BY <1>6, <2>1, MessagesDropped
<1>8. PICK start : start = FindLegalStart(t) /\ start \in Nat
  BY <1>7, LegalStartBound
<1>9. h = Drop(t, start)
  <2>1. h = Drop(IF UserAt(s) = {} THEN s ELSE Drop(s, Least(UserAt(s)) - 1),
                 FindLegalStart(IF UserAt(s) = {} THEN s ELSE Drop(s, Least(UserAt(s)) - 1)))
    BY <1>1 DEF History
  <2>2. t = IF UserAt(s) = {} THEN s ELSE Drop(s, Least(UserAt(s)) - 1)
    <3>1. CASE UserAt(s) = {}
      <4>1. cut = 0
        BY <1>5, <3>1
      <4>2. Len(t) = Len(s) /\ \A i \in 1..Len(t) : t[i] = s[i]
        BY <1>3, <1>7, <4>1
      <4>3. t = s
        BY <1>3, <1>7, <4>2, SeqEqual
      <4>4. QED
        BY <3>1, <4>3
    <3>2. CASE UserAt(s) # {}
      BY <1>5, <1>6, <3>2
    <3>3. QED
      BY <3>1, <3>2
  <2>3. QED
    BY <1>8, <2>1, <2>2
<1>10. /\ h \in Seq(Messages) /\ Len(h) \in Nat /\ DOMAIN h = 1..Len(h)
       /\ Len(h) = IF start <= Len(t) THEN Len(t) - start ELSE 0
       /\ \A i \in 1..Len(h) : i + start \in 1..Len(t) /\ h[i] = t[i + start]
  BY <1>7, <1>8, <1>9, MessagesDropped
<1>11. ASSUME PositionIsSound(all, last, archived), NEW i \in DOMAIN all, all[i].n \notin archived,
              NEW j \in 1..i, all[j].role = "user"
       PROVE  \E x \in DOMAIN h : h[x] = all[i]
  <2>1. last < i
    BY <1>2, <1>11 DEF PositionIsSound
  <2>2. PICK u \in UserAt(s) : u + last <= i
    <3>1. CASE last = 0
      <4>1. j \in 1..Len(s) /\ s[j] = all[j]
        BY <1>2, <1>3, <3>1
      <4>2. j \in UserAt(s) /\ j + last <= i
        BY <1>4, <1>11, <3>1, <4>1
      <4>3. QED
        BY <4>2
    <3>2. CASE last # 0
      <4>1. last < Len(all) /\ all[last + 1].role = "user"
        BY <1>11, <3>2 DEF PositionIsSound, UserFollows
      <4>2. 1 \in 1..Len(s) /\ 1 + last = last + 1
        BY <1>2, <1>3, <4>1
      <4>3. s[1] = all[last + 1]
        BY <1>3, <4>2
      <4>4. 1 \in UserAt(s)
        BY <1>4, <4>1, <4>2, <4>3
      <4>5. 1 + last <= i
        BY <1>2, <2>1
      <4>6. QED
        BY <4>4, <4>5
    <3>3. QED
      BY <3>1, <3>2
  <2>3. PICK first : first = Least(UserAt(s)) /\ first \in 1..Len(s) /\ first <= u /\ s[first].role = "user" /\ cut = first - 1
    <3>1. Least(UserAt(s)) \in UserAt(s) /\ \A k \in UserAt(s) : Least(UserAt(s)) <= k
      BY <1>4, <2>2, LeastIn
    <3>2. QED
      BY <1>4, <1>5, <2>2, <3>1
  <2>4. PICK off \in Nat : off = last + cut
    BY <1>2
  <2>5. /\ Len(t) + off = Len(all) /\ off < i /\ off + 1 \in 1..Len(all) /\ all[off + 1].role = "user"
        /\ \A k \in 1..Len(t) : k + off \in 1..Len(all) /\ t[k] = all[k + off]
    <3>1. u \in 1..Len(s) /\ s[first] = all[first + last] /\ first + last \in 1..Len(all)
      BY <1>3, <1>4, <2>3
    <3>2. first + last = off + 1
      <4>1. first \in Int /\ last \in Int
        <5>1. first \in Int
          BY <2>3
        <5>2. QED
          BY <1>2, <5>1
      <4>2. cut = first - 1 /\ off = last + cut
        BY <2>3, <2>4
      <4>3. QED
        BY <4>1, <4>2
    <3>3. Len(t) + off = Len(all)
      <4>1. cut <= Len(s) /\ last <= Len(all)
        <5>1. first \in Int /\ first <= Len(s) /\ 1 <= Len(s) /\ cut = first - 1
          BY <1>3, <2>3
        <5>2. Len(s) \in Int /\ Len(s) = IF last <= Len(all) THEN Len(all) - last ELSE 0
          BY <1>3
        <5>3. last \in Int /\ Len(all) \in Int
          BY <1>2
        <5>4. QED
          BY <5>1, <5>2, <5>3
      <4>2. Len(t) = Len(s) - cut /\ Len(s) = Len(all) - last
        BY <1>3, <1>7, <4>1
      <4>3. QED
        <5>1. off = last + cut /\ cut \in Int /\ last \in Int /\ Len(all) \in Int
          BY <1>2, <1>5, <2>4
        <5>2. QED
          BY <4>2, <5>1
    <3>4. off < i
      <4>1. first <= u /\ u + last <= i /\ u \in Nat /\ first \in Nat /\ i \in Nat
        BY <1>2, <2>2, <2>3, <3>1
      <4>2. QED
        BY <1>2, <2>4, <3>2, <4>1
    <3>5. ASSUME NEW k \in 1..Len(t)
          PROVE  k + off \in 1..Len(all) /\ t[k] = all[k + off]
      <4>1. k + cut \in 1..Len(s) /\ t[k] = s[k + cut]
        BY <1>7
      <4>2. PICK y \in 1..Len(s) : y = k + cut
        BY <4>1
      <4>3. y + last \in 1..Len(all) /\ s[y] = all[y + last]
        BY <1>3
      <4>4. y + last = k + off
        BY <1>2, <1>5, <2>4, <4>2
      <4>5. QED
        BY <4>1, <4>2, <4>3, <4>4
    <3>6. QED
      BY <2>3, <3>1, <3>2, <3>3, <3>4, <3>5
  <2>6. ASSUME NEW y \in DOMAIN t, t[y].role = "tool"
        PROVE  \E c \in 1..(y - 1) : t[c].role = "assistant" /\ t[y].answers \in Range(t[c].calls)
    <3>1. PICK p \in 1..Len(all) : p = y + off /\ t[y] = all[p] /\ y \in 1..Len(t)
      BY <1>7, <2>5
    <3>2. off + 1 \in 1..p
      BY <1>7, <2>4, <3>1
    <3>3. CalledFrom(all, 1, p)
      BY <1>2, <2>5, <2>6, <3>1, <3>2 DEF CallsAreKept
    <3>4. PICK q \in 1..(p - 1) : /\ all[q].role = "assistant" /\ all[p].answers \in Range(all[q].calls)
                                  /\ \A k \in q..p : all[k].role # "user"
      BY <3>3 DEF CalledFrom
    <3>5. off + 1 < q
      <4>1. off + 1 \notin q..p
        BY <2>5, <3>4
      <4>2. QED
        BY <2>4, <3>1, <3>2, <3>4, <4>1
    <3>6. PICK c \in 1..(y - 1) : q = c + off
      <4>1. off \in Nat /\ y \in Nat /\ q \in Int /\ q <= p - 1 /\ p = y + off /\ off + 1 < q
        <5>1. off \in Nat /\ y \in Nat /\ p = y + off
          BY <3>1
        <5>2. q \in Int /\ q <= p - 1
          BY <3>4
        <5>3. QED
          BY <3>5, <5>1, <5>2
      <4>2. q - off \in 1..(y - 1) /\ q = (q - off) + off
        BY <4>1
      <4>3. QED
        BY <4>2
    <3>7. t[c] = all[q]
      <4>1. c \in 1..Len(t)
        <5>1. y \in 1..Len(t) /\ Len(t) \in Nat
          BY <1>7, <3>1
        <5>2. QED
          BY <3>6, <5>1
      <4>2. t[c] = all[c + off]
        BY <2>5, <4>1
      <4>3. QED
        BY <3>6, <4>2
    <3>8. QED
      BY <3>1, <3>4, <3>6, <3>7
  <2>7. start = 0
    BY <1>7, <1>8, <2>6, LegalStartZero
  <2>8. PICK x \in 1..Len(t) : i = x + off
    <3>1. i - off \in 1..Len(t) /\ i = (i - off) + off
      BY <1>2, <2>4, <2>5
    <3>2. QED
      BY <3>1
  <2>9. x \in 1..Len(h) /\ h[x] = t[x]
    BY <1>7, <1>10, <2>7
  <2>10. t[x] = all[i]
    BY <2>5, <2>8
  <2>11. QED
    BY <1>10, <2>9, <2>10
<1>12. QED
  BY <1>1, <1>10, <1>11

LEMMA BuildRequestStep ==
    ASSUME TranscriptInv, NEW l \in Lanes, BuildRequest(l)
    PROVE  TranscriptInv'
<1>1. PICK role \in {"user", "assistant"}, content \in {"text", "blank", "image"} :
          turn' = [turn EXCEPT ![l] = [@ EXCEPT !.pc = "model", !.seen = Numbers(session.messages), !.skip = Len(History),
                       !.msgs = Append(History, Message(role, content))]]
  BY DEF BuildRequest
<1>2. PICK h, m, r : h = History /\ m = Message(role, content) /\ r = Append(h, m)
  OBVIOUS
<1>3. PICK t : t = [turn[l] EXCEPT !.pc = "model", !.seen = Numbers(session.messages), !.skip = Len(h), !.msgs = r]
  OBVIOUS
<1>4. turn[l].pc = "prepare" /\ UNCHANGED <<key, session, file, job, waiting, beat, archived, used>>
  BY DEF BuildRequest
<1>5. turn' = [turn EXCEPT ![l] = t]
  BY <1>1, <1>2, <1>3
<1>6. m \in Messages /\ m.role # "tool"
  BY <1>2 DEF Message, Messages
<1>7. h \in Seq(Messages) /\ Len(h) \in Nat /\ DOMAIN h = 1..Len(h)
  BY <1>2, HistoryHolds, MessagesAt
<1>8. PICK k \in Nat : k = Len(h) /\ \A i \in DOMAIN h : ~ (i > k)
  <2>1. \A i \in 1..Len(h) : ~ (i > Len(h))
    BY <1>7
  <2>2. QED
    BY <1>7, <2>1
<1>9. /\ r \in Seq(Messages) /\ Len(r) = k + 1 /\ \A i \in DOMAIN h : i \in DOMAIN r /\ r[i] = h[i]
      /\ \A i \in DOMAIN r : i > k /\ r[i].role = "tool" => CalledFrom(r, k + 1, i)
  <2>1. r = Append(h, m) /\ \A i \in DOMAIN h : i > k /\ h[i].role = "tool" => CalledFrom(h, k + 1, i)
    BY <1>2, <1>8
  <2>2. QED
    BY <1>6, <1>7, <1>8, <2>1, NoResultAdded
<1>10. Numbers(session.messages) \subseteq 1..used.n /\ Numbers(session.messages) \subseteq Nat
  BY InvTurn DEF TranscriptInv, NumbersGiven, Numbers
<1>11. /\ t \in TurnRecords /\ t.pc = "model" /\ t.msgs = r /\ t.skip = k /\ t.seen = Numbers(session.messages)
       /\ t.iteration = turn[l].iteration
  <2>1. turn[l] \in TurnRecords /\ "model" \in Places
    BY InvTurn DEF Places
  <2>2. QED
    BY <1>3, <1>7, <1>8, <1>9, <1>10, <2>1 DEF TurnRecords
<1>12. TurnIsSound(t, used.n)
  <2>1. turn[l].iteration = 0
    BY <1>4, InvTurn DEF TurnIsSound
  <2>2. 0 < MaxIterations
    BY TranscriptAssumption
  <2>3. QED
    BY <1>8, <1>9, <1>10, <1>11, <2>1, <2>2 DEF TurnIsSound, AsksModel
<1>13. ASSUME ~ used.shifted
       PROVE  SeenIsSent(t, session.messages, archived)
  <2>1. PositionIsSound(session.messages, session.last, archived)
    BY <1>13 DEF TranscriptInv
  <2>2. ASSUME NEW i \in DOMAIN session.messages, session.messages[i].n \notin archived,
               \E j \in 1..i : session.messages[j].role = "user"
        PROVE  \E j \in DOMAIN r : r[j].n = session.messages[i].n
    <3>1. PICK x \in DOMAIN h : h[x] = session.messages[i]
      BY <1>2, <2>1, <2>2, HistoryHolds
    <3>2. QED
      BY <1>9, <3>1
  <2>3. QED
    BY <1>11, <2>2 DEF SeenIsSent
<1>14. OpenTurn(t) - OpenTurn(turn[l]) <= used.turns - used.turns
  BY <1>4, <1>11, InvTurn DEF OpenTurn, UsedRecords
<1>15. used \in UsedRecords /\ used.turns <= MaxTurns /\ beat \in Beats
  BY InvTurn
<1>16. QED
  BY <1>4, <1>5, <1>11, <1>12, <1>13, <1>14, <1>15, TurnMoves

LEMMA SaveTurnStep ==
    ASSUME TranscriptInv, NEW l \in Lanes, SaveTurn(l)
    PROVE  TranscriptInv'
<1>1. PICK s, k, all, n : s = turn[l].msgs /\ k = turn[l].skip /\ all = session.messages /\ n = used.n
  OBVIOUS
<1>2. PICK ms, new, r : ms = Drop(s, k) /\ new = Persisted(ms) /\ r = all \o new
  OBVIOUS
<1>3. PICK t : t = [IdleTurn EXCEPT !.pc = IF key = "heartbeat" THEN "retain" ELSE "idle"]
  OBVIOUS
<1>4. /\ turn[l].pc = "save" /\ session' = [session EXCEPT !.messages = r] /\ file' = session'
      /\ used' = [used EXCEPT !.n = n + Len(new)] /\ waiting' = waiting + 1 /\ turn' = [turn EXCEPT ![l] = t]
      /\ UNCHANGED <<key, job, beat, archived>>
  BY <1>1, <1>2, <1>3 DEF SaveTurn
<1>5. s \in Seq(Messages) /\ k \in Nat /\ all \in Seq(Messages) /\ n \in Nat
  BY <1>1, InvTurn DEF TurnRecords
<1>6. \A i \in DOMAIN s : i > k /\ s[i].role = "tool" => CalledFrom(s, k + 1, i)
  BY <1>1, <1>4, InvTurn DEF TurnIsSound
<1>7. /\ ms \in Seq(Messages) /\ Len(ms) \in Nat /\ DOMAIN ms = 1..Len(ms) /\ DOMAIN s = 1..Len(s) /\ Len(s) \in Nat
      /\ \A i \in 1..Len(ms) : i + k \in 1..Len(s) /\ ms[i] = s[i + k]
  BY <1>2, <1>5, MessagesDropped
<1>8. ASSUME NEW i \in DOMAIN ms, ms[i].role = "tool"
      PROVE  CalledFrom(ms, 1, i)
  <2>1. PICK p \in 1..Len(s) : p = i + k /\ ms[i] = s[p] /\ i \in 1..Len(ms)
    BY <1>7
  <2>2. PICK from \in Nat, by \in Int : from = k + 1 /\ by = 0 - k
    BY <1>5
  <2>3. CalledFrom(s, from, p)
    BY <1>5, <1>6, <1>7, <1>8, <2>1, <2>2
  <2>4. ASSUME NEW x \in from..p
        PROVE  ms[x + by] = s[x]
    <3>1. PICK y \in 1..Len(ms) : y = x + by /\ y + k = x
      <4>1. x + by \in 1..Len(ms) /\ (x + by) + k = x
        BY <1>5, <1>7, <2>1, <2>2
      <4>2. QED
        BY <4>1
    <3>2. ms[y] = s[y + k]
      BY <1>7
    <3>3. QED
      BY <3>1, <3>2
  <2>5. from + by = 1 /\ p + by = i /\ p \in Nat /\ from + by \in Nat
    BY <1>5, <1>7, <2>1, <2>2
  <2>6. CalledFrom(ms, from + by, p + by)
    BY <2>3, <2>4, <2>5, CalledMoved
  <2>7. QED
    BY <2>5, <2>6
<1>9. /\ new \in Seq(Messages)
      /\ \A i \in DOMAIN new : new[i].n = n + i /\ (new[i].role = "tool" => CalledFrom(new, 1, i))
  <2>1. ms \in Seq(Messages) /\ used.n \in Nat /\ new = Persisted(ms)
    BY <1>1, <1>2, <1>5, <1>7
  <2>2. /\ new \in Seq(Messages)
        /\ \A i \in DOMAIN new : new[i].n = used.n + i /\ (new[i].role = "tool" => CalledFrom(new, 1, i))
    BY <1>8, <2>1, SavedTurn
  <2>3. QED
    BY <1>1, <2>2
<1>10. PICK a, b : a = Len(all) /\ b = Len(new)
  OBVIOUS
<1>11. /\ r \in Seq(Messages) /\ a \in Nat /\ b \in Nat
       /\ DOMAIN all = 1..a /\ DOMAIN new = 1..b /\ DOMAIN r = 1..(a + b) /\ Len(r) = a + b
       /\ \A i \in 1..a : i \in DOMAIN r /\ r[i] = all[i]
       /\ \A i \in 1..b : i + a \in DOMAIN r /\ r[i + a] = new[i]
       /\ \A i \in DOMAIN r : i \in 1..a \/ i - a \in 1..b
  <2>1. all \in Seq(Messages) /\ new \in Seq(Messages) /\ r = all \o new
    BY <1>2, <1>5, <1>9
  <2>2. QED
    BY <1>10, <2>1, Joined
<1>12. CallsAreKept(r)
  <2>1. ASSUME NEW i \in DOMAIN r, r[i].role = "tool"
        PROVE  CalledFrom(r, 1, i) \/ \A x \in 1..i : r[x].role # "user"
    <3>1. CASE i \in 1..a
      <4>1. i \in Nat /\ \A x \in 1..i : r[x] = all[x]
        BY <1>11, <3>1
      <4>2. CallsAreKept(all)
        BY <1>1 DEF TranscriptInv
      <4>3. CalledFrom(all, 1, i) \/ \A x \in 1..i : all[x].role # "user"
        BY <1>11, <2>1, <3>1, <4>2 DEF CallsAreKept
      <4>4. PICK one \in Nat : one = 1
        OBVIOUS
      <4>5. CalledFrom(all, one, i) => CalledFrom(r, one, i)
        BY <4>1, <4>4, CalledLonger
      <4>6. \A x \in 1..i : r[x].role = all[x].role
        BY <4>1
      <4>7. QED
        BY <4>3, <4>4, <4>5, <4>6
    <3>2. CASE i - a \in 1..b
      <4>1. PICK y \in 1..b : y = i - a /\ i = y + a /\ y \in Nat
        BY <1>11, <3>2
      <4>2. r[i] = new[y] /\ CalledFrom(new, 1, y)
        BY <1>9, <1>11, <2>1, <4>1
      <4>3. PICK one \in Nat : one = 1 /\ one + a \in Nat /\ a \in Int
        BY <1>11
      <4>4. \A x \in one..y : r[x + a] = new[x]
        BY <1>11, <4>1, <4>3
      <4>5. CalledFrom(new, one, y)
        BY <4>2, <4>3
      <4>6. CalledFrom(r, one + a, y + a)
        BY <4>1, <4>3, <4>4, <4>5, CalledMoved
      <4>7. \A x \in (one + a)..(i - 1) : x \in 1..(i - 1)
        BY <1>11, <4>3
      <4>8. QED
        BY <4>1, <4>6, <4>7 DEF CalledFrom
    <3>3. QED
      BY <1>11, <3>1, <3>2
  <2>2. QED
    BY <2>1 DEF CallsAreKept
<1>13. NumbersGiven(all, n) /\ NumbersGiven(r, n + b)
  <2>1. NumbersGiven(all, n)
    BY <1>1 DEF TranscriptInv
  <2>2. ASSUME NEW i \in DOMAIN r
        PROVE  r[i].n \in 1..(n + b)
    <3>1. CASE i \in 1..a
      <4>1. r[i] = all[i] /\ all[i].n \in 1..n
        BY <1>11, <2>1, <3>1 DEF NumbersGiven
      <4>2. QED
        BY <1>5, <1>11, <4>1
    <3>2. CASE i - a \in 1..b
      <4>1. PICK y \in 1..b : i = y + a
        <5>1. i = (i - a) + a
          BY <1>11
        <5>2. QED
          BY <3>2, <5>1
      <4>2. r[i] = new[y] /\ new[y].n = n + y
        BY <1>9, <1>11, <4>1
      <4>3. QED
        BY <1>5, <1>11, <4>2
    <3>3. QED
      BY <1>11, <3>1, <3>2
  <2>3. QED
    BY <2>1, <2>2 DEF NumbersGiven
<1>14. session \in SessionRecords /\ session' \in SessionRecords /\ session'.messages = r /\ session'.last = session.last
  <2>1. session \in SessionRecords
    BY DEF TranscriptInv, TranscriptTypes
  <2>2. QED
    BY <1>4, <1>11, <2>1 DEF SessionRecords
<1>15. used' \in UsedRecords /\ used'.n = n + b /\ used'.shifted = used.shifted /\ used'.turns = used.turns
  <2>1. n + b \in Nat /\ used \in UsedRecords
    BY <1>5, <1>11, InvTurn
  <2>2. QED
    BY <1>4, <1>10, <2>1 DEF UsedRecords
<1>16. t \in TurnRecords /\ t.pc \in {"idle", "retain"} /\ t.iteration = 0
  <2>1. IdleTurn.iteration = 0
    BY DEF IdleTurn
  <2>2. QED
    BY <1>3, <2>1, IdleIsATurn DEF TurnRecords, Places
<1>17. turn \in [Lanes -> TurnRecords] /\ turn'[l] = t /\ \A x \in Lanes : x # l => turn'[x] = turn[x]
  BY <1>4, InvTurn
<1>18. TranscriptTypes'
  <2>1. waiting' \in Nat /\ turn' \in [Lanes -> TurnRecords]
    BY <1>4, <1>16, <1>17 DEF TranscriptInv, TranscriptTypes
  <2>2. QED
    BY <1>4, <1>14, <1>15, <2>1 DEF TranscriptInv, TranscriptTypes
<1>19. TurnsCounted'
  <2>1. "user" \in Lanes /\ "system" \in Lanes /\ \A x \in Lanes : x \in {"user", "system"}
    BY DEF Lanes
  <2>2. waiting \in Nat /\ used.turns \in Nat /\ \A u : OpenTurn(u) \in {0, 1}
    BY DEF TranscriptInv, TranscriptTypes, UsedRecords, OpenTurn
  <2>3. used.turns <= MaxTurns /\ waiting + OpenTurn(turn["user"]) + OpenTurn(turn["system"]) <= used.turns
    BY DEF TranscriptInv, TurnsCounted
  <2>4. OpenTurn(turn[l]) = 1 /\ OpenTurn(t) = 0
    BY <1>4, <1>16 DEF OpenTurn
  <2>5. waiting + 1 + OpenTurn(turn'["user"]) + OpenTurn(turn'["system"]) <= used.turns
    <3>1. CASE l = "user"
      BY <1>17, <2>1, <2>2, <2>3, <2>4, <3>1
    <3>2. CASE l = "system"
      BY <1>17, <2>1, <2>2, <2>3, <2>4, <3>2
    <3>3. QED
      BY <2>1, <3>1, <3>2
  <2>6. QED
    BY <1>4, <1>15, <2>3, <2>5 DEF TurnsCounted
<1>20. \A x \in Lanes : TurnIsSound(turn'[x], n + b)
  <2>1. TurnIsSound(t, n + b)
    BY <1>16 DEF TurnIsSound, AsksModel
  <2>2. \A x \in Lanes : TurnIsSound(turn[x], n)
    BY <1>1 DEF TranscriptInv
  <2>3. \A i \in 1..n : i \in 1..(n + b)
    BY <1>5, <1>11
  <2>4. \A x \in Lanes : TurnIsSound(turn[x], n + b)
    BY <2>2, <2>3 DEF TurnIsSound
  <2>5. QED
    BY <1>17, <2>1, <2>4
<1>21. ASSUME ~ used.shifted
       PROVE  /\ PositionIsSound(r, session.last, archived) /\ JobIsSound(r, session.last, job)
              /\ \A x \in Lanes : SeenIsSent(turn'[x], r, archived)
  <2>1. /\ PositionIsSound(all, session.last, archived) /\ JobIsSound(all, session.last, job)
        /\ \A x \in Lanes : SeenIsSent(turn[x], all, archived)
    BY <1>1, <1>21 DEF TranscriptInv
  <2>2. session.last \in Nat /\ job.end \in Nat
    BY DEF TranscriptInv, TranscriptTypes, SessionRecords, JobRecords
  <2>3. \A end \in Nat : UserFollows(all, end) => UserFollows(r, end) /\ end < a
    <3>1. ASSUME NEW end \in Nat, UserFollows(all, end)
          PROVE  UserFollows(r, end) /\ end < a
      <4>1. end < a /\ all[end + 1].role = "user"
        BY <1>10, <3>1 DEF UserFollows
      <4>2. end + 1 \in 1..a
        BY <1>11, <4>1
      <4>3. r[end + 1] = all[end + 1] /\ end < a + b
        BY <1>11, <4>1, <4>2
      <4>4. QED
        BY <1>11, <4>1, <4>3 DEF UserFollows
    <3>2. QED
      BY <3>1
  <2>4. PositionIsSound(r, session.last, archived)
    <3>1. session.last = 0 \/ session.last < a
      BY <2>1, <2>2, <2>3 DEF PositionIsSound
    <3>2. \A i \in 1..session.last : i \in 1..a
      BY <1>11, <2>2, <3>1
    <3>3. \A i \in 1..session.last : r[i] = all[i]
      BY <1>11, <3>2
    <3>4. QED
      BY <2>1, <2>2, <2>3, <3>3 DEF PositionIsSound
  <2>5. JobIsSound(r, session.last, job)
    <3>1. ASSUME job.by # "nobody"
          PROVE  session.last <= job.end /\ UserFollows(r, job.end)
                 /\ job.chunk = {r[i].n : i \in (session.last + 1)..job.end}
      <4>1. session.last <= job.end /\ UserFollows(all, job.end)
            /\ job.chunk = {all[i].n : i \in (session.last + 1)..job.end}
        BY <2>1, <3>1 DEF JobIsSound
      <4>2. job.end < a /\ UserFollows(r, job.end)
        BY <2>2, <2>3, <4>1
      <4>3. \A i \in (session.last + 1)..job.end : i \in 1..a
        BY <1>11, <2>2, <4>2
      <4>4. \A i \in (session.last + 1)..job.end : r[i] = all[i]
        BY <1>11, <4>3
      <4>5. QED
        BY <4>1, <4>2, <4>4
    <3>2. QED
      BY <3>1 DEF JobIsSound
  <2>6. ASSUME NEW x \in Lanes, AsksModel(turn'[x]), NEW i \in DOMAIN r, r[i].n \in turn'[x].seen, r[i].n \notin archived,
               \E j \in 1..i : r[j].role = "user"
        PROVE  \E j \in DOMAIN turn'[x].msgs : turn'[x].msgs[j].n = r[i].n
    <3>1. x # l /\ turn'[x] = turn[x]
      BY <1>16, <1>17, <2>6 DEF AsksModel
    <3>2. turn[x].seen \subseteq 1..n
      BY <1>1, <2>6, <3>1 DEF TranscriptInv, TurnIsSound, AsksModel
    <3>3. i \in 1..a
      <4>1. CASE i - a \in 1..b
        <5>1. PICK y \in 1..b : i = y + a
          <6>1. i = (i - a) + a
            BY <1>11
          <6>2. QED
            BY <4>1, <6>1
        <5>2. r[i].n = n + y /\ y > 0
          BY <1>9, <1>11, <5>1
        <5>3. n + y \in 1..n
          BY <2>6, <3>1, <3>2, <5>2
        <5>4. QED
          BY <1>5, <1>11, <5>2, <5>3
      <4>2. QED
        BY <1>11, <4>1
    <3>4. \A j \in 1..i : j \in 1..a
      BY <1>11, <3>3
    <3>5. \A j \in 1..i : r[j] = all[j]
      BY <1>11, <3>4
    <3>6. r[i] = all[i] /\ \E j \in 1..i : all[j].role = "user"
      BY <1>11, <2>6, <3>3, <3>5
    <3>7. QED
      BY <1>11, <2>1, <2>6, <3>1, <3>3, <3>6 DEF SeenIsSent
  <2>7. QED
    BY <2>4, <2>5, <2>6 DEF SeenIsSent
<1>22. QED
  BY <1>4, <1>12, <1>13, <1>14, <1>15, <1>18, <1>19, <1>20, <1>21 DEF TranscriptInv

-----------------------------------------------------------------------------
(* The steps of consolidation and of the heartbeat. *)

LEMMA InvJob ==
    ASSUME TranscriptInv
    PROVE  /\ session \in SessionRecords /\ file = session /\ job \in JobRecords /\ waiting \in Nat /\ used \in UsedRecords
           /\ session.messages \in Seq(Messages) /\ session.last \in Nat /\ job.end \in Nat /\ used.n \in Nat
           /\ CallsAreKept(session.messages) /\ NumbersGiven(session.messages, used.n) /\ beat \in Beats
           /\ archived \subseteq Nat
BY DEF TranscriptInv, TranscriptTypes, UsedRecords, SessionRecords, JobRecords

LEMMA EndIsAUser ==
    ASSUME TranscriptInv, NEW end \in Boundaries
    PROVE  end \in Nat /\ session.last < end /\ UserFollows(session.messages, end)
<1>1. PICK i \in UserAt(session.messages) : i > session.last + 1 /\ end = i - 1
  BY DEF Boundaries
<1>2. i \in 1..Len(session.messages) /\ session.messages[i].role = "user" /\ Len(session.messages) \in Nat
  BY InvJob, MessagesAt DEF UserAt
<1>3. session.last \in Nat
  BY InvJob
<1>4. end + 1 = i
  BY <1>1, <1>2
<1>5. QED
  BY <1>1, <1>2, <1>3, <1>4 DEF UserFollows

\* The numbers of a part of the transcript.
LEMMA ChunkOfNumbers ==
    ASSUME TranscriptInv, NEW from \in Nat, NEW end \in Nat, end < Len(session.messages)
    PROVE  {session.messages[i].n : i \in (from + 1)..end} \in SUBSET Nat
<1>1. DOMAIN session.messages = 1..Len(session.messages) /\ Len(session.messages) \in Nat
  BY InvJob, MessagesAt
<1>2. \A i \in (from + 1)..end : i \in DOMAIN session.messages
  BY <1>1
<1>3. \A i \in DOMAIN session.messages : session.messages[i].n \in Nat
  BY InvJob DEF NumbersGiven
<1>4. QED
  BY <1>2, <1>3

LEMMA ArchivesStep ==
    ASSUME TranscriptInv, NEW by \in Lanes \cup {"background"}, Archives(by), waiting' \in Nat, waiting' <= waiting
    PROVE  TranscriptInv'
<1>1. PICK end \in Boundaries :
         job' = [by |-> by, end |-> end, chunk |-> {session.messages[i].n : i \in (session.last + 1)..end}]
  BY DEF Archives
<1>2. end \in Nat /\ session.last < end /\ UserFollows(session.messages, end) /\ end < Len(session.messages)
  BY EndIsAUser DEF UserFollows
<1>3. {session.messages[i].n : i \in (session.last + 1)..end} \in SUBSET Nat
  BY <1>2, InvJob, ChunkOfNumbers
<1>4. job' \in JobRecords
  BY <1>1, <1>2, <1>3 DEF JobRecords
<1>5. JobIsSound(session.messages, session.last, job')
  BY <1>1, <1>2, InvJob DEF JobIsSound
<1>6. used' \in UsedRecords /\ used'.n = used.n /\ used'.shifted = used.shifted /\ used'.turns = used.turns
  BY InvJob DEF Archives, UsedRecords
<1>7. UNCHANGED <<key, session, file, turn, beat, archived>>
  BY DEF Archives
<1>8. QED
  BY <1>4, <1>5, <1>6, <1>7, InvJob, JobMoves

LEMMA ArchiveBeginsStep ==
    ASSUME TranscriptInv, NEW l \in Lanes, ArchiveBegins(l)
    PROVE  TranscriptInv'
BY InvJob, ArchivesStep DEF ArchiveBegins

LEMMA BackgroundBeginsStep ==
    ASSUME TranscriptInv, BackgroundBegins
    PROVE  TranscriptInv'
<1>1. waiting' \in Nat /\ waiting' <= waiting
  BY InvJob DEF BackgroundBegins
<1>2. QED
  BY <1>1, ArchivesStep DEF BackgroundBegins

\* Steps that leave the transcript alone: nothing to consolidate, an archive that failed, and
\* those of the heartbeat between its turns.
LEMMA QuietStep ==
    ASSUME TranscriptInv, BackgroundReturns \/ ArchiveFails \/ Tick \/ DecideSkips \/ BeatEnds \/ UNCHANGED vars
    PROVE  TranscriptInv'
<1>1. UNCHANGED <<key, session, file, turn, archived>> /\ beat' \in Beats
  BY InvJob DEF BackgroundReturns, ArchiveFails, Tick, DecideSkips, BeatEnds, vars, Beats
<1>2. waiting' \in Nat /\ waiting' <= waiting
  BY InvJob DEF BackgroundReturns, ArchiveFails, Tick, DecideSkips, BeatEnds, vars
<1>3. used' \in UsedRecords /\ used'.n = used.n /\ used'.shifted = used.shifted /\ used'.turns = used.turns
  BY InvJob DEF BackgroundReturns, ArchiveFails, Tick, DecideSkips, BeatEnds, vars, UsedRecords
<1>4. job' \in JobRecords /\ (~ used.shifted => JobIsSound(session.messages, session.last, job'))
  <2>1. job' = job \/ job' = NoJob
    BY DEF BackgroundReturns, ArchiveFails, Tick, DecideSkips, BeatEnds, vars
  <2>2. NoJob \in JobRecords /\ NoJob.by = "nobody"
    BY DEF NoJob, JobRecords
  <2>3. ~ used.shifted => JobIsSound(session.messages, session.last, job)
    BY DEF TranscriptInv
  <2>4. JobIsSound(session.messages, session.last, NoJob)
    BY <2>2 DEF JobIsSound
  <2>5. QED
    BY <2>1, <2>2, <2>3, <2>4, InvJob
<1>5. QED
  BY <1>1, <1>2, <1>3, <1>4, JobMoves

LEMMA ArchiveCommitsStep ==
    ASSUME TranscriptInv, ArchiveCommits
    PROVE  TranscriptInv'
<1>1. PICK all, last, end : all = session.messages /\ last = session.last /\ end = job.end
  OBVIOUS
<1>2. /\ job.by # "nobody" /\ archived' = archived \cup job.chunk /\ session' = [session EXCEPT !.last = end]
      /\ file' = session' /\ UNCHANGED <<key, turn, waiting, beat>>
  BY <1>1 DEF ArchiveCommits
<1>3. session' \in SessionRecords /\ session'.messages = all /\ session'.last = end /\ last \in Nat /\ end \in Nat
  BY <1>1, <1>2, InvJob DEF SessionRecords
<1>4. used' \in UsedRecords /\ used'.n = used.n /\ used'.shifted = used.shifted /\ used'.turns = used.turns
  <2>1. used' = used \/ used' = [used EXCEPT !.archives = @ + 1]
    BY DEF ArchiveCommits
  <2>2. QED
    BY <2>1, InvJob DEF UsedRecords
<1>5. job' \in JobRecords /\ JobIsSound(all, end, job')
  <2>1. CASE job' = NoJob
    BY <2>1 DEF NoJob, JobRecords, JobIsSound
  <2>2. CASE \E e \in {e0 \in Boundaries : e0 > job.end} :
                job' = [job EXCEPT !.end = e, !.chunk = {session.messages[i].n : i \in (job.end + 1)..e}]
    <3>1. PICK e \in Boundaries :
             e > job.end /\ job' = [job EXCEPT !.end = e, !.chunk = {session.messages[i].n : i \in (job.end + 1)..e}]
      BY <2>2
    <3>2. PICK chunk : chunk = {session.messages[i].n : i \in (job.end + 1)..e}
      OBVIOUS
    <3>3. e \in Nat /\ UserFollows(session.messages, e) /\ e < Len(session.messages)
      BY EndIsAUser DEF UserFollows
    <3>4. chunk \in SUBSET Nat
      BY <3>2, <3>3, InvJob, ChunkOfNumbers
    <3>5. job' = [job EXCEPT !.end = e, !.chunk = chunk]
      BY <3>1, <3>2
    <3>6. job' \in JobRecords /\ job'.end = e /\ job'.chunk = chunk
      BY <3>3, <3>4, <3>5, InvJob DEF JobRecords
    <3>7. end <= e /\ UserFollows(all, e) /\ chunk = {all[i].n : i \in (end + 1)..e}
      BY <1>1, <1>3, <3>1, <3>2, <3>3
    <3>8. QED
      BY <3>6, <3>7 DEF JobIsSound
  <2>3. QED
    BY <2>1, <2>2 DEF ArchiveCommits
<1>6. TranscriptTypes'
  <2>1. archived' \subseteq Nat
    BY <1>2, InvJob DEF JobRecords
  <2>2. QED
    BY <1>2, <1>3, <1>4, <1>5, <2>1 DEF TranscriptInv, TranscriptTypes
<1>7. TurnsCounted'
  BY <1>2, <1>4 DEF TranscriptInv, TurnsCounted
<1>8. ASSUME ~ used.shifted
      PROVE  PositionIsSound(all, end, archived') /\ \A l \in Lanes : SeenIsSent(turn[l], all, archived')
  <2>1. /\ PositionIsSound(all, last, archived) /\ JobIsSound(all, last, job)
        /\ \A l \in Lanes : SeenIsSent(turn[l], all, archived)
    BY <1>1, <1>8 DEF TranscriptInv
  <2>2. UserFollows(all, end) /\ job.chunk = {all[i].n : i \in (last + 1)..end}
    BY <1>1, <1>2, <2>1 DEF JobIsSound
  <2>3. ASSUME NEW i \in 1..end
        PROVE  all[i].n \in archived'
    <3>1. i \in 1..last \/ i \in (last + 1)..end
      BY <1>3
    <3>2. QED
      BY <1>2, <2>1, <2>2, <3>1 DEF PositionIsSound
  <2>4. \A l \in Lanes : SeenIsSent(turn[l], all, archived')
    BY <1>2, <2>1 DEF SeenIsSent
  <2>5. QED
    BY <2>2, <2>3, <2>4 DEF PositionIsSound
<1>9. \A l \in Lanes : TurnIsSound(turn[l], used.n)
  BY DEF TranscriptInv
<1>10. CallsAreKept(all) /\ NumbersGiven(all, used.n)
  BY <1>1, InvJob
<1>11. QED
  BY <1>2, <1>3, <1>4, <1>5, <1>6, <1>7, <1>8, <1>9, <1>10 DEF TranscriptInv

\* What the heartbeat keeps of the transcript.
LEMMA RetainedIsAPart ==
    ASSUME TranscriptInv, NEW k, k = RetainRecent(KeepRecent), k # session
    PROVE  \E off \in Nat :
              /\ k \in SessionRecords /\ Len(k.messages) + off = Len(session.messages)
              /\ session.last <= Len(session.messages) =>
                    k.last = IF session.last > off THEN session.last - off ELSE 0
              /\ \A i \in DOMAIN k.messages :
                    i + off \in DOMAIN session.messages /\ k.messages[i] = session.messages[i + off]
<1>1. PICK s, last : s = session.messages /\ last = session.last
  OBVIOUS
<1>2. s \in Seq(Messages) /\ last \in Nat /\ Len(s) \in Nat /\ DOMAIN s = 1..Len(s)
  BY <1>1, InvJob, MessagesAt
<1>3. CASE KeepRecent <= 0
  <2>1. k = [messages |-> <<>>, last |-> 0]
    BY <1>3 DEF RetainRecent
  <2>2. PICK e : e = <<>> /\ e \in Seq(Messages) /\ Len(e) = 0 /\ DOMAIN e = {}
    <3>1. <<>> \in Seq(Messages) /\ Len(<<>>) = 0
      OBVIOUS
    <3>2. PICK e : e = <<>>
      OBVIOUS
    <3>3. e \in Seq(Messages) /\ Len(e) = 0
      BY <3>1, <3>2
    <3>4. DOMAIN e = {}
      BY <3>3, MessagesAt
    <3>5. QED
      BY <3>2, <3>3, <3>4
  <2>3. k \in SessionRecords /\ k.messages = e /\ k.last = 0
    BY <2>1, <2>2 DEF SessionRecords
  <2>4. Len(e) + Len(s) = Len(s) /\ (last <= Len(s) => ~ (last > Len(s)))
    BY <1>2, <2>2
  <2>5. \A i \in DOMAIN k.messages :
           i + Len(s) \in DOMAIN session.messages /\ k.messages[i] = session.messages[i + Len(s)]
    BY <2>2, <2>3
  <2>6. last <= Len(s) => k.last = IF last > Len(s) THEN last - Len(s) ELSE 0
    BY <2>3, <2>4
  <2>7. QED
    BY <1>1, <1>2, <2>3, <2>4, <2>5, <2>6
<1>4. CASE KeepRecent > 0
  <2>1. KeepRecent \in Nat /\ Len(s) > KeepRecent
    <3>1. ~ (KeepRecent <= 0) /\ KeepRecent \in Nat
      BY <1>4, TranscriptAssumption
    <3>2. ~ (Len(s) <= KeepRecent)
      BY <1>1, <3>1 DEF RetainRecent
    <3>3. QED
      BY <1>2, <3>1, <3>2
  <2>2. PICK T : T = {1} \cup {i \in UserAt(s) : i <= Len(s) - KeepRecent + 1}
    OBVIOUS
  <2>3. T \subseteq 1..Len(s) /\ T # {}
    BY <1>2, <1>4, <2>1, <2>2 DEF UserAt
  <2>4. PICK start \in 1..Len(s) : start = Greatest(T)
    BY <1>2, <2>3, GreatestIn
  <2>5. PICK a \in Nat : a = start - 1 /\ a < Len(s)
    BY <1>2
  <2>6. PICK t : t = Drop(s, a)
    OBVIOUS
  <2>7. /\ t \in Seq(Messages) /\ Len(t) \in Nat /\ DOMAIN t = 1..Len(t)
        /\ Len(t) = IF a <= Len(s) THEN Len(s) - a ELSE 0
        /\ \A i \in 1..Len(t) : i + a \in 1..Len(s) /\ t[i] = s[i + a]
    BY <1>2, <2>6, MessagesDropped
  <2>8. PICK b : b = FindLegalStart(t) /\ b \in 0..Len(t)
    BY <2>7, LegalStartBound
  <2>9. b \in Nat
    BY <2>8
  <2>10. PICK r : r = Drop(t, b)
    OBVIOUS
  <2>11. /\ r \in Seq(Messages) /\ Len(r) \in Nat /\ DOMAIN r = 1..Len(r)
         /\ Len(r) = IF b <= Len(t) THEN Len(t) - b ELSE 0
         /\ \A i \in 1..Len(r) : i + b \in 1..Len(t) /\ r[i] = t[i + b]
    BY <2>7, <2>9, <2>10, MessagesDropped
  <2>12. PICK off \in Nat : off = a + b /\ off = Len(s) - Len(r) /\ Len(r) + off = Len(s)
    <3>1. Len(t) = Len(s) - a
      BY <1>2, <2>5, <2>7
    <3>2. Len(r) = Len(t) - b
      BY <2>7, <2>8, <2>11
    <3>3. a + b \in Nat /\ a + b = Len(s) - Len(r) /\ Len(r) + (a + b) = Len(s)
      <4>1. Len(s) \in Int /\ a \in Nat /\ b \in Nat /\ a + b \in Nat
        BY <1>2, <2>5, <2>9
      <4>2. QED
        BY <3>1, <3>2, <4>1
    <3>4. QED
      BY <3>3
  <2>13. k = [messages |-> r, last |-> IF last > off THEN last - off ELSE 0]
    <3>1. ~ (KeepRecent <= 0) /\ ~ (Len(s) <= KeepRecent)
      BY <1>2, <1>4, <2>1
    <3>2. r = Drop(Drop(s, start - 1), FindLegalStart(Drop(s, start - 1)))
      BY <2>5, <2>6, <2>8, <2>10
    <3>3. QED
      BY <1>1, <2>2, <2>4, <2>12, <3>1, <3>2 DEF RetainRecent
  <2>14. (IF last > off THEN last - off ELSE 0) \in Nat
    BY <1>2
  <2>15. k \in SessionRecords /\ k.messages = r /\ k.last = IF last > off THEN last - off ELSE 0
    BY <2>11, <2>13, <2>14 DEF SessionRecords
  <2>16. ASSUME NEW i \in 1..Len(r)
         PROVE  i + off \in 1..Len(s) /\ r[i] = s[i + off]
    <3>1. PICK y \in 1..Len(t) : y = i + b /\ r[i] = t[y]
      BY <2>11
    <3>2. y + a \in 1..Len(s) /\ t[y] = s[y + a]
      BY <2>7
    <3>3. y + a = i + off
      BY <2>5, <2>9, <2>12, <3>1
    <3>4. QED
      BY <3>1, <3>2, <3>3
  <2>17. QED
    BY <1>1, <1>2, <2>11, <2>12, <2>15, <2>16
<1>5. QED
  BY <1>3, <1>4, TranscriptAssumption

LEMMA RetainStep ==
    ASSUME TranscriptInv, Retain
    PROVE  TranscriptInv'
<1>1. PICK all, last : all = session.messages /\ last = session.last
  OBVIOUS
<1>2. PICK k : k = RetainRecent(KeepRecent) /\ session' = k /\ file' = k
  BY DEF Retain
<1>3. all \in Seq(Messages) /\ last \in Nat /\ Len(all) \in Nat /\ DOMAIN all = 1..Len(all)
  BY <1>1, InvJob, MessagesAt
<1>4. PICK off \in Nat :
              /\ k \in SessionRecords /\ Len(k.messages) + off = Len(all)
              /\ last <= Len(all) => k.last = IF last > off THEN last - off ELSE 0
              /\ \A i \in DOMAIN k.messages : i + off \in DOMAIN all /\ k.messages[i] = all[i + off]
  <2>1. CASE k = session
    <3>1. Len(k.messages) + 0 = Len(all) /\ k \in SessionRecords
      BY <1>1, <1>3, <2>1, InvJob
    <3>2. last <= Len(all) => k.last = IF last > 0 THEN last - 0 ELSE 0
      BY <1>1, <1>3, <2>1
    <3>3. \A i \in DOMAIN k.messages : i + 0 \in DOMAIN all /\ k.messages[i] = all[i + 0]
      BY <1>1, <1>3, <2>1
    <3>4. QED
      BY <3>1, <3>2, <3>3
  <2>2. CASE k # session
    BY <1>1, <1>2, <2>2, RetainedIsAPart
  <2>3. QED
    BY <2>1, <2>2
<1>5. PICK r : r = k.messages
  OBVIOUS
<1>6. r \in Seq(Messages) /\ Len(r) \in Nat /\ DOMAIN r = 1..Len(r) /\ k.last \in Nat
  <2>1. r \in Seq(Messages) /\ k.last \in Nat
    BY <1>4, <1>5 DEF SessionRecords
  <2>2. QED
    BY <2>1, MessagesAt
<1>7. \A i \in 1..Len(r) : i + off \in 1..Len(all) /\ r[i] = all[i + off]
  BY <1>3, <1>4, <1>5, <1>6
<1>8. CallsAreKept(r)
  <2>1. ASSUME NEW i \in DOMAIN r, r[i].role = "tool", NEW u \in 1..i, r[u].role = "user"
        PROVE  CalledFrom(r, 1, i)
    <3>1. i \in 1..Len(r) /\ u \in 1..Len(r) /\ i \in Nat
      BY <1>6, <2>1
    <3>2. PICK p \in 1..Len(all), v \in 1..Len(all) : p = i + off /\ v = u + off /\ r[i] = all[p] /\ r[u] = all[v]
      BY <1>7, <3>1
    <3>3. v \in 1..p
      BY <2>1, <3>1, <3>2
    <3>4. CalledFrom(all, 1, p)
      <4>1. CallsAreKept(all)
        BY <1>1, InvJob
      <4>2. QED
        BY <1>3, <2>1, <3>2, <3>3, <4>1 DEF CallsAreKept
    <3>5. PICK q \in 1..(p - 1) : /\ all[q].role = "assistant" /\ all[p].answers \in Range(all[q].calls)
                                  /\ \A x \in q..p : all[x].role # "user"
      BY <3>4 DEF CalledFrom
    <3>6. v < q
      <4>1. v \notin q..p
        BY <2>1, <3>2, <3>5
      <4>2. QED
        BY <3>3, <3>5, <4>1
    <3>7. PICK c \in 1..(i - 1) : q = c + off
      <4>1. q - off \in 1..(i - 1) /\ q = (q - off) + off
        BY <3>1, <3>2, <3>5, <3>6
      <4>2. QED
        BY <4>1
    <3>8. c \in 1..Len(r) /\ \A x \in c..i : x \in 1..Len(r) /\ x + off \in q..p
      BY <1>6, <3>1, <3>2, <3>7
    <3>9. r[c] = all[q] /\ \A x \in c..i : r[x] = all[x + off]
      BY <1>7, <3>7, <3>8
    <3>10. QED
      BY <3>2, <3>5, <3>8, <3>9 DEF CalledFrom
  <2>2. QED
    BY <2>1 DEF CallsAreKept
<1>9. NumbersGiven(r, used.n)
  <2>1. NumbersGiven(all, used.n)
    BY <1>1, InvJob
  <2>2. QED
    BY <1>3, <1>6, <1>7, <2>1 DEF NumbersGiven
<1>10. /\ used' \in UsedRecords /\ used'.n = used.n /\ used'.turns = used.turns
       /\ used'.shifted = (used.shifted \/ (job.by # "nobody" /\ k # session))
  <2>1. PICK w : w = (used.shifted \/ (job.by # "nobody" /\ k # session)) /\ w \in BOOLEAN
    OBVIOUS
  <2>2. used' = [used EXCEPT !.shifted = w]
    BY <1>2, <2>1 DEF Retain
  <2>3. QED
    BY <2>1, <2>2, InvJob DEF UsedRecords
<1>11. "user" \in Lanes /\ turn["user"].pc = "retain" /\ turn' = [turn EXCEPT !["user"] = IdleTurn]
       /\ turn \in [Lanes -> TurnRecords]
  BY DEF Retain, Lanes, TranscriptInv, TranscriptTypes
<1>12. turn' \in [Lanes -> TurnRecords] /\ turn'["user"].pc = "idle" /\ turn'["user"].iteration = 0
       /\ \A x \in Lanes : x # "user" => turn'[x] = turn[x]
  BY <1>11, IdleIsATurn DEF IdleTurn
<1>13. UNCHANGED <<key, job, waiting, archived>> /\ beat' \in Beats
  BY DEF Retain, Beats
<1>14. TranscriptTypes'
  <2>1. session' \in SessionRecords /\ file' = session'
    BY <1>2, <1>4
  <2>2. QED
    BY <1>10, <1>12, <1>13, <2>1 DEF TranscriptInv, TranscriptTypes
<1>15. TurnsCounted'
  <2>1. OpenTurn(turn["user"]) = 0 /\ OpenTurn(turn'["user"]) = 0
    BY <1>11, <1>12 DEF OpenTurn
  <2>2. turn'["system"] = turn["system"]
    BY <1>12 DEF Lanes
  <2>3. QED
    BY <1>10, <1>13, <2>1, <2>2 DEF TranscriptInv, TurnsCounted
<1>16. \A x \in Lanes : TurnIsSound(turn'[x], used.n)
  <2>1. TurnIsSound(turn'["user"], used.n)
    BY <1>12 DEF TurnIsSound, AsksModel
  <2>2. QED
    BY <1>12, <2>1 DEF TranscriptInv
<1>17. ASSUME ~ used'.shifted
       PROVE  /\ PositionIsSound(r, k.last, archived) /\ JobIsSound(r, k.last, job)
              /\ \A x \in Lanes : SeenIsSent(turn'[x], r, archived)
  <2>1. ~ used.shifted /\ (job.by = "nobody" \/ k = session)
    BY <1>10, <1>17
  <2>2. /\ PositionIsSound(all, last, archived) /\ JobIsSound(all, last, job)
        /\ \A x \in Lanes : SeenIsSent(turn[x], all, archived)
    BY <1>1, <2>1 DEF TranscriptInv
  <2>3. last <= Len(all)
    BY <1>3, <2>2 DEF PositionIsSound, UserFollows
  <2>4. k.last = IF last > off THEN last - off ELSE 0
    BY <1>4, <2>3
  <2>5. PositionIsSound(r, k.last, archived)
    <3>1. CASE last > off
      <4>1. k.last + off = last /\ last # 0
        BY <1>3, <2>4, <3>1
      <4>2. last < Len(all) /\ all[last + 1].role = "user"
        BY <2>2, <4>1 DEF PositionIsSound, UserFollows
      <4>3. Len(r) + off = Len(all)
        BY <1>4, <1>5
      <4>4. k.last < Len(r)
        BY <1>3, <1>6, <4>1, <4>2, <4>3
      <4>5. PICK y \in 1..Len(r) : y = k.last + 1 /\ y + off = last + 1
        BY <1>3, <1>6, <4>1, <4>4
      <4>6. r[y] = all[y + off]
        BY <1>7
      <4>7. UserFollows(r, k.last)
        BY <4>2, <4>4, <4>5, <4>6 DEF UserFollows
      <4>8. ASSUME NEW i \in 1..k.last
            PROVE  r[i].n \in archived
        <5>1. i \in 1..Len(r) /\ i + off \in 1..last
          BY <1>3, <1>6, <4>1, <4>4
        <5>2. r[i] = all[i + off]
          BY <1>7, <5>1
        <5>3. QED
          BY <2>2, <5>1, <5>2 DEF PositionIsSound
      <4>9. QED
        BY <4>7, <4>8 DEF PositionIsSound
    <3>2. CASE ~ (last > off)
      <4>1. k.last = 0
        BY <2>4, <3>2
      <4>2. QED
        BY <4>1 DEF PositionIsSound
    <3>3. QED
      BY <3>1, <3>2
  <2>6. JobIsSound(r, k.last, job)
    <3>1. CASE job.by = "nobody"
      BY <3>1 DEF JobIsSound
    <3>2. CASE k = session
      <4>1. r = all /\ k.last = last
        BY <1>1, <1>5, <3>2
      <4>2. QED
        BY <2>2, <4>1
    <3>3. QED
      BY <2>1, <3>1, <3>2
  <2>7. ASSUME NEW x \in Lanes, AsksModel(turn'[x]), NEW i \in DOMAIN r, r[i].n \in turn'[x].seen, r[i].n \notin archived,
               NEW u \in 1..i, r[u].role = "user"
        PROVE  \E j \in DOMAIN turn'[x].msgs : turn'[x].msgs[j].n = r[i].n
    <3>1. turn'[x] = turn[x]
      BY <1>12, <2>7 DEF AsksModel
    <3>2. i \in 1..Len(r) /\ u \in 1..Len(r)
      BY <1>6, <2>7
    <3>3. PICK p \in 1..Len(all), v \in 1..Len(all) : p = i + off /\ v = u + off /\ r[i] = all[p] /\ r[u] = all[v]
      BY <1>7, <3>2
    <3>4. v \in 1..p
      BY <2>7, <3>2, <3>3
    <3>5. SeenIsSent(turn[x], all, archived)
      BY <2>2
    <3>6. QED
      BY <1>3, <2>7, <3>1, <3>3, <3>4, <3>5 DEF SeenIsSent
  <2>8. QED
    BY <2>5, <2>6, <2>7 DEF SeenIsSent
<1>18. session'.messages = r /\ session'.last = k.last
  BY <1>2, <1>5
<1>19. QED
  BY <1>8, <1>9, <1>10, <1>13, <1>14, <1>15, <1>16, <1>17, <1>18 DEF TranscriptInv

LEMMA RestartStep ==
    ASSUME TranscriptInv, Restart
    PROVE  TranscriptInv'
<1>1. session' = session /\ file' = session' /\ UNCHANGED <<key, archived>>
      /\ turn' = [l \in Lanes |-> IdleTurn] /\ job' = NoJob /\ waiting' = 0 /\ beat' = "idle"
  BY InvJob DEF Restart
<1>2. used' \in UsedRecords /\ used'.n = used.n /\ used'.shifted = used.shifted /\ used'.turns = used.turns
  BY InvJob DEF Restart, UsedRecords
<1>3. NoJob \in JobRecords /\ NoJob.by = "nobody" /\ IdleTurn.pc = "idle" /\ IdleTurn.iteration = 0
  BY DEF NoJob, JobRecords, IdleTurn
<1>4. \A l \in Lanes : turn'[l] = IdleTurn
  BY <1>1
<1>5. TranscriptTypes'
  <2>1. turn' \in [Lanes -> TurnRecords]
    BY <1>1, IdleIsATurn
  <2>2. QED
    BY <1>1, <1>2, <1>3, <2>1 DEF TranscriptInv, TranscriptTypes, Beats
<1>6. TurnsCounted'
  <2>1. "user" \in Lanes /\ "system" \in Lanes /\ OpenTurn(IdleTurn) = 0
    BY <1>3 DEF Lanes, OpenTurn
  <2>2. used.turns <= MaxTurns /\ used.turns \in Nat
    BY InvJob DEF TranscriptInv, TurnsCounted, UsedRecords
  <2>3. QED
    BY <1>1, <1>2, <1>4, <2>1, <2>2 DEF TurnsCounted
<1>7. \A n : TurnIsSound(IdleTurn, n)
  BY <1>3 DEF TurnIsSound, AsksModel
<1>8. \A s, done : SeenIsSent(IdleTurn, s, done)
  BY <1>3 DEF SeenIsSent, AsksModel
<1>9. \A s, last : JobIsSound(s, last, NoJob)
  BY <1>3 DEF JobIsSound
<1>10. ~ used.shifted => PositionIsSound(session.messages, session.last, archived)
  BY DEF TranscriptInv
<1>11. QED
  BY <1>1, <1>2, <1>4, <1>5, <1>6, <1>7, <1>8, <1>9, <1>10, InvJob DEF TranscriptInv

-----------------------------------------------------------------------------
(* The initial states, and every state. *)

LEMMA LegacyIsSound ==
    /\ Legacy \in Seq(Messages) /\ Len(Legacy) = 4 /\ \A i \in 1..4 : Legacy[i].n = i
    /\ Legacy[1].role = "user" /\ Legacy[2].role = "assistant" /\ Legacy[3].role = "tool" /\ Legacy[4].role = "tool"
    /\ Legacy[3].answers \in Range(Legacy[2].calls) /\ Legacy[4].answers \in Range(Legacy[2].calls)
    /\ Len(Legacy[2].calls) = 2 /\ Legacy[3].answers = Legacy[2].calls[1] /\ Legacy[4].answers = Legacy[2].calls[2]
    /\ \A i \in 1..4 : Legacy[i].content \in {"none", "empty"} \/ Legacy[i].calls # <<>> => i = 2
    /\ Legacy[2].calls # <<>>
<1>1. PICK one, two : one = <<0, 0, 1>> /\ two = <<0, 0, 2>> /\ one \in CallIds /\ two \in CallIds
  <2>1. 0 \in Nat /\ 1 \in Nat /\ 2 \in Nat
    OBVIOUS
  <2>2. <<0, 0, 1>> \in CallIds /\ <<0, 0, 2>> \in CallIds
    BY <2>1 DEF CallIds
  <2>3. QED
    BY <2>2
<1>2. PICK ids : ids = <<one, two>>
  OBVIOUS
<1>3. ids \in Seq(CallIds) /\ Len(ids) = 2 /\ ids # <<>> /\ ids[1] = one /\ ids[2] = two /\ one \in Range(ids) /\ two \in Range(ids)
  <2>1. ids \in Seq(CallIds) /\ ids[1] = one /\ ids[2] = two /\ Len(ids) = 2
    BY <1>1, <1>2
  <2>2. DOMAIN ids = 1..2
    BY <2>1, LenProperties
  <2>3. 1 \in DOMAIN ids /\ 2 \in DOMAIN ids
    BY <2>2
  <2>4. ids # <<>>
    BY <2>1, EmptySeq
  <2>5. QED
    BY <2>1, <2>3, <2>4 DEF Range
<1>4. PICK m1, m2, m3, m4 : /\ m1 = Message("user", "text") /\ m2 = Calling("empty", ids)
                            /\ m3 = Result(one) /\ m4 = Result(two)
  OBVIOUS
<1>5. /\ m1 = [role |-> "user", n |-> 0, content |-> "text", calls |-> <<>>, answers |-> <<>>]
      /\ m2 = [role |-> "assistant", n |-> 0, content |-> "empty", calls |-> ids, answers |-> <<>>]
      /\ m3 = [role |-> "tool", n |-> 0, content |-> "text", calls |-> <<>>, answers |-> one]
      /\ m4 = [role |-> "tool", n |-> 0, content |-> "text", calls |-> <<>>, answers |-> two]
  BY <1>4 DEF Message, Calling, Result
<1>6. <<>> \in Seq(CallIds)
  OBVIOUS
<1>7. m1 \in Messages /\ m2 \in Messages /\ m3 \in Messages /\ m4 \in Messages
  BY <1>1, <1>3, <1>5, <1>6 DEF Messages
<1>8. PICK ms : ms = <<m1, m2, m3, m4>>
  OBVIOUS
<1>9. ms \in Seq(Messages) /\ Len(ms) = 4 /\ ms[1] = m1 /\ ms[2] = m2 /\ ms[3] = m3 /\ ms[4] = m4
  BY <1>7, <1>8
<1>10. Legacy = [i \in DOMAIN ms |-> [ms[i] EXCEPT !.n = i]]
  BY <1>1, <1>2, <1>3, <1>4, <1>8 DEF Legacy
<1>11. DOMAIN ms = 1..4 /\ \A i \in 1..4 : ms[i] \in Messages
  BY <1>9, MessagesAt
<1>12. PICK f : f = Legacy
  OBVIOUS
<1>13. \A i \in 1..4 : /\ f[i] \in Messages /\ f[i].n = i /\ f[i].role = ms[i].role /\ f[i].content = ms[i].content
                       /\ f[i].calls = ms[i].calls /\ f[i].answers = ms[i].answers
  <2>1. SUFFICES ASSUME NEW i \in 1..4
                 PROVE  /\ f[i] \in Messages /\ f[i].n = i /\ f[i].role = ms[i].role /\ f[i].content = ms[i].content
                        /\ f[i].calls = ms[i].calls /\ f[i].answers = ms[i].answers
    OBVIOUS
  <2>2. PICK m, g : m = ms[i] /\ g = f[i]
    OBVIOUS
  <2>3. g = [m EXCEPT !.n = i] /\ m \in Messages /\ i \in Nat
    BY <1>10, <1>11, <1>12, <2>2
  <2>4. g \in Messages /\ g.n = i /\ g.role = m.role /\ g.content = m.content /\ g.calls = m.calls /\ g.answers = m.answers
    BY <2>3 DEF Messages
  <2>5. QED
    BY <2>2, <2>4
<1>14. f \in [1..4 -> Messages]
  BY <1>10, <1>11, <1>12, <1>13
<1>15. PICK four \in Nat : four = 4
  OBVIOUS
<1>16. f \in Seq(Messages) /\ Len(f) = 4
  BY <1>14, <1>15, FunctionIsSeq
<1>17. /\ f[1].role = "user" /\ f[2].role = "assistant" /\ f[3].role = "tool" /\ f[4].role = "tool"
       /\ f[2].calls = ids /\ f[3].answers = one /\ f[4].answers = two
  BY <1>5, <1>9, <1>13
<1>18. ASSUME NEW i \in 1..4, f[i].content \in {"none", "empty"} \/ f[i].calls # <<>>
       PROVE  i = 2
  <2>1. i = 1 \/ i = 2 \/ i = 3 \/ i = 4
    OBVIOUS
  <2>2. ms[i].content \in {"none", "empty"} \/ ms[i].calls # <<>>
    BY <1>13, <1>18
  <2>3. QED
    BY <1>5, <1>9, <2>1, <2>2
<1>19. QED
  BY <1>3, <1>12, <1>13, <1>16, <1>17, <1>18

LEMMA InitTranscript ==
    ASSUME Init
    PROVE  TranscriptInv
<1>1. PICK k \in 0..Len(Legacy) : session = [messages |-> Drop(Legacy, k), last |-> 0]
  BY DEF Init
<1>2. PICK s, f : s = Drop(Legacy, k) /\ f = Legacy
  OBVIOUS
<1>3. /\ f \in Seq(Messages) /\ Len(f) = 4 /\ k \in Nat /\ k <= 4 /\ \A i \in 1..4 : f[i].n = i
      /\ f[1].role = "user" /\ f[2].role = "assistant" /\ f[3].role = "tool" /\ f[4].role = "tool"
      /\ f[3].answers \in Range(f[2].calls) /\ f[4].answers \in Range(f[2].calls)
  BY <1>2, LegacyIsSound
<1>4. /\ s \in Seq(Messages) /\ Len(s) = 4 - k /\ DOMAIN s = 1..(4 - k)
      /\ \A i \in 1..(4 - k) : i + k \in 1..4 /\ s[i] = f[i + k]
  <2>1. s = Drop(f, k)
    BY <1>2
  <2>2. /\ s \in Seq(Messages) /\ DOMAIN s = 1..Len(s)
        /\ Len(s) = IF k <= Len(f) THEN Len(f) - k ELSE 0
        /\ \A i \in 1..Len(s) : i + k \in 1..Len(f) /\ s[i] = f[i + k]
    <3>1. f \in Seq(Messages) /\ k \in Nat
      BY <1>3
    <3>2. QED
      BY <2>1, <3>1, MessagesDropped
  <2>3. Len(s) = 4 - k
    BY <1>3, <2>2
  <2>4. QED
    BY <1>3, <2>2, <2>3
<1>5. CallsAreKept(s)
  <2>1. ASSUME NEW i \in DOMAIN s, s[i].role = "tool"
        PROVE  CalledFrom(s, 1, i) \/ \A x \in 1..i : s[x].role # "user"
    <3>1. CASE k = 0
      <4>1. \A x \in 1..4 : x \in 1..(4 - k) /\ s[x] = f[x]
        BY <1>4, <3>1
      <4>2. i = 3 \/ i = 4
        <5>1. i = 1 \/ i = 2 \/ i = 3 \/ i = 4
          BY <1>4, <3>1
        <5>2. s[1].role = "user" /\ s[2].role = "assistant"
          BY <1>3, <4>1
        <5>3. QED
          BY <2>1, <5>1, <5>2
      <4>3. 2 \in 1..(i - 1) /\ s[2].role = "assistant" /\ s[i].answers \in Range(s[2].calls)
        BY <1>3, <4>1, <4>2
      <4>4. \A x \in 2..i : s[x].role # "user"
        <5>1. \A x \in 2..i : x = 2 \/ x = 3 \/ x = 4
          BY <4>2
        <5>2. s[2].role = "assistant" /\ s[3].role = "tool" /\ s[4].role = "tool"
          BY <1>3, <4>1
        <5>3. QED
          BY <5>1, <5>2
      <4>5. QED
        BY <4>3, <4>4 DEF CalledFrom
    <3>2. CASE k # 0
      <4>1. ASSUME NEW x \in 1..i
            PROVE  s[x].role # "user"
        <5>1. x \in 1..(4 - k)
          BY <1>3, <1>4, <2>1
        <5>2. PICK p \in 1..4 : p = x + k /\ s[x] = f[p]
          BY <1>4, <5>1
        <5>3. p = 2 \/ p = 3 \/ p = 4
          BY <1>3, <3>2, <5>2
        <5>4. f[p].role # "user"
          BY <1>3, <5>3
        <5>5. QED
          BY <5>2, <5>4
      <4>2. QED
        BY <4>1
    <3>3. QED
      BY <3>1, <3>2
  <2>2. QED
    BY <2>1 DEF CallsAreKept
<1>6. /\ session = [messages |-> s, last |-> 0] /\ file = session /\ turn = [l \in Lanes |-> IdleTurn]
      /\ job = NoJob /\ waiting = 0 /\ beat = "idle" /\ archived = {} /\ key \in {"chat", "heartbeat"}
      /\ used = [n |-> 4, turns |-> 0, archives |-> 0, errors |-> 0, restarts |-> 0, shifted |-> FALSE]
  BY <1>1, <1>2, <1>3 DEF Init
<1>7. used \in UsedRecords /\ used.n = 4 /\ used.turns = 0 /\ session \in SessionRecords
      /\ session.messages = s /\ session.last = 0
  BY <1>4, <1>6 DEF UsedRecords, SessionRecords
<1>8. NumbersGiven(s, 4)
  <2>1. \A i \in 1..(4 - k) : s[i].n \in 1..4
    BY <1>3, <1>4
  <2>2. QED
    BY <1>4, <2>1 DEF NumbersGiven
<1>9. NoJob \in JobRecords /\ NoJob.by = "nobody" /\ IdleTurn.pc = "idle" /\ IdleTurn.iteration = 0
  BY DEF NoJob, JobRecords, IdleTurn
<1>10. \A l \in Lanes : turn[l] = IdleTurn
  BY <1>6
<1>11. TranscriptTypes
  <2>1. turn \in [Lanes -> TurnRecords]
    BY <1>6, IdleIsATurn
  <2>2. QED
    BY <1>6, <1>7, <1>9, <2>1 DEF TranscriptTypes, Beats
<1>12. TurnsCounted
  <2>1. "user" \in Lanes /\ "system" \in Lanes /\ OpenTurn(IdleTurn) = 0
    BY <1>9 DEF Lanes, OpenTurn
  <2>2. QED
    BY <1>6, <1>7, <1>10, <2>1, TranscriptAssumption DEF TurnsCounted
<1>13. \A n : TurnIsSound(IdleTurn, n)
  BY <1>9 DEF TurnIsSound, AsksModel
<1>14. SeenIsSent(IdleTurn, s, archived) /\ JobIsSound(s, 0, NoJob) /\ PositionIsSound(s, 0, archived)
  BY <1>9 DEF SeenIsSent, AsksModel, JobIsSound, PositionIsSound
<1>15. QED
  BY <1>5, <1>6, <1>7, <1>8, <1>10, <1>11, <1>12, <1>13, <1>14 DEF TranscriptInv

LEMMA TranscriptStep ==
    ASSUME TranscriptInv, [Next]_vars
    PROVE  TranscriptInv'
<1>1. ASSUME NEW l \in Lanes, Turn(l)
      PROVE  TranscriptInv'
  BY <1>1, MessageArrivesStep, BuildRequestStep, ModelCallsStep, ToolsReturnStep, ModelAnswersStep, ModelErrsStep,
     TurnBreaksOffStep, SaveTurnStep, ArchiveBeginsStep DEF Turn
<1>2. ASSUME BackgroundBegins \/ ArchiveCommits \/ BeatRuns \/ Retain \/ Restart
      PROVE  TranscriptInv'
  BY <1>2, BackgroundBeginsStep, ArchiveCommitsStep, BeatRunsStep, RetainStep, RestartStep
<1>3. ASSUME BackgroundReturns \/ ArchiveFails \/ Tick \/ DecideSkips \/ BeatEnds \/ UNCHANGED vars
      PROVE  TranscriptInv'
  BY <1>3, QuietStep
<1>4. QED
  BY <1>1, <1>2, <1>3 DEF Next

LEMMA TranscriptHolds ==
    ASSUME TranscriptInv
    PROVE  NothingForgotten
<1>1. TypeOK
  <2>1. /\ key \in {"chat", "heartbeat"} /\ session.last \in Nat /\ file.last \in Nat
        /\ job.by \in Lanes \cup {"nobody", "background"} /\ beat \in {"idle", "deciding", "running", "evaluating"}
    BY DEF TranscriptInv, TranscriptTypes, SessionRecords, JobRecords, Beats
  <2>2. \A l \in Lanes : /\ turn[l].pc \in {"idle", "prepare", "model", "tools", "save", "retain"}
                         /\ turn[l].iteration \in 0..MaxIterations /\ turn[l].attempt \in 0..RetryDelays
    BY InvTurn DEF TurnRecords, Places
  <2>3. waiting \in 0..MaxTurns
    <3>1. \A t : OpenTurn(t) \in {0, 1}
      BY DEF OpenTurn
    <3>2. waiting \in Nat /\ used.turns \in Nat /\ MaxTurns \in Nat
      BY TranscriptAssumption, InvJob DEF UsedRecords
    <3>3. used.turns <= MaxTurns /\ waiting + OpenTurn(turn["user"]) + OpenTurn(turn["system"]) <= used.turns
      BY DEF TranscriptInv, TurnsCounted
    <3>4. QED
      BY <3>1, <3>2, <3>3
  <2>4. QED
    BY <2>1, <2>2, <2>3 DEF TypeOK
<1>2. KeptIsSent
  <2>1. ASSUME ~ used.shifted, NEW l \in Asking
        PROVE  l \in Lanes /\ AsksModel(turn[l]) /\ SeenIsSent(turn[l], session.messages, archived)
    BY <2>1 DEF TranscriptInv, Asking, AsksModel
  <2>2. \A i : \A j \in 1..i : j \in UserAt(session.messages) => session.messages[j].role = "user"
    BY DEF UserAt
  <2>3. QED
    BY <2>1, <2>2 DEF KeptIsSent, SeenIsSent
<1>3. SkippedIsArchived
  <2>1. ASSUME ~ used.shifted
        PROVE  /\ session.last <= Len(session.messages)
               /\ \A i \in 1..session.last : session.messages[i].n \in archived
    <3>1. PositionIsSound(session.messages, session.last, archived)
      BY <2>1 DEF TranscriptInv
    <3>2. Len(session.messages) \in Nat /\ session.last \in Nat
      BY InvJob, MessagesAt
    <3>3. QED
      BY <3>1, <3>2 DEF PositionIsSound, UserFollows
  <2>2. QED
    BY <2>1 DEF SkippedIsArchived
<1>4. QED
  BY <1>1, <1>2, <1>3 DEF NothingForgotten

\* agent/loop.py, agent/memory.py, session/manager.py, cli/commands.py: for any limits, however
\* the turns of two lanes, consolidation, pruning, errors and restarts interleave, what a request
\* leaves out of the conversation and what last_consolidated skips is in the memory.
THEOREM NothingForgottenAlways == Spec => []NothingForgotten
<1>1. Init => TranscriptInv
  BY InitTranscript
<1>2. TranscriptInv /\ [Next]_vars => TranscriptInv'
  BY TranscriptStep
<1>3. TranscriptInv => NothingForgotten
  BY TranscriptHolds
<1>4. QED
  BY <1>1, <1>2, <1>3, PTL DEF Spec

\* The same of the run, where the transcript is one of five parts side by side.
THEOREM NothingForgottenBesideTheOthers == MCSpec => []NothingForgotten
<1>1. MCInit => TranscriptInv
  BY InitTranscript DEF MCInit, SessionRests
<1>2. ASSUME TranscriptInv, [MCNext]_mc
      PROVE  TranscriptInv'
  <2>1. [Next]_vars
    BY <1>2 DEF MCNext, Agent, mc
  <2>2. QED
    BY <1>2, <2>1, TranscriptStep
<1>3. TranscriptInv => NothingForgotten
  BY TranscriptHolds
<1>4. QED
  BY <1>1, <1>2, <1>3, PTL DEF MCSpec
-----------------------------------------------------------------------------
(* Requests that the APIs take: the inductive invariant. *)

\* The result at i belongs to a call before it, with nothing but results between.
IsAnswered(s, i) == \E c \in 1..(i - 1) : s[c].role = "assistant" /\ i <= c + Len(s[c].calls)

\* Of the first n messages, calls have their results at once and in order, and only the rest
\* of an old transcript, at the front, has results without calls.
PairedUpto(s, n) ==
    \A i \in 1..n :
        /\ s[i].role = "assistant" =>
              \A k \in 1..Len(s[i].calls) :
                  i + k <= n /\ s[i + k].role = "tool" /\ s[i + k].answers = s[i].calls[k]
        /\ s[i].role = "tool" => IsAnswered(s, i) \/ \A k \in 1..i : s[k].role = "tool"
Paired(s) == PairedUpto(s, Len(s))

SaysSomething(m) ==
    /\ m.content \in {"none", "empty"} => m.calls # <<>>
    /\ m.calls # <<>> => m.role = "assistant"

\* The request of a turn; of its last iteration the calls may still be without results.
TurnIsLegal(t) ==
    t.pc \in {"model", "tools", "save"} =>
        /\ t.skip < Len(t.msgs) /\ t.msgs[1].role # "tool" /\ t.msgs[t.skip + 1].role # "tool"
        /\ \A i \in 1..Len(t.msgs) : SaysSomething(t.msgs[i]) \/ (t.pc = "save" /\ t.msgs[i].role = "assistant")
        /\ PairedUpto(t.msgs, IF t.pc = "tools" THEN Len(t.msgs) - 1 ELSE Len(t.msgs))

LegalInv ==
    /\ Paired(session.messages)
    /\ \A i \in 1..Len(session.messages) : SaysSomething(session.messages[i])
    /\ \A l \in Lanes : TurnIsLegal(turn[l])

-----------------------------------------------------------------------------
(* Paired transcripts. *)

LEMMA CallsOf ==
    ASSUME NEW m \in Messages
    PROVE  /\ Len(m.calls) \in Nat /\ DOMAIN m.calls = 1..Len(m.calls) /\ (m.calls = <<>> <=> Len(m.calls) = 0)
           /\ \A k \in 1..Len(m.calls) : m.calls[k] \in CallIds
<1>1. m.calls \in Seq(CallIds)
  BY DEF Messages
<1>2. PICK c : c = m.calls
  OBVIOUS
<1>3. Len(c) \in Nat /\ DOMAIN c = 1..Len(c) /\ (c = <<>> <=> Len(c) = 0) /\ \A k \in 1..Len(c) : c[k] \in CallIds
  <2>1. c \in Seq(CallIds)
    BY <1>1, <1>2
  <2>2. Len(c) \in Nat /\ DOMAIN c = 1..Len(c) /\ \A k \in DOMAIN c : c[k] \in CallIds
    BY <2>1, Positions
  <2>3. c = <<>> <=> Len(c) = 0
    BY <2>1, EmptySeq
  <2>4. QED
    BY <2>2, <2>3
<1>4. QED
  BY <1>2, <1>3

\* The results of a call do not reach beyond the next message that is none.
LEMMA NoneBetween ==
    ASSUME NEW s \in Seq(Messages), NEW n \in Nat, n <= Len(s), PairedUpto(s, n), NEW c \in 1..n, s[c].role = "assistant",
           NEW i \in 1..n, c < i, i <= c + Len(s[c].calls)
    PROVE  s[i].role = "tool" /\ i - c \in 1..Len(s[c].calls) /\ s[i].answers = s[c].calls[i - c]
<1>1. Len(s[c].calls) \in Nat
  <2>1. s[c] \in Messages
    BY MessagesAt
  <2>2. QED
    BY <2>1, CallsOf
<1>2. PICK k \in 1..Len(s[c].calls) : k = i - c
  <2>1. i - c \in 1..Len(s[c].calls)
    BY <1>1
  <2>2. QED
    BY <2>1
<1>3. s[c + k].role = "tool" /\ s[c + k].answers = s[c].calls[k]
  BY DEF PairedUpto
<1>4. c + k = i
  BY <1>2
<1>5. QED
  BY <1>2, <1>3, <1>4

LEMMA PairedSame ==
    ASSUME NEW s, NEW r, NEW n \in Nat, PairedUpto(s, n), \A i \in 1..n : r[i] = s[i]
    PROVE  PairedUpto(r, n)
<1>1. ASSUME NEW i \in 1..n, r[i].role = "assistant", NEW k \in 1..Len(r[i].calls)
      PROVE  i + k <= n /\ r[i + k].role = "tool" /\ r[i + k].answers = r[i].calls[k]
  <2>1. i + k <= n /\ s[i + k].role = "tool" /\ s[i + k].answers = s[i].calls[k]
    BY <1>1 DEF PairedUpto
  <2>2. PICK j \in 1..n : j = i + k
    BY <2>1
  <2>3. QED
    BY <1>1, <2>1, <2>2
<1>2. ASSUME NEW i \in 1..n, r[i].role = "tool"
      PROVE  IsAnswered(r, i) \/ \A k \in 1..i : r[k].role = "tool"
  <2>1. \A k \in 1..i : k \in 1..n /\ r[k] = s[k]
    BY <1>2
  <2>2. IsAnswered(s, i) \/ \A k \in 1..i : s[k].role = "tool"
    BY <1>2, <2>1 DEF PairedUpto
  <2>3. \A c \in 1..(i - 1) : r[c] = s[c]
    BY <2>1
  <2>4. QED
    BY <2>1, <2>2, <2>3 DEF IsAnswered
<1>3. QED
  BY <1>1, <1>2 DEF PairedUpto

LEMMA PairedDropped ==
    ASSUME NEW s \in Seq(Messages), Paired(s), NEW k \in Nat, NEW r, r = Drop(s, k)
    PROVE  Paired(r)
<1>1. /\ r \in Seq(Messages) /\ Len(s) \in Nat /\ Len(r) \in Nat
      /\ Len(r) = IF k <= Len(s) THEN Len(s) - k ELSE 0
      /\ \A i \in 1..Len(r) : i + k \in 1..Len(s) /\ r[i] = s[i + k]
  BY MessagesDropped
<1>2. ASSUME NEW i \in 1..Len(r), r[i].role = "assistant", NEW x \in 1..Len(r[i].calls)
      PROVE  i + x <= Len(r) /\ r[i + x].role = "tool" /\ r[i + x].answers = r[i].calls[x]
  <2>1. PICK p \in 1..Len(s) : p = i + k /\ r[i] = s[p]
    BY <1>1
  <2>2. p + x <= Len(s) /\ s[p + x].role = "tool" /\ s[p + x].answers = s[p].calls[x]
    BY <1>2, <2>1 DEF Paired, PairedUpto
  <2>3. PICK y \in 1..Len(r) : y = i + x /\ y + k = p + x
    <3>1. i \in Nat /\ i >= 1 /\ x \in Nat /\ x >= 1 /\ p = i + k /\ p + x <= Len(s)
      BY <1>1, <2>1, <2>2
    <3>2. k <= Len(s)
      BY <1>1, <3>1
    <3>3. i + x \in 1..Len(r) /\ (i + x) + k = p + x
      BY <1>1, <3>1, <3>2
    <3>4. QED
      BY <3>3
  <2>4. r[y] = s[p + x]
    BY <1>1, <2>3
  <2>5. QED
    BY <2>1, <2>2, <2>3, <2>4
<1>3. ASSUME NEW i \in 1..Len(r), r[i].role = "tool"
      PROVE  IsAnswered(r, i) \/ \A x \in 1..i : r[x].role = "tool"
  <2>1. PICK p \in 1..Len(s) : p = i + k /\ r[i] = s[p]
    BY <1>1
  <2>2. IsAnswered(s, p) \/ \A x \in 1..p : s[x].role = "tool"
    BY <1>3, <2>1 DEF Paired, PairedUpto
  <2>3. \A x \in 1..i : x \in 1..Len(r) /\ r[x] = s[x + k]
    BY <1>1
  <2>4. CASE \A x \in 1..p : s[x].role = "tool"
    <3>1. \A x \in 1..i : x + k \in 1..p
      BY <2>1
    <3>2. QED
      BY <2>3, <2>4, <3>1
  <2>5. CASE IsAnswered(s, p)
    <3>1. PICK c \in 1..(p - 1) : s[c].role = "assistant" /\ p <= c + Len(s[c].calls)
      BY <2>5 DEF IsAnswered
    <3>2. Len(s[c].calls) \in Nat
      <4>1. s[c] \in Messages
        BY MessagesAt
      <4>2. QED
        BY <4>1, CallsOf
    <3>3. CASE c <= k
      <4>1. ASSUME NEW x \in 1..i
            PROVE  r[x].role = "tool"
        <5>1. PICK y \in 1..Len(s) : y = x + k /\ r[x] = s[y] /\ c < y /\ y <= p
          <6>1. x + k \in 1..Len(s) /\ c < x + k /\ x + k <= p
            BY <1>1, <2>1, <3>3
          <6>2. QED
            BY <2>3, <6>1
        <5>2. y <= c + Len(s[c].calls) /\ c \in 1..Len(s) /\ Len(s) <= Len(s)
          BY <1>1, <3>1, <3>2, <5>1
        <5>3. PICK n \in Nat : n = Len(s) /\ n <= Len(s) /\ c \in 1..n /\ y \in 1..n /\ PairedUpto(s, n)
          BY <1>1, <5>2 DEF Paired
        <5>4. s[y].role = "tool"
          <6>1. s[c].role = "assistant" /\ c < y /\ y <= c + Len(s[c].calls)
            BY <3>1, <5>1, <5>2
          <6>2. QED
            BY <5>3, <6>1, NoneBetween
        <5>5. QED
          BY <5>1, <5>4
      <4>2. QED
        BY <4>1
    <3>4. CASE c > k
      <4>1. PICK d \in 1..(i - 1) : d = c - k /\ d + k = c
        <5>1. c - k \in 1..(i - 1) /\ (c - k) + k = c
          BY <2>1, <3>4
        <5>2. QED
          BY <5>1
      <4>2. d \in 1..i
        BY <4>1
      <4>3. r[d] = s[c]
        BY <2>3, <4>1, <4>2
      <4>4. i <= d + Len(r[d].calls)
        BY <2>1, <3>1, <3>2, <4>1, <4>3
      <4>5. QED
        BY <3>1, <4>3, <4>4 DEF IsAnswered
    <3>5. QED
      BY <3>3, <3>4
  <2>6. QED
    BY <2>2, <2>4, <2>5
<1>4. QED
  BY <1>2, <1>3 DEF Paired, PairedUpto

\* One paired transcript after another, unless the second begins with the rest of a call.
LEMMA PairedJoined ==
    ASSUME NEW s \in Seq(Messages), Paired(s), NEW t \in Seq(Messages), Paired(t),
           t # <<>> => t[1].role # "tool", NEW r, r = s \o t
    PROVE  Paired(r)
<1>1. PICK a, b : a = Len(s) /\ b = Len(t)
  OBVIOUS
<1>2. /\ r \in Seq(Messages) /\ a \in Nat /\ b \in Nat /\ DOMAIN r = 1..(a + b) /\ Len(r) = a + b
      /\ \A i \in 1..a : i \in DOMAIN r /\ r[i] = s[i]
      /\ \A i \in 1..b : i + a \in DOMAIN r /\ r[i + a] = t[i]
      /\ \A i \in DOMAIN r : i \in 1..a \/ i - a \in 1..b
  BY <1>1, Joined
<1>3. PairedUpto(r, a)
  BY <1>1, <1>2, PairedSame DEF Paired
<1>4. b # 0 => t[1].role # "tool"
  <2>1. t = <<>> => b = 0
    BY <1>1
  <2>2. QED
    BY <2>1
<1>5. ASSUME NEW i \in 1..(a + b)
      PROVE  i \in 1..a \/ \E y \in 1..b : i = y + a /\ r[i] = t[y]
  <2>1. i \in 1..a \/ (i - a \in 1..b /\ i = (i - a) + a)
    BY <1>2
  <2>2. QED
    BY <1>2, <2>1
<1>6. ASSUME NEW i \in 1..(a + b), r[i].role = "assistant", NEW x \in 1..Len(r[i].calls)
      PROVE  i + x <= a + b /\ r[i + x].role = "tool" /\ r[i + x].answers = r[i].calls[x]
  <2>1. CASE i \in 1..a
    <3>1. i + x <= a /\ r[i + x].role = "tool" /\ r[i + x].answers = r[i].calls[x]
      BY <1>3, <1>6, <2>1 DEF PairedUpto
    <3>2. QED
      BY <1>2, <3>1
  <2>2. ASSUME NEW y \in 1..b, i = y + a, r[i] = t[y]
        PROVE  i + x <= a + b /\ r[i + x].role = "tool" /\ r[i + x].answers = r[i].calls[x]
    <3>1. y + x <= b /\ t[y + x].role = "tool" /\ t[y + x].answers = t[y].calls[x]
      BY <1>1, <1>6, <2>2 DEF Paired, PairedUpto
    <3>2. PICK z \in 1..b : z = y + x /\ z + a = i + x
      <4>1. a \in Nat /\ b \in Nat /\ y \in Nat /\ x \in Nat
        BY <1>2
      <4>2. y + x \in 1..b
        <5>1. y >= 1 /\ x >= 1 /\ y + x <= b
          BY <3>1
        <5>2. QED
          BY <4>1, <5>1
      <4>3. (y + x) + a = i + x
        BY <2>2, <4>1
      <4>4. QED
        BY <4>2, <4>3
    <3>3. r[i + x] = t[y + x]
      BY <1>2, <3>2
    <3>4. i + x <= a + b
      BY <1>2, <3>2
    <3>5. QED
      BY <2>2, <3>1, <3>3, <3>4
  <2>3. QED
    BY <1>5, <2>1, <2>2
<1>7. ASSUME NEW i \in 1..(a + b), r[i].role = "tool"
      PROVE  IsAnswered(r, i) \/ \A x \in 1..i : r[x].role = "tool"
  <2>1. CASE i \in 1..a
    BY <1>3, <1>7, <2>1 DEF PairedUpto
  <2>2. ASSUME NEW y \in 1..b, i = y + a, r[i] = t[y]
        PROVE  IsAnswered(r, i)
    <3>1. IsAnswered(t, y)
      <4>1. IsAnswered(t, y) \/ \A x \in 1..y : t[x].role = "tool"
        BY <1>1, <1>7, <2>2 DEF Paired, PairedUpto
      <4>2. b # 0 /\ 1 \in 1..y
        BY <1>2
      <4>3. QED
        BY <1>4, <4>1, <4>2
    <3>2. PICK c \in 1..(y - 1) : t[c].role = "assistant" /\ y <= c + Len(t[c].calls)
      BY <3>1 DEF IsAnswered
    <3>3. Len(t[c].calls) \in Nat
      <4>1. c \in 1..Len(t)
        BY <1>1, <1>2
      <4>2. t[c] \in Messages
        BY <4>1, MessagesAt
      <4>3. QED
        BY <4>2, CallsOf
    <3>4. PICK d \in 1..(i - 1) : d = c + a
      <4>1. c + a \in 1..(i - 1)
        BY <1>2, <2>2
      <4>2. QED
        BY <4>1
    <3>5. c \in 1..b
      BY <1>2
    <3>6. r[d] = t[c]
      BY <1>2, <3>4, <3>5
    <3>7. i <= d + Len(r[d].calls)
      <4>1. PICK m \in Nat : m = Len(t[c].calls) /\ m = Len(r[d].calls)
        BY <3>3, <3>6
      <4>2. y \in Nat /\ c \in Nat /\ a \in Nat /\ y <= c + m
        BY <1>2, <3>2, <4>1
      <4>3. y + a <= (c + a) + m
        BY <4>2
      <4>4. QED
        BY <2>2, <3>4, <4>1, <4>3
    <3>8. QED
      BY <3>2, <3>6, <3>7 DEF IsAnswered
  <2>3. QED
    BY <1>5, <2>1, <2>2
<1>8. PairedUpto(r, a + b)
  BY <1>6, <1>7 DEF PairedUpto
<1>9. QED
  BY <1>2, <1>8 DEF Paired

\* What _find_legal_start leaves of a paired transcript begins with no result, and drops nothing
\* but results.
LEMMA LegalStartBegins ==
    ASSUME NEW s \in Seq(Messages), Paired(s)
    PROVE  /\ FindLegalStart(s) \in 0..Len(s)
           /\ FindLegalStart(s) < Len(s) => s[FindLegalStart(s) + 1].role # "tool"
<1>1. Len(s) \in Nat /\ \A i \in 1..Len(s) : s[i] \in Messages
  BY MessagesAt
<1>2. PICK walk \in [0..Len(s) -> [start : Nat, declared : SUBSET CallIds]] :
              /\ FindLegalStart(s) = walk[Len(s)].start
              /\ walk[0] = [start |-> 0, declared |-> {}]
              /\ \A i \in 1..Len(s) :
                    walk[i] = IF s[i].role = "assistant"
                              THEN [walk[i - 1] EXCEPT !.declared = @ \cup Range(s[i].calls)]
                              ELSE IF s[i].role = "tool" /\ s[i].answers \notin walk[i - 1].declared
                              THEN [start |-> i, declared |-> {}]
                              ELSE walk[i - 1]
  BY LegalWalk
<1> DEFINE Led(i, a) == /\ a.start \in 0..i /\ (a.start < i => s[a.start + 1].role # "tool")
                        /\ \A k \in 1..a.start : s[k].role = "tool"
                        /\ \A c \in 1..i : s[c].role = "assistant" => Range(s[c].calls) \subseteq a.declared
                        /\ (\A k \in 1..i : s[k].role = "tool") => a.declared = {}
           T == {i \in Nat : i <= Len(s) => Led(i, walk[i])}
<1>3. 0 \in T
  BY <1>2
<1>4. ASSUME NEW i \in Nat, i \in T
      PROVE  i + 1 \in T
  <2>1. SUFFICES ASSUME i + 1 <= Len(s)
                 PROVE  Led(i + 1, walk[i + 1])
    OBVIOUS
  <2>2. PICK n \in Nat : n = i + 1 /\ n \in 1..Len(s) /\ n - 1 = i /\ i \in 0..Len(s) /\ i < n
                         /\ \A k \in 1..n : k \in 1..i \/ k = n
    BY <1>1, <2>1
  <2>3. PICK a, b : a = walk[i] /\ b = walk[n]
    OBVIOUS
  <2>4. /\ Led(i, a) /\ a \in [start : Nat, declared : SUBSET CallIds]
        /\ b = IF s[n].role = "assistant"
               THEN [a EXCEPT !.declared = @ \cup Range(s[n].calls)]
               ELSE IF s[n].role = "tool" /\ s[n].answers \notin a.declared
               THEN [start |-> n, declared |-> {}]
               ELSE a
    <3>1. Led(i, walk[i]) /\ walk[i] \in [start : Nat, declared : SUBSET CallIds]
      BY <1>2, <1>4, <2>2
    <3>2. walk[n] = IF s[n].role = "assistant"
                    THEN [walk[i] EXCEPT !.declared = @ \cup Range(s[n].calls)]
                    ELSE IF s[n].role = "tool" /\ s[n].answers \notin walk[i].declared
                    THEN [start |-> n, declared |-> {}]
                    ELSE walk[i]
      BY <1>2, <2>2
    <3> HIDE DEF Led
    <3>3. QED
      BY <2>3, <3>1, <3>2
  <2>5. a.start \in Nat /\ a.start <= i
    BY <2>4
  <2>6. CASE s[n].role = "assistant"
    <3>1. b.start = a.start /\ b.declared = a.declared \cup Range(s[n].calls)
      BY <2>4, <2>6
    <3>2. b.start < n => s[b.start + 1].role # "tool"
      <4>1. a.start = i \/ a.start < i
        BY <2>5
      <4>2. CASE a.start = i
        BY <2>2, <2>6, <3>1, <4>2
      <4>3. QED
        BY <2>4, <3>1, <4>1, <4>2
    <3>3. \A c \in 1..n : s[c].role = "assistant" => Range(s[c].calls) \subseteq b.declared
      BY <2>2, <2>4, <3>1
    <3>4. ~ \A k \in 1..n : s[k].role = "tool"
      BY <2>2, <2>6
    <3>5. Led(n, b)
      BY <2>2, <2>4, <2>5, <3>1, <3>2, <3>3, <3>4
    <3>6. QED
      BY <2>2, <2>3, <3>5
  <2>7. CASE s[n].role = "tool" /\ s[n].answers \notin a.declared
    <3>1. b.start = n /\ b.declared = {}
      BY <2>4, <2>7
    <3>2. ~ IsAnswered(s, n)
      <4>1. SUFFICES ASSUME NEW c \in 1..(n - 1), s[c].role = "assistant", n <= c + Len(s[c].calls)
                     PROVE  FALSE
        BY DEF IsAnswered
      <4>2. PICK m \in Nat : m = Len(s) /\ m <= Len(s) /\ c \in 1..m /\ n \in 1..m /\ PairedUpto(s, m)
        BY <1>1, <2>2 DEF Paired
      <4>3. c < n
        BY <2>2
      <4>4. n - c \in 1..Len(s[c].calls) /\ s[n].answers = s[c].calls[n - c]
        BY <4>1, <4>2, <4>3, NoneBetween
      <4>5. s[c] \in Messages
        BY <1>1, <4>2
      <4>6. s[n].answers \in Range(s[c].calls)
        <5>1. DOMAIN s[c].calls = 1..Len(s[c].calls)
          BY <4>5, CallsOf
        <5>2. QED
          BY <4>4, <5>1 DEF Range
      <4>7. c \in 1..i
        BY <2>2
      <4>8. QED
        BY <2>4, <2>7, <4>1, <4>6, <4>7
    <3>3. \A k \in 1..n : s[k].role = "tool"
      BY <2>2, <2>7, <3>2 DEF Paired, PairedUpto
    <3>4. Led(n, b)
      BY <3>1, <3>3
    <3>5. QED
      BY <2>2, <2>3, <3>4
  <2>8. CASE s[n].role # "assistant" /\ ~ (s[n].role = "tool" /\ s[n].answers \notin a.declared)
    <3>1. b = a
      BY <2>4, <2>8
    <3>2. (\A k \in 1..n : s[k].role = "tool") => FALSE
      <4>1. SUFFICES ASSUME \A k \in 1..n : s[k].role = "tool"
                     PROVE  FALSE
        OBVIOUS
      <4>2. a.declared = {}
        BY <2>2, <2>4, <4>1
      <4>3. s[n].role = "tool"
        BY <2>2, <4>1
      <4>4. QED
        BY <2>8, <4>2, <4>3
    <3>3. a.start < n => s[a.start + 1].role # "tool"
      <4>1. a.start = i \/ a.start < i
        BY <2>5
      <4>2. CASE a.start = i
        <5>1. ~ (s[n].role = "tool")
          BY <2>2, <2>4, <3>2, <4>2
        <5>2. QED
          BY <2>2, <4>2, <5>1
      <4>3. QED
        BY <2>4, <4>1, <4>2
    <3>4. \A c \in 1..n : s[c].role = "assistant" => Range(s[c].calls) \subseteq a.declared
      BY <2>2, <2>4, <2>8
    <3>5. Led(n, a)
      BY <2>2, <2>4, <2>5, <3>2, <3>3, <3>4
    <3>6. QED
      BY <2>2, <2>3, <3>1, <3>5
  <2>9. QED
    BY <2>6, <2>7, <2>8
<1>5. Nat \subseteq T
  <2> HIDE DEF T
  <2>1. QED
    BY <1>3, <1>4, Induct
<1>6. Led(Len(s), walk[Len(s)])
  BY <1>1, <1>5
<1>7. QED
  BY <1>2, <1>6

\* A message that is no result, and calls none, after a paired transcript.
LEMMA PairedAppended ==
    ASSUME NEW s \in Seq(Messages), Paired(s), NEW m \in Messages, m.role # "tool", NEW r, r = Append(s, m)
    PROVE  /\ r \in Seq(Messages) /\ Len(r) = Len(s) + 1 /\ r[Len(s) + 1] = m /\ \A i \in 1..Len(s) : r[i] = s[i]
           /\ PairedUpto(r, Len(s))
           /\ m.calls = <<>> => Paired(r)
<1>1. PICK n \in Nat : n = Len(s)
  BY MessagesAt
<1>2. r \in Seq(Messages) /\ Len(r) = n + 1 /\ r[n + 1] = m /\ \A i \in 1..n : r[i] = s[i]
  BY <1>1, AppendProperties
<1>3. PairedUpto(r, n)
  BY <1>1, <1>2, PairedSame DEF Paired
<1>4. ASSUME m.calls = <<>>
      PROVE  PairedUpto(r, n + 1)
  <2>1. \A i \in 1..(n + 1) : i \in 1..n \/ i = n + 1
    OBVIOUS
  <2>2. Len(m.calls) = 0
    BY <1>4
  <2>3. ASSUME NEW i \in 1..(n + 1), r[i].role = "assistant", NEW x \in 1..Len(r[i].calls)
        PROVE  i + x <= n + 1 /\ r[i + x].role = "tool" /\ r[i + x].answers = r[i].calls[x]
    <3>1. i \in 1..n
      BY <1>2, <2>1, <2>2, <2>3
    <3>2. i + x <= n /\ r[i + x].role = "tool" /\ r[i + x].answers = r[i].calls[x]
      BY <1>3, <2>3, <3>1 DEF PairedUpto
    <3>3. QED
      BY <3>2
  <2>4. \A i \in 1..(n + 1) : r[i].role = "tool" => i \in 1..n
    BY <1>2, <2>1
  <2>5. QED
    BY <1>3, <2>3, <2>4 DEF PairedUpto
<1>5. QED
  BY <1>1, <1>2, <1>3, <1>4 DEF Paired

\* The results of the calls at the end.
LEMMA PairedResults ==
    ASSUME NEW r \in Seq(Messages), NEW n \in Nat \ {0}, NEW m \in Nat, Len(r) = n + m, PairedUpto(r, n - 1),
           r[n].role = "assistant", m = Len(r[n].calls),
           \A k \in 1..m : r[n + k].role = "tool" /\ r[n + k].answers = r[n].calls[k]
    PROVE  Paired(r)
<1>1. \A i \in 1..(n + m) : i \in 1..(n - 1) \/ i = n \/ (i > n /\ i <= n + m)
  OBVIOUS
<1>2. \A i \in 1..(n + m) : i > n => i - n \in 1..m /\ n + (i - n) = i
  OBVIOUS
<1>3. ASSUME NEW i \in 1..(n + m), i > n
      PROVE  r[i].role = "tool"
  <2>1. PICK k \in 1..m : i = n + k
    BY <1>2, <1>3
  <2>2. QED
    BY <2>1
<1>4. ASSUME NEW i \in 1..(n + m), r[i].role = "assistant", NEW x \in 1..Len(r[i].calls)
      PROVE  i + x <= n + m /\ r[i + x].role = "tool" /\ r[i + x].answers = r[i].calls[x]
  <2>1. CASE i \in 1..(n - 1)
    <3>1. i + x <= n - 1 /\ r[i + x].role = "tool" /\ r[i + x].answers = r[i].calls[x]
      BY <1>4, <2>1 DEF PairedUpto
    <3>2. QED
      BY <3>1
  <2>2. CASE i = n
    BY <1>4, <2>2
  <2>3. QED
    BY <1>1, <1>3, <1>4, <2>1, <2>2
<1>5. ASSUME NEW i \in 1..(n + m), r[i].role = "tool"
      PROVE  IsAnswered(r, i) \/ \A x \in 1..i : r[x].role = "tool"
  <2>1. CASE i \in 1..(n - 1)
    BY <1>5, <2>1 DEF PairedUpto
  <2>2. CASE i > n
    <3>1. n \in 1..(i - 1) /\ i <= n + Len(r[n].calls)
      BY <2>2
    <3>2. QED
      BY <3>1 DEF IsAnswered
  <2>3. QED
    BY <1>1, <1>5, <2>1, <2>2
<1>6. QED
  BY <1>4, <1>5 DEF Paired, PairedUpto

\* What Keeps allows of a paired transcript is paired: of a message that calls, and of results,
\* nothing is skipped.
LEMMA PairedSaved ==
    ASSUME NEW ms \in Seq(Messages), used.n \in Nat, NEW new, new = Persisted(ms), Paired(ms),
           ms # <<>> => ms[1].role # "tool",
           \A i \in 1..Len(ms) : SaysSomething(ms[i]) \/ ms[i].role = "assistant"
    PROVE  /\ new \in Seq(Messages) /\ Paired(new) /\ (new # <<>> => new[1].role # "tool")
           /\ \A i \in 1..Len(new) : SaysSomething(new[i])
<1>1. PICK n \in Nat : n = Len(ms)
  BY MessagesAt
<1>2. PICK kept, e : Embeds(e, kept, ms, n) /\ SavedAs(new, kept)
  BY <1>1, SavedPart
<1>3. PICK m \in Nat : m = Len(kept) /\ DOMAIN new = 1..m /\ new \in Seq(Messages) /\ Len(new) = m
  <2>1. Len(kept) \in Nat /\ DOMAIN new = 1..Len(kept) /\ new \in Seq(Messages)
    BY <1>2 DEF SavedAs
  <2>2. Len(new) \in Nat /\ DOMAIN new = 1..Len(new)
    BY <2>1, MessagesAt
  <2>3. Len(new) = Len(kept)
    <3>1. \A a, b \in Nat : 1..a = 1..b => a = b
      <4>1. ASSUME NEW a \in Nat, NEW b \in Nat, 1..a = 1..b
            PROVE  a = b
        <5>1. a # 0 => a \in 1..b
          BY <4>1
        <5>2. b # 0 => b \in 1..a
          BY <4>1
        <5>3. QED
          BY <5>1, <5>2
      <4>2. QED
        BY <4>1
    <3>2. QED
      BY <2>1, <2>2, <3>1
  <2>4. QED
    BY <2>1, <2>3
<1>4. /\ e \in [1..m -> 1..n] /\ \A x, y \in 1..m : x < y => e[x] < e[y]
      /\ \A p \in 1..n : Keeps(ms[p]) => \E x \in 1..m : e[x] = p
  BY <1>2, <1>3 DEF Embeds
<1>5. ASSUME NEW x \in 1..m
      PROVE  /\ e[x] \in 1..n /\ ms[e[x]] \in Messages
             /\ new[x].role = ms[e[x]].role /\ new[x].calls = ms[e[x]].calls /\ new[x].answers = ms[e[x]].answers
             /\ new[x].content = IF ms[e[x]].content = "image" THEN "text" ELSE ms[e[x]].content
  <2>1. e[x] \in 1..n /\ kept[x] = ms[e[x]]
    BY <1>2, <1>3, <1>4 DEF Embeds
  <2>2. QED
    BY <1>2, <1>3, <2>1 DEF SavedAs
<1>6. \A p \in 1..n : ms[p].role = "tool" => Keeps(ms[p])
  BY DEF Keeps
<1>7. \A p \in 1..n : ms[p].role = "assistant" /\ Len(ms[p].calls) # 0 => Keeps(ms[p])
  <2>1. ASSUME NEW p \in 1..n, ms[p].role = "assistant", Len(ms[p].calls) # 0
        PROVE  Keeps(ms[p])
    <3>1. ms[p].calls # <<>>
      BY <2>1
    <3>2. QED
      BY <2>1, <3>1 DEF Keeps
  <2>2. QED
    BY <2>1
\* The next message that is kept.
<1>8. ASSUME NEW x \in 1..m, e[x] + 1 <= n, Keeps(ms[e[x] + 1])
      PROVE  x + 1 \in 1..m /\ e[x + 1] = e[x] + 1
  <2>1. PICK p \in 1..n : p = e[x] + 1
    BY <1>5, <1>8
  <2>2. PICK y \in 1..m : e[y] = p
    BY <1>4, <1>8, <2>1
  <2>3. e[x] \in Int /\ e[y] \in Int /\ e[x] < e[y]
    BY <1>5, <2>1, <2>2
  <2>4. x < y
    <3>1. y < x => e[y] < e[x]
      BY <1>4
    <3>2. y # x
      BY <2>3
    <3>3. QED
      BY <2>3, <3>1, <3>2
  <2>5. PICK z \in 1..m : z = x + 1
    BY <2>4
  <2>6. e[z] \in Int /\ e[x] < e[z]
    BY <1>4, <1>5, <2>5
  <2>7. z < y => e[z] < e[y]
    BY <1>4
  <2>8. z = y
    BY <2>1, <2>2, <2>3, <2>4, <2>5, <2>6, <2>7
  <2>9. QED
    BY <2>1, <2>2, <2>5, <2>8
\* With a call, all of its results.
<1>9. ASSUME NEW x \in 1..m, new[x].role = "assistant", NEW k \in 0..Len(new[x].calls)
      PROVE  x + k \in 1..m /\ e[x + k] = e[x] + k
  <2>1. PICK c \in 1..n, len \in Nat : c = e[x] /\ len = Len(new[x].calls) /\ len = Len(ms[c].calls) /\ ms[c].role = "assistant"
    <3>1. e[x] \in 1..n /\ ms[e[x]].calls = new[x].calls /\ ms[e[x]].role = "assistant"
      BY <1>5, <1>9
    <3>2. new[x] \in Messages
      BY <1>3, MessagesAt
    <3>3. Len(new[x].calls) \in Nat
      BY <3>2, CallsOf
    <3>4. QED
      BY <3>1, <3>3
  <2> DEFINE T == {j \in Nat : j <= len => x + j \in 1..m /\ e[x + j] = c + j}
  <2>2. 0 \in T
    BY <2>1
  <2>3. ASSUME NEW j \in Nat, j \in T
        PROVE  j + 1 \in T
    <3>1. SUFFICES ASSUME j + 1 <= len
                   PROVE  x + (j + 1) \in 1..m /\ e[x + (j + 1)] = c + (j + 1)
      OBVIOUS
    <3>2. PICK y \in 1..m : y = x + j /\ e[y] = c + j
      BY <2>3, <3>1
    <3>3. c + (j + 1) <= n /\ ms[c + (j + 1)].role = "tool"
      <4>1. j + 1 \in 1..len
        BY <3>1
      <4>2. QED
        BY <1>1, <2>1, <4>1 DEF Paired, PairedUpto
    <3>4. PICK p \in 1..n : p = c + (j + 1) /\ p = e[y] + 1
      BY <3>2, <3>3
    <3>5. Keeps(ms[p])
      BY <1>6, <3>3, <3>4
    <3>6. y + 1 \in 1..m /\ e[y + 1] = e[y] + 1
      BY <1>8, <3>4, <3>5
    <3>7. y + 1 = x + (j + 1)
      BY <3>2
    <3>8. QED
      BY <3>4, <3>6, <3>7
  <2>4. Nat \subseteq T
    <3> HIDE DEF T
    <3>1. QED
      BY <2>2, <2>3, Induct
  <2>5. k \in Nat /\ k <= len
    BY <2>1
  <2>6. QED
    BY <2>1, <2>4, <2>5
<1>10. ASSUME NEW x \in 1..m, new[x].role = "assistant", NEW k \in 1..Len(new[x].calls)
       PROVE  x + k <= m /\ new[x + k].role = "tool" /\ new[x + k].answers = new[x].calls[k]
  <2>1. k \in 0..Len(new[x].calls)
    BY <1>5, CallsOf
  <2>2. PICK y \in 1..m : y = x + k /\ e[y] = e[x] + k
    BY <1>9, <1>10, <2>1
  <2>3. PICK c \in 1..n : c = e[x] /\ ms[c].role = "assistant" /\ new[x].calls = ms[c].calls
    BY <1>5, <1>10
  <2>4. ms[c + k].role = "tool" /\ ms[c + k].answers = ms[c].calls[k]
    BY <1>1, <1>10, <2>3 DEF Paired, PairedUpto
  <2>5. ms[e[y]] = ms[c + k]
    BY <2>2, <2>3
  <2>6. QED
    BY <1>5, <2>2, <2>3, <2>4, <2>5
<1>11. ASSUME NEW x \in 1..m, new[x].role = "tool"
       PROVE  IsAnswered(new, x)
  <2>1. PICK i \in 1..n : i = e[x] /\ ms[i].role = "tool"
    BY <1>5, <1>11
  <2>2. IsAnswered(ms, i)
    <3>1. IsAnswered(ms, i) \/ \A k \in 1..i : ms[k].role = "tool"
      BY <1>1, <2>1 DEF Paired, PairedUpto
    <3>2. 1 \in 1..i /\ ms # <<>>
      BY <1>1
    <3>3. QED
      BY <3>1, <3>2
  <2>3. PICK c \in 1..(i - 1) : ms[c].role = "assistant" /\ i <= c + Len(ms[c].calls)
    BY <2>2 DEF IsAnswered
  <2>4. PICK len \in Nat : len = Len(ms[c].calls) /\ len # 0 /\ c \in 1..n
    <3>1. c \in 1..n /\ ms[c] \in Messages
      BY <1>1, MessagesAt
    <3>2. Len(ms[c].calls) \in Nat
      BY <3>1, CallsOf
    <3>3. Len(ms[c].calls) # 0
      BY <2>3
    <3>4. QED
      BY <3>1, <3>2, <3>3
  <2>5. PICK y \in 1..m : e[y] = c
    BY <1>4, <1>7, <2>3, <2>4
  <2>6. new[y].role = "assistant" /\ new[y].calls = ms[c].calls
    BY <1>5, <2>3, <2>5
  <2>7. PICK k \in 1..len : i = c + k
    <3>1. i - c \in 1..len /\ i = c + (i - c)
      BY <2>3, <2>4
    <3>2. QED
      BY <3>1
  <2>8. y + k \in 1..m /\ e[y + k] = i
    <3>1. k \in 0..Len(new[y].calls)
      BY <2>4, <2>6
    <3>2. QED
      BY <1>9, <2>5, <2>6, <2>7, <3>1
  <2>9. PICK z \in 1..m : z = y + k /\ e[z] = i
    BY <2>8
  <2>10. z = x
    <3>1. z < x => e[z] < e[x]
      BY <1>4
    <3>2. x < z => e[x] < e[z]
      BY <1>4
    <3>3. QED
      BY <2>1, <2>9, <3>1, <3>2
  <2>11. y \in 1..(x - 1) /\ x <= y + Len(new[y].calls)
    BY <2>4, <2>6, <2>9, <2>10
  <2>12. QED
    BY <2>6, <2>11 DEF IsAnswered
<1>12. Paired(new)
  BY <1>3, <1>10, <1>11 DEF Paired, PairedUpto
<1>13. new # <<>> => new[1].role # "tool"
  <2>1. ASSUME new # <<>>, new[1].role = "tool"
        PROVE  FALSE
    <3>1. m # 0
      BY <1>3, <2>1, EmptySeq
    <3>2. 1 \in 1..m
      BY <3>1
    <3>3. IsAnswered(new, 1)
      BY <1>11, <2>1, <3>2
    <3>4. QED
      BY <3>3 DEF IsAnswered
  <2>2. QED
    BY <2>1
<1>14. ASSUME NEW x \in 1..m
       PROVE  SaysSomething(new[x])
  <2>1. PICK kp : kp = ms[e[x]] /\ kp = kept[x] /\ e[x] \in 1..n /\ kp \in Messages
    BY <1>2, <1>3, <1>5 DEF Embeds
  <2>2. SaysSomething(kp)
    <3>1. Keeps(kp)
      BY <1>2, <1>3, <2>1 DEF Embeds
    <3>2. SaysSomething(kp) \/ kp.role = "assistant"
      BY <1>1, <2>1
    <3>3. QED
      BY <3>1, <3>2 DEF Keeps, SaysSomething
  <2>3. /\ new[x].role = kp.role /\ new[x].calls = kp.calls
        /\ new[x].content = IF kp.content = "image" THEN "text" ELSE kp.content
    BY <1>5, <2>1
  <2>4. QED
    BY <2>2, <2>3 DEF SaysSomething
<1>15. QED
  BY <1>3, <1>12, <1>13, <1>14

-----------------------------------------------------------------------------
(* Requests that the APIs take: the steps. *)

LEMMA LegalMoves ==
    ASSUME TranscriptInv, LegalInv, NEW l \in Lanes, NEW t, turn' = [turn EXCEPT ![l] = t], session' = session, TurnIsLegal(t)
    PROVE  LegalInv'
<1>1. turn'[l] = t /\ \A k \in Lanes : k # l => turn'[k] = turn[k]
  BY DEF TranscriptInv, TranscriptTypes
<1>2. \A k \in Lanes : TurnIsLegal(turn'[k])
  BY <1>1 DEF LegalInv
<1>3. QED
  BY <1>2 DEF LegalInv

\* Turns stay, and of the transcript is left the end.
LEMMA LegalPart ==
    ASSUME TranscriptInv, LegalInv, NEW k \in Nat, session'.messages = Drop(session.messages, k),
           \A l \in Lanes : TurnIsLegal(turn'[l])
    PROVE  LegalInv'
<1>1. PICK s, r : s = session.messages /\ r = session'.messages
  OBVIOUS
<1>2. s \in Seq(Messages) /\ Paired(s) /\ r = Drop(s, k) /\ \A i \in 1..Len(s) : SaysSomething(s[i])
  BY <1>1, InvJob DEF LegalInv
<1>3. Paired(r)
  BY <1>2, PairedDropped
<1>4. \A i \in 1..Len(r) : SaysSomething(r[i])
  <2>1. \A i \in 1..Len(r) : i + k \in 1..Len(s) /\ r[i] = s[i + k]
    BY <1>2, MessagesDropped
  <2>2. QED
    BY <1>2, <2>1
<1>5. QED
  BY <1>1, <1>3, <1>4 DEF LegalInv

\* Nothing is dropped.
LEMMA DropNone ==
    ASSUME NEW s \in Seq(Messages)
    PROVE  Drop(s, 0) = s
<1>1. PICK k, r : k = 0 /\ k \in Nat /\ r = Drop(s, k)
  OBVIOUS
<1>2. /\ r \in Seq(Messages) /\ Len(s) \in Nat /\ Len(r) \in Nat /\ Len(r) = IF k <= Len(s) THEN Len(s) - k ELSE 0
      /\ \A i \in 1..Len(r) : r[i] = s[i + k]
  BY <1>1, MessagesDropped
<1>3. Len(r) = Len(s) /\ \A i \in 1..Len(r) : r[i] = s[i]
  BY <1>1, <1>2
<1>4. r = s
  BY <1>2, <1>3, SeqEqual
<1>5. QED
  BY <1>1, <1>4

\* What get_history returns.
LEMMA HistoryIsLegal ==
    ASSUME TranscriptInv, LegalInv, NEW h, h = History
    PROVE  h \in Seq(Messages) /\ Paired(h) /\ (Len(h) # 0 => h[1].role # "tool") /\ \A i \in 1..Len(h) : SaysSomething(h[i])
<1>1. PICK all, last, s : all = session.messages /\ last = session.last /\ s = Drop(all, last)
  OBVIOUS
<1>2. all \in Seq(Messages) /\ last \in Nat /\ Paired(all) /\ \A i \in 1..Len(all) : SaysSomething(all[i])
  BY <1>1, InvJob DEF LegalInv
<1>3. /\ s \in Seq(Messages) /\ Len(s) \in Nat /\ DOMAIN s = 1..Len(s)
      /\ \A i \in 1..Len(s) : i + last \in 1..Len(all) /\ s[i] = all[i + last]
  BY <1>1, <1>2, MessagesDropped
<1>4. Paired(s) /\ \A i \in 1..Len(s) : SaysSomething(s[i])
  <2>1. Paired(s)
    BY <1>1, <1>2, PairedDropped
  <2>2. QED
    BY <1>2, <1>3, <2>1
<1>5. PICK t : t = IF UserAt(s) = {} THEN s ELSE Drop(s, Least(UserAt(s)) - 1)
  OBVIOUS
<1>6. \E cut \in Nat : t = Drop(s, cut)
  <2>1. CASE UserAt(s) = {}
    BY <1>3, <1>5, <2>1, DropNone
  <2>2. CASE UserAt(s) # {}
    <3>1. UserAt(s) \subseteq Nat
      BY <1>3 DEF UserAt
    <3>2. Least(UserAt(s)) \in UserAt(s)
      BY <2>2, <3>1, LeastIn
    <3>3. Least(UserAt(s)) - 1 \in Nat
      BY <1>3, <3>2 DEF UserAt
    <3>4. QED
      BY <1>5, <2>2, <3>3
  <2>3. QED
    BY <2>1, <2>2
<1>7. PICK cut \in Nat : t = Drop(s, cut)
  BY <1>6
<1>8. t \in Seq(Messages) /\ Len(t) \in Nat /\ \A i \in 1..Len(t) : i + cut \in 1..Len(s) /\ t[i] = s[i + cut]
  BY <1>3, <1>7, MessagesDropped
<1>9. Paired(t) /\ \A i \in 1..Len(t) : SaysSomething(t[i])
  <2>1. Paired(t)
    BY <1>3, <1>4, <1>7, PairedDropped
  <2>2. QED
    BY <1>4, <1>8, <2>1
<1>10. PICK start \in 0..Len(t) : start = FindLegalStart(t) /\ (start < Len(t) => t[start + 1].role # "tool")
  BY <1>8, <1>9, LegalStartBegins
<1>11. h = Drop(t, start) /\ start \in Nat
  BY <1>1, <1>5, <1>8, <1>10 DEF History
<1>12. /\ h \in Seq(Messages) /\ Len(h) \in Nat /\ Len(h) = IF start <= Len(t) THEN Len(t) - start ELSE 0
       /\ \A i \in 1..Len(h) : i + start \in 1..Len(t) /\ h[i] = t[i + start]
  BY <1>8, <1>11, MessagesDropped
<1>13. Paired(h)
  BY <1>8, <1>9, <1>11, PairedDropped
<1>14. Len(h) # 0 => h[1].role # "tool"
  <2>1. ASSUME Len(h) # 0
        PROVE  h[1].role # "tool"
    <3>1. 1 \in 1..Len(h) /\ start < Len(t) /\ 1 + start = start + 1
      BY <1>8, <1>10, <1>12, <2>1
    <3>2. h[1] = t[start + 1]
      BY <1>12, <3>1
    <3>3. QED
      BY <1>10, <3>1, <3>2
  <2>2. QED
    BY <2>1
<1>15. QED
  BY <1>9, <1>12, <1>13, <1>14

LEMMA BeginsLegal ==
    ASSUME TranscriptInv, LegalInv, NEW l \in Lanes, Begins(l), session' = session
    PROVE  LegalInv'
<1>1. PICK t : t = [turn[l] EXCEPT !.pc = "prepare", !.no = used.turns + 1]
  OBVIOUS
<1>2. turn' = [turn EXCEPT ![l] = t]
  <2>1. turn' = [turn EXCEPT ![l].pc = "prepare", ![l].no = used.turns + 1]
    BY DEF Begins
  <2>2. QED
    BY <1>1, <2>1, InvTurn DEF Begins
<1>3. t.pc = "prepare"
  <2>1. turn[l] \in TurnRecords
    BY InvTurn
  <2>2. QED
    BY <1>1, <2>1 DEF TurnRecords
<1>4. QED
  BY <1>2, <1>3, LegalMoves DEF TurnIsLegal

LEMMA BuildRequestLegal ==
    ASSUME TranscriptInv, LegalInv, NEW l \in Lanes, BuildRequest(l)
    PROVE  LegalInv'
<1>1. PICK role \in {"user", "assistant"}, content \in {"text", "blank", "image"} :
          turn' = [turn EXCEPT ![l] = [@ EXCEPT !.pc = "model", !.seen = Numbers(session.messages), !.skip = Len(History),
                       !.msgs = Append(History, Message(role, content))]]
  BY DEF BuildRequest
<1>2. PICK h, m, r : h = History /\ m = Message(role, content) /\ r = Append(h, m)
  OBVIOUS
<1>3. PICK t : t = [turn[l] EXCEPT !.pc = "model", !.seen = Numbers(session.messages), !.skip = Len(h), !.msgs = r]
  OBVIOUS
<1>4. turn' = [turn EXCEPT ![l] = t] /\ session' = session
  BY <1>1, <1>2, <1>3 DEF BuildRequest
<1>5. m \in Messages /\ m.role # "tool" /\ m.calls = <<>> /\ SaysSomething(m)
  BY <1>2 DEF Message, Messages, SaysSomething
<1>6. h \in Seq(Messages) /\ Paired(h) /\ (Len(h) # 0 => h[1].role # "tool") /\ \A i \in 1..Len(h) : SaysSomething(h[i])
  BY <1>2, HistoryIsLegal
<1>7. PICK n \in Nat : n = Len(h)
  BY <1>6, MessagesAt
<1>8. r \in Seq(Messages) /\ Len(r) = n + 1 /\ r[n + 1] = m /\ (\A i \in 1..n : r[i] = h[i]) /\ Paired(r)
  <2>1. /\ r \in Seq(Messages) /\ Len(r) = Len(h) + 1 /\ r[Len(h) + 1] = m /\ (\A i \in 1..Len(h) : r[i] = h[i])
        /\ PairedUpto(r, Len(h)) /\ (m.calls = <<>> => Paired(r))
    <3>1. m \in Messages /\ m.role # "tool" /\ h \in Seq(Messages) /\ Paired(h) /\ r = Append(h, m)
      BY <1>2, <1>5, <1>6
    <3>2. r \in Seq(Messages) /\ Len(r) = Len(h) + 1 /\ r[Len(h) + 1] = m
      BY <3>1, PairedAppended
    <3>3. \A i \in 1..Len(h) : r[i] = h[i]
      BY <3>1, PairedAppended
    <3>4. PairedUpto(r, Len(h)) /\ (m.calls = <<>> => Paired(r))
      BY <3>1, PairedAppended
    <3>5. QED
      BY <3>2, <3>3, <3>4
  <2>2. QED
    BY <1>5, <1>7, <2>1
<1>9. t.pc = "model" /\ t.msgs = r /\ t.skip = n
  <2>1. turn[l] \in TurnRecords
    BY InvTurn
  <2>2. QED
    BY <1>3, <1>7, <2>1 DEF TurnRecords
<1>10. r[1].role # "tool"
  <2>1. CASE n = 0
    BY <1>5, <1>8, <2>1
  <2>2. CASE n # 0
    <3>1. 1 \in 1..n
      BY <2>2
    <3>2. QED
      BY <1>6, <1>7, <1>8, <2>2, <3>1
  <2>3. QED
    BY <2>1, <2>2
<1>11. \A i \in 1..(n + 1) : SaysSomething(r[i])
  <2>1. \A i \in 1..(n + 1) : i \in 1..n \/ i = n + 1
    OBVIOUS
  <2>2. QED
    BY <1>5, <1>6, <1>7, <1>8, <2>1
<1>12. TurnIsLegal(t)
  BY <1>5, <1>8, <1>9, <1>10, <1>11 DEF TurnIsLegal, Paired
<1>13. QED
  BY <1>4, <1>12, LegalMoves

\* The response: calls, or an answer that may be empty.
LEMMA SaysLegal ==
    ASSUME TranscriptInv, LegalInv, NEW l \in Lanes, turn[l].pc = "model", NEW pc \in {"tools", "save"}, NEW m \in Messages,
           m.role = "assistant", Says(l, pc, m), pc = "save" => m.calls = <<>>, pc = "tools" => SaysSomething(m)
    PROVE  LegalInv'
<1>1. PICK t : t = [turn[l] EXCEPT !.pc = pc, !.attempt = 0, !.stripped = FALSE, !.msgs = Append(@, m)]
  OBVIOUS
<1>2. turn' = [turn EXCEPT ![l] = t] /\ session' = session
  BY <1>1 DEF Says
<1>3. PICK s, k, r : s = turn[l].msgs /\ k = turn[l].skip /\ r = Append(s, m)
  OBVIOUS
<1>4. s \in Seq(Messages) /\ k \in Nat /\ t.pc = pc /\ t.msgs = r /\ t.skip = k
  <2>1. turn[l] \in TurnRecords
    BY InvTurn
  <2>2. QED
    BY <1>1, <1>3, <2>1 DEF TurnRecords
<1>5. /\ k < Len(s) /\ s[1].role # "tool" /\ s[k + 1].role # "tool" /\ Paired(s)
      /\ \A i \in 1..Len(s) : SaysSomething(s[i])
  <2>1. TurnIsLegal(turn[l])
    BY DEF LegalInv
  <2>2. QED
    BY <1>3, <2>1 DEF TurnIsLegal, Paired
<1>6. PICK n \in Nat : n = Len(s)
  BY <1>4, MessagesAt
<1>7. /\ r \in Seq(Messages) /\ Len(r) = n + 1 /\ r[n + 1] = m /\ (\A i \in 1..n : r[i] = s[i]) /\ PairedUpto(r, n)
      /\ m.calls = <<>> => PairedUpto(r, n + 1)
  <2>1. /\ r \in Seq(Messages) /\ Len(r) = Len(s) + 1 /\ r[Len(s) + 1] = m /\ (\A i \in 1..Len(s) : r[i] = s[i])
        /\ PairedUpto(r, Len(s)) /\ (m.calls = <<>> => Paired(r))
    <3>1. m.role # "tool"
      OBVIOUS
    <3>2. QED
      BY <1>3, <1>4, <1>5, <3>1, PairedAppended
  <2>2. QED
    BY <1>6, <2>1 DEF Paired
<1>8. r[1].role # "tool" /\ r[k + 1].role # "tool" /\ k < n + 1
  <2>1. k + 1 \in 1..n /\ 1 \in 1..n
    BY <1>4, <1>5, <1>6
  <2>2. QED
    BY <1>4, <1>5, <1>6, <1>7, <2>1
<1>9. \A i \in 1..(n + 1) : SaysSomething(r[i]) \/ (pc = "save" /\ r[i].role = "assistant")
  <2>1. \A i \in 1..(n + 1) : i \in 1..n \/ i = n + 1
    OBVIOUS
  <2>2. QED
    BY <1>5, <1>6, <1>7, <2>1
<1>10. PairedUpto(r, IF pc = "tools" THEN (n + 1) - 1 ELSE n + 1)
  <2>1. (n + 1) - 1 = n
    OBVIOUS
  <2>2. QED
    BY <1>7, <2>1
<1>11. TurnIsLegal(t)
  BY <1>4, <1>7, <1>8, <1>9, <1>10 DEF TurnIsLegal
<1>12. QED
  BY <1>2, <1>11, LegalMoves

LEMMA ModelCallsLegal ==
    ASSUME TranscriptInv, LegalInv, NEW l \in Lanes, ModelCalls(l)
    PROVE  LegalInv'
<1>1. PICK k \in 1..MaxCalls, content \in {"text", "empty"} :
          Says(l, "tools", Calling(content, [i \in 1..k |-> <<turn[l].no, turn[l].iteration, i>>]))
  BY DEF ModelCalls
<1>2. PICK ids : ids = [i \in 1..k |-> <<turn[l].no, turn[l].iteration, i>>]
  OBVIOUS
<1>3. k \in Nat /\ k # 0 /\ turn[l].no \in Nat /\ turn[l].iteration \in Nat
  BY InvTurn, TranscriptAssumption DEF TurnRecords
<1>4. ids \in [1..k -> CallIds]
  BY <1>2, <1>3 DEF CallIds
<1>5. ids \in Seq(CallIds) /\ Len(ids) = k
  BY <1>3, <1>4, FunctionIsSeq
<1>6. ids # <<>>
  BY <1>3, <1>5, EmptySeq
<1>7. PICK m : m = Calling(content, ids)
  OBVIOUS
<1>8. m \in Messages /\ m.role = "assistant" /\ m.calls = ids
  BY <1>5, <1>7 DEF Calling, Message, Messages
<1>9. Says(l, "tools", m) /\ SaysSomething(m)
  BY <1>1, <1>2, <1>6, <1>7, <1>8 DEF SaysSomething
<1>10. QED
  BY <1>8, <1>9, SaysLegal DEF ModelCalls

LEMMA ModelAnswersLegal ==
    ASSUME TranscriptInv, LegalInv, NEW l \in Lanes, ModelAnswers(l)
    PROVE  LegalInv'
<1>1. PICK content \in {"text", "none"} : Says(l, "save", Message("assistant", content))
  BY DEF ModelAnswers
<1>2. PICK m : m = Message("assistant", content)
  OBVIOUS
<1>3. m \in Messages /\ m.role = "assistant" /\ m.calls = <<>>
  BY <1>2 DEF Message, Messages
<1>4. QED
  BY <1>1, <1>2, <1>3, SaysLegal DEF ModelAnswers

LEMMA ToolsReturnLegal ==
    ASSUME TranscriptInv, LegalInv, NEW l \in Lanes, ToolsReturn(l)
    PROVE  LegalInv'
<1>1. PICK s, k, ids : s = turn[l].msgs /\ k = turn[l].skip /\ ids = Last(s).calls
  OBVIOUS
<1>2. PICK results, r : results = [i \in DOMAIN ids |-> Result(ids[i])] /\ r = s \o results
  OBVIOUS
<1>3. PICK t : t = [turn[l] EXCEPT !.msgs = r, !.iteration = @ + 1,
                                   !.pc = IF turn[l].iteration + 1 < MaxIterations THEN "model" ELSE "save"]
  OBVIOUS
<1>4. turn[l].pc = "tools" /\ turn' = [turn EXCEPT ![l] = t] /\ session' = session
  BY <1>1, <1>2, <1>3 DEF ToolsReturn
<1>5. s \in Seq(Messages) /\ k \in Nat /\ t.pc \in {"model", "save"} /\ t.msgs = r /\ t.skip = k
  <2>1. turn[l] \in TurnRecords
    BY InvTurn
  <2>2. QED
    BY <1>1, <1>3, <2>1 DEF TurnRecords
<1>6. PICK n \in Nat : n = Len(s)
  BY <1>5, MessagesAt
<1>7. /\ k < n /\ s[1].role # "tool" /\ s[k + 1].role # "tool" /\ PairedUpto(s, n - 1)
      /\ \A i \in 1..n : SaysSomething(s[i])
  <2>1. TurnIsLegal(turn[l])
    BY DEF LegalInv
  <2>2. QED
    BY <1>1, <1>4, <1>6, <2>1 DEF TurnIsLegal
<1>8. n \in 1..n /\ s[n] \in Messages /\ s[n].role = "assistant" /\ s[n].calls = ids
  <2>1. n \in 1..n /\ s[n] \in Messages
    BY <1>5, <1>6, <1>7, MessagesAt
  <2>2. Last(s).role = "assistant"
    BY <1>1, <1>4, InvTurn DEF TurnIsSound
  <2>3. QED
    BY <1>1, <1>6, <2>1, <2>2 DEF Last
<1>9. PICK m \in Nat : m = Len(ids) /\ DOMAIN ids = 1..m /\ \A i \in 1..m : ids[i] \in CallIds
  BY <1>8, CallsOf
<1>10. \A i \in 1..m : results[i] \in Messages /\ results[i].role = "tool" /\ results[i].answers = ids[i] /\ SaysSomething(results[i])
  <2>1. \A id \in CallIds : Result(id) \in Messages /\ Result(id).role = "tool" /\ Result(id).answers = id /\ SaysSomething(Result(id))
    <3>1. \A id : Result(id) = [role |-> "tool", n |-> 0, content |-> "text", calls |-> <<>>, answers |-> id]
      BY DEF Result, Message
    <3>2. <<>> \in Seq(CallIds)
      OBVIOUS
    <3>3. QED
      BY <3>1, <3>2 DEF Messages, SaysSomething
  <2>2. \A i \in 1..m : results[i] = Result(ids[i])
    BY <1>2, <1>9
  <2>3. QED
    BY <1>9, <2>1, <2>2
<1>11. results \in Seq(Messages) /\ Len(results) = m
  <2>1. results \in [1..m -> Messages]
    BY <1>2, <1>9, <1>10
  <2>2. QED
    BY <2>1, FunctionIsSeq
<1>12. /\ r \in Seq(Messages) /\ Len(r) = n + m /\ DOMAIN r = 1..(n + m)
       /\ \A i \in 1..n : r[i] = s[i]
       /\ \A i \in 1..m : r[i + n] = results[i]
       /\ \A i \in 1..(n + m) : i \in 1..n \/ i - n \in 1..m
  BY <1>2, <1>5, <1>6, <1>11, Joined
<1>13. Paired(r)
  <2>1. PairedUpto(r, n - 1)
    <3>1. PICK j \in Nat : j = n - 1 /\ \A i \in 1..j : i \in 1..n
      BY <1>8
    <3>2. PairedUpto(s, j) /\ \A i \in 1..j : r[i] = s[i]
      BY <1>7, <1>12, <3>1
    <3>3. QED
      BY <3>1, <3>2, PairedSame
  <2>2. r[n].role = "assistant" /\ r[n].calls = ids
    BY <1>8, <1>12
  <2>3. \A i \in 1..m : r[n + i].role = "tool" /\ r[n + i].answers = ids[i]
    <3>1. \A i \in 1..m : n + i = i + n
      OBVIOUS
    <3>2. QED
      BY <1>10, <1>12, <3>1
  <2>4. n \in Nat \ {0}
    BY <1>8
  <2>5. QED
    BY <1>9, <1>12, <2>1, <2>2, <2>3, <2>4, PairedResults
<1>14. \A i \in 1..(n + m) : SaysSomething(r[i])
  <2>1. ASSUME NEW i \in 1..(n + m)
        PROVE  SaysSomething(r[i])
    <3>1. CASE i \in 1..n
      BY <1>7, <1>12, <3>1
    <3>2. CASE i - n \in 1..m
      <4>1. (i - n) + n = i
        OBVIOUS
      <4>2. QED
        BY <1>10, <1>12, <3>2, <4>1
    <3>3. QED
      BY <1>12, <3>1, <3>2
  <2>2. QED
    BY <2>1
<1>15. r[1].role # "tool" /\ r[k + 1].role # "tool" /\ k < n + m
  <2>1. k + 1 \in 1..n /\ 1 \in 1..n
    BY <1>5, <1>7, <1>8
  <2>2. k < n + m
    BY <1>5, <1>7
  <2>3. QED
    BY <1>7, <1>12, <2>1, <2>2
<1>16. TurnIsLegal(t)
  BY <1>5, <1>12, <1>13, <1>14, <1>15 DEF TurnIsLegal, Paired
<1>17. QED
  BY <1>4, <1>16, LegalMoves

LEMMA ModelErrsLegal ==
    ASSUME TranscriptInv, LegalInv, NEW l \in Lanes, ModelErrs(l)
    PROVE  LegalInv'
<1>1. turn[l] \in TurnRecords /\ turn[l].pc = "model" /\ TurnIsLegal(turn[l]) /\ session' = session
  BY InvTurn DEF ModelErrs, LegalInv
<1>2. PICK t : turn' = [turn EXCEPT ![l] = t] /\ t.pc \in {"model", "save"} /\ t.msgs = turn[l].msgs /\ t.skip = turn[l].skip
  <2>1. \/ turn' = [turn EXCEPT ![l].attempt = @ + 1]
        \/ turn' = [turn EXCEPT ![l].stripped = TRUE]
        \/ turn' = [turn EXCEPT ![l].pc = "save"]
    BY DEF ModelErrs
  <2>2. turn \in [Lanes -> TurnRecords]
    BY InvTurn
  <2>3. PICK a, b, c : /\ a = [turn[l] EXCEPT !.attempt = @ + 1] /\ b = [turn[l] EXCEPT !.stripped = TRUE]
                       /\ c = [turn[l] EXCEPT !.pc = "save"]
    OBVIOUS
  <2>4. turn' = [turn EXCEPT ![l] = a] \/ turn' = [turn EXCEPT ![l] = b] \/ turn' = [turn EXCEPT ![l] = c]
    BY <2>1, <2>2, <2>3
  <2>5. \A t \in {a, b, c} : t.pc \in {"model", "save"} /\ t.msgs = turn[l].msgs /\ t.skip = turn[l].skip
    BY <1>1, <2>3 DEF TurnRecords
  <2>6. QED
    BY <2>4, <2>5
<1>3. TurnIsLegal(t)
  BY <1>1, <1>2 DEF TurnIsLegal
<1>4. QED
  BY <1>1, <1>2, <1>3, LegalMoves

LEMMA IdleIsLegal ==
    ASSUME NEW pc \in {"idle", "retain"}
    PROVE  TurnIsLegal([IdleTurn EXCEPT !.pc = pc]) /\ TurnIsLegal(IdleTurn)
BY DEF TurnIsLegal, IdleTurn

LEMMA TurnBreaksOffLegal ==
    ASSUME TranscriptInv, LegalInv, NEW l \in Lanes, TurnBreaksOff(l)
    PROVE  LegalInv'
BY IdleIsLegal, LegalMoves DEF TurnBreaksOff

LEMMA SaveTurnLegal ==
    ASSUME TranscriptInv, LegalInv, NEW l \in Lanes, SaveTurn(l)
    PROVE  LegalInv'
<1>1. PICK s, k, all : s = turn[l].msgs /\ k = turn[l].skip /\ all = session.messages
  OBVIOUS
<1>2. PICK ms, new, r : ms = Drop(s, k) /\ new = Persisted(ms) /\ r = all \o new
  OBVIOUS
<1>3. PICK t : t = [IdleTurn EXCEPT !.pc = IF key = "heartbeat" THEN "retain" ELSE "idle"]
  OBVIOUS
<1>4. turn[l].pc = "save" /\ session' = [session EXCEPT !.messages = r] /\ turn' = [turn EXCEPT ![l] = t]
  BY <1>1, <1>2, <1>3 DEF SaveTurn
<1>5. s \in Seq(Messages) /\ k \in Nat /\ all \in Seq(Messages) /\ used.n \in Nat
  BY <1>1, InvTurn DEF TurnRecords
<1>6. /\ k < Len(s) /\ s[k + 1].role # "tool" /\ Paired(s)
      /\ \A i \in 1..Len(s) : SaysSomething(s[i]) \/ s[i].role = "assistant"
  <2>1. TurnIsLegal(turn[l])
    BY DEF LegalInv
  <2>2. QED
    BY <1>1, <1>4, <2>1 DEF TurnIsLegal, Paired
<1>7. /\ ms \in Seq(Messages) /\ Len(ms) \in Nat /\ Len(s) \in Nat /\ Len(ms) = IF k <= Len(s) THEN Len(s) - k ELSE 0
      /\ \A i \in 1..Len(ms) : i + k \in 1..Len(s) /\ ms[i] = s[i + k]
  BY <1>2, <1>5, MessagesDropped
<1>8. Paired(ms)
  BY <1>2, <1>5, <1>6, PairedDropped
<1>9. ms[1].role # "tool"
  <2>1. 1 \in 1..Len(ms) /\ 1 + k = k + 1
    BY <1>5, <1>6, <1>7
  <2>2. QED
    BY <1>6, <1>7, <2>1
<1>10. \A i \in 1..Len(ms) : SaysSomething(ms[i]) \/ ms[i].role = "assistant"
  BY <1>6, <1>7
<1>11. /\ new \in Seq(Messages) /\ Paired(new) /\ (new # <<>> => new[1].role # "tool")
       /\ \A i \in 1..Len(new) : SaysSomething(new[i])
  BY <1>2, <1>5, <1>7, <1>8, <1>9, <1>10, PairedSaved
<1>12. Paired(all) /\ \A i \in 1..Len(all) : SaysSomething(all[i])
  BY <1>1 DEF LegalInv
<1>13. Paired(r)
  BY <1>2, <1>5, <1>11, <1>12, PairedJoined
<1>14. \A i \in 1..Len(r) : SaysSomething(r[i])
  <2>1. PICK a, b : a = Len(all) /\ b = Len(new)
    OBVIOUS
  <2>2. /\ a \in Nat /\ b \in Nat /\ Len(r) = a + b /\ DOMAIN r = 1..(a + b)
        /\ \A i \in 1..a : r[i] = all[i]
        /\ \A i \in 1..b : r[i + a] = new[i]
        /\ \A i \in DOMAIN r : i \in 1..a \/ i - a \in 1..b
    BY <1>2, <1>5, <1>11, <2>1, Joined
  <2>3. ASSUME NEW i \in 1..(a + b)
        PROVE  SaysSomething(r[i])
    <3>1. CASE i \in 1..a
      <4>1. r[i] = all[i] /\ i \in 1..Len(all)
        BY <2>1, <2>2, <3>1
      <4>2. QED
        BY <1>12, <4>1
    <3>2. CASE i - a \in 1..b
      <4>1. PICK x \in 1..b : x = i - a /\ x + a = i
        BY <2>2, <3>2
      <4>2. r[i] = new[x] /\ x \in 1..Len(new)
        BY <2>1, <2>2, <4>1
      <4>3. QED
        BY <1>11, <4>2
    <3>3. QED
      BY <2>2, <3>1, <3>2
  <2>4. QED
    BY <2>2, <2>3
<1>15. session'.messages = r
  <2>1. session \in SessionRecords
    BY InvJob
  <2>2. QED
    BY <1>4, <2>1 DEF SessionRecords
<1>16. TurnIsLegal(t)
  BY <1>3, IdleIsLegal
<1>17. \A x \in Lanes : TurnIsLegal(turn'[x])
  <2>1. turn'[l] = t /\ \A x \in Lanes : x # l => turn'[x] = turn[x]
    BY <1>4 DEF TranscriptInv, TranscriptTypes
  <2>2. QED
    BY <1>16, <2>1 DEF LegalInv
<1>18. QED
  BY <1>13, <1>14, <1>15, <1>17 DEF LegalInv

LEMMA RetainLegal ==
    ASSUME TranscriptInv, LegalInv, Retain
    PROVE  LegalInv'
<1>1. PICK all, k : all = session.messages /\ k = RetainRecent(KeepRecent) /\ session' = k
  BY DEF Retain
<1>2. all \in Seq(Messages)
  BY <1>1, InvJob
<1>3. PICK off \in Nat : k.messages = Drop(all, off)
  <2>1. CASE k = session
    BY <1>1, <1>2, <2>1, DropNone
  <2>2. CASE k # session
    <3>1. PICK off \in Nat :
              /\ k \in SessionRecords /\ Len(k.messages) + off = Len(all)
              /\ \A i \in DOMAIN k.messages : k.messages[i] = all[i + off]
      BY <1>1, <2>2, RetainedIsAPart
    <3>2. PICK r, d : r = k.messages /\ d = Drop(all, off)
      OBVIOUS
    <3>3. r \in Seq(Messages) /\ Len(r) \in Nat /\ DOMAIN r = 1..Len(r)
      <4>1. r \in Seq(Messages)
        BY <3>1, <3>2 DEF SessionRecords
      <4>2. QED
        BY <4>1, MessagesAt
    <3>4. /\ d \in Seq(Messages) /\ Len(all) \in Nat /\ Len(d) = IF off <= Len(all) THEN Len(all) - off ELSE 0
          /\ \A i \in 1..Len(d) : d[i] = all[i + off]
      BY <1>2, <3>2, MessagesDropped
    <3>5. Len(d) = Len(r)
      BY <3>1, <3>2, <3>3, <3>4
    <3>6. r = d
      <4>1. \A i \in 1..Len(r) : r[i] = d[i]
        BY <3>1, <3>2, <3>3, <3>4, <3>5
      <4>2. QED
        BY <3>3, <3>4, <3>5, <4>1, SeqEqual
    <3>7. QED
      BY <3>2, <3>6
  <2>3. QED
    BY <2>1, <2>2
<1>4. \A l \in Lanes : TurnIsLegal(turn'[l])
  <2>1. "user" \in Lanes /\ turn \in [Lanes -> TurnRecords] /\ turn' = [turn EXCEPT !["user"] = IdleTurn]
    BY DEF Retain, Lanes, TranscriptInv, TranscriptTypes
  <2>2. TurnIsLegal(IdleTurn)
    BY IdleIsLegal
  <2>3. QED
    BY <2>1, <2>2 DEF LegalInv
<1>5. QED
  BY <1>1, <1>3, <1>4, LegalPart

LEMMA ArchiveCommitsLegal ==
    ASSUME TranscriptInv, LegalInv, ArchiveCommits
    PROVE  LegalInv'
<1>1. session' = [session EXCEPT !.last = job.end] /\ turn' = turn /\ session \in SessionRecords
  BY InvJob DEF ArchiveCommits
<1>2. session'.messages = session.messages
  BY <1>1 DEF SessionRecords
<1>3. QED
  BY <1>1, <1>2 DEF LegalInv

LEMMA RestartLegal ==
    ASSUME TranscriptInv, LegalInv, Restart
    PROVE  LegalInv'
<1>1. session' = session /\ turn' = [l \in Lanes |-> IdleTurn]
  BY InvJob DEF Restart
<1>2. TurnIsLegal(IdleTurn)
  BY IdleIsLegal
<1>3. QED
  BY <1>1, <1>2 DEF LegalInv

LEMMA InitLegal ==
    ASSUME Init
    PROVE  LegalInv
<1>1. PICK k \in 0..Len(Legacy) : session = [messages |-> Drop(Legacy, k), last |-> 0]
  BY DEF Init
<1>2. PICK s, f : s = Drop(f, k) /\ f = Legacy
  OBVIOUS
<1>3. /\ f \in Seq(Messages) /\ Len(f) = 4 /\ k \in Nat
      /\ f[1].role = "user" /\ f[2].role = "assistant" /\ f[3].role = "tool" /\ f[4].role = "tool"
      /\ Len(f[2].calls) = 2 /\ f[3].answers = f[2].calls[1] /\ f[4].answers = f[2].calls[2]
      /\ \A i \in 1..4 : SaysSomething(f[i])
  BY <1>2, LegacyIsSound DEF SaysSomething
<1>4. \A i \in 1..4 : i = 1 \/ i = 2 \/ i = 3 \/ i = 4
  OBVIOUS
<1>5. Paired(f)
  <2>1. ASSUME NEW i \in 1..4, f[i].role = "assistant", NEW x \in 1..Len(f[i].calls)
        PROVE  i + x <= 4 /\ f[i + x].role = "tool" /\ f[i + x].answers = f[i].calls[x]
    <3>1. i = 2
      BY <1>3, <1>4, <2>1
    <3>2. x = 1 \/ x = 2
      <4>1. Len(f[i].calls) = 2
        BY <1>3, <3>1
      <4>2. x \in 1..2
        BY <4>1
      <4>3. QED
        BY <4>2
    <3>3. CASE x = 1
      <4>1. i + x = 3
        BY <3>1, <3>3
      <4>2. QED
        BY <1>3, <3>1, <3>3, <4>1
    <3>4. CASE x = 2
      <4>1. i + x = 4
        BY <3>1, <3>4
      <4>2. QED
        BY <1>3, <3>1, <3>4, <4>1
    <3>5. QED
      BY <3>2, <3>3, <3>4
  <2>2. ASSUME NEW i \in 1..4, f[i].role = "tool"
        PROVE  IsAnswered(f, i)
    <3>1. i = 3 \/ i = 4
      BY <1>3, <1>4, <2>2
    <3>2. 2 \in 1..(i - 1) /\ i <= 2 + Len(f[2].calls)
      <4>1. 2 \in 1..(i - 1) /\ i <= 2 + 2
        BY <3>1
      <4>2. QED
        BY <1>3, <4>1
    <3>3. QED
      BY <1>3, <3>2 DEF IsAnswered
  <2>3. QED
    BY <1>3, <2>1, <2>2 DEF Paired, PairedUpto
<1>6. Paired(s)
  BY <1>2, <1>3, <1>5, PairedDropped
<1>7. \A i \in 1..Len(s) : SaysSomething(s[i])
  <2>1. \A i \in 1..Len(s) : i + k \in 1..Len(f) /\ s[i] = f[i + k]
    BY <1>2, <1>3, MessagesDropped
  <2>2. QED
    BY <1>3, <2>1
<1>8. session.messages = s /\ turn = [l \in Lanes |-> IdleTurn]
  BY <1>1, <1>2 DEF Init
<1>9. TurnIsLegal(IdleTurn)
  BY IdleIsLegal
<1>10. QED
  BY <1>6, <1>7, <1>8, <1>9 DEF LegalInv

LEMMA LegalStep ==
    ASSUME TranscriptInv, LegalInv, [Next]_vars
    PROVE  LegalInv'
<1>1. ASSUME NEW l \in Lanes, Turn(l)
      PROVE  LegalInv'
  <2>1. MessageArrives(l) => LegalInv'
    BY BeginsLegal DEF MessageArrives
  <2>2. ArchiveBegins(l) => LegalInv'
    BY DEF ArchiveBegins, Archives, LegalInv
  <2>3. QED
    BY <1>1, <2>1, <2>2, BuildRequestLegal, ModelCallsLegal, ToolsReturnLegal, ModelAnswersLegal, ModelErrsLegal,
       TurnBreaksOffLegal, SaveTurnLegal DEF Turn
<1>2. ASSUME ArchiveCommits \/ BeatRuns \/ Retain \/ Restart
      PROVE  LegalInv'
  <2>1. BeatRuns => LegalInv'
    BY BeginsLegal DEF BeatRuns, Lanes
  <2>2. QED
    BY <1>2, <2>1, ArchiveCommitsLegal, RetainLegal, RestartLegal
<1>3. ASSUME BackgroundBegins \/ BackgroundReturns \/ ArchiveFails \/ Tick \/ DecideSkips \/ BeatEnds \/ UNCHANGED vars
      PROVE  LegalInv'
  <2>1. UNCHANGED <<session, turn>>
    BY <1>3 DEF BackgroundBegins, Archives, BackgroundReturns, ArchiveFails, Tick, DecideSkips, BeatEnds, vars
  <2>2. QED
    BY <2>1 DEF LegalInv
<1>4. QED
  BY <1>1, <1>2, <1>3 DEF Next

-----------------------------------------------------------------------------
(* What the providers make of it: roles, calls and results stay. *)

LegalRequest(s) ==
    /\ s \in Seq(Messages) /\ Len(s) # 0 /\ s[1].role # "tool" /\ Paired(s)
    /\ \A i \in 1..Len(s) : SaysSomething(s[i])

LEMMA AskedIsLegal ==
    ASSUME TranscriptInv, LegalInv, NEW l \in Asking
    PROVE  LegalRequest(turn[l].msgs)
<1>1. l \in Lanes /\ turn[l].pc = "model"
  BY DEF Asking
<1>2. turn[l].msgs \in Seq(Messages) /\ turn[l].skip \in Nat
  BY <1>1, InvTurn DEF TurnRecords
<1>3. TurnIsLegal(turn[l])
  BY <1>1 DEF LegalInv
<1>4. PICK s, k : s = turn[l].msgs /\ k = turn[l].skip
  OBVIOUS
<1>5. k < Len(s) /\ s[1].role # "tool" /\ Paired(s) /\ \A i \in 1..Len(s) : SaysSomething(s[i])
  BY <1>1, <1>3, <1>4 DEF TurnIsLegal, Paired
<1>6. s \in Seq(Messages) /\ k \in Nat /\ Len(s) \in Nat
  BY <1>2, <1>4, MessagesAt
<1>7. Len(s) # 0
  BY <1>5, <1>6
<1>8. QED
  BY <1>4, <1>5, <1>6, <1>7 DEF LegalRequest

LEMMA RewordedIsLegal ==
    ASSUME NEW s, LegalRequest(s), NEW r, r \in [1..Len(s) -> Messages],
           \A i \in 1..Len(s) : /\ r[i].role = s[i].role /\ r[i].calls = s[i].calls /\ r[i].answers = s[i].answers
                                /\ SaysSomething(r[i])
    PROVE  LegalRequest(r) /\ Len(r) = Len(s)
<1>1. PICK n \in Nat : n = Len(s) /\ n # 0
  BY MessagesAt DEF LegalRequest
<1>2. r \in Seq(Messages) /\ Len(r) = n
  BY <1>1, FunctionIsSeq
<1>3. PairedUpto(s, n) /\ s[1].role # "tool" /\ 1 \in 1..n
  BY <1>1 DEF LegalRequest, Paired
<1>4. ASSUME NEW i \in 1..n, r[i].role = "assistant", NEW k \in 1..Len(r[i].calls)
      PROVE  i + k <= n /\ r[i + k].role = "tool" /\ r[i + k].answers = r[i].calls[k]
  <2>1. k \in 1..Len(s[i].calls) /\ s[i].role = "assistant" /\ r[i].calls = s[i].calls
    BY <1>1, <1>4
  <2>2. i + k <= n /\ s[i + k].role = "tool" /\ s[i + k].answers = s[i].calls[k]
    BY <1>3, <2>1 DEF PairedUpto
  <2>3. PICK j \in 1..n : j = i + k
    BY <2>2
  <2>4. QED
    BY <1>1, <2>1, <2>2, <2>3
<1>5. ASSUME NEW i \in 1..n, r[i].role = "tool"
      PROVE  IsAnswered(r, i)
  <2>1. s[i].role = "tool" /\ 1 \in 1..i
    BY <1>1, <1>5
  <2>2. IsAnswered(s, i)
    BY <1>3, <2>1 DEF PairedUpto
  <2>3. PICK c \in 1..(i - 1) : s[c].role = "assistant" /\ i <= c + Len(s[c].calls)
    BY <2>2 DEF IsAnswered
  <2>4. c \in 1..n
    OBVIOUS
  <2>5. r[c].role = "assistant" /\ r[c].calls = s[c].calls
    BY <1>1, <2>3, <2>4
  <2>6. QED
    BY <2>3, <2>5 DEF IsAnswered
<1>6. Paired(r)
  BY <1>2, <1>4, <1>5 DEF Paired, PairedUpto
<1>7. r[1].role # "tool" /\ \A i \in 1..n : SaysSomething(r[i])
  BY <1>1, <1>3
<1>8. QED
  BY <1>1, <1>2, <1>6, <1>7 DEF LegalRequest

LEMMA StrippedIsLegal ==
    ASSUME NEW t, LegalRequest(t.msgs)
    PROVE  LegalRequest(Stripped(t))
<1>1. PICK s, r : s = t.msgs /\ r = Stripped(t)
  OBVIOUS
<1>2. LegalRequest(s)
  BY <1>1
<1>3. DOMAIN s = 1..Len(s) /\ (\A i \in 1..Len(s) : s[i] \in Messages) /\ \A i \in 1..Len(s) : SaysSomething(s[i])
  BY <1>2, MessagesAt DEF LegalRequest
<1>4. CASE t.stripped
  <2>1. r = [i \in 1..Len(s) |-> [s[i] EXCEPT !.content = IF @ = "image" THEN "text" ELSE @]]
    BY <1>1, <1>3, <1>4 DEF Stripped
  <2>2. ASSUME NEW i \in 1..Len(s)
        PROVE  /\ r[i] \in Messages /\ r[i].role = s[i].role /\ r[i].calls = s[i].calls /\ r[i].answers = s[i].answers
               /\ SaysSomething(r[i])
    <3>1. PICK m, g : m = s[i] /\ g = r[i]
      OBVIOUS
    <3>2. g = [m EXCEPT !.content = IF @ = "image" THEN "text" ELSE @] /\ m \in Messages
      BY <1>3, <2>1, <3>1
    <3>3. /\ g \in Messages /\ g.role = m.role /\ g.calls = m.calls /\ g.answers = m.answers
          /\ g.content = IF m.content = "image" THEN "text" ELSE m.content
      BY <3>2 DEF Messages
    <3>4. SaysSomething(m)
      BY <1>3, <3>1
    <3>5. SaysSomething(g)
      BY <3>3, <3>4 DEF SaysSomething
    <3>6. QED
      BY <3>1, <3>3, <3>5
  <2>3. r \in [1..Len(s) -> Messages]
    BY <2>1, <2>2
  <2>4. LegalRequest(r)
    BY <1>2, <2>2, <2>3, RewordedIsLegal
  <2>5. QED
    BY <1>1, <2>4
<1>5. CASE ~ t.stripped
  BY <1>1, <1>2, <1>5 DEF Stripped
<1>6. QED
  BY <1>4, <1>5

LEMMA SanitizedIsLegal ==
    ASSUME NEW s, LegalRequest(s)
    PROVE  LegalRequest(Sanitized(s))
<1>1. PICK r : r = Sanitized(s)
  OBVIOUS
<1>2. DOMAIN s = 1..Len(s) /\ (\A i \in 1..Len(s) : s[i] \in Messages) /\ \A i \in 1..Len(s) : SaysSomething(s[i])
  BY MessagesAt DEF LegalRequest
<1>3. r = [i \in 1..Len(s) |-> [s[i] EXCEPT !.content =
              IF @ # "empty" THEN @ ELSE IF s[i].calls # <<>> THEN "none" ELSE "text"]]
  BY <1>1, <1>2 DEF Sanitized
<1>4. ASSUME NEW i \in 1..Len(s)
      PROVE  /\ r[i] \in Messages /\ r[i].role = s[i].role /\ r[i].calls = s[i].calls /\ r[i].answers = s[i].answers
             /\ SaysSomething(r[i])
  <2>1. PICK m, g : m = s[i] /\ g = r[i]
    OBVIOUS
  <2>2. g = [m EXCEPT !.content = IF @ # "empty" THEN @ ELSE IF m.calls # <<>> THEN "none" ELSE "text"] /\ m \in Messages
    BY <1>2, <1>3, <2>1
  <2>3. /\ g \in Messages /\ g.role = m.role /\ g.calls = m.calls /\ g.answers = m.answers
        /\ g.content = IF m.content # "empty" THEN m.content ELSE IF m.calls # <<>> THEN "none" ELSE "text"
    BY <2>2 DEF Messages
  <2>4. SaysSomething(m)
    BY <1>2, <2>1
  <2>5. SaysSomething(g)
    BY <2>3, <2>4 DEF SaysSomething
  <2>6. QED
    BY <2>1, <2>3, <2>5
<1>5. r \in [1..Len(s) -> Messages]
  BY <1>3, <1>4
<1>6. LegalRequest(r)
  BY <1>4, <1>5, RewordedIsLegal
<1>7. QED
  BY <1>1, <1>6

\* The result at i is that of a call of the message at c, and nothing but results is in between.
ResultOfCall(s, i, c) ==
    /\ s[c].role = "assistant" /\ i - c \in 1..Len(s[c].calls) /\ s[i].answers = s[c].calls[i - c]
    /\ \A k \in (c + 1)..i : s[k].role = "tool"

LEMMA ResultOf ==
    ASSUME NEW s, LegalRequest(s), NEW i \in 1..Len(s), s[i].role = "tool"
    PROVE  \E c \in 1..(i - 1) : ResultOfCall(s, i, c)
<1>1. PICK n \in Nat : n = Len(s) /\ s \in Seq(Messages) /\ PairedUpto(s, n) /\ s[1].role # "tool" /\ i \in 1..n
  BY MessagesAt DEF LegalRequest, Paired
<1>2. 1 \in 1..i
  BY <1>1
<1>3. IsAnswered(s, i)
  BY <1>1, <1>2 DEF PairedUpto
<1>4. PICK c \in 1..(i - 1) : s[c].role = "assistant" /\ i <= c + Len(s[c].calls)
  BY <1>3 DEF IsAnswered
<1>5. c \in 1..n /\ c < i /\ n <= Len(s)
  BY <1>1
<1>6. i - c \in 1..Len(s[c].calls) /\ s[i].answers = s[c].calls[i - c]
  BY <1>1, <1>4, <1>5, NoneBetween
<1>7. Len(s[c].calls) \in Nat
  <2>1. s[c] \in Messages
    BY <1>1, <1>5, MessagesAt
  <2>2. QED
    BY <2>1, CallsOf
<1>8. ASSUME NEW k \in (c + 1)..i
      PROVE  s[k].role = "tool"
  <2>1. k \in 1..n /\ c < k /\ k <= c + Len(s[c].calls)
    BY <1>1, <1>4, <1>5, <1>7
  <2>2. QED
    BY <1>1, <1>4, <1>5, <2>1, NoneBetween
<1>9. QED
  BY <1>4, <1>6, <1>8 DEF ResultOfCall

\* The message at i calls len tools, and their results follow it, and no others.
ResultsOfCalls(s, i, len) ==
    /\ len = Len(s[i].calls) /\ len \in Nat /\ i + len <= Len(s)
    /\ \A k \in 1..len : s[i + k].role = "tool" /\ s[i + k].answers = s[i].calls[k]
    /\ i + len < Len(s) => s[i + len + 1].role # "tool"

LEMMA ResultsFollow ==
    ASSUME NEW s, LegalRequest(s), NEW i \in 1..Len(s), s[i].role = "assistant"
    PROVE  ResultsOfCalls(s, i, Len(s[i].calls))
<1>1. PICK len : len = Len(s[i].calls)
  OBVIOUS
<1>2. PICK n \in Nat : n = Len(s) /\ s \in Seq(Messages) /\ PairedUpto(s, n) /\ i \in 1..n
  BY MessagesAt DEF LegalRequest, Paired
<1>3. s[i] \in Messages
  BY <1>2, MessagesAt
<1>4. len \in Nat
  BY <1>1, <1>3, CallsOf
<1>5. \A k \in 1..len : i + k <= n /\ s[i + k].role = "tool" /\ s[i + k].answers = s[i].calls[k]
  BY <1>1, <1>2 DEF PairedUpto
<1>6. i + len <= n
  <2>1. len # 0 => len \in 1..len
    BY <1>4
  <2>2. QED
    BY <1>2, <1>4, <1>5, <2>1
<1>7. ASSUME i + len < n, NEW p, p = i + len + 1, s[p].role = "tool"
      PROVE  FALSE
  <2>1. p \in 1..n /\ i < p /\ p \in 1..Len(s)
    BY <1>2, <1>4, <1>7
  <2>2. PICK c \in 1..(p - 1) : /\ s[c].role = "assistant" /\ p - c \in 1..Len(s[c].calls)
                                /\ \A k \in (c + 1)..p : s[k].role = "tool"
    <3>1. PICK q \in 1..Len(s) : q = p
      BY <2>1
    <3>2. s[q].role = "tool"
      BY <1>7, <3>1
    <3>3. \E c \in 1..(q - 1) : ResultOfCall(s, q, c)
      BY <3>2, ResultOf
    <3>4. QED
      BY <3>1, <3>3 DEF ResultOfCall
  <2>3. ~ (c < i)
    <3>1. c < i => i \in (c + 1)..p
      BY <2>1, <2>2
    <3>2. QED
      BY <2>2, <3>1
  <2>4. c # i
    <3>1. c = i => p - i \in 1..len
      BY <1>1, <2>2
    <3>2. ~ (p - i \in 1..len)
      BY <1>4, <1>7
    <3>3. QED
      BY <3>1, <3>2
  <2>5. c > i /\ c - i \in 1..len /\ i + (c - i) = c
    BY <1>4, <1>7, <2>3, <2>4
  <2>6. s[c].role = "tool"
    BY <1>5, <2>5
  <2>7. QED
    BY <2>2, <2>6
<1>8. QED
  BY <1>1, <1>2, <1>4, <1>5, <1>6, <1>7 DEF ResultsOfCalls

LEMMA OpenAIHolds ==
    ASSUME NEW w, LegalRequest(w)
    PROVE  OpenAITakes(w)
<1>1. PICK n \in Nat : n = Len(w) /\ DOMAIN w = 1..n /\ \A i \in 1..n : w[i] \in Messages
  BY MessagesAt DEF LegalRequest
<1>2. ASSUME NEW i \in 1..n, w[i].role = "tool"
      PROVE  \E c \in 1..(i - 1) : i \in ResultsOf(w, c) /\ w[i].answers \in Range(w[c].calls)
  <2>1. PICK c \in 1..(i - 1) : /\ w[c].role = "assistant" /\ i - c \in 1..Len(w[c].calls)
                                /\ w[i].answers = w[c].calls[i - c]
                                /\ \A k \in (c + 1)..i : w[k].role = "tool"
    <3>1. \E c \in 1..(i - 1) : ResultOfCall(w, i, c)
      BY <1>1, <1>2, ResultOf
    <3>2. QED
      BY <3>1 DEF ResultOfCall
  <2>2. c \in 1..n /\ i > c
    BY <1>1
  <2>3. i \in ResultsOf(w, c)
    BY <1>1, <2>1, <2>2 DEF ResultsOf
  <2>4. w[c] \in Messages
    BY <1>1, <2>2
  <2>5. w[i].answers \in Range(w[c].calls)
    BY <2>1, <2>4, CallsOf DEF Range
  <2>6. QED
    BY <2>3, <2>5
<1>3. ASSUME NEW i \in 1..n, w[i].role = "assistant"
      PROVE  /\ Cardinality(ResultsOf(w, i)) = Len(w[i].calls)
             /\ \A id \in Range(w[i].calls) : \E j \in ResultsOf(w, i) : w[j].answers = id
  <2>1. PICK len : len = Len(w[i].calls)
    OBVIOUS
  <2>2. /\ len \in Nat /\ i + len <= n
        /\ \A k \in 1..len : w[i + k].role = "tool" /\ w[i + k].answers = w[i].calls[k]
        /\ i + len < n => w[i + len + 1].role # "tool"
    <3>1. ResultsOfCalls(w, i, len)
      BY <1>1, <1>3, <2>1, ResultsFollow
    <3>2. QED
      BY <1>1, <3>1 DEF ResultsOfCalls
  <2>3. ASSUME NEW j, j \in (i + 1)..(i + len)
        PROVE  j \in ResultsOf(w, i) /\ j - i \in 1..len /\ w[j].answers = w[i].calls[j - i]
    <3>1. \A k \in (i + 1)..j : k - i \in 1..len /\ i + (k - i) = k
      BY <2>2, <2>3
    <3>2. \A k \in (i + 1)..j : w[k].role = "tool"
      BY <2>2, <3>1
    <3>3. j \in 1..n /\ j > i /\ j - i \in 1..len /\ i + (j - i) = j
      BY <2>2, <2>3
    <3>4. QED
      BY <1>1, <2>2, <3>2, <3>3 DEF ResultsOf
  <2>4. ASSUME NEW j, j \in ResultsOf(w, i)
        PROVE  j \in (i + 1)..(i + len)
    <3>1. j \in 1..n /\ j > i /\ \A k \in (i + 1)..j : w[k].role = "tool"
      BY <1>1, <2>4 DEF ResultsOf
    <3>2. j > i + len => i + len < n /\ i + len + 1 \in (i + 1)..j
      BY <2>2, <3>1
    <3>3. ~ (j > i + len)
      BY <2>2, <3>1, <3>2
    <3>4. QED
      BY <2>2, <3>1, <3>3
  <2>5. ResultsOf(w, i) = (i + 1)..(i + len)
    BY <2>3, <2>4
  <2>6. Cardinality(ResultsOf(w, i)) = len
    <3>1. PICK a \in Int, b \in Int : a = i + 1 /\ b = i + len
      BY <2>2
    <3>2. Cardinality(a..b) = IF a > b THEN 0 ELSE b - a + 1
      BY FS_Interval
    <3>3. (IF a > b THEN 0 ELSE b - a + 1) = len
      BY <2>2, <3>1
    <3>4. QED
      BY <2>5, <3>1, <3>2, <3>3
  <2>7. ASSUME NEW id \in Range(w[i].calls)
        PROVE  \E j \in ResultsOf(w, i) : w[j].answers = id
    <3>1. w[i] \in Messages
      BY <1>1
    <3>2. PICK k \in 1..len : id = w[i].calls[k]
      BY <2>1, <3>1, CallsOf DEF Range
    <3>3. i + k \in (i + 1)..(i + len)
      BY <2>2
    <3>4. QED
      BY <2>2, <2>5, <3>2, <3>3
  <2>8. QED
    BY <2>1, <2>6, <2>7
<1>4. \A i \in 1..n : w[i].content \in {"none", "empty"} => w[i].calls # <<>>
  BY <1>1 DEF LegalRequest, SaysSomething
<1>5. QED
  BY <1>1, <1>2, <1>3, <1>4 DEF OpenAITakes

-----------------------------------------------------------------------------
(* Functions that walk along a transcript. *)

Recurses(g, S, a, n, step) == g \in [0..n -> S] /\ g[0] = a /\ \A i \in 1..n : g[i] = step[i][g[i - 1]]

LEMMA Recursive ==
    ASSUME NEW S, NEW a, NEW n, NEW step, a \in S /\ n \in Nat /\ step \in [1..n -> [S -> S]]
    PROVE  \E g : Recurses(g, S, a, n, step)
<1>1. \E g \in [0..n -> S] : g[0] = a /\ \A i \in 1..n : g[i] = step[i][g[i - 1]]
  BY Recursion
<1>2. QED
  BY <1>1 DEF Recurses

-----------------------------------------------------------------------------
(* Blocks of a message on the wire. *)

BlockTypes == {"message", "call", "output", "text", "image", "tool_use", "tool_result", "no text"}
Blocks == [type : BlockTypes, id : CallIds \cup {<<>>}]

LEMMA ABlock ==
    ASSUME NEW type \in BlockTypes, NEW id \in CallIds \cup {<<>>}
    PROVE  Block(type, id) \in Blocks /\ Block(type, id).type = type /\ Block(type, id).id = id
BY DEF Block, Blocks

LEMMA BlocksAt ==
    ASSUME NEW s \in Seq(Blocks)
    PROVE  Len(s) \in Nat /\ DOMAIN s = 1..Len(s) /\ \A i \in 1..Len(s) : s[i] \in Blocks
BY Positions

\* r is s and after it t.
Joins(r, s, t) ==
    /\ Len(s) \in Nat /\ Len(t) \in Nat /\ Len(r) \in Nat /\ Len(r) = Len(s) + Len(t)
    /\ \A i \in 1..Len(s) : i \in 1..Len(r) /\ r[i] = s[i]
    /\ \A i \in 1..Len(t) : Len(s) + i \in 1..Len(r) /\ r[Len(s) + i] = t[i]
    /\ \A i \in 1..Len(r) : i \in 1..Len(s) \/ \E k \in 1..Len(t) : i = Len(s) + k

LEMMA BlocksJoined ==
    ASSUME NEW s \in Seq(Blocks), NEW t \in Seq(Blocks)
    PROVE  s \o t \in Seq(Blocks) /\ Joins(s \o t, s, t)
<1> DEFINE r == s \o t
<1>1. Len(s) \in Nat /\ Len(t) \in Nat
  BY BlocksAt
<1>2. /\ r \in Seq(Blocks) /\ Len(r) = Len(s) + Len(t)
      /\ \A i \in 1..(Len(s) + Len(t)) : r[i] = IF i <= Len(s) THEN s[i] ELSE t[i - Len(s)]
  BY ConcatProperties
<1>3. \A i \in 1..Len(s) : i \in 1..Len(r) /\ r[i] = s[i]
  BY <1>1, <1>2
<1>4. ASSUME NEW i \in 1..Len(t)
      PROVE  Len(s) + i \in 1..Len(r) /\ r[Len(s) + i] = t[i]
  <2>1. PICK p \in 1..(Len(s) + Len(t)) : p = Len(s) + i /\ ~ (p <= Len(s)) /\ p - Len(s) = i
    BY <1>1
  <2>2. QED
    BY <1>2, <2>1
<1>5. ASSUME NEW i \in 1..Len(r)
      PROVE  i \in 1..Len(s) \/ \E k \in 1..Len(t) : i = Len(s) + k
  <2>1. i \in 1..Len(s) \/ (i - Len(s) \in 1..Len(t) /\ i = Len(s) + (i - Len(s)))
    BY <1>1, <1>2
  <2>2. QED
    BY <2>1
<1>6. QED
  BY <1>1, <1>2, <1>3, <1>4, <1>5 DEF Joins

\* One block for every call.
LEMMA BlocksOfCalls ==
    ASSUME NEW m \in Messages, NEW type \in BlockTypes, NEW s, s = [i \in DOMAIN m.calls |-> Block(type, m.calls[i])]
    PROVE  /\ s \in Seq(Blocks) /\ Len(s) = Len(m.calls) /\ Len(s) \in Nat
           /\ \A i \in 1..Len(m.calls) : s[i] = Block(type, m.calls[i]) /\ m.calls[i] \in CallIds
<1>1. PICK n \in Nat : n = Len(m.calls) /\ DOMAIN m.calls = 1..n /\ \A i \in 1..n : m.calls[i] \in CallIds
  BY CallsOf
<1>2. \A i \in 1..n : s[i] = Block(type, m.calls[i]) /\ s[i] \in Blocks
  BY <1>1, ABlock
<1>3. s \in [1..n -> Blocks]
  BY <1>1, <1>2
<1>4. s \in Seq(Blocks) /\ Len(s) = n
  BY <1>3, FunctionIsSeq
<1>5. QED
  BY <1>1, <1>2, <1>4

-----------------------------------------------------------------------------
(* Codex. *)

\* The outputs and calls among the items s are those of the message m.
ItemsAre(s, m) ==
    /\ m.role = "tool" => Len(s) = 1 /\ s[1] = Block("output", m.answers)
    /\ \A x \in 1..Len(s) : s[x].type = "output" => m.role = "tool" /\ s[x].id = m.answers
    /\ \A x \in 1..Len(s) : s[x].type = "call" =>
          m.role = "assistant" /\ \E k \in 1..Len(m.calls) : s[x].id = m.calls[k]
    /\ m.role = "assistant" => \A k \in 1..Len(m.calls) : \E x \in 1..Len(s) : s[x] = Block("call", m.calls[k])

LEMMA ItemsOf ==
    ASSUME NEW m \in Messages
    PROVE  CodexItems(m) \in Seq(Blocks) /\ ItemsAre(CodexItems(m), m)
<1>1. PICK s : s = CodexItems(m)
  OBVIOUS
<1>2. PICK text, calls : /\ text = IF m.content \in {"none", "empty"} THEN <<>> ELSE <<Block("message", <<>>)>>
                         /\ calls = [i \in DOMAIN m.calls |-> Block("call", m.calls[i])]
  OBVIOUS
<1>3. /\ m.role \in {"tool", "user", "assistant"} /\ m.answers \in CallIds \cup {<<>>}
      /\ "call" \in BlockTypes /\ "message" \in BlockTypes /\ "output" \in BlockTypes
  BY DEF Messages, BlockTypes
<1>4. CASE m.role = "tool"
  <2>1. PICK b : b = Block("output", m.answers) /\ b \in Blocks /\ b.type = "output" /\ b.id = m.answers
    BY <1>3, ABlock
  <2>2. s = <<b>>
    BY <1>1, <1>4, <2>1 DEF CodexItems
  <2>3. s \in Seq(Blocks) /\ Len(s) = 1 /\ s[1] = b /\ \A x \in 1..1 : x = 1
    BY <2>1, <2>2
  <2>4. QED
    BY <1>1, <1>4, <2>1, <2>3 DEF ItemsAre
<1>5. PICK b : b = Block("message", <<>>) /\ b \in Blocks /\ b.type = "message"
  BY <1>3, ABlock
<1>6. CASE m.role = "user"
  <2>1. s = <<b>>
    BY <1>1, <1>5, <1>6 DEF CodexItems
  <2>2. s \in Seq(Blocks) /\ Len(s) = 1 /\ s[1] = b /\ \A x \in 1..1 : x = 1
    BY <1>5, <2>1
  <2>3. QED
    BY <1>1, <1>5, <1>6, <2>2 DEF ItemsAre
<1>7. CASE m.role = "assistant"
  <2>1. s = text \o calls
    BY <1>1, <1>2, <1>7 DEF CodexItems
  <2>2. /\ calls \in Seq(Blocks) /\ Len(calls) = Len(m.calls) /\ Len(calls) \in Nat
        /\ \A i \in 1..Len(m.calls) : calls[i] = Block("call", m.calls[i]) /\ m.calls[i] \in CallIds
    BY <1>2, <1>3, BlocksOfCalls
  <2>3. text \in Seq(Blocks) /\ \A x \in 1..Len(text) : text[x].type = "message"
    <3>1. CASE m.content \in {"none", "empty"}
      BY <1>2, <3>1
    <3>2. CASE m.content \notin {"none", "empty"}
      <4>1. text = <<b>>
        BY <1>2, <1>5, <3>2
      <4>2. text \in Seq(Blocks) /\ Len(text) = 1 /\ text[1] = b /\ \A x \in 1..1 : x = 1
        BY <1>5, <4>1
      <4>3. QED
        BY <1>5, <4>2
    <3>3. QED
      BY <3>1, <3>2
  <2>4. /\ s \in Seq(Blocks) /\ Len(text) \in Nat /\ Len(s) = Len(text) + Len(calls)
        /\ \A i \in 1..Len(text) : i \in 1..Len(s) /\ s[i] = text[i]
        /\ \A i \in 1..Len(calls) : Len(text) + i \in 1..Len(s) /\ s[Len(text) + i] = calls[i]
        /\ \A i \in 1..Len(s) : i \in 1..Len(text) \/ \E k \in 1..Len(calls) : i = Len(text) + k
    <3>1. s \in Seq(Blocks) /\ Joins(s, text, calls)
      BY <2>1, <2>2, <2>3, BlocksJoined
    <3>2. QED
      BY <3>1 DEF Joins
  <2>5. \A k \in 1..Len(m.calls) : Block("call", m.calls[k]).type = "call" /\ Block("call", m.calls[k]).id = m.calls[k]
    BY <1>3, <2>2, ABlock
  <2>6. ASSUME NEW x \in 1..Len(s), s[x].type # "message"
        PROVE  \E k \in 1..Len(m.calls) : s[x].type = "call" /\ s[x].id = m.calls[k]
    <3>1. x \notin 1..Len(text)
      BY <2>3, <2>4, <2>6
    <3>2. PICK k \in 1..Len(calls) : x = Len(text) + k
      BY <2>4, <3>1
    <3>3. s[x] = calls[k] /\ k \in 1..Len(m.calls)
      BY <2>2, <2>4, <3>2
    <3>4. QED
      BY <2>2, <2>5, <3>3
  <2>7. \A k \in 1..Len(m.calls) : \E x \in 1..Len(s) : s[x] = Block("call", m.calls[k])
    BY <2>2, <2>4
  <2>8. QED
    BY <1>1, <1>7, <2>4, <2>6, <2>7 DEF ItemsAre
<1>8. QED
  BY <1>3, <1>4, <1>6, <1>7

\* The function of CodexWire.
ItemsJoined(walk, ms) ==
    /\ walk \in [0..Len(ms) -> Seq(Blocks)] /\ walk[0] = <<>>
    /\ \A i \in 1..Len(ms) : walk[i] = walk[i - 1] \o CodexItems(ms[i])

LEMMA CodexWalk ==
    ASSUME NEW t, NEW ms \in Seq(Messages), ms = Stripped(t)
    PROVE  \E walk : CodexWire(t) = walk[Len(ms)] /\ ItemsJoined(walk, ms)
<1> DEFINE S == Seq(Blocks)
           After(a, i) == a \o CodexItems(ms[i])
           Body(f) == [i \in 0..Len(ms) |-> IF i = 0 THEN <<>> ELSE After(f[i - 1], i)]
<1>1. Len(ms) \in Nat /\ \A i \in 1..Len(ms) : ms[i] \in Messages
  BY MessagesAt
<1>2. ASSUME NEW i \in 1..Len(ms), NEW a \in S
      PROVE  After(a, i) \in S
  <2>1. CodexItems(ms[i]) \in Seq(Blocks)
    BY <1>1, ItemsOf
  <2>2. QED
    BY <2>1, BlocksJoined
<1>3. PICK step : step = [i \in 1..Len(ms) |-> [a \in S |-> After(a, i)]]
  OBVIOUS
<1>4. step \in [1..Len(ms) -> [S -> S]]
  <2> HIDE DEF S, After
  <2>1. QED
    BY <1>2, <1>3
<1>5. <<>> \in S
  OBVIOUS
<1>6. PICK g \in [0..Len(ms) -> S] : g[0] = <<>> /\ \A i \in 1..Len(ms) : g[i] = step[i][g[i - 1]]
  <2> HIDE DEF S, After, Body
  <2>1. \E g : Recurses(g, S, <<>>, Len(ms), step)
    BY <1>1, <1>4, <1>5, Recursive
  <2>2. QED
    BY <2>1 DEF Recurses
<1>7. ASSUME NEW i \in 1..Len(ms)
      PROVE  g[i] = After(g[i - 1], i)
  <2> HIDE DEF S, After
  <2>1. i - 1 \in 0..Len(ms)
    BY <1>1
  <2>2. g[i - 1] \in S
    BY <1>6, <2>1
  <2>3. QED
    BY <1>3, <1>6, <2>2
<1>8. g = Body(g)
  <2> HIDE DEF S, After
  <2>1. \A i \in 0..Len(ms) : i = 0 \/ i \in 1..Len(ms)
    BY <1>1
  <2>2. \A i \in 0..Len(ms) : g[i] = IF i = 0 THEN <<>> ELSE After(g[i - 1], i)
    BY <1>6, <1>7, <2>1
  <2>3. QED
    BY <1>6, <2>2
<1>9. PICK walk : walk = CHOOSE f : f = Body(f)
  OBVIOUS
<1>10. walk = Body(walk)
  <2> HIDE DEF Body
  <2>1. QED
    BY <1>8, <1>9
<1>11. CodexWire(t) = walk[Len(ms)]
  BY <1>9 DEF CodexWire
<1>12. walk[0] = <<>> /\ \A i \in 1..Len(ms) : walk[i] = After(walk[i - 1], i)
  <2> HIDE DEF S, After
  <2>1. 0 \in 0..Len(ms) /\ \A i \in 1..Len(ms) : i \in 0..Len(ms) /\ i # 0
    BY <1>1
  <2>2. \A i \in 0..Len(ms) : walk[i] = IF i = 0 THEN <<>> ELSE After(walk[i - 1], i)
    BY <1>10
  <2>3. QED
    BY <2>1, <2>2
<1>13. walk \in [0..Len(ms) -> S]
  <2> DEFINE T == {i \in Nat : i <= Len(ms) => walk[i] \in S}
  <2>1. 0 \in T
    BY <1>5, <1>12
  <2>2. ASSUME NEW i \in Nat, i \in T
        PROVE  i + 1 \in T
    <3>1. SUFFICES ASSUME i + 1 <= Len(ms)
                   PROVE  walk[i + 1] \in S
      OBVIOUS
    <3>2. i + 1 \in 1..Len(ms) /\ (i + 1) - 1 = i /\ i <= Len(ms)
      BY <1>1, <3>1
    <3> HIDE DEF S, After
    <3>3. walk[i] \in S /\ walk[i + 1] = After(walk[i], i + 1)
      BY <1>12, <2>2, <3>2
    <3>4. QED
      BY <1>2, <3>2, <3>3
  <2>3. Nat \subseteq T
    <3> HIDE DEF T
    <3>1. QED
      BY <2>1, <2>2, Induct
  <2>4. \A i \in 0..Len(ms) : walk[i] \in S
    BY <1>1, <2>3
  <2>5. QED
    <3> HIDE DEF S, After
    <3>1. QED
      BY <1>10, <2>4
<1>14. QED
  BY <1>11, <1>12, <1>13 DEF ItemsJoined

\* Where the parts of a transcript are that was put together one by one.
LEMMA PartsAt ==
    ASSUME NEW n \in Nat, NEW piece, NEW walk \in [0..n -> Seq(Blocks)], walk[0] = <<>>,
           \A i \in 1..n : piece[i] \in Seq(Blocks) /\ walk[i] = walk[i - 1] \o piece[i]
    PROVE  /\ \A i \in 0..n : Len(walk[i]) \in Nat
           /\ \A i \in 1..n : Len(walk[i]) = Len(walk[i - 1]) + Len(piece[i]) /\ Len(piece[i]) \in Nat
           /\ \A i, j \in 0..n : i <= j => Len(walk[i]) <= Len(walk[j])
           /\ \A i \in 1..n : \A x \in 1..Len(piece[i]) :
                 Len(walk[i - 1]) + x \in 1..Len(walk[n]) /\ walk[n][Len(walk[i - 1]) + x] = piece[i][x]
           /\ \A p \in 1..Len(walk[n]) : \E i \in 1..n : \E x \in 1..Len(piece[i]) : p = Len(walk[i - 1]) + x
<1>1. \A i \in 0..n : walk[i] \in Seq(Blocks) /\ Len(walk[i]) \in Nat
  BY BlocksAt
<1>2. \A i \in 1..n : i - 1 \in 0..n /\ i \in 0..n
  OBVIOUS
<1>3. \A i \in 1..n : Joins(walk[i], walk[i - 1], piece[i])
  BY <1>1, <1>2, BlocksJoined
<1> DEFINE Upto(k) ==
             /\ \A i \in 0..k : Len(walk[i]) <= Len(walk[k])
             /\ \A i \in 1..k : \A x \in 1..Len(piece[i]) :
                   Len(walk[i - 1]) + x \in 1..Len(walk[k]) /\ walk[k][Len(walk[i - 1]) + x] = piece[i][x]
             /\ \A p \in 1..Len(walk[k]) : \E i \in 1..k : \E x \in 1..Len(piece[i]) : p = Len(walk[i - 1]) + x
           T == {k \in Nat : k <= n => Upto(k)}
<1>4. 0 \in T
  <2>1. Len(walk[0]) = 0
    OBVIOUS
  <2>2. QED
    BY <2>1
<1>5. ASSUME NEW k \in Nat, k \in T
      PROVE  k + 1 \in T
  <2>1. SUFFICES ASSUME k + 1 <= n
                 PROVE  Upto(k + 1)
    OBVIOUS
  <2>2. PICK j \in 1..n : j = k + 1 /\ j - 1 = k /\ k \in 0..n /\ j \in 0..n
    BY <2>1
  <2>3. PICK a, b, c : a = walk[k] /\ b = piece[j] /\ c = walk[j]
    OBVIOUS
  <2>4. /\ Len(c) = Len(a) + Len(b) /\ Len(a) \in Nat /\ Len(b) \in Nat /\ Len(c) \in Nat
        /\ \A p \in 1..Len(a) : p \in 1..Len(c) /\ c[p] = a[p]
        /\ \A x \in 1..Len(b) : Len(a) + x \in 1..Len(c) /\ c[Len(a) + x] = b[x]
        /\ \A p \in 1..Len(c) : p \in 1..Len(a) \/ \E x \in 1..Len(b) : p = Len(a) + x
    <3>1. Joins(c, a, b)
      BY <1>3, <2>2, <2>3
    <3>2. QED
      BY <3>1 DEF Joins
  <2>5. /\ \A i \in 0..k : Len(walk[i]) <= Len(a)
        /\ \A i \in 1..k : \A x \in 1..Len(piece[i]) :
              Len(walk[i - 1]) + x \in 1..Len(a) /\ a[Len(walk[i - 1]) + x] = piece[i][x]
        /\ \A p \in 1..Len(a) : \E i \in 1..k : \E x \in 1..Len(piece[i]) : p = Len(walk[i - 1]) + x
    BY <1>5, <2>2, <2>3
  <2>6. (\A i \in 0..j : i \in 0..k \/ i = j) /\ (\A i \in 1..j : i \in 1..k \/ i = j) /\ (\A i \in 1..k : i \in 1..j)
    BY <2>2
  <2>7. \A i \in 0..j : Len(walk[i]) <= Len(c)
    <3>1. \A i \in 0..k : Len(walk[i]) \in Nat
      BY <1>1, <2>2
    <3>2. ASSUME NEW i \in 0..k
          PROVE  Len(walk[i]) <= Len(c)
      <4>1. PICK x \in Nat : x = Len(walk[i])
        BY <3>1
      <4>2. x <= Len(a)
        BY <2>5, <4>1
      <4>3. QED
        BY <2>4, <4>1, <4>2
    <3>3. Len(walk[j]) <= Len(c)
      BY <2>3, <2>4
    <3>4. QED
      BY <2>6, <3>2, <3>3
  <2>8. \A i \in 1..j : \A x \in 1..Len(piece[i]) :
              Len(walk[i - 1]) + x \in 1..Len(c) /\ c[Len(walk[i - 1]) + x] = piece[i][x]
    <3>1. ASSUME NEW i \in 1..k, NEW x \in 1..Len(piece[i])
          PROVE  Len(walk[i - 1]) + x \in 1..Len(c) /\ c[Len(walk[i - 1]) + x] = piece[i][x]
      <4>1. PICK p : p = Len(walk[i - 1]) + x /\ p \in 1..Len(a) /\ a[p] = piece[i][x]
        BY <2>5
      <4>2. QED
        BY <2>4, <4>1
    <3>2. ASSUME NEW x \in 1..Len(piece[j])
          PROVE  Len(walk[j - 1]) + x \in 1..Len(c) /\ c[Len(walk[j - 1]) + x] = piece[j][x]
      BY <2>2, <2>3, <2>4
    <3>3. QED
      BY <2>6, <3>1, <3>2
  <2>9. ASSUME NEW p \in 1..Len(c)
        PROVE  \E i \in 1..j : \E x \in 1..Len(piece[i]) : p = Len(walk[i - 1]) + x
    <3>1. CASE p \in 1..Len(a)
      BY <2>5, <2>6, <3>1
    <3>2. ASSUME NEW x \in 1..Len(b), p = Len(a) + x
          PROVE  \E i \in 1..j : \E y \in 1..Len(piece[i]) : p = Len(walk[i - 1]) + y
      <4>1. j \in 1..j /\ x \in 1..Len(piece[j]) /\ p = Len(walk[j - 1]) + x
        BY <2>2, <2>3, <3>2
      <4>2. QED
        BY <4>1
    <3>3. QED
      BY <2>4, <3>1, <3>2
  <2>10. Upto(j)
    BY <2>3, <2>7, <2>8, <2>9
  <2>11. QED
    BY <2>2, <2>10
<1>6. Nat \subseteq T
  <2> HIDE DEF T
  <2>1. QED
    BY <1>4, <1>5, Induct
<1>7. \A k \in 0..n : Upto(k)
  <2> HIDE DEF Upto
  <2>1. \A k \in 0..n : k \in Nat /\ k <= n
    OBVIOUS
  <2>2. QED
    BY <1>6, <2>1
<1>8. ASSUME NEW i \in 1..n
      PROVE  Len(walk[i]) = Len(walk[i - 1]) + Len(piece[i]) /\ Len(piece[i]) \in Nat
  <2>1. Joins(walk[i], walk[i - 1], piece[i])
    BY <1>3
  <2>2. QED
    BY <2>1 DEF Joins
<1>9. \A i, j \in 0..n : i <= j => Len(walk[i]) <= Len(walk[j])
  <2>1. \A i, j \in 0..n : i <= j => i \in 0..j
    OBVIOUS
  <2>2. QED
    BY <1>7, <2>1
<1>10. n \in 0..n
  OBVIOUS
<1>11. QED
  BY <1>1, <1>7, <1>8, <1>9, <1>10

LEMMA CodexHolds ==
    ASSUME NEW t, LegalRequest(Stripped(t))
    PROVE  CodexTakes(CodexWire(t))
<1>1. PICK ms, w : ms = Stripped(t) /\ w = CodexWire(t) /\ LegalRequest(ms)
  OBVIOUS
<1>2. PICK n \in Nat : n = Len(ms) /\ ms \in Seq(Messages) /\ \A i \in 1..n : ms[i] \in Messages
  BY <1>1, MessagesAt DEF LegalRequest
<1>3. PICK walk : /\ w = walk[n] /\ walk \in [0..n -> Seq(Blocks)] /\ walk[0] = <<>>
                  /\ \A i \in 1..n : walk[i] = walk[i - 1] \o CodexItems(ms[i])
  <2>1. PICK walk : w = walk[Len(ms)] /\ ItemsJoined(walk, ms)
    BY <1>1, <1>2, CodexWalk
  <2>2. QED
    BY <1>2, <2>1 DEF ItemsJoined
<1>4. PICK piece : piece = [i \in 1..n |-> CodexItems(ms[i])]
  OBVIOUS
<1>5. \A i \in 1..n : piece[i] \in Seq(Blocks) /\ walk[i] = walk[i - 1] \o piece[i] /\ ItemsAre(piece[i], ms[i])
  BY <1>2, <1>3, <1>4, ItemsOf
<1>6. /\ \A i \in 0..n : Len(walk[i]) \in Nat
      /\ \A i \in 1..n : Len(walk[i]) = Len(walk[i - 1]) + Len(piece[i]) /\ Len(piece[i]) \in Nat
      /\ \A i, j \in 0..n : i <= j => Len(walk[i]) <= Len(walk[j])
      /\ \A i \in 1..n : \A x \in 1..Len(piece[i]) :
            Len(walk[i - 1]) + x \in 1..Len(w) /\ w[Len(walk[i - 1]) + x] = piece[i][x]
      /\ \A p \in 1..Len(w) : \E i \in 1..n : \E x \in 1..Len(piece[i]) : p = Len(walk[i - 1]) + x
  BY <1>3, <1>5, PartsAt
<1>7. w \in Seq(Blocks) /\ Len(w) \in Nat /\ DOMAIN w = 1..Len(w)
  <2>1. w \in Seq(Blocks)
    BY <1>3
  <2>2. QED
    BY <2>1, BlocksAt
\* What message c sends is before what message j sends.
<1>8. ASSUME NEW c \in 1..n, NEW j \in 1..n, c < j, NEW y \in 1..Len(piece[c]), NEW x \in 1..Len(piece[j]),
             NEW p, p = Len(walk[c - 1]) + y, NEW q, q = Len(walk[j - 1]) + x
      PROVE  p < q /\ p \in 1..(q - 1) /\ q \in (p + 1)..Len(w)
  <2>1. c - 1 \in 0..n /\ j - 1 \in 0..n /\ c \in 0..n /\ c <= j - 1
    BY <1>8
  <2>2. /\ Len(walk[c]) <= Len(walk[j - 1]) /\ Len(walk[c]) = Len(walk[c - 1]) + Len(piece[c]) /\ Len(piece[c]) \in Nat
        /\ Len(walk[c]) \in Nat /\ Len(walk[c - 1]) \in Nat /\ Len(walk[j - 1]) \in Nat /\ q \in 1..Len(w)
    BY <1>6, <1>8, <2>1
  <2>3. PICK a \in Nat, b \in Nat, d \in Nat, e \in Nat :
           a = Len(walk[c - 1]) /\ b = Len(piece[c]) /\ d = Len(walk[j - 1]) /\ e = Len(w)
    BY <1>7, <2>2
  <2>4. a + b <= d /\ p = a + y /\ q = d + x /\ y \in 1..b /\ x \in Nat /\ x >= 1 /\ q \in 1..e
    <3>1. x \in Nat /\ x >= 1
      BY <1>6
    <3>2. QED
      BY <1>8, <2>2, <2>3, <3>1
  <2>5. p < q /\ p \in 1..(q - 1) /\ q \in (p + 1)..e
    BY <2>4
  <2>6. QED
    BY <2>3, <2>5
<1>9. ASSUME NEW q \in 1..Len(w), w[q].type = "output"
      PROVE  \E p \in 1..(q - 1) : w[p] = Block("call", w[q].id)
  <2>1. PICK j \in 1..n : \E x \in 1..Len(piece[j]) : q = Len(walk[j - 1]) + x
    BY <1>6
  <2>2. PICK x \in 1..Len(piece[j]) : q = Len(walk[j - 1]) + x /\ w[q] = piece[j][x]
    BY <1>6, <2>1
  <2>3. ms[j].role = "tool" /\ w[q].id = ms[j].answers
    <3>1. ItemsAre(piece[j], ms[j])
      BY <1>5
    <3>2. piece[j][x].type = "output"
      BY <1>9, <2>2
    <3>3. QED
      BY <2>2, <3>1, <3>2 DEF ItemsAre
  <2>4. PICK c \in 1..(j - 1) : ms[c].role = "assistant" /\ j - c \in 1..Len(ms[c].calls) /\ ms[j].answers = ms[c].calls[j - c]
    <3>1. PICK i \in 1..Len(ms) : i = j
      BY <1>2
    <3>2. \E c \in 1..(i - 1) : ResultOfCall(ms, i, c)
      BY <1>1, <2>3, <3>1, ResultOf
    <3>3. QED
      BY <3>1, <3>2 DEF ResultOfCall
  <2>5. c \in 1..n /\ c < j
    OBVIOUS
  <2>6. PICK y \in 1..Len(piece[c]) : piece[c][y] = Block("call", ms[j].answers)
    <3>1. PICK k \in 1..Len(ms[c].calls) : k = j - c
      BY <2>4
    <3>2. ItemsAre(piece[c], ms[c])
      BY <1>5, <2>5
    <3>3. \E y \in 1..Len(piece[c]) : piece[c][y] = Block("call", ms[c].calls[k])
      BY <2>4, <3>2 DEF ItemsAre
    <3>4. QED
      BY <2>4, <3>1, <3>3
  <2>7. PICK p : p = Len(walk[c - 1]) + y
    OBVIOUS
  <2>8. w[p] = piece[c][y]
    BY <1>6, <2>5, <2>7
  <2>9. p \in 1..(q - 1)
    BY <1>8, <2>2, <2>5, <2>7
  <2>10. QED
    BY <2>3, <2>6, <2>8, <2>9
<1>10. ASSUME NEW p \in 1..Len(w), w[p].type = "call"
       PROVE  \E q \in (p + 1)..Len(w) : w[q] = Block("output", w[p].id)
  <2>1. PICK c \in 1..n : \E y \in 1..Len(piece[c]) : p = Len(walk[c - 1]) + y
    BY <1>6
  <2>2. PICK y \in 1..Len(piece[c]) : p = Len(walk[c - 1]) + y /\ w[p] = piece[c][y]
    BY <1>6, <2>1
  <2>3. PICK k \in 1..Len(ms[c].calls) : ms[c].role = "assistant" /\ w[p].id = ms[c].calls[k]
    <3>1. ItemsAre(piece[c], ms[c])
      BY <1>5
    <3>2. piece[c][y].type = "call"
      BY <1>10, <2>2
    <3>3. QED
      BY <2>2, <3>1, <3>2 DEF ItemsAre
  <2>4. PICK len : len = Len(ms[c].calls)
    OBVIOUS
  <2>5. /\ len \in Nat /\ c + len <= n
        /\ \A x \in 1..len : ms[c + x].role = "tool" /\ ms[c + x].answers = ms[c].calls[x]
    <3>1. c \in 1..Len(ms)
      BY <1>2
    <3>2. ResultsOfCalls(ms, c, len)
      BY <1>1, <2>3, <2>4, <3>1, ResultsFollow
    <3>3. QED
      BY <1>2, <3>2 DEF ResultsOfCalls
  <2>6. PICK j \in 1..n : j = c + k /\ c < j
    <3>1. c + k \in 1..n /\ c < c + k
      BY <2>4, <2>5
    <3>2. QED
      BY <3>1
  <2>7. ms[j].role = "tool" /\ ms[j].answers = w[p].id
    BY <2>3, <2>4, <2>5, <2>6
  <2>8. 1 \in 1..Len(piece[j]) /\ piece[j][1] = Block("output", w[p].id)
    <3>1. ItemsAre(piece[j], ms[j])
      BY <1>5
    <3>2. QED
      BY <2>7, <3>1 DEF ItemsAre
  <2>9. PICK q : q = Len(walk[j - 1]) + 1
    OBVIOUS
  <2>10. w[q] = piece[j][1]
    BY <1>6, <2>8, <2>9
  <2>11. q \in (p + 1)..Len(w)
    BY <1>8, <2>2, <2>6, <2>8, <2>9
  <2>12. QED
    BY <2>8, <2>10, <2>11
<1>11. CodexTakes(w)
  BY <1>7, <1>9, <1>10 DEF CodexTakes
<1>12. QED
  BY <1>1, <1>11

-----------------------------------------------------------------------------
(* Anthropic. *)

LEMMA RangeOf ==
    ASSUME NEW s \in Seq(Blocks)
    PROVE  Range(s) \subseteq Blocks /\ \A b : b \in Range(s) <=> \E x \in 1..Len(s) : b = s[x]
BY BlocksAt DEF Range

LEMMA NoRange ==
    ASSUME NEW s \in Seq(Blocks), Len(s) = 0
    PROVE  Range(s) = {}
<1>1. \A b : b \in Range(s) <=> \E x \in 1..Len(s) : b = s[x]
  BY RangeOf
<1>2. \A x \in 1..Len(s) : FALSE
  OBVIOUS
<1>3. QED
  BY <1>1, <1>2

LEMMA RangeJoined ==
    ASSUME NEW s \in Seq(Blocks), NEW t \in Seq(Blocks)
    PROVE  Range(s \o t) = Range(s) \cup Range(t)
<1>1. PICK r : r = s \o t
  OBVIOUS
<1>2. r \in Seq(Blocks) /\ Joins(r, s, t)
  BY <1>1, BlocksJoined
<1>3. ASSUME NEW b
      PROVE  b \in Range(r) <=> b \in Range(s) \/ b \in Range(t)
  <2>1. /\ b \in Range(r) <=> \E x \in 1..Len(r) : b = r[x]
        /\ b \in Range(s) <=> \E x \in 1..Len(s) : b = s[x]
        /\ b \in Range(t) <=> \E x \in 1..Len(t) : b = t[x]
    BY <1>2, RangeOf
  <2>2. /\ \A x \in 1..Len(s) : x \in 1..Len(r) /\ r[x] = s[x]
        /\ \A x \in 1..Len(t) : Len(s) + x \in 1..Len(r) /\ r[Len(s) + x] = t[x]
        /\ \A x \in 1..Len(r) : x \in 1..Len(s) \/ \E k \in 1..Len(t) : x = Len(s) + k
    BY <1>2 DEF Joins
  <2>3. QED
    BY <2>1, <2>2
<1>4. QED
  BY <1>1, <1>3

\* The uses and results among the blocks s are those of the message m.
BlocksAre(s, m) ==
    /\ SaysSomething(m) => \A b \in Range(s) : b.type # "no text"
    /\ \A b \in Range(s) : b.type = "tool_use" => m.role = "assistant" /\ \E k \in 1..Len(m.calls) : b.id = m.calls[k]
    /\ m.role = "assistant" => \A k \in 1..Len(m.calls) : Block("tool_use", m.calls[k]) \in Range(s)
    /\ \A b \in Range(s) : b.type = "tool_result" => m.role = "tool" /\ b.id = m.answers
    /\ m.role = "tool" => Block("tool_result", m.answers) \in Range(s)

LEMMA OneBlock ==
    ASSUME NEW b \in Blocks
    PROVE  <<b>> \in Seq(Blocks) /\ Range(<<b>>) = {b}
<1>1. PICK s : s = <<b>>
  OBVIOUS
<1>2. s \in Seq(Blocks) /\ Len(s) = 1 /\ s[1] = b
  BY <1>1
<1>3. \A c : c \in Range(s) <=> \E x \in 1..Len(s) : c = s[x]
  BY <1>2, RangeOf
<1>4. Range(s) = {b}
  <2>1. \A x \in 1..1 : x = 1
    OBVIOUS
  <2>2. QED
    BY <1>2, <1>3, <2>1
<1>5. QED
  BY <1>1, <1>2, <1>4

LEMMA AssistantBlocksOf ==
    ASSUME NEW m \in Messages, m.role = "assistant", NEW s, s = AssistantBlocks(m)
    PROVE  s \in Seq(Blocks) /\ BlocksAre(s, m)
<1>1. PICK uses : uses = [i \in DOMAIN m.calls |-> Block("tool_use", m.calls[i])]
  OBVIOUS
<1>2. PICK text : text = IF m.content \in {"none", "empty"} THEN <<>> ELSE <<Block("text", <<>>)>>
  OBVIOUS
<1>3. s = IF text \o uses = <<>> THEN <<Block("no text", <<>>)>> ELSE text \o uses
  BY <1>1, <1>2 DEF AssistantBlocks
<1>4. /\ uses \in Seq(Blocks) /\ Len(uses) = Len(m.calls) /\ Len(uses) \in Nat
      /\ \A i \in 1..Len(m.calls) : uses[i] = Block("tool_use", m.calls[i]) /\ m.calls[i] \in CallIds
  <2>1. "tool_use" \in BlockTypes
    BY DEF BlockTypes
  <2>2. QED
    BY <1>1, <2>1, BlocksOfCalls
<1>5. \A b : b \in Range(uses) <=> \E k \in 1..Len(m.calls) : b = Block("tool_use", m.calls[k])
  BY <1>4, RangeOf
<1>6. \A k \in 1..Len(m.calls) : Block("tool_use", m.calls[k]).type = "tool_use" /\ Block("tool_use", m.calls[k]).id = m.calls[k]
  BY <1>4 DEF Block
<1>7. /\ Block("text", <<>>) \in Blocks /\ Block("text", <<>>).type = "text"
      /\ Block("no text", <<>>) \in Blocks /\ Block("no text", <<>>).type = "no text"
  BY ABlock DEF BlockTypes
<1>8. text \in Seq(Blocks) /\ \A b \in Range(text) : b.type = "text"
  <2>1. CASE m.content \in {"none", "empty"}
    <3>1. text = <<>> /\ <<>> \in Seq(Blocks) /\ Len(<<>>) = 0
      BY <1>2, <2>1
    <3>2. Range(text) = {}
      BY <3>1, NoRange
    <3>3. QED
      BY <3>1, <3>2
  <2>2. CASE ~ (m.content \in {"none", "empty"})
    BY <1>2, <1>7, <2>2, OneBlock
  <2>3. QED
    BY <2>1, <2>2
<1>9. text \o uses \in Seq(Blocks) /\ Range(text \o uses) = Range(text) \cup Range(uses)
  BY <1>4, <1>8, BlocksJoined, RangeJoined
<1>10. CASE text \o uses = <<>>
  <2>1. Range(text \o uses) = {}
    <3>1. PICK r : r = text \o uses
      OBVIOUS
    <3>2. r \in Seq(Blocks) /\ Len(r) = 0
      BY <1>9, <1>10, <3>1
    <3>3. Range(r) = {}
      BY <3>2, NoRange
    <3>4. QED
      BY <3>1, <3>3
  <2>2. Len(m.calls) = 0
    <3>1. ~ (1 \in 1..Len(m.calls))
      BY <1>5, <1>9, <2>1
    <3>2. QED
      BY <1>4, <3>1
  <2>3. m.content \in {"none", "empty"}
    <3>1. SUFFICES ASSUME ~ (m.content \in {"none", "empty"})
                   PROVE  FALSE
      OBVIOUS
    <3>2. Range(text) = {Block("text", <<>>)}
      BY <1>2, <1>7, <3>1, OneBlock
    <3>3. QED
      BY <1>9, <2>1, <3>2
  <2>4. m.calls = <<>>
    BY <2>2, CallsOf
  <2>5. ~ SaysSomething(m)
    BY <2>3, <2>4 DEF SaysSomething
  <2>6. s \in Seq(Blocks) /\ Range(s) = {Block("no text", <<>>)}
    BY <1>3, <1>7, <1>10, OneBlock
  <2>7. \A b \in Range(s) : b.type = "no text"
    BY <1>7, <2>6
  <2>8. \A k \in 1..Len(m.calls) : FALSE
    BY <2>2
  <2>9. QED
    BY <2>5, <2>6, <2>7, <2>8 DEF BlocksAre
<1>11. CASE text \o uses # <<>>
  <2>1. s \in Seq(Blocks) /\ Range(s) = Range(text) \cup Range(uses)
    BY <1>3, <1>9, <1>11
  <2>2. \A b \in Range(s) : b.type = "text" \/ (b.type = "tool_use" /\ \E k \in 1..Len(m.calls) : b.id = m.calls[k])
    BY <1>5, <1>6, <1>8, <2>1
  <2>3. \A k \in 1..Len(m.calls) : Block("tool_use", m.calls[k]) \in Range(s)
    BY <1>5, <2>1
  <2>4. QED
    BY <2>1, <2>2, <2>3 DEF BlocksAre
<1>12. QED
  BY <1>10, <1>11

LEMMA BlocksOf ==
    ASSUME NEW m \in Messages
    PROVE  AnthropicBlocks(m) \in Seq(Blocks) /\ BlocksAre(AnthropicBlocks(m), m)
<1>1. PICK s : s = AnthropicBlocks(m)
  OBVIOUS
<1>2. m.role \in {"user", "assistant", "tool"} /\ m.answers \in CallIds \cup {<<>>}
  BY DEF Messages
<1>3. CASE m.role = "tool"
  <2>1. PICK b : b = Block("tool_result", m.answers)
    OBVIOUS
  <2>2. b \in Blocks /\ b.type = "tool_result" /\ b.id = m.answers
    BY <1>2, <2>1, ABlock DEF BlockTypes
  <2>3. s = <<b>>
    BY <1>1, <1>3, <2>1 DEF AnthropicBlocks
  <2>4. s \in Seq(Blocks) /\ Range(s) = {b}
    BY <2>2, <2>3, OneBlock
  <2>5. QED
    BY <1>1, <1>3, <2>1, <2>2, <2>4 DEF BlocksAre
<1>4. CASE m.role = "assistant"
  <2>1. s = AssistantBlocks(m)
    BY <1>1, <1>4 DEF AnthropicBlocks
  <2>2. QED
    BY <1>1, <1>4, <2>1, AssistantBlocksOf
<1>5. CASE m.role = "user"
  <2>1. PICK b, c : b = Block("text", <<>>) /\ c = Block("image", <<>>)
    OBVIOUS
  <2>2. b \in Blocks /\ b.type = "text" /\ c \in Blocks /\ c.type = "image"
    BY <2>1, ABlock DEF BlockTypes
  <2>3. s = <<b>> \/ s = <<c, b>>
    BY <1>1, <1>5, <2>1 DEF AnthropicBlocks
  <2>4. s \in Seq(Blocks) /\ \A x \in 1..Len(s) : s[x] = b \/ s[x] = c
    <3>1. CASE s = <<b>>
      <4>1. s \in Seq(Blocks) /\ Len(s) = 1 /\ s[1] = b /\ \A x \in 1..1 : x = 1
        BY <2>2, <3>1
      <4>2. QED
        BY <4>1
    <3>2. CASE s = <<c, b>>
      <4>1. s \in Seq(Blocks) /\ Len(s) = 2 /\ s[1] = c /\ s[2] = b /\ \A x \in 1..2 : x = 1 \/ x = 2
        BY <2>2, <3>2
      <4>2. QED
        BY <4>1
    <3>3. QED
      BY <2>3, <3>1, <3>2
  <2>5. \A d \in Range(s) : d = b \/ d = c
    BY <2>4, RangeOf
  <2>6. QED
    BY <1>1, <1>5, <2>2, <2>4, <2>5 DEF BlocksAre
<1>6. QED
  BY <1>2, <1>3, <1>4, <1>5

-----------------------------------------------------------------------------
(* Messages of one side are merged. *)

WireMessages == [role : {"user", "assistant"}, blocks : Seq(Blocks)]
Side(m) == IF m.role = "assistant" THEN "assistant" ELSE "user"
OnWire(m) == [role |-> Side(m), blocks |-> AnthropicBlocks(m)]

\* add of Merged
Merges(a, m) ==
    IF a # <<>> /\ Last(a).role = Side(m)
    THEN [a EXCEPT ![Len(a)].blocks = @ \o AnthropicBlocks(m)]
    ELSE Append(a, OnWire(m))

LEMMA WireAt ==
    ASSUME NEW s \in Seq(WireMessages)
    PROVE  Len(s) \in Nat /\ DOMAIN s = 1..Len(s) /\ \A i \in 1..Len(s) : s[i] \in WireMessages
BY Positions

\* r is a and the message m after it, or in its last message if that is of the same side.
Extends(r, a, m) ==
    /\ r \in Seq(WireMessages) /\ Len(r) \in Nat /\ Len(r) # 0 /\ r[Len(r)].role = Side(m)
    /\ \/ Len(a) # 0 /\ a[Len(a)].role = Side(m) /\ Len(r) = Len(a)
       \/ (Len(a) = 0 \/ a[Len(a)].role # Side(m)) /\ Len(r) = Len(a) + 1
    /\ \A y \in 1..Len(a) : r[y].role = a[y].role
    /\ \A y \in 1..Len(r) : \A b : b \in Range(r[y].blocks) <=>
          (y <= Len(a) /\ b \in Range(a[y].blocks)) \/ (y = Len(r) /\ b \in Range(AnthropicBlocks(m)))

LEMMA MergesOne ==
    ASSUME NEW a \in Seq(WireMessages), NEW m \in Messages
    PROVE  Extends(Merges(a, m), a, m)
<1>1. PICK r, B, v : r = Merges(a, m) /\ B = AnthropicBlocks(m) /\ v = Side(m)
  OBVIOUS
<1>2. B \in Seq(Blocks) /\ v \in {"user", "assistant"}
  BY <1>1, BlocksOf DEF Side
<1>3. PICK n \in Nat : n = Len(a) /\ DOMAIN a = 1..n /\ \A i \in 1..n : a[i] \in WireMessages
  BY WireAt
<1>4. a # <<>> <=> n # 0
  BY <1>3, EmptySeq
<1>5. CASE a # <<>> /\ a[n].role = v
  <2>1. n \in 1..n
    BY <1>3, <1>4, <1>5
  <2>2. PICK z : z = [a[n] EXCEPT !.blocks = @ \o B]
    OBVIOUS
  <2>3. a[n] \in WireMessages
    BY <1>3, <2>1
  <2>4. PICK y : y = a[n]
    OBVIOUS
  <2>5. y \in WireMessages /\ y.blocks \in Seq(Blocks)
    BY <2>3, <2>4 DEF WireMessages
  <2>6. y.blocks \o B \in Seq(Blocks) /\ Range(y.blocks \o B) = Range(y.blocks) \cup Range(B)
    BY <1>2, <2>5, BlocksJoined, RangeJoined
  <2>7. z = [y EXCEPT !.blocks = y.blocks \o B]
    BY <2>2, <2>4
  <2>8. z \in WireMessages /\ z.role = y.role /\ z.blocks = y.blocks \o B
    BY <2>5, <2>6, <2>7 DEF WireMessages
  <2>9. r = [a EXCEPT ![n] = z]
    <3>1. Last(a).role = Side(m)
      BY <1>1, <1>3, <1>5 DEF Last
    <3>2. Merges(a, m) = [a EXCEPT ![Len(a)].blocks = @ \o AnthropicBlocks(m)]
      BY <1>5, <3>1 DEF Merges
    <3>3. QED
      BY <1>1, <1>3, <2>2, <3>2
  <2>10. r \in [1..n -> WireMessages] /\ r[n] = z /\ \A i \in 1..n : i # n => r[i] = a[i]
    <3>1. DOMAIN r = 1..n
      BY <1>3, <2>9
    <3>2. \A i \in 1..n : r[i] = IF i = n THEN z ELSE a[i]
      BY <1>3, <2>9
    <3>3. r = [i \in 1..n |-> r[i]]
      BY <1>3, <2>9, <3>1
    <3>4. \A i \in 1..n : r[i] \in WireMessages
      BY <1>3, <2>8, <3>2
    <3>5. QED
      BY <2>1, <3>2, <3>3, <3>4
  <2>11. r \in Seq(WireMessages) /\ Len(r) = n
    BY <2>10, FunctionIsSeq
  <2>12. \A i \in 1..n : r[i].role = a[i].role
    BY <2>4, <2>8, <2>10
  <2>13. ASSUME NEW i \in 1..n
         PROVE  \A b : b \in Range(r[i].blocks) <=> b \in Range(a[i].blocks) \/ (i = n /\ b \in Range(B))
    <3>1. CASE i = n
      BY <2>4, <2>6, <2>8, <2>10, <3>1
    <3>2. CASE i # n
      BY <2>10, <3>2
    <3>3. QED
      BY <3>1, <3>2
  <2>14. \A i \in 1..n : i <= n
    BY <1>3
  <2>15. r[n].role = v /\ n # 0
    BY <1>4, <1>5, <2>1, <2>12
  <2>16. Extends(r, a, m)
    BY <1>1, <1>3, <1>5, <2>11, <2>12, <2>13, <2>14, <2>15 DEF Extends
  <2>17. QED
    BY <1>1, <2>16
<1>6. CASE ~ (a # <<>> /\ a[n].role = v)
  <2>1. PICK z : z = OnWire(m)
    OBVIOUS
  <2>2. z \in WireMessages /\ z.role = v /\ z.blocks = B
    BY <1>1, <1>2, <2>1 DEF OnWire, WireMessages
  <2>3. r = Append(a, z)
    <3>1. ~ (a # <<>> /\ Last(a).role = Side(m))
      BY <1>1, <1>3, <1>6 DEF Last
    <3>2. QED
      BY <1>1, <2>1, <3>1 DEF Merges
  <2>4. /\ r \in Seq(WireMessages) /\ Len(r) = n + 1 /\ r[n + 1] = z
        /\ \A i \in 1..n : r[i] = a[i]
    BY <1>3, <2>2, <2>3, AppendProperties
  <2>5. ASSUME NEW i \in 1..(n + 1)
        PROVE  \A b : b \in Range(r[i].blocks) <=> (i <= n /\ b \in Range(a[i].blocks)) \/ (i = n + 1 /\ b \in Range(B))
    <3>1. CASE i = n + 1
      <4>1. ~ (i <= n) /\ r[i].blocks = B
        BY <1>3, <2>2, <2>4, <3>1
      <4>2. QED
        BY <3>1, <4>1
    <3>2. CASE i # n + 1
      <4>1. i \in 1..n /\ i <= n
        BY <1>3, <3>2
      <4>2. QED
        BY <2>4, <3>2, <4>1
    <3>3. QED
      BY <3>1, <3>2
  <2>6. n + 1 \in Nat /\ n + 1 # 0
    BY <1>3
  <2>7. n = 0 \/ a[n].role # v
    BY <1>4, <1>6
  <2>8. Extends(r, a, m)
    BY <1>1, <1>3, <2>2, <2>4, <2>5, <2>6, <2>7 DEF Extends
  <2>9. QED
    BY <1>1, <2>8
<1>7. QED
  BY <1>5, <1>6

\* The function of Merged.
MergedWalk(walk, ms) ==
    /\ walk \in [0..Len(ms) -> Seq(WireMessages)] /\ walk[0] = <<>>
    /\ \A i \in 1..Len(ms) : walk[i] = Merges(walk[i - 1], ms[i])

LEMMA WalkOfMerged ==
    ASSUME NEW ms \in Seq(Messages)
    PROVE  \E walk : Merged(ms) = walk[Len(ms)] /\ MergedWalk(walk, ms)
<1> DEFINE S == Seq(WireMessages)
           After(a, i) == Merges(a, ms[i])
           Body(f) == [i \in 0..Len(ms) |-> IF i = 0 THEN <<>> ELSE After(f[i - 1], i)]
<1>1. Len(ms) \in Nat /\ \A i \in 1..Len(ms) : ms[i] \in Messages
  BY MessagesAt
<1>2. ASSUME NEW i \in 1..Len(ms), NEW a \in S
      PROVE  After(a, i) \in S
  <2>1. Extends(Merges(a, ms[i]), a, ms[i])
    BY <1>1, MergesOne
  <2>2. QED
    BY <2>1 DEF Extends
<1>3. PICK step : step = [i \in 1..Len(ms) |-> [a \in S |-> After(a, i)]]
  OBVIOUS
<1>4. step \in [1..Len(ms) -> [S -> S]]
  <2> HIDE DEF S, After
  <2>1. QED
    BY <1>2, <1>3
<1>5. <<>> \in S
  OBVIOUS
<1>6. PICK g \in [0..Len(ms) -> S] : g[0] = <<>> /\ \A i \in 1..Len(ms) : g[i] = step[i][g[i - 1]]
  <2> HIDE DEF S, After, Body
  <2>1. \E g : Recurses(g, S, <<>>, Len(ms), step)
    BY <1>1, <1>4, <1>5, Recursive
  <2>2. QED
    BY <2>1 DEF Recurses
<1>7. ASSUME NEW i \in 1..Len(ms)
      PROVE  g[i] = After(g[i - 1], i)
  <2> HIDE DEF S, After
  <2>1. i - 1 \in 0..Len(ms)
    BY <1>1
  <2>2. g[i - 1] \in S
    BY <1>6, <2>1
  <2>3. QED
    BY <1>3, <1>6, <2>2
<1>8. g = Body(g)
  <2> HIDE DEF S, After
  <2>1. \A i \in 0..Len(ms) : i = 0 \/ i \in 1..Len(ms)
    BY <1>1
  <2>2. \A i \in 0..Len(ms) : g[i] = IF i = 0 THEN <<>> ELSE After(g[i - 1], i)
    BY <1>6, <1>7, <2>1
  <2>3. QED
    BY <1>6, <2>2
<1>9. PICK walk : walk = CHOOSE f : f = Body(f)
  OBVIOUS
<1>10. walk = Body(walk)
  <2> HIDE DEF Body
  <2>1. QED
    BY <1>8, <1>9
<1>11. Merged(ms) = walk[Len(ms)]
  BY <1>9 DEF Merged, Merges, Side, OnWire
<1>12. walk[0] = <<>> /\ \A i \in 1..Len(ms) : walk[i] = After(walk[i - 1], i)
  <2> HIDE DEF S, After
  <2>1. 0 \in 0..Len(ms) /\ \A i \in 1..Len(ms) : i \in 0..Len(ms) /\ i # 0
    BY <1>1
  <2>2. \A i \in 0..Len(ms) : walk[i] = IF i = 0 THEN <<>> ELSE After(walk[i - 1], i)
    BY <1>10
  <2>3. QED
    BY <2>1, <2>2
<1>13. walk \in [0..Len(ms) -> S]
  <2> DEFINE T == {i \in Nat : i <= Len(ms) => walk[i] \in S}
  <2>1. 0 \in T
    BY <1>5, <1>12
  <2>2. ASSUME NEW i \in Nat, i \in T
        PROVE  i + 1 \in T
    <3>1. SUFFICES ASSUME i + 1 <= Len(ms)
                   PROVE  walk[i + 1] \in S
      OBVIOUS
    <3>2. i + 1 \in 1..Len(ms) /\ (i + 1) - 1 = i /\ i <= Len(ms)
      BY <1>1, <3>1
    <3> HIDE DEF S, After
    <3>3. walk[i] \in S /\ walk[i + 1] = After(walk[i], i + 1)
      BY <1>12, <2>2, <3>2
    <3>4. QED
      BY <1>2, <3>2, <3>3
  <2>3. Nat \subseteq T
    <3> HIDE DEF T
    <3>1. QED
      BY <2>1, <2>2, Induct
  <2>4. \A i \in 0..Len(ms) : walk[i] \in S
    BY <1>1, <2>3
  <2>5. QED
    <3> HIDE DEF S, After
    <3>1. QED
      BY <1>10, <2>4
<1>14. QED
  BY <1>11, <1>12, <1>13 DEF MergedWalk

\* Message j of the first i of ms is in message g[j] of their merger a.
PlacesUpto(a, ms, g, i) ==
    /\ \A j \in 1..i : g[j] \in 1..Len(a)
    /\ IF i = 0 THEN Len(a) = 0 ELSE Len(a) = g[i] /\ a[Len(a)].role = Side(ms[i])
    /\ \A y \in 2..Len(a) : a[y].role # a[y - 1].role
    /\ \A j \in 2..i : g[j] = IF Side(ms[j]) = Side(ms[j - 1]) THEN g[j - 1] ELSE g[j - 1] + 1
    /\ \A y \in 1..Len(a) : \A b :
          b \in Range(a[y].blocks) <=> \E j \in 1..i : g[j] = y /\ b \in Range(AnthropicBlocks(ms[j]))

LEMMA PlacesOne ==
    ASSUME NEW ms, NEW g, NEW i \in Nat, NEW a \in Seq(WireMessages), PlacesUpto(a, ms, g, i),
           NEW r, Extends(r, a, ms[i + 1]), g[i + 1] = Len(r)
    PROVE  PlacesUpto(r, ms, g, i + 1)
<1>1. PICK n \in Nat, k \in Nat : n = Len(a) /\ k = Len(r) /\ k # 0
  BY WireAt DEF Extends
<1>2. PICK h, m : h = i + 1 /\ m = ms[h] /\ h \in Nat /\ h # 0 /\ h - 1 = i
  OBVIOUS
<1>3. g[h] = k
  BY <1>1, <1>2
<1>4. /\ \A j \in 1..i : g[j] \in 1..n
      /\ IF i = 0 THEN n = 0 ELSE n = g[i] /\ a[n].role = Side(ms[i])
      /\ \A y \in 2..n : a[y].role # a[y - 1].role
      /\ \A j \in 2..i : g[j] = IF Side(ms[j]) = Side(ms[j - 1]) THEN g[j - 1] ELSE g[j - 1] + 1
  BY <1>1 DEF PlacesUpto
<1>5. \A y \in 1..n : \A b :
         b \in Range(a[y].blocks) <=> \E j \in 1..i : g[j] = y /\ b \in Range(AnthropicBlocks(ms[j]))
  BY <1>1 DEF PlacesUpto
<1>6. /\ r[k].role = Side(m)
      /\ \/ n # 0 /\ a[n].role = Side(m) /\ k = n
         \/ (n = 0 \/ a[n].role # Side(m)) /\ k = n + 1
      /\ \A y \in 1..n : r[y].role = a[y].role
  BY <1>1, <1>2 DEF Extends
<1>7. \A y \in 1..k : \A b : b \in Range(r[y].blocks) <=>
          (y <= n /\ b \in Range(a[y].blocks)) \/ (y = k /\ b \in Range(AnthropicBlocks(m)))
  BY <1>1, <1>2 DEF Extends
<1>8. (\A j \in 1..h : j \in 1..i \/ j = h) /\ (\A j \in 1..i : j \in 1..h /\ j # h) /\ h \in 1..h /\ n <= k
  BY <1>2, <1>6
<1>9. \A j \in 1..h : g[j] \in 1..k
  <2>1. \A y \in 1..n : y \in 1..k
    BY <1>8
  <2>2. k \in 1..k
    BY <1>1
  <2>3. QED
    BY <1>3, <1>4, <1>8, <2>1, <2>2
<1>10. k = g[h] /\ r[k].role = Side(ms[h])
  BY <1>2, <1>3, <1>6
<1>11. ASSUME NEW y \in 2..k
       PROVE  r[y].role # r[y - 1].role
  <2>1. CASE y <= n
    <3>1. y \in 2..n /\ y \in 1..n /\ y - 1 \in 1..n
      BY <2>1
    <3>2. QED
      BY <1>4, <1>6, <3>1
  <2>2. CASE y > n
    <3>1. y = k /\ y - 1 = n /\ n # 0 /\ n \in 1..n /\ k = n + 1
      BY <1>6, <2>2
    <3>2. r[n].role = a[n].role /\ a[n].role # Side(m)
      BY <1>6, <3>1
    <3>3. QED
      BY <1>6, <3>1, <3>2
  <2>3. QED
    BY <2>1, <2>2
<1>12. ASSUME NEW j \in 2..h
       PROVE  g[j] = IF Side(ms[j]) = Side(ms[j - 1]) THEN g[j - 1] ELSE g[j - 1] + 1
  <2>1. CASE j = h
    <3>1. j - 1 = i /\ i # 0
      BY <1>2, <2>1
    <3>2. n = g[i] /\ a[n].role = Side(ms[i]) /\ g[i] \in 1..n
      BY <1>4, <3>1
    <3>3. n # 0
      BY <3>2
    <3>4. k = IF Side(m) = Side(ms[i]) THEN n ELSE n + 1
      BY <1>6, <3>2, <3>3
    <3>5. QED
      BY <1>2, <1>3, <2>1, <3>1, <3>2, <3>4
  <2>2. CASE j # h
    <3>1. j \in 2..i
      BY <1>2, <2>2
    <3>2. QED
      BY <1>4, <3>1
  <2>3. QED
    BY <2>1, <2>2
<1>13. ASSUME NEW y \in 1..k, NEW b
       PROVE  b \in Range(r[y].blocks) <=> \E j \in 1..h : g[j] = y /\ b \in Range(AnthropicBlocks(ms[j]))
  <2>1. b \in Range(r[y].blocks) <=>
          (y <= n /\ b \in Range(a[y].blocks)) \/ (y = k /\ b \in Range(AnthropicBlocks(m)))
    BY <1>7
  <2>2. (\E j \in 1..h : g[j] = y /\ b \in Range(AnthropicBlocks(ms[j])))
        <=> (\E j \in 1..i : g[j] = y /\ b \in Range(AnthropicBlocks(ms[j]))) \/ (y = k /\ b \in Range(AnthropicBlocks(m)))
    BY <1>2, <1>3, <1>8
  <2>3. CASE y <= n
    <3>1. y \in 1..n
      BY <2>3
    <3>2. QED
      BY <1>5, <2>1, <2>2, <2>3, <3>1
  <2>4. CASE ~ (y <= n)
    <3>1. \A j \in 1..i : g[j] # y
      BY <1>4, <2>4
    <3>2. QED
      BY <2>1, <2>2, <2>4, <3>1
  <2>5. QED
    BY <2>3, <2>4
<1>14. PlacesUpto(r, ms, g, h)
  BY <1>1, <1>2, <1>9, <1>10, <1>11, <1>12, <1>13 DEF PlacesUpto
<1>15. QED
  BY <1>2, <1>14

LEMMA MergedPlaces ==
    ASSUME NEW ms \in Seq(Messages)
    PROVE  Merged(ms) \in Seq(WireMessages) /\ \E g : PlacesUpto(Merged(ms), ms, g, Len(ms))
<1>1. PICK walk : Merged(ms) = walk[Len(ms)] /\ MergedWalk(walk, ms)
  BY WalkOfMerged
<1>2. PICK n \in Nat : n = Len(ms) /\ \A i \in 1..n : ms[i] \in Messages
  BY MessagesAt
<1>3. /\ \A i \in 0..n : walk[i] \in Seq(WireMessages)
      /\ walk[0] = <<>>
      /\ \A i \in 1..n : walk[i] = Merges(walk[i - 1], ms[i])
  BY <1>1, <1>2 DEF MergedWalk
<1>4. PICK g : g = [i \in 1..n |-> Len(walk[i])]
  OBVIOUS
<1> DEFINE T == {i \in Nat : i <= n => PlacesUpto(walk[i], ms, g, i)}
<1>5. 0 \in T
  <2>1. PICK a : a = walk[0]
    OBVIOUS
  <2>2. Len(a) = 0
    BY <1>3, <2>1
  <2>3. (\A j \in 1..0 : FALSE) /\ (\A j \in 2..0 : FALSE)
    OBVIOUS
  <2>4. PlacesUpto(a, ms, g, 0)
    BY <2>2, <2>3 DEF PlacesUpto
  <2>5. QED
    BY <2>1, <2>4
<1>6. ASSUME NEW i \in Nat, i \in T
      PROVE  i + 1 \in T
  <2>1. SUFFICES ASSUME i + 1 <= n
                 PROVE  PlacesUpto(walk[i + 1], ms, g, i + 1)
    OBVIOUS
  <2>2. PICK h \in 1..n : h = i + 1 /\ h - 1 = i /\ i \in 0..n /\ i <= n
    BY <2>1
  <2>3. PICK a, r : a = walk[i] /\ r = walk[h]
    OBVIOUS
  <2>4. a \in Seq(WireMessages) /\ PlacesUpto(a, ms, g, i)
    BY <1>3, <1>6, <2>2, <2>3
  <2>5. Extends(r, a, ms[h])
    <3>1. r = Merges(a, ms[h]) /\ ms[h] \in Messages
      BY <1>2, <1>3, <2>2, <2>3
    <3>2. QED
      BY <2>4, <3>1, MergesOne
  <2>6. g[h] = Len(r)
    BY <1>4, <2>3
  <2>7. PlacesUpto(r, ms, g, i + 1)
    BY <2>2, <2>4, <2>5, <2>6, PlacesOne
  <2>8. QED
    BY <2>2, <2>3, <2>7
<1>7. Nat \subseteq T
  <2> HIDE DEF T
  <2>1. QED
    BY <1>5, <1>6, Induct
<1>8. PlacesUpto(walk[n], ms, g, n)
  <2>1. n <= n
    BY <1>2
  <2>2. QED
    BY <1>7, <2>1
<1>9. n \in 0..n
  BY <1>2
<1>10. QED
  BY <1>1, <1>2, <1>3, <1>8, <1>9

\* The results of the calls of c are in the message after that of c.
LEMMA ResultsNext ==
    ASSUME NEW a, NEW ms, NEW g, NEW n \in Nat, PlacesUpto(a, ms, g, n), NEW c \in 1..n, ms[c].role = "assistant",
           NEW j \in 1..n, c < j, \A k \in (c + 1)..j : ms[k].role = "tool"
    PROVE  g[j] = g[c] + 1
<1>1. \A k \in 2..n : g[k] = IF Side(ms[k]) = Side(ms[k - 1]) THEN g[k - 1] ELSE g[k - 1] + 1
  BY DEF PlacesUpto
<1> DEFINE T == {x \in Nat : c + 1 + x <= j => g[c + 1 + x] = g[c] + 1}
<1>2. 0 \in T
  <2>1. PICK k \in 2..n : k = c + 1 /\ k - 1 = c /\ k = c + 1 + 0 /\ k \in (c + 1)..j
    OBVIOUS
  <2>2. Side(ms[k]) # Side(ms[c])
    BY <2>1 DEF Side
  <2>3. g[k] = g[c] + 1
    BY <1>1, <2>1, <2>2
  <2>4. QED
    BY <2>1, <2>3
<1>3. ASSUME NEW x \in Nat, x \in T
      PROVE  x + 1 \in T
  <2>1. SUFFICES ASSUME c + 1 + (x + 1) <= j
                 PROVE  g[c + 1 + (x + 1)] = g[c] + 1
    OBVIOUS
  <2>2. PICK k \in 2..n : k = c + 1 + (x + 1) /\ k - 1 = c + 1 + x /\ k \in (c + 1)..j /\ k - 1 \in (c + 1)..j /\ c + 1 + x <= j
    BY <2>1
  <2>3. Side(ms[k]) = Side(ms[k - 1])
    BY <2>2 DEF Side
  <2>4. g[k] = g[k - 1]
    BY <1>1, <2>3
  <2>5. g[c + 1 + x] = g[c] + 1
    BY <1>3, <2>2
  <2>6. QED
    BY <2>2, <2>4, <2>5
<1>4. Nat \subseteq T
  <2> HIDE DEF T
  <2>1. QED
    BY <1>2, <1>3, Induct
<1>5. PICK x \in Nat : c + 1 + x = j
  <2>1. j - c - 1 \in Nat /\ c + 1 + (j - c - 1) = j
    OBVIOUS
  <2>2. QED
    BY <2>1
<1>6. x \in T /\ c + 1 + x <= j
  BY <1>4, <1>5
<1>7. QED
  BY <1>5, <1>6

LEMMA AnthropicHolds ==
    ASSUME NEW ms, LegalRequest(ms)
    PROVE  AnthropicTakes(Merged(ms))
<1>1. PICK n \in Nat : n = Len(ms) /\ ms \in Seq(Messages) /\ \A i \in 1..n : ms[i] \in Messages /\ SaysSomething(ms[i])
  BY MessagesAt DEF LegalRequest
<1>2. PICK w, g : w = Merged(ms) /\ w \in Seq(WireMessages) /\ PlacesUpto(w, ms, g, n)
  BY <1>1, MergedPlaces
<1>3. PICK len \in Nat : len = Len(w) /\ DOMAIN w = 1..len
  BY <1>2, WireAt
<1>4. /\ \A j \in 1..n : g[j] \in 1..len
      /\ \A y \in 2..len : w[y].role # w[y - 1].role
      /\ \A y \in 1..len : \A b :
            b \in Range(w[y].blocks) <=> \E j \in 1..n : g[j] = y /\ b \in Range(AnthropicBlocks(ms[j]))
  BY <1>2, <1>3 DEF PlacesUpto
<1>5. \A j \in 1..n : BlocksAre(AnthropicBlocks(ms[j]), ms[j])
  BY <1>1, BlocksOf
\* The uses and the results of a message on the wire are those of the messages that are in it.
<1>6. ASSUME NEW y \in 1..len, NEW id
      PROVE  id \in BlockIds(w[y], "tool_use") <=>
                \E c \in 1..n : g[c] = y /\ ms[c].role = "assistant" /\ \E k \in 1..Len(ms[c].calls) : id = ms[c].calls[k]
  <2>1. ASSUME id \in BlockIds(w[y], "tool_use")
        PROVE  \E c \in 1..n : g[c] = y /\ ms[c].role = "assistant" /\ \E k \in 1..Len(ms[c].calls) : id = ms[c].calls[k]
    <3>1. PICK b \in Range(w[y].blocks) : b.type = "tool_use" /\ b.id = id
      BY <2>1 DEF BlockIds
    <3>2. PICK c \in 1..n : g[c] = y /\ b \in Range(AnthropicBlocks(ms[c]))
      BY <1>4, <3>1
    <3>3. BlocksAre(AnthropicBlocks(ms[c]), ms[c])
      BY <1>5
    <3>4. ms[c].role = "assistant" /\ \E k \in 1..Len(ms[c].calls) : id = ms[c].calls[k]
      BY <3>1, <3>2, <3>3 DEF BlocksAre
    <3>5. QED
      BY <3>2, <3>4
  <2>2. ASSUME NEW c \in 1..n, g[c] = y, ms[c].role = "assistant", NEW k \in 1..Len(ms[c].calls), id = ms[c].calls[k]
        PROVE  id \in BlockIds(w[y], "tool_use")
    <3>1. BlocksAre(AnthropicBlocks(ms[c]), ms[c])
      BY <1>5
    <3>2. PICK b : b = Block("tool_use", id)
      OBVIOUS
    <3>3. b \in Range(AnthropicBlocks(ms[c]))
      BY <2>2, <3>1, <3>2 DEF BlocksAre
    <3>4. b \in Range(w[y].blocks)
      BY <1>4, <2>2, <3>3
    <3>5. b.type = "tool_use" /\ b.id = id
      BY <3>2 DEF Block
    <3>6. QED
      BY <3>4, <3>5 DEF BlockIds
  <2>3. QED
    BY <2>1, <2>2
<1>7. ASSUME NEW y \in 1..len, NEW id
      PROVE  id \in BlockIds(w[y], "tool_result") <=> \E j \in 1..n : g[j] = y /\ ms[j].role = "tool" /\ id = ms[j].answers
  <2>1. ASSUME id \in BlockIds(w[y], "tool_result")
        PROVE  \E j \in 1..n : g[j] = y /\ ms[j].role = "tool" /\ id = ms[j].answers
    <3>1. PICK b \in Range(w[y].blocks) : b.type = "tool_result" /\ b.id = id
      BY <2>1 DEF BlockIds
    <3>2. PICK j \in 1..n : g[j] = y /\ b \in Range(AnthropicBlocks(ms[j]))
      BY <1>4, <3>1
    <3>3. BlocksAre(AnthropicBlocks(ms[j]), ms[j])
      BY <1>5
    <3>4. ms[j].role = "tool" /\ id = ms[j].answers
      BY <3>1, <3>2, <3>3 DEF BlocksAre
    <3>5. QED
      BY <3>2, <3>4
  <2>2. ASSUME NEW j \in 1..n, g[j] = y, ms[j].role = "tool", id = ms[j].answers
        PROVE  id \in BlockIds(w[y], "tool_result")
    <3>1. BlocksAre(AnthropicBlocks(ms[j]), ms[j])
      BY <1>5
    <3>2. PICK b : b = Block("tool_result", id)
      OBVIOUS
    <3>3. b \in Range(AnthropicBlocks(ms[j]))
      BY <2>2, <3>1, <3>2 DEF BlocksAre
    <3>4. b \in Range(w[y].blocks)
      BY <1>4, <2>2, <3>3
    <3>5. b.type = "tool_result" /\ b.id = id
      BY <3>2 DEF Block
    <3>6. QED
      BY <3>4, <3>5 DEF BlockIds
  <2>3. QED
    BY <2>1, <2>2
\* A use has its result in the next message, which exists.
<1>8. ASSUME NEW y \in 1..len, NEW id, id \in BlockIds(w[y], "tool_use")
      PROVE  y < len /\ id \in BlockIds(w[y + 1], "tool_result")
  <2>1. PICK c \in 1..n : g[c] = y /\ ms[c].role = "assistant" /\ \E k \in 1..Len(ms[c].calls) : id = ms[c].calls[k]
    BY <1>6, <1>8
  <2>2. PICK k \in 1..Len(ms[c].calls) : id = ms[c].calls[k]
    BY <2>1
  <2>3. PICK many : many = Len(ms[c].calls)
    OBVIOUS
  <2>4. /\ many \in Nat /\ c + many <= n
        /\ \A x \in 1..many : ms[c + x].role = "tool" /\ ms[c + x].answers = ms[c].calls[x]
    <3>1. PICK i \in 1..Len(ms) : i = c
      BY <1>1
    <3>2. ResultsOfCalls(ms, c, many)
      BY <2>1, <2>3, <3>1, ResultsFollow
    <3>3. QED
      BY <1>1, <3>2 DEF ResultsOfCalls
  <2>5. PICK j \in 1..n : j = c + k /\ c < j
    <3>1. c + k \in 1..n /\ c < c + k
      BY <2>3, <2>4
    <3>2. QED
      BY <3>1
  <2>6. ms[j].role = "tool" /\ ms[j].answers = id
    BY <2>2, <2>3, <2>4, <2>5
  <2>7. ASSUME NEW p \in (c + 1)..j
        PROVE  ms[p].role = "tool"
    <3>1. PICK x \in 1..many : c + x = p
      <4>1. p - c \in 1..many /\ c + (p - c) = p
        BY <2>3, <2>4, <2>5
      <4>2. QED
        BY <4>1
    <3>2. QED
      BY <2>4, <3>1
  <2>8. g[j] = y + 1
    BY <1>2, <2>1, <2>5, <2>7, ResultsNext
  <2>9. y + 1 \in 1..len
    BY <1>4, <2>8
  <2>10. y < len
    BY <2>9
  <2>11. PICK z \in 1..len : z = y + 1
    BY <2>9
  <2>12. id \in BlockIds(w[z], "tool_result")
    BY <1>7, <2>6, <2>8, <2>11
  <2>13. QED
    BY <2>10, <2>11, <2>12
\* A result has its use in the message before, which exists.
<1>9. ASSUME NEW z \in 1..len, NEW id, id \in BlockIds(w[z], "tool_result")
      PROVE  z # 1 /\ id \in BlockIds(w[z - 1], "tool_use")
  <2>1. PICK j \in 1..n : g[j] = z /\ ms[j].role = "tool" /\ id = ms[j].answers
    BY <1>7, <1>9
  <2>2. PICK c \in 1..(j - 1) : ResultOfCall(ms, j, c)
    <3>1. PICK i \in 1..Len(ms) : i = j
      BY <1>1
    <3>2. \E c \in 1..(i - 1) : ResultOfCall(ms, i, c)
      BY <2>1, <3>1, ResultOf
    <3>3. QED
      BY <3>1, <3>2
  <2>3. /\ ms[c].role = "assistant" /\ j - c \in 1..Len(ms[c].calls) /\ ms[j].answers = ms[c].calls[j - c]
        /\ \A k \in (c + 1)..j : ms[k].role = "tool"
    BY <2>2 DEF ResultOfCall
  <2>4. c \in 1..n /\ c < j
    OBVIOUS
  <2>5. z = g[c] + 1 /\ g[c] \in 1..len
    <3>1. g[j] = g[c] + 1
      BY <1>2, <2>3, <2>4, ResultsNext
    <3>2. g[c] \in 1..len
      BY <1>4, <2>4
    <3>3. QED
      BY <2>1, <3>1, <3>2
  <2>6. PICK y \in 1..len : y = g[c] /\ z # 1 /\ z - 1 = y
    BY <2>5
  <2>7. id \in BlockIds(w[y], "tool_use")
    BY <1>6, <2>1, <2>3, <2>4, <2>6
  <2>8. QED
    BY <2>6, <2>7
<1>10. ASSUME NEW y \in 1..len
       PROVE  /\ y > 1 => w[y].role # w[y - 1].role
              /\ \A b \in Range(w[y].blocks) : b.type # "no text"
              /\ BlockIds(w[y], "tool_use") = IF y < len THEN BlockIds(w[y + 1], "tool_result") ELSE {}
              /\ y = 1 => BlockIds(w[y], "tool_result") = {}
  <2>1. y > 1 => w[y].role # w[y - 1].role
    <3>1. y > 1 => y \in 2..len
      OBVIOUS
    <3>2. QED
      BY <1>4, <3>1
  <2>2. ASSUME NEW b \in Range(w[y].blocks)
        PROVE  b.type # "no text"
    <3>1. PICK j \in 1..n : b \in Range(AnthropicBlocks(ms[j]))
      BY <1>4
    <3>2. BlocksAre(AnthropicBlocks(ms[j]), ms[j]) /\ SaysSomething(ms[j])
      BY <1>1, <1>5
    <3>3. QED
      BY <3>1, <3>2 DEF BlocksAre
  <2>3. BlockIds(w[y], "tool_use") = IF y < len THEN BlockIds(w[y + 1], "tool_result") ELSE {}
    <3>1. CASE y < len
      <4>1. y + 1 \in 1..len /\ (y + 1) - 1 = y
        BY <3>1
      <4>2. \A id : id \in BlockIds(w[y + 1], "tool_result") => id \in BlockIds(w[y], "tool_use")
        <5>1. PICK z \in 1..len : z = y + 1 /\ z - 1 = y
          BY <4>1
        <5>2. \A id : id \in BlockIds(w[z], "tool_result") => id \in BlockIds(w[z - 1], "tool_use")
          BY <1>9
        <5>3. QED
          BY <5>1, <5>2
      <4>3. \A id : id \in BlockIds(w[y], "tool_use") => id \in BlockIds(w[y + 1], "tool_result")
        BY <1>8
      <4>4. BlockIds(w[y], "tool_use") = BlockIds(w[y + 1], "tool_result")
        BY <4>2, <4>3
      <4>5. QED
        BY <3>1, <4>4
    <3>2. CASE ~ (y < len)
      <4>1. \A id : id \notin BlockIds(w[y], "tool_use")
        BY <1>8, <3>2
      <4>2. QED
        BY <3>2, <4>1
    <3>3. QED
      BY <3>1, <3>2
  <2>4. y = 1 => BlockIds(w[y], "tool_result") = {}
    BY <1>9
  <2>5. QED
    BY <2>1, <2>2, <2>3, <2>4
<1>11. AnthropicTakes(w)
  BY <1>3, <1>10 DEF AnthropicTakes
<1>12. QED
  BY <1>2, <1>11

-----------------------------------------------------------------------------
(* The theorems. *)

LEMMA LegalHolds == TranscriptInv /\ LegalInv => RequestsAreLegal
<1>1. SUFFICES ASSUME TranscriptInv, LegalInv
               PROVE  RequestsAreLegal
  OBVIOUS
<1>2. ASSUME NEW l \in Asking
      PROVE  /\ OpenAITakes(OpenAIWire(turn[l]))
             /\ AnthropicTakes(AnthropicWire(turn[l]))
             /\ CodexTakes(CodexWire(turn[l]))
  <2>1. LegalRequest(turn[l].msgs)
    BY <1>1, AskedIsLegal
  <2>2. LegalRequest(Stripped(turn[l]))
    BY <2>1, StrippedIsLegal
  <2>3. LegalRequest(Sanitized(Stripped(turn[l])))
    BY <2>2, SanitizedIsLegal
  <2>4. OpenAITakes(OpenAIWire(turn[l]))
    BY <2>3, OpenAIHolds DEF OpenAIWire
  <2>5. AnthropicTakes(AnthropicWire(turn[l]))
    BY <2>3, AnthropicHolds DEF AnthropicWire
  <2>6. CodexTakes(CodexWire(turn[l]))
    BY <2>2, CodexHolds
  <2>7. QED
    BY <2>4, <2>5, <2>6
<1>3. QED
  BY <1>2 DEF RequestsAreLegal, RequestIsLegal, AnthropicIsLegal, CodexIsLegal

\* agent/runner.py, session/manager.py, providers/*.py: for any limits, however the turns of two
\* lanes, consolidation, pruning, errors and restarts interleave, and whatever suffix of a turn
\* an earlier version left in the file, OpenAI, Anthropic and Codex take every request: calls
\* have their results and results their calls, and every message says something.
THEOREM RequestsAreLegalAlways == Spec => []RequestsAreLegal
<1>1. Init => TranscriptInv /\ LegalInv
  BY InitTranscript, InitLegal
<1>2. TranscriptInv /\ LegalInv /\ [Next]_vars => (TranscriptInv /\ LegalInv)'
  BY TranscriptStep, LegalStep
<1>3. TranscriptInv /\ LegalInv => RequestsAreLegal
  BY LegalHolds
<1>4. QED
  BY <1>1, <1>2, <1>3, PTL DEF Spec

\* The same of the run, where the transcript is one of five parts side by side.
THEOREM RequestsAreLegalBesideTheOthers == MCSpec => []RequestsAreLegal
<1>1. MCInit => TranscriptInv /\ LegalInv
  BY InitTranscript, InitLegal DEF MCInit, SessionRests
<1>2. ASSUME TranscriptInv, LegalInv, [MCNext]_mc
      PROVE  (TranscriptInv /\ LegalInv)'
  <2>1. [Next]_vars
    BY <1>2 DEF MCNext, Agent, mc
  <2>2. QED
    BY <1>2, <2>1, TranscriptStep, LegalStep
<1>3. TranscriptInv /\ LegalInv => RequestsAreLegal
  BY LegalHolds
<1>4. QED
  BY <1>1, <1>2, <1>3, PTL DEF MCSpec

=============================================================================
