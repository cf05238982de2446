--------------------------- MODULE Channels_proofs ---------------------------
(***************************************************************************)
(* What the adapters promise, for every value of the constants.            *)
(*                                                                         *)
(* Sending: for every number of attachments, chunks, attempts and failed   *)
(* calls, SendInv is an inductive invariant of ChannelSend, and            *)
(* SendingIsSound follows from it.  An attempt sends the parts of the      *)
(* message in order; its Place is the number of parts it is through with,  *)
(* and the invariant says what has been seen of those and how many calls   *)
(* were spent on it.                                                       *)
(*                                                                         *)
(* Receiving: for every number of messages, of remembered ids, of pushes,  *)
(* failures and restarts, TakenInv is an inductive invariant of            *)
(* ChannelReceive, and TakenIsKept follows from it.  The invariant says    *)
(* where a message can be between its server and the bus.  OnceInv adds    *)
(* that a message which an adapter accepted is in one place and will not   *)
(* be accepted again, and in which order what has been taken and what is   *)
(* still to come stand; OnceInOrder follows from it.                       *)
(***************************************************************************)
EXTENDS MC_Channels, SequenceTheorems, FiniteSetTheorems, WellFoundedInduction, TLAPS

-----------------------------------------------------------------------------
(* The inductive invariant. *)

Part == [kind : {"begin", "media", "text", "note"}, n : Nat]
BeginPart == [kind |-> "begin", n |-> 0]

Parts == Send.parts
Place == Len(Parts) - Len(todo)

SendTypes ==
    /\ msg \in [adapter : Senders, media : Nat, texts : Nat, progress : BOOLEAN, ready : BOOLEAN]
    /\ attempt \in Nat /\ tries \in Nat /\ failed \in Nat
    /\ todo \in Seq(Part) /\ shown \in Seq(Part)
    /\ marks \subseteq 1 .. msg.media
    /\ outcome \in {"sending", "sent", "failed"} /\ sign \in {"on", "off", "done"}

\* What is left of the parts; a note may have taken the place of the first.
Listed ==
    /\ Len(todo) <= Len(Parts)
    /\ \A i \in 1 .. Len(todo) :
           \/ todo[i] = Parts[Place + i]
           \/ i = 1 /\ Parts[Place + 1].kind = "media" /\ todo[1] = Note(Parts[Place + 1].n)

\* The text that only carries marks.
OnlyMarks ==
    todo = <<Chunk(0)>> /\ msg.texts = 0 /\ msg.media > 0 /\ msg.adapter \in {"matrix", "discord"}

Begun == attempt > 0 /\ msg.ready /\ todo # <<BeginPart>>
Shape == todo = <<BeginPart>> \/ (~ msg.ready /\ outcome = "sent" /\ todo = <<>>) \/ (Begun /\ (Listed \/ OnlyMarks))

\* The attempts of the manager; Discord's adapter never raises.
Most == IF SendMaxRetries > 1 THEN SendMaxRetries ELSE 1
Attempts ==
    /\ attempt <= Most
    /\ todo = <<BeginPart>> => outcome = "sending" /\ attempt < Most
    /\ attempt > 0 => msg.ready
    /\ outcome # "sending" => todo = <<>>
    /\ outcome = "failed" => attempt > 0 /\ attempt >= SendMaxRetries /\ msg.adapter # "discord"
    /\ outcome # "sending" /\ msg.ready => attempt > 0

\* The adapters that raise when a text cannot be sent.
Raisers == {"telegram", "qq", "slack", "wecom", "email", "mochat"}

\* So many failed calls have n attempts cost, and this one so many already.
Price(n) == IF msg.adapter = "telegram" THEN 2 * n ELSE n
Spent == IF todo # <<>> /\ Head(todo).kind = "note" THEN 1 ELSE tries
Calls ==
    /\ tries <= failed /\ tries <= 2
    /\ outcome = "sending" /\ todo # <<>> /\ todo # <<BeginPart>> => tries < Send[Head(todo).kind].ways
    /\ outcome = "sending" /\ (todo = <<>> \/ todo = <<BeginPart>>) => tries = 0
    /\ msg.adapter \in Raisers =>
          /\ todo = <<BeginPart>> \/ outcome = "failed" => failed >= Price(attempt)
          /\ outcome = "sending" /\ Begun => failed >= Price(attempt - 1) + Spent

\* The parts that an attempt is through with were seen.  A chunk that fails ends Discord's
\* message, after three calls.
Told ==
    Begun /\ outcome # "failed" =>
        /\ msg.adapter \in Raisers \cup {"discord"} =>
              \/ \A i \in 1 .. Place : Parts[i].kind = "text" => Seen(Parts[i])
              \/ msg.adapter = "discord" /\ todo = <<>> /\ failed >= 3
        /\ msg.adapter \in {"telegram", "qq"} =>
              \A i \in 1 .. Place : Parts[i].kind = "media" => MediaIsTold(Parts[i].n)

Signs ==
    /\ msg.adapter = "telegram" /\ ~ msg.progress /\ attempt > 0 => sign = "off"
    /\ outcome # "sending" /\ msg.ready /\ ~ msg.progress /\ msg.adapter \in {"matrix", "discord"} => sign = "off"
    /\ sign = "done" => outcome = "sent" /\ msg.adapter = "slack" /\ msg.ready

SendInv == SendTypes /\ Shape /\ Attempts /\ Calls /\ Told /\ ChunksFollow /\ Signs

-----------------------------------------------------------------------------
(* The adapters. *)

\* What the proofs use of a channel's name.
LEMMA SendOf ==
    ASSUME SendAssumption, SendTypes
    PROVE  \/ msg.adapter = "telegram" /\ Send = TelegramSend
           \/ msg.adapter = "weixin" /\ Send = WeixinSend
           \/ msg.adapter = "qq" /\ Send = QQSend
           \/ msg.adapter = "matrix" /\ Send = MatrixSend
           \/ msg.adapter = "discord" /\ Send = DiscordSend
           \/ msg.adapter = "feishu" /\ Send = FeishuSend
           \/ msg.adapter = "dingtalk" /\ Send = DingtalkSend
           \/ msg.adapter = "slack" /\ Send = SlackSend
           \/ msg.adapter = "wecom" /\ Send = WecomSend
           \/ msg.adapter = "email" /\ Send = EmailSend
           \/ msg.adapter = "mochat" /\ Send = MochatSend
           \/ msg.adapter = "whatsapp" /\ Send = WhatsAppSend
<1>1. msg.adapter \in {"telegram", "weixin", "matrix", "email", "mochat", "discord", "feishu", "qq",
                       "wecom", "dingtalk", "slack", "whatsapp"}
  BY DEF SendTypes, SendAssumption
<1>2. QED
  BY <1>1 DEF Send

Kinds == {"media", "text", "note"}
Hows == {"refused", "broken"}

\* What the adapters do when all ways of a part failed.
LEMMA Reacting ==
    ASSUME SendAssumption, SendTypes, NEW k \in Kinds, NEW how \in Hows
    PROVE  /\ Send[k].ways \in 1 .. 3
           /\ Send[k][how] \in {"raise", "skip", "stop", "note", "mark"}
           /\ Send[k][how] = "mark" => k = "media" /\ msg.adapter \in {"matrix", "discord"}
           /\ Send[k][how] = "note" => k = "media" /\ msg.adapter # "discord"
           /\ Send[k][how] = "stop" => k # "media" /\ msg.adapter = "discord"
           /\ msg.adapter \in Raisers /\ k = "text" => Send[k][how] = "raise"
           /\ msg.adapter \in {"telegram", "qq"} /\ k = "media" => Send[k][how] = "note"
           /\ msg.adapter \in {"telegram", "qq"} /\ k = "note" => Send[k][how] = "raise"
           /\ msg.adapter = "telegram" => Send[k].ways = IF k = "text" THEN 2 ELSE 1
           /\ msg.adapter = "discord" => Send[k].ways = 3 /\ Send[k][how] \notin {"raise", "skip"}
           /\ k = "media" /\ msg.adapter # "whatsapp" => Send[k].broken # "raise"
<1> DEFINE Fact(a) ==
      /\ Send[k].ways \in 1 .. 3
      /\ Send[k][how] \in {"raise", "skip", "stop", "note", "mark"}
      /\ Send[k][how] = "mark" => k = "media" /\ a \in {"matrix", "discord"}
      /\ Send[k][how] = "note" => k = "media" /\ a # "discord"
      /\ Send[k][how] = "stop" => k # "media" /\ a = "discord"
      /\ a \in Raisers /\ k = "text" => Send[k][how] = "raise"
      /\ a \in {"telegram", "qq"} /\ k = "media" => Send[k][how] = "note"
      /\ a \in {"telegram", "qq"} /\ k = "note" => Send[k][how] = "raise"
      /\ a = "telegram" => Send[k].ways = IF k = "text" THEN 2 ELSE 1
      /\ a = "discord" => Send[k].ways = 3 /\ Send[k][how] \notin {"raise", "skip"}
      /\ k = "media" /\ a # "whatsapp" => Send[k].broken # "raise"
<1>1. CASE Send = TelegramSend /\ msg.adapter = "telegram"
  <2>1. Fact("telegram")
    BY <1>1 DEF TelegramSend, Reacts, Same, Raisers, Kinds, Hows
  <2>2. QED
    BY <1>1, <2>1
<1>2. CASE Send = WeixinSend /\ msg.adapter = "weixin"
  <2>1. Fact("weixin")
    BY <1>2 DEF WeixinSend, Reacts, Same, Raisers, Kinds, Hows
  <2>2. QED
    BY <1>2, <2>1
<1>3. CASE Send = QQSend /\ msg.adapter = "qq"
  <2>1. Fact("qq")
    BY <1>3 DEF QQSend, Reacts, Same, Raisers, Kinds, Hows
  <2>2. QED
    BY <1>3, <2>1
<1>4. CASE Send = MatrixSend /\ msg.adapter = "matrix"
  <2>1. Fact("matrix")
    BY <1>4 DEF MatrixSend, Reacts, Same, Raisers, Kinds, Hows
  <2>2. QED
    BY <1>4, <2>1
<1>5. CASE Send = DiscordSend /\ msg.adapter = "discord"
  <2>1. Fact("discord")
    BY <1>5 DEF DiscordSend, Reacts, Same, Raisers, Kinds, Hows
  <2>2. QED
    BY <1>5, <2>1
<1>6. CASE Send = FeishuSend /\ msg.adapter = "feishu"
  <2>1. Fact("feishu")
    BY <1>6 DEF FeishuSend, Reacts, Same, Raisers, Kinds, Hows
  <2>2. QED
    BY <1>6, <2>1
<1>7. CASE Send = DingtalkSend /\ msg.adapter = "dingtalk"
  <2>1. Fact("dingtalk")
    BY <1>7 DEF DingtalkSend, Reacts, Same, Raisers, Kinds, Hows
  <2>2. QED
    BY <1>7, <2>1
<1>8. CASE Send = SlackSend /\ msg.adapter = "slack"
  <2>1. Fact("slack")
    BY <1>8 DEF SlackSend, Reacts, Same, Raisers, Kinds, Hows
  <2>2. QED
    BY <1>8, <2>1
<1>9. CASE Send = WecomSend /\ msg.adapter = "wecom"
  <2>1. Fact("wecom")
    BY <1>9 DEF WecomSend, Reacts, Same, Raisers, Kinds, Hows
  <2>2. QED
    BY <1>9, <2>1
<1>10. CASE Send = EmailSend /\ msg.adapter = "email"
  <2>1. Fact("email")
    BY <1>10 DEF EmailSend, Reacts, Same, Raisers, Kinds, Hows
  <2>2. QED
    BY <1>10, <2>1
<1>11. CASE Send = MochatSend /\ msg.adapter = "mochat"
  <2>1. Fact("mochat")
    BY <1>11 DEF MochatSend, Reacts, Same, Raisers, Kinds, Hows
  <2>2. QED
    BY <1>11, <2>1
<1>12. CASE Send = WhatsAppSend /\ msg.adapter = "whatsapp"
  <2>1. Fact("whatsapp")
    BY <1>12 DEF WhatsAppSend, Reacts, Same, Raisers, Kinds, Hows
  <2>2. QED
    BY <1>12, <2>1
<1>13. QED
  BY <1>1, <1>2, <1>3, <1>4, <1>5, <1>6, <1>7, <1>8, <1>9, <1>10, <1>11, <1>12, SendOf

\* The pieces a message is made of.
LEMMA Pieces ==
    ASSUME SendTypes
    PROVE  /\ Medias \in Seq(Part) /\ Len(Medias) = msg.media
           /\ \A i \in 1 .. Len(Medias) : Medias[i] = Media(i)
           /\ Texts \in Seq(Part) /\ Len(Texts) = msg.texts
           /\ \A i \in 1 .. Len(Texts) : Texts[i] = Chunk(i)
           /\ Text \in Seq(Part) /\ Len(Text) \in {0, 1} /\ (msg.texts = 0 => Len(Text) = 0)
           /\ \A i \in 1 .. Len(Text) : i = 1 /\ Text[i] = Chunk(i)
           /\ <<Chunk(1)>> \in Seq(Part) /\ Len(<<Chunk(1)>>) = 1 /\ <<Chunk(1)>>[1] = Chunk(1)
<1>1. msg.media \in Nat /\ msg.texts \in Nat
  BY DEF SendTypes
<1>2. \A i \in Nat : Media(i) \in Part /\ Chunk(i) \in Part
  BY DEF Media, Chunk, Part
<1>3. Medias \in Seq(Part) /\ Len(Medias) = msg.media /\ \A i \in 1 .. Len(Medias) : Medias[i] = Media(i)
  BY <1>1, <1>2 DEF Medias
<1>4. Texts \in Seq(Part) /\ Len(Texts) = msg.texts /\ \A i \in 1 .. Len(Texts) : Texts[i] = Chunk(i)
  BY <1>1, <1>2 DEF Texts
<1>5. <<Chunk(1)>> \in Seq(Part) /\ Len(<<Chunk(1)>>) = 1 /\ <<Chunk(1)>>[1] = Chunk(1)
  BY <1>2
<1>6. <<>> \in Seq(Part) /\ Len(<<>>) = 0
  BY EmptySeq
<1>7. Text \in Seq(Part) /\ Len(Text) \in {0, 1} /\ (msg.texts = 0 => Len(Text) = 0)
  BY <1>1, <1>5, <1>6 DEF Text
<1>8. \A i \in 1 .. Len(Text) : i = 1 /\ Text[i] = Chunk(i)
  <2>1. CASE msg.texts > 0
    <3>1. Text = <<Chunk(1)>>
      BY <2>1 DEF Text
    <3>2. QED
      BY <3>1, <1>5
  <2>2. CASE ~ (msg.texts > 0)
    BY <2>2, <1>6 DEF Text
  <2>3. QED
    BY <2>1, <2>2
<1>9. QED
  BY <1>3, <1>4, <1>5, <1>7, <1>8

\* The three kinds of parts.
LEMMA PartFields ==
    ASSUME NEW i
    PROVE  /\ Media(i).kind = "media" /\ Media(i).n = i
           /\ Chunk(i).kind = "text" /\ Chunk(i).n = i
           /\ Note(i).kind = "note" /\ Note(i).n = i
BY DEF Media, Chunk, Note

\* A list of parts is made of attachments and chunks.
PartsIn(q) ==
    /\ q \in Seq(Part)
    /\ \A i \in 1 .. Len(q) : \/ q[i].kind = "media" /\ q[i].n \in 1 .. msg.media
                              \/ q[i].kind = "text" /\ q[i].n > 0 /\ q[i] = Chunk(q[i].n)

\* The attachments come first; the chunks follow one another.
InOrder(q) ==
    /\ \A m \in 1 .. msg.media : m <= Len(q) /\ q[m] = Media(m)
    /\ \A i \in 1 .. Len(q) : q[i].kind = "text" /\ q[i].n > 1 => i > 1 /\ q[i - 1] = Chunk(q[i].n - 1)
    /\ msg.texts = 0 => Len(q) = msg.media

\* Attachments, then a text that is split or is not.
LEMMA MediaFirst ==
    ASSUME SendTypes, NEW x \in {Texts, Text}
    PROVE  PartsIn(Medias \o x) /\ InOrder(Medias \o x)
<1>1. PICK q : q = Medias \o x
  OBVIOUS
<1>2. /\ Medias \in Seq(Part) /\ Len(Medias) = msg.media /\ \A i \in 1 .. Len(Medias) : Medias[i] = Media(i)
      /\ x \in Seq(Part) /\ \A i \in 1 .. Len(x) : x[i] = Chunk(i)
      /\ msg.texts = 0 => Len(x) = 0
  BY Pieces
<1>3. msg.media \in Nat /\ Len(x) \in Nat
  BY <1>2, LenProperties DEF SendTypes
<1>4. /\ q \in Seq(Part) /\ Len(q) = msg.media + Len(x)
      /\ \A i \in 1 .. Len(q) : q[i] = IF i <= msg.media THEN Medias[i] ELSE x[i - msg.media]
  BY <1>1, <1>2, ConcatProperties
<1>5. ASSUME NEW i \in 1 .. Len(q)
      PROVE  \/ i <= msg.media /\ i \in 1 .. msg.media /\ q[i] = Media(i)
             \/ i > msg.media /\ i - msg.media \in 1 .. Len(x) /\ q[i] = Chunk(i - msg.media)
  <2>1. CASE i <= msg.media
    <3>1. i \in 1 .. Len(Medias)
      BY <1>2, <1>3, <2>1
    <3>2. QED
      BY <1>2, <1>4, <2>1, <3>1
  <2>2. CASE ~ (i <= msg.media)
    <3>1. i - msg.media \in 1 .. Len(x) /\ i > msg.media
      BY <1>3, <1>4, <2>2
    <3>2. QED
      BY <1>2, <1>4, <2>2, <3>1
  <2>3. QED
    BY <2>1, <2>2
<1>6. ASSUME NEW i \in 1 .. Len(q)
      PROVE  \/ q[i].kind = "media" /\ q[i].n \in 1 .. msg.media
             \/ q[i].kind = "text" /\ q[i].n > 0 /\ q[i] = Chunk(q[i].n)
  <2>1. CASE q[i] = Media(i) /\ i \in 1 .. msg.media
    BY <2>1, PartFields
  <2>2. CASE q[i] = Chunk(i - msg.media) /\ i - msg.media \in 1 .. Len(x)
    <3>1. q[i].n = i - msg.media /\ q[i].kind = "text"
      BY <2>2, PartFields
    <3>2. QED
      BY <2>2, <3>1
  <2>3. QED
    BY <1>5, <2>1, <2>2
<1>7. PartsIn(q)
  BY <1>4, <1>6 DEF PartsIn
<1>8. ASSUME NEW m \in 1 .. msg.media
      PROVE  m <= Len(q) /\ q[m] = Media(m)
  <2>1. m \in 1 .. Len(q) /\ m <= Len(q) /\ ~ (m > msg.media)
    BY <1>3, <1>4
  <2>2. QED
    BY <1>5, <2>1
<1>9. ASSUME NEW i \in 1 .. Len(q), q[i].kind = "text", q[i].n > 1
      PROVE  i > 1 /\ q[i - 1] = Chunk(q[i].n - 1)
  <2>1. q[i] = Chunk(i - msg.media) /\ i - msg.media \in 1 .. Len(x)
    <3>1. q[i] # Media(i)
      BY <1>9, PartFields
    <3>2. QED
      BY <1>5, <3>1
  <2>2. q[i].n = i - msg.media
    BY <2>1, PartFields
  <2>3. i - 1 \in 1 .. Len(q) /\ i > 1 /\ i - 1 > msg.media /\ (i - 1) - msg.media = q[i].n - 1
    <3>1. i - msg.media > 1
      BY <1>9, <2>2
    <3>2. i - 1 \in 1 .. Len(q) /\ i > 1 /\ i - 1 > msg.media /\ (i - 1) - msg.media = (i - msg.media) - 1
      BY <1>3, <1>4, <3>1
    <3>3. QED
      BY <2>2, <3>2
  <2>4. q[i - 1] = Chunk((i - 1) - msg.media)
    BY <1>3, <1>5, <2>3
  <2>5. QED
    BY <2>3, <2>4
<1>10. InOrder(q)
  <2>1. msg.texts = 0 => Len(q) = msg.media
    BY <1>2, <1>3, <1>4
  <2>2. QED
    BY <1>8, <1>9, <2>1 DEF InOrder
<1>11. QED
  BY <1>1, <1>7, <1>10

\* The text, and what comes after it if anything does.
LEMMA TextFirst ==
    ASSUME SendTypes
    PROVE  PartsIn(Text) /\ PartsIn(<<Chunk(1)>>) /\ PartsIn(Text \o Medias)
<1>1. PICK q : q = Text \o Medias
  OBVIOUS
<1>2. /\ Medias \in Seq(Part) /\ Len(Medias) = msg.media /\ \A i \in 1 .. Len(Medias) : Medias[i] = Media(i)
      /\ Text \in Seq(Part) /\ \A i \in 1 .. Len(Text) : i = 1 /\ Text[i] = Chunk(i)
      /\ <<Chunk(1)>> \in Seq(Part) /\ Len(<<Chunk(1)>>) = 1 /\ <<Chunk(1)>>[1] = Chunk(1)
  BY Pieces
<1>3. msg.media \in Nat /\ Len(Text) \in Nat
  BY <1>2, LenProperties DEF SendTypes
<1>4. /\ q \in Seq(Part) /\ Len(q) = Len(Text) + msg.media
      /\ \A i \in 1 .. Len(q) : q[i] = IF i <= Len(Text) THEN Text[i] ELSE Medias[i - Len(Text)]
  BY <1>1, <1>2, ConcatProperties
<1>5. ASSUME NEW i \in 1 .. Len(q)
      PROVE  \/ q[i] = Chunk(1)
             \/ i - Len(Text) \in 1 .. msg.media /\ q[i] = Media(i - Len(Text))
  <2>1. CASE i <= Len(Text)
    <3>1. i \in 1 .. Len(Text)
      BY <1>3, <2>1
    <3>2. QED
      BY <1>2, <1>4, <2>1, <3>1
  <2>2. CASE ~ (i <= Len(Text))
    <3>1. i - Len(Text) \in 1 .. msg.media
      BY <1>3, <1>4, <2>2
    <3>2. QED
      BY <1>2, <1>4, <2>2, <3>1
  <2>3. QED
    BY <2>1, <2>2
<1>6. PartsIn(q)
  <2>1. ASSUME NEW i \in 1 .. Len(q)
        PROVE  \/ q[i].kind = "media" /\ q[i].n \in 1 .. msg.media
               \/ q[i].kind = "text" /\ q[i].n > 0 /\ q[i] = Chunk(q[i].n)
    BY <1>5, PartFields
  <2>2. QED
    BY <1>4, <2>1 DEF PartsIn
<1>7. PartsIn(Text)
  <2>1. \A i \in 1 .. Len(Text) : Text[i].kind = "text" /\ Text[i].n > 0 /\ Text[i] = Chunk(Text[i].n)
    BY <1>2, PartFields
  <2>2. QED
    BY <1>2, <2>1 DEF PartsIn
<1>8. PartsIn(<<Chunk(1)>>)
  <2>1. PICK o : o = <<Chunk(1)>>
    OBVIOUS
  <2>2. \A i \in 1 .. Len(o) : i = 1 /\ o[i] = Chunk(1)
    BY <1>2, <2>1
  <2>3. \A i \in 1 .. Len(o) : o[i].kind = "text" /\ o[i].n > 0 /\ o[i] = Chunk(o[i].n)
    BY <2>2, PartFields
  <2>4. PartsIn(o)
    BY <1>2, <2>1, <2>3 DEF PartsIn
  <2>5. QED
    BY <2>1, <2>4
<1>9. QED
  BY <1>1, <1>6, <1>7, <1>8

\* The parts of the channels.
LEMMA PartsOf ==
    ASSUME SendAssumption, SendTypes
    PROVE  PartsIn(Parts) /\ (msg.adapter \in {"telegram", "qq", "discord", "matrix"} => InOrder(Parts))
<1>1. CASE Send.parts \in {Medias \o Texts, Medias \o Text}
  BY <1>1, MediaFirst DEF Parts
<1>2. CASE Send.parts \in {Text, <<Chunk(1)>>, Text \o Medias} /\ msg.adapter \notin {"telegram", "qq", "discord", "matrix"}
  BY <1>2, TextFirst DEF Parts
<1>3. QED
  BY <1>1, <1>2, SendOf DEF TelegramSend, WeixinSend, QQSend, MatrixSend, DiscordSend, FeishuSend, DingtalkSend,
     SlackSend, WecomSend, EmailSend, MochatSend, WhatsAppSend

-----------------------------------------------------------------------------
(* What the user sees. *)

\* The marks of failed attachments are notes.
LEMMA Marks ==
    ASSUME SendTypes
    PROVE  /\ SetToSeq({Note(i) : i \in marks}) \in Seq(Part)
           /\ \A i \in 1 .. Len(SetToSeq({Note(j) : j \in marks})) :
                 SetToSeq({Note(j) : j \in marks})[i].kind = "note"
<1>1. PICK S : S = {Note(i) : i \in marks}
  OBVIOUS
<1>2. IsFiniteSet(marks)
  <2>1. 1 \in Int /\ msg.media \in Int /\ marks \in SUBSET (1 .. msg.media)
    BY DEF SendTypes
  <2>2. IsFiniteSet(1 .. msg.media)
    BY <2>1, FS_Interval
  <2>3. QED
    BY <2>1, <2>2, FS_Subset
<1>3. IsFiniteSet(S)
  <2>1. [i \in marks |-> Note(i)] \in Surjection(marks, S)
    BY <1>1 DEF Surjection
  <2>2. QED
    BY <1>2, <2>1, FS_Surjection
<1>4. PICK n \in Nat : n = Cardinality(S)
  BY <1>3, FS_CardinalityType
<1>5. \E g \in [1 .. n -> S] : IsInjective(g)
  BY <1>3, <1>4, FS_CardinalityType DEF ExistsBijection, Bijection, Injection
<1>6. PICK q : q = SetToSeq(S)
  OBVIOUS
<1>7. q \in [1 .. n -> S]
  BY <1>4, <1>5, <1>6 DEF SetToSeq
<1>8. \A e \in S : e \in Part /\ e.kind = "note"
  <2>1. \A i \in marks : i \in Nat
    BY DEF SendTypes
  <2>2. \A i \in Nat : Note(i) \in Part
    BY DEF Note, Part
  <2>3. QED
    BY <1>1, <2>1, <2>2, PartFields
<1>9. q \in [1 .. n -> Part] /\ \A i \in 1 .. n : q[i].kind = "note"
  BY <1>7, <1>8
<1>10. q \in Seq(Part) /\ Len(q) = n
  BY <1>4, <1>9
<1>11. QED
  BY <1>1, <1>6, <1>9, <1>10

\* A part shows itself, unless it only carries marks.
LEMMA Showing ==
    ASSUME SendTypes, NEW p \in Part
    PROVE  /\ Shows(p) \in Seq(Part)
           /\ p.n # 0 => Contains(Shows(p), p)
           /\ p.n # 0 /\ msg.adapter # "matrix" => Shows(p) = <<p>>
           /\ p.n = 0 => \A i \in 1 .. Len(Shows(p)) : Shows(p)[i].kind = "note"
<1>1. PICK q : q = SetToSeq({Note(i) : i \in marks})
  OBVIOUS
<1>2. q \in Seq(Part) /\ \A i \in 1 .. Len(q) : q[i].kind = "note"
  BY <1>1, Marks
<1>3. /\ <<>> \in Seq(Part) /\ <<p>> \in Seq(Part) /\ Len(<<p>>) = 1 /\ <<p>>[1] = p
      /\ <<p>> \o <<>> = <<p>> /\ <<>> \o q = q
  BY <1>2, ConcatEmptySeq
<1>4. CASE p.n = 0
  <2>1. Shows(p) = q
    BY <1>1, <1>3, <1>4 DEF Shows
  <2>2. QED
    BY <1>2, <1>4, <2>1
<1>5. CASE p.n # 0 /\ Shows(p) = <<p>>
  BY <1>3, <1>5 DEF Contains
<1>6. CASE p.n # 0 /\ Shows(p) = <<p>> \o q /\ msg.adapter = "matrix"
  <2>1. PICK r : r = <<p>> \o q
    OBVIOUS
  <2>2. r \in Seq(Part) /\ Len(r) = 1 + Len(q) /\ Len(q) \in Nat /\ r[1] = p
    BY <1>2, <1>3, <2>1, ConcatProperties, LenProperties
  <2>3. Contains(r, p)
    BY <2>2 DEF Contains
  <2>4. QED
    BY <1>6, <2>1, <2>2, <2>3
<1>7. QED
  <2>1. ASSUME p.n # 0
        PROVE  Shows(p) = <<p>> \/ (Shows(p) = <<p>> \o q /\ msg.adapter = "matrix")
    BY <1>1, <1>3, <2>1 DEF Shows
  <2>2. QED
    BY <1>4, <1>5, <1>6, <2>1

\* What was seen stays seen.
LEMMA Appending ==
    ASSUME SendTypes, NEW x \in Seq(Part), shown' = shown \o x
    PROVE  /\ shown' \in Seq(Part) /\ Len(shown') = Len(shown) + Len(x) /\ Len(shown) \in Nat /\ Len(x) \in Nat
           /\ \A i \in 1 .. Len(shown) : shown'[i] = shown[i]
           /\ \A i \in 1 .. Len(x) : shown'[Len(shown) + i] = x[i]
           /\ \A q : Seen(q) => Seen(q)'
           /\ \A q : Contains(x, q) => Seen(q)'
<1>1. PICK l, k, s : l = Len(shown) /\ k = Len(x) /\ s = shown'
  OBVIOUS
<1>2. shown \in Seq(Part)
  BY DEF SendTypes
<1>3. l \in Nat /\ k \in Nat
  BY <1>1, <1>2, LenProperties
<1>4. /\ s \in Seq(Part) /\ Len(s) = l + k
      /\ \A i \in 1 .. l + k : s[i] = IF i <= l THEN shown[i] ELSE x[i - l]
  BY <1>1, <1>2, ConcatProperties
<1>5. \A i \in 1 .. l : s[i] = shown[i] /\ i \in 1 .. Len(s)
  BY <1>3, <1>4
<1>6. ASSUME NEW i \in 1 .. k
      PROVE  s[l + i] = x[i] /\ l + i \in 1 .. Len(s)
  <2>1. l + i \in 1 .. l + k /\ ~ (l + i <= l) /\ (l + i) - l = i
    BY <1>3
  <2>2. QED
    BY <1>4, <2>1
<1>7. \A q : Seen(q) => Seen(q)'
  BY <1>1, <1>5 DEF Seen, Contains
<1>8. \A q : Contains(x, q) => Seen(q)'
  BY <1>1, <1>6 DEF Seen, Contains
<1>9. QED
  BY <1>1, <1>3, <1>4, <1>5, <1>6, <1>7, <1>8

\* Where an attempt stands at a part.
LEMMA AtWork ==
    ASSUME SendAssumption, SendInv, Busy
    PROVE  /\ outcome = "sending" /\ Begun /\ Head(todo) \in Part /\ Head(todo).kind \in Kinds
           /\ Parts \in Seq(Part) /\ Len(Parts) \in Nat /\ Len(todo) \in Nat \ {0} /\ Place \in Nat
           /\ Place + 1 \in 1 .. Len(Parts)
           /\ \/ Listed /\ \/ Head(todo) = Parts[Place + 1] /\ Head(todo).n > 0 /\ Head(todo).kind # "note"
                           \/ Parts[Place + 1].kind = "media" /\ Head(todo) = Note(Parts[Place + 1].n)
                                /\ Parts[Place + 1].n > 0
              \/ OnlyMarks /\ Head(todo) = Chunk(0) /\ Parts[Place + 1].kind = "media" /\ Len(todo) = 1
           /\ Head(todo).kind = "media" => Head(todo).n \in 1 .. msg.media
<1>1. outcome = "sending" /\ todo # <<>> /\ Head(todo).kind # "begin" /\ SendTypes /\ Shape
  BY DEF Busy, SendInv
<1>2. todo # <<BeginPart>>
  BY <1>1 DEF BeginPart
<1>3. Begun /\ (Listed \/ OnlyMarks)
  BY <1>1, <1>2 DEF Shape
<1>4. PICK p, l, k, P : p = Head(todo) /\ l = Len(todo) /\ P = Parts /\ k = Len(P)
  OBVIOUS
<1>5. todo \in Seq(Part) /\ l \in Nat \ {0} /\ p = todo[1] /\ p \in Part /\ 1 \in 1 .. l
  BY <1>1, <1>4, EmptySeq, HeadTailProperties DEF SendTypes
<1>6. p.kind \in Kinds
  BY <1>1, <1>4, <1>5 DEF Part, Kinds
<1>7. PartsIn(P) /\ (msg.adapter \in {"discord", "matrix"} => InOrder(P))
  BY <1>1, <1>4, PartsOf
<1>8. P \in Seq(Part) /\ k \in Nat
  BY <1>4, <1>7, LenProperties DEF PartsIn
<1>9. \A i \in 1 .. k : \/ P[i].kind = "media" /\ P[i].n \in 1 .. msg.media
                        \/ P[i].kind = "text" /\ P[i].n > 0 /\ P[i] = Chunk(P[i].n)
  BY <1>4, <1>7 DEF PartsIn
<1>10. Place = k - l
  BY <1>4 DEF Place
<1>11. CASE Listed
  <2>1. l <= k
    BY <1>4, <1>11 DEF Listed
  <2>2. Place \in Nat /\ Place + 1 \in 1 .. k
    BY <1>5, <1>8, <1>10, <2>1
  <2>3. p = P[Place + 1] \/ (P[Place + 1].kind = "media" /\ p = Note(P[Place + 1].n))
    BY <1>4, <1>5, <1>11 DEF Listed
  <2>4. /\ p = P[Place + 1] => p.n > 0 /\ p.kind # "note" /\ (p.kind = "media" => p.n \in 1 .. msg.media)
        /\ P[Place + 1].kind = "media" => P[Place + 1].n > 0
    BY <1>9, <2>2
  <2>5. p = Note(P[Place + 1].n) => p.kind = "note"
    BY PartFields
  <2>6. QED
    BY <1>1, <1>3, <1>4, <1>5, <1>6, <1>8, <1>11, <2>2, <2>3, <2>4, <2>5
<1>12. CASE OnlyMarks
  <2>1. todo = <<Chunk(0)>> /\ msg.texts = 0 /\ msg.media > 0 /\ msg.adapter \in {"matrix", "discord"}
    BY <1>12 DEF OnlyMarks
  <2>2. l = 1 /\ p = Chunk(0)
    BY <1>4, <1>5, <2>1
  <2>3. InOrder(P)
    BY <1>7, <2>1
  <2>4. k = msg.media /\ P[k] = Media(k)
    BY <1>1, <1>4, <2>1, <2>3 DEF InOrder, SendTypes
  <2>5. Place + 1 = k /\ Place \in Nat /\ Place + 1 \in 1 .. k
    BY <1>8, <1>10, <2>1, <2>2, <2>4
  <2>6. P[Place + 1].kind = "media" /\ p.kind = "text"
    BY <2>2, <2>4, <2>5, PartFields
  <2>7. QED
    BY <1>1, <1>3, <1>4, <1>5, <1>6, <1>8, <1>12, <2>2, <2>5, <2>6
<1>13. QED
  BY <1>3, <1>11, <1>12

\* While a part is at hand, the ones before it were seen.
LEMMA SeenSoFar ==
    ASSUME SendAssumption, SendInv, Busy
    PROVE  /\ msg.adapter \in Raisers \cup {"discord"} =>
                 \A i \in 1 .. Place : Parts[i].kind = "text" => Seen(Parts[i])
           /\ msg.adapter \in {"telegram", "qq"} =>
                 \A i \in 1 .. Place : Parts[i].kind = "media" => MediaIsTold(Parts[i].n)
<1>1. Begun /\ outcome # "failed" /\ todo # <<>> /\ Told
  BY AtWork DEF Busy, SendInv
<1>2. QED
  BY <1>1 DEF Told

\* The next chunk is shown after the one before it.
LEMMA Follows ==
    ASSUME SendAssumption, SendInv, Busy, msg' = msg, shown' = shown \o Shows(Head(todo))
    PROVE  ChunksFollow'
<1>1. PICK p, x, l : p = Head(todo) /\ x = Shows(p) /\ l = Len(shown)
  OBVIOUS
<1>2. SendTypes /\ ChunksFollow
  BY DEF SendInv
<1>3. p \in Part
  BY <1>1, AtWork
<1>4. /\ x \in Seq(Part) /\ (p.n # 0 /\ msg.adapter # "matrix" => x = <<p>>)
      /\ p.n = 0 => \A i \in 1 .. Len(x) : x[i].kind = "note"
  BY <1>1, <1>2, <1>3, Showing
<1>5. /\ shown' \in Seq(Part) /\ Len(shown') = l + Len(x) /\ l \in Nat /\ Len(x) \in Nat
      /\ \A i \in 1 .. l : shown'[i] = shown[i]
      /\ \A i \in 1 .. Len(x) : shown'[l + i] = x[i]
  BY <1>1, <1>2, <1>4, Appending
<1>6. DOMAIN shown' = 1 .. l + Len(x) /\ DOMAIN shown = 1 .. l
  BY <1>1, <1>2, <1>5, LenProperties DEF SendTypes
<1>7. SUFFICES ASSUME msg.adapter \in {"telegram", "discord"}, NEW i \in 1 .. l + Len(x),
                      shown'[i].kind = "text", shown'[i].n > 1
               PROVE  \E j \in 1 .. (i - 1) : shown'[j] = Chunk(shown'[i].n - 1)
  BY <1>6 DEF ChunksFollow
<1>8. CASE i \in 1 .. l
  <2>1. shown'[i] = shown[i] /\ i \in DOMAIN shown
    BY <1>5, <1>6, <1>8
  <2>2. PICK j \in 1 .. (i - 1) : shown[j] = Chunk(shown[i].n - 1)
    BY <1>2, <1>7, <2>1 DEF ChunksFollow
  <2>3. j \in 1 .. l
    BY <1>5, <1>8, <2>2
  <2>4. QED
    BY <1>5, <2>1, <2>2, <2>3
<1>9. CASE i \notin 1 .. l
  <2>1. PICK e : e = i - l
    OBVIOUS
  <2>2. e \in 1 .. Len(x) /\ i = l + e
    BY <1>5, <1>9, <2>1
  <2>3. shown'[i] = x[e]
    BY <1>5, <2>2
  <2>4. p.n # 0 /\ x = <<p>> /\ shown'[i] = p /\ i = l + 1
    <3>1. x[e].kind # "note"
      BY <1>7, <2>3
    <3>2. p.n # 0
      BY <1>4, <2>2, <3>1
    <3>3. x = <<p>>
      BY <1>4, <1>7, <3>2
    <3>4. Len(x) = 1 /\ x[1] = p
      BY <3>3
    <3>5. e = 1
      BY <2>2, <3>4
    <3>6. x[e] = p /\ i = l + 1
      BY <2>2, <3>4, <3>5
    <3>7. QED
      BY <2>3, <3>2, <3>3, <3>6
  <2>5. PICK k : k = Place
    OBVIOUS
  <2>6. Listed /\ p = Parts[k + 1] /\ k + 1 \in 1 .. Len(Parts) /\ k \in Nat
    <3>1. p.kind = "text" /\ p.n # 0
      BY <1>7, <2>4
    <3>2. p # Chunk(0) /\ \A m : p # Note(m)
      BY <3>1, PartFields
    <3>3. QED
      BY <1>1, <2>5, <3>2, AtWork
  <2>7. InOrder(Parts)
    BY <1>2, <1>7, PartsOf
  <2>8. k + 1 > 1 /\ Parts[(k + 1) - 1] = Chunk(p.n - 1)
    BY <1>7, <2>4, <2>6, <2>7 DEF InOrder
  <2>9. k \in 1 .. k /\ Parts[k] = Chunk(p.n - 1)
    BY <2>6, <2>8
  <2>10. Seen(Parts[k])
    <3>1. Parts[k].kind = "text"
      BY <2>9, PartFields
    <3>2. msg.adapter \in Raisers \cup {"discord"}
      BY <1>7 DEF Raisers
    <3>3. QED
      BY <2>5, <2>9, <3>1, <3>2, SeenSoFar
  <2>11. PICK j \in 1 .. l : shown[j] = Chunk(p.n - 1)
    BY <1>1, <2>9, <2>10 DEF Seen, Contains
  <2>12. j \in 1 .. (i - 1) /\ shown'[j] = shown[j]
    BY <1>5, <2>4, <2>11
  <2>13. QED
    BY <2>4, <2>11, <2>12
<1>10. QED
  BY <1>8, <1>9

-----------------------------------------------------------------------------
(* What is left to send after a part. *)

\* The message stays, and what the adapter does with it.
LEMMA SameMessage ==
    ASSUME msg' = msg
    PROVE  Send' = Send /\ Parts' = Parts /\ \A n : Price(n)' = Price(n)
BY DEF Send, Parts, Price, TelegramSend, WeixinSend, QQSend, MatrixSend, DiscordSend, FeishuSend, DingtalkSend,
       SlackSend, WecomSend, EmailSend, MochatSend, WhatsAppSend, Medias, Texts, Text

\* The attempt goes on with the next part.
LEMMA TailStep ==
    ASSUME SendAssumption, SendInv, Busy, msg' = msg, attempt' = attempt, todo' = Tail(todo)
    PROVE  /\ todo' \in Seq(Part) /\ Begun' /\ Listed' /\ Place' = Place + 1
           /\ todo' # <<>> => Head(todo').kind \in {"media", "text"}
<1>1. PICK l, k, P, t : l = Len(todo) /\ P = Parts /\ k = Len(P) /\ t = todo'
  OBVIOUS
<1>2. Parts' = P
  BY <1>1, SameMessage
<1>3. /\ Begun /\ l \in Nat \ {0} /\ k \in Nat /\ k - l \in Nat
      /\ \/ Listed
         \/ l = 1
  BY <1>1, AtWork DEF Place
<1>4. todo \in Seq(Part) /\ todo # <<>>
  BY DEF Busy, SendInv, SendTypes
<1>5. t \in Seq(Part) /\ Len(t) = l - 1 /\ \A i \in 1 .. Len(t) : t[i] = todo[i + 1]
  BY <1>1, <1>4, HeadTailProperties
<1>6. Place = k - l /\ Place' = k - (l - 1) /\ k - (l - 1) = (k - l) + 1
  BY <1>1, <1>2, <1>3, <1>5 DEF Place
<1>7. ASSUME NEW i \in 1 .. l - 1
      PROVE  t[i] = P[(k - (l - 1)) + i] /\ (k - (l - 1)) + i \in 1 .. k
  <2>1. Listed
    BY <1>3
  <2>2. i + 1 \in 1 .. l /\ i + 1 # 1 /\ (k - l) + (i + 1) = (k - (l - 1)) + i /\ (k - (l - 1)) + i \in 1 .. k
    BY <1>3
  <2>3. todo[i + 1] = P[(k - l) + (i + 1)]
    BY <1>1, <1>6, <2>1, <2>2 DEF Listed
  <2>4. QED
    BY <1>3, <1>5, <2>2, <2>3
<1>8. Listed'
  <2>1. l - 1 <= k
    BY <1>3
  <2>2. QED
    BY <1>1, <1>2, <1>5, <1>6, <1>7, <2>1 DEF Listed
<1>9. ASSUME t # <<>>
      PROVE  Head(t).kind \in {"media", "text"}
  <2>1. Head(t) = t[1] /\ 1 \in 1 .. l - 1
    BY <1>3, <1>5, <1>9, EmptySeq
  <2>2. t[1] = P[(k - (l - 1)) + 1] /\ (k - (l - 1)) + 1 \in 1 .. k
    BY <1>7, <2>1
  <2>3. PartsIn(P)
    BY <1>1, PartsOf DEF SendInv
  <2>4. QED
    BY <1>1, <2>1, <2>2, <2>3 DEF PartsIn
<1>10. Begun'
  <2>1. t # <<BeginPart>>
    <3>1. CASE t = <<>>
      BY <3>1
    <3>2. CASE t # <<>>
      BY <1>9, <3>2 DEF BeginPart
    <3>3. QED
      BY <3>1, <3>2
  <2>2. QED
    BY <1>1, <1>3, <2>1 DEF Begun
<1>11. QED
  BY <1>1, <1>5, <1>6, <1>8, <1>9, <1>10

\* A note takes the place of an attachment.
LEMMA NoteStep ==
    ASSUME SendAssumption, SendInv, Busy, msg' = msg, attempt' = attempt,
           Head(todo).kind = "media", todo' = <<Note(Head(todo).n)>> \o Tail(todo)
    PROVE  /\ todo' \in Seq(Part) /\ Begun' /\ Listed' /\ Place' = Place
           /\ todo' # <<>> /\ Head(todo').kind = "note"
<1>1. PICK l, k, P, t, e : l = Len(todo) /\ P = Parts /\ k = Len(P) /\ t = todo' /\ e = Note(Head(todo).n)
  OBVIOUS
<1>2. Parts' = P
  BY <1>1, SameMessage
<1>3. /\ Begun /\ l \in Nat \ {0} /\ k \in Nat /\ k - l \in Nat /\ (k - l) + 1 \in 1 .. k
      /\ Listed /\ Head(todo) = P[(k - l) + 1] /\ e \in Part /\ e.kind = "note"
  <2>1. \A n : Chunk(n).kind # "media" /\ Note(n).kind # "media"
    BY PartFields
  <2>2. Head(todo).n \in Nat
    BY AtWork DEF Part
  <2>3. e \in Part /\ e.kind = "note"
    BY <1>1, <2>2 DEF Note, Part
  <2>4. Head(todo) # Chunk(0) /\ \A n : Head(todo) # Note(n)
    BY <2>1
  <2>5. QED
    BY <1>1, <2>3, <2>4, AtWork DEF Place
<1>4. todo \in Seq(Part) /\ todo # <<>>
  BY DEF Busy, SendInv, SendTypes
<1>5. PICK r : r = Tail(todo)
  OBVIOUS
<1>6. r \in Seq(Part) /\ Len(r) = l - 1 /\ \A i \in 1 .. Len(r) : r[i] = todo[i + 1]
  BY <1>1, <1>4, <1>5, HeadTailProperties
<1>7. <<e>> \in Seq(Part) /\ Len(<<e>>) = 1 /\ <<e>>[1] = e
  BY <1>3
<1>8. t \in Seq(Part) /\ Len(t) = 1 + (l - 1) /\ \A i \in 1 .. 1 + (l - 1) : t[i] = IF i <= 1 THEN <<e>>[i] ELSE r[i - 1]
  BY <1>1, <1>5, <1>6, <1>7, ConcatProperties
<1>9. Len(t) = l /\ t[1] = e
  <2>1. 1 + (l - 1) = l /\ 1 \in 1 .. 1 + (l - 1) /\ 1 <= 1
    BY <1>3
  <2>2. QED
    BY <1>7, <1>8, <2>1
<1>10. ASSUME NEW i \in 1 .. l, i # 1
       PROVE  t[i] = todo[i]
  <2>1. i \in 1 .. 1 + (l - 1) /\ ~ (i <= 1) /\ i - 1 \in 1 .. Len(r) /\ (i - 1) + 1 = i
    BY <1>3, <1>6, <1>10
  <2>2. QED
    BY <1>6, <1>8, <2>1
<1>11. Place' = Place /\ Place = k - l
  BY <1>1, <1>2, <1>9 DEF Place
<1>12. Listed'
  <2>1. Len(t) <= k
    BY <1>3, <1>9
  <2>2. P[(k - l) + 1].kind = "media" /\ t[1] = Note(P[(k - l) + 1].n)
    BY <1>1, <1>3, <1>9
  <2>3. \A i \in 1 .. l : i # 1 => t[i] = P[(k - l) + i]
    BY <1>1, <1>3, <1>10, <1>11 DEF Listed
  <2>4. QED
    BY <1>1, <1>2, <1>9, <1>11, <2>1, <2>2, <2>3 DEF Listed
<1>13. t # <<>> /\ Head(t) = e
  <2>1. t # <<>>
    BY <1>3, <1>9, EmptySeq
  <2>2. QED
    BY <1>8, <1>9, <2>1
<1>14. Begun'
  <2>1. t # <<BeginPart>>
    BY <1>3, <1>13 DEF BeginPart
  <2>2. QED
    BY <1>1, <1>3, <2>1 DEF Begun
<1>15. QED
  BY <1>1, <1>3, <1>8, <1>11, <1>12, <1>13, <1>14

\* The next part, or the text that carries the marks.
LEMMA RestStep ==
    ASSUME SendAssumption, SendInv, Busy, msg' = msg, attempt' = attempt, NEW S, todo' = Rest(S)
    PROVE  \/ todo' = Tail(todo)
           \/ /\ todo' \in Seq(Part) /\ Begun' /\ OnlyMarks' /\ Place' = Place
              /\ todo' # <<>> /\ Head(todo') = Chunk(0)
              /\ Head(todo).kind = "media" /\ Parts[Place + 1].kind = "media"
<1>1. SUFFICES ASSUME todo' # Tail(todo)
               PROVE  /\ todo' \in Seq(Part) /\ Begun' /\ OnlyMarks' /\ Place' = Place
                      /\ todo' # <<>> /\ Head(todo') = Chunk(0)
                      /\ Head(todo).kind = "media" /\ Parts[Place + 1].kind = "media"
  OBVIOUS
<1>2. /\ Tail(todo) = <<>> /\ Head(todo).kind = "media" /\ msg.texts = 0 /\ msg.adapter \in {"matrix", "discord"}
      /\ todo' = <<Chunk(0)>>
  BY <1>1 DEF Rest
<1>3. PICK e : e = Chunk(0)
  OBVIOUS
<1>4. e \in Part /\ e.kind = "text"
  BY <1>3 DEF Chunk, Part
<1>5. <<e>> \in Seq(Part) /\ <<e>> # <<>> /\ Head(<<e>>) = e /\ Len(<<e>>) = 1
  BY <1>4
<1>6. Len(todo) = 1
  <2>1. todo \in Seq(Part) /\ todo # <<>>
    BY DEF Busy, SendInv, SendTypes
  <2>2. PICK r, l : r = Tail(todo) /\ l = Len(todo)
    OBVIOUS
  <2>3. Len(r) = l - 1 /\ l \in Nat
    BY <2>1, <2>2, HeadTailProperties, LenProperties
  <2>4. Len(r) = 0
    BY <1>2, <2>2, EmptySeq
  <2>5. QED
    BY <2>2, <2>3, <2>4
<1>7. Place' = Place
  BY <1>2, <1>3, <1>5, <1>6, SameMessage DEF Place
<1>8. Head(todo).n \in 1 .. msg.media /\ msg.media \in Nat
  BY <1>2, AtWork DEF SendInv, SendTypes
<1>9. OnlyMarks'
  BY <1>2, <1>8 DEF OnlyMarks
<1>10. Begun'
  <2>1. <<e>> # <<BeginPart>>
    BY <1>4 DEF BeginPart
  <2>2. Begun
    BY AtWork
  <2>3. QED
    BY <1>2, <1>3, <2>1, <2>2 DEF Begun
<1>11. Parts[Place + 1].kind = "media"
  <2>1. CASE Head(todo) = Parts[Place + 1]
    BY <1>2, <2>1
  <2>2. CASE Head(todo) # Parts[Place + 1]
    BY <2>2, AtWork
  <2>3. QED
    BY <2>1, <2>2
<1>12. QED
  BY <1>2, <1>3, <1>5, <1>7, <1>9, <1>10, <1>11

\* The part that the attempt is through with was seen, too.
LEMMA ToldAfter ==
    ASSUME SendAssumption, SendInv, Busy, msg' = msg, \A p : Seen(p) => Seen(p)', NEW q, q = Parts[Place + 1],
           \/ Place' = Place
           \/ /\ Place' = Place + 1
              /\ msg.adapter \in Raisers \cup {"discord"} /\ q.kind = "text" => Seen(q)'
              /\ msg.adapter \in {"telegram", "qq"} /\ q.kind = "media" => MediaIsTold(q.n)'
    PROVE  Told'
<1>1. PICK k, P : k = Place /\ P = Parts
  OBVIOUS
<1>2. k \in Nat /\ Parts' = P /\ q = P[k + 1] /\ Place' \in {k, k + 1}
  BY <1>1, AtWork, SameMessage
<1>3. \A i \in 1 .. Place' : i \in 1 .. k \/ (i = k + 1 /\ Place' = k + 1)
  BY <1>2
<1>4. ASSUME msg.adapter \in Raisers \cup {"discord"}, NEW i \in 1 .. Place', P[i].kind = "text"
      PROVE  Seen(P[i])'
  <2>1. CASE i \in 1 .. k
    <3>1. Seen(P[i])
      BY <1>1, <1>4, <2>1, SeenSoFar
    <3>2. QED
      BY <1>2, <3>1
  <2>2. CASE i = k + 1 /\ Place' = k + 1
    <3>1. Place' # Place
      BY <1>1, <1>2, <2>2
    <3>2. QED
      BY <1>2, <1>4, <2>2, <3>1
  <2>3. QED
    BY <1>3, <2>1, <2>2
<1>5. ASSUME msg.adapter \in {"telegram", "qq"}, NEW i \in 1 .. Place', P[i].kind = "media"
      PROVE  MediaIsTold(P[i].n)'
  <2>1. CASE i \in 1 .. k
    <3>1. MediaIsTold(P[i].n)
      BY <1>1, <1>5, <2>1, SeenSoFar
    <3>2. QED
      BY <1>2, <3>1 DEF MediaIsTold
  <2>2. CASE i = k + 1 /\ Place' = k + 1
    <3>1. Place' # Place
      BY <1>1, <1>2, <2>2
    <3>2. QED
      BY <1>2, <1>5, <2>2, <3>1
  <2>3. QED
    BY <1>3, <2>1, <2>2
<1>6. QED
  BY <1>2, <1>4, <1>5 DEF Told

-----------------------------------------------------------------------------
(* The steps of an attempt. *)

\* The attempt goes on.
LEMMA GoesOnStep ==
    ASSUME SendAssumption, SendInv, Busy, msg' = msg, attempt' = attempt, outcome' = outcome, sign' = sign,
           SendTypes', ChunksFollow', Told', Begun', Listed' \/ OnlyMarks',
           tries' <= failed', tries' <= 2, todo' = <<>> => tries' = 0,
           todo' # <<>> => tries' < Send[Head(todo').kind].ways,
           msg.adapter \in Raisers => failed' >= Price(attempt - 1) + Spent'
    PROVE  SendInv'
<1>1. outcome = "sending" /\ Begun /\ Attempts /\ Signs
  BY AtWork DEF SendInv
<1>2. Shape'
  BY DEF Shape
<1>3. todo' # <<BeginPart>>
  BY DEF Begun
<1>4. Attempts'
  BY <1>1, <1>3 DEF Attempts
<1>5. Send' = Send /\ Price(attempt - 1)' = Price(attempt - 1)
  BY SameMessage
<1>6. Calls'
  BY <1>1, <1>3, <1>5 DEF Calls, Price
<1>7. Signs'
  BY <1>1 DEF Signs
<1>8. QED
  BY <1>2, <1>4, <1>6, <1>7 DEF SendInv

\* The exception ends the attempt.
LEMMA RaisesStep ==
    ASSUME SendAssumption, SendInv, Busy, msg' = msg, attempt' = attempt, Raises,
           tries' = 0, failed' \in Nat, shown' \in Seq(Part), marks' \subseteq 1 .. msg.media, ChunksFollow',
           msg.adapter # "discord", msg.adapter \in Raisers => failed' >= Price(attempt)
    PROVE  SendInv'
<1>1. /\ outcome = "sending" /\ attempt > 0 /\ msg.ready /\ SendTypes /\ Attempts /\ Signs
      /\ attempt \in Nat /\ SendMaxRetries \in Nat
  BY AtWork DEF SendInv, Begun, SendTypes, SendAssumption
<1>2. sign' \in {"off", sign} /\ (msg.adapter = "matrix" /\ ~ msg.progress => sign' = "off") /\ sign # "done"
  BY <1>1 DEF Raises, SignAtEnd, Signs
<1>3. \/ attempt >= SendMaxRetries /\ outcome' = "failed" /\ todo' = <<>>
      \/ attempt < SendMaxRetries /\ outcome' = "sending" /\ todo' = <<BeginPart>>
  BY <1>1 DEF Raises, BeginPart
<1>4. <<>> \in Seq(Part) /\ <<BeginPart>> \in Seq(Part) /\ <<BeginPart>> # <<>>
  BY EmptySeq DEF BeginPart, Part
<1>5. SendTypes'
  BY <1>1, <1>2, <1>3, <1>4 DEF SendTypes
<1>6. Shape'
  <2>1. CASE todo' = <<BeginPart>>
    BY <2>1 DEF Shape
  <2>2. CASE todo' = <<>>
    <3>1. Begun'
      BY <1>1, <1>4, <2>2 DEF Begun
    <3>2. Listed'
      <4>1. PICK k : k = Len(Parts)
        OBVIOUS
      <4>2. k \in Nat /\ Len(Parts)' = k /\ Len(<<>>) = 0
        BY <4>1, AtWork, SameMessage, EmptySeq
      <4>3. Len(todo') = 0
        BY <2>2, <4>2
      <4>4. QED
        BY <4>2, <4>3 DEF Listed
    <3>3. QED
      BY <3>1, <3>2 DEF Shape
  <2>3. QED
    BY <1>3, <2>1, <2>2
<1>7. Attempts'
  <2>1. attempt <= Most /\ (attempt < SendMaxRetries => attempt < Most)
    BY <1>1 DEF Attempts, Most
  <2>2. todo' = <<BeginPart>> => outcome' = "sending" /\ attempt < SendMaxRetries
    BY <1>3, <1>4
  <2>3. outcome' # "sending" => todo' = <<>> /\ outcome' = "failed" /\ attempt >= SendMaxRetries
    BY <1>3
  <2>4. Most' = Most
    BY DEF Most
  <2>5. QED
    BY <1>1, <2>1, <2>2, <2>3, <2>4 DEF Attempts
<1>8. Price(attempt)' = Price(attempt)
  BY DEF Price
<1>9. Calls'
  BY <1>1, <1>3, <1>4, <1>8 DEF Calls, Begun
<1>10. Told'
  BY <1>3 DEF Told, Begun
<1>11. Signs'
  BY <1>1, <1>2, <1>3 DEF Signs
<1>12. QED
  BY <1>5, <1>6, <1>7, <1>9, <1>10, <1>11 DEF SendInv

\* So many calls an attempt has cost when it raises.
LEMMA Cost ==
    ASSUME SendAssumption, SendInv, Busy
    PROVE  /\ Price(attempt) \in Nat /\ Price(attempt - 1) \in Nat /\ Spent \in Nat
           /\ Price(attempt) = Price(attempt - 1) + Price(1) /\ Price(1) \in {1, 2}
           /\ msg.adapter \in Raisers => failed >= Price(attempt - 1) + Spent
           /\ Spent = IF Head(todo).kind = "note" THEN 1 ELSE tries
<1>1. attempt \in Nat /\ attempt > 0 /\ tries \in Nat /\ outcome = "sending" /\ Begun /\ todo # <<>> /\ Calls
  BY AtWork DEF SendInv, SendTypes, Begun, Busy
<1>2. Price(attempt) \in Nat /\ Price(attempt - 1) \in Nat /\ Price(attempt) = Price(attempt - 1) + Price(1) /\ Price(1) \in {1, 2}
  BY <1>1 DEF Price
<1>3. Spent = (IF Head(todo).kind = "note" THEN 1 ELSE tries) /\ Spent \in Nat
  BY <1>1 DEF Spent
<1>4. QED
  BY <1>1, <1>2, <1>3 DEF Calls

\* What comes after the last way of a part.
LEMMA ReactionStep ==
    ASSUME SendAssumption, SendInv, Busy, msg' = msg, attempt' = attempt, tries' = 0, failed' = failed + 1,
           shown' \in Seq(Part), ChunksFollow', \A q : Seen(q) => Seen(q)',
           NEW does \in {"raise", "skip", "stop", "note", "mark"}, Reaction(Head(todo), does),
           does \in {"mark", "note"} => Head(todo).kind = "media",
           does = "mark" => msg.adapter \in {"matrix", "discord"},
           does = "stop" => msg.adapter = "discord" /\ failed' >= 3,
           does \in {"raise", "skip"} => msg.adapter # "discord",
           msg.adapter \in Raisers /\ Head(todo).kind = "text" => does = "raise",
           msg.adapter \in {"telegram", "qq"} /\ Head(todo).kind = "media" => does = "note",
           msg.adapter \in {"telegram", "qq"} /\ Head(todo).kind = "note" => does = "raise",
           does = "raise" /\ msg.adapter \in Raisers => failed' >= Price(attempt)
    PROVE  SendInv'
<1>1. PICK p, q : p = Head(todo) /\ q = Parts[Place + 1]
  OBVIOUS
<1>2. /\ SendTypes /\ outcome = "sending" /\ p \in Part /\ (p.kind = "media" => p.n \in 1 .. msg.media)
      /\ Begun /\ failed \in Nat /\ attempt \in Nat /\ tries \in Nat
  BY <1>1, AtWork DEF SendInv, SendTypes
<1>3. marks' \subseteq 1 .. msg.media
  BY <1>1, <1>2 DEF Reaction, SendTypes
<1>4. CASE does = "raise"
  <2>1. Raises
    BY <1>4 DEF Reaction
  <2>2. QED
    BY <1>2, <1>3, <1>4, <2>1, RaisesStep
<1>5. ASSUME does # "raise"
      PROVE  outcome' = outcome /\ sign' = sign
  BY <1>5 DEF Reaction, GoesOn
<1>6. ASSUME does # "raise", todo' \in Seq(Part), Begun', Listed' \/ OnlyMarks', Told',
             todo' # <<>> => Head(todo').kind \in Kinds,
             todo' # <<>> /\ Head(todo').kind = "note" => does = "note"
      PROVE  SendInv'
  <2>1. SendTypes'
    BY <1>2, <1>3, <1>5, <1>6 DEF SendTypes
  <2>2. ASSUME todo' # <<>>
        PROVE  tries' < Send[Head(todo').kind].ways
    <3>1. PICK k \in Kinds : k = Head(todo').kind
      BY <1>6, <2>2
    <3>2. Send[k].ways \in 1 .. 3
      BY <1>2, Reacting DEF Hows
    <3>3. QED
      BY <3>1, <3>2
  <2>3. ASSUME msg.adapter \in Raisers
        PROVE  failed' >= Price(attempt - 1) + Spent'
    <3>1. Spent' \in {0, 1}
      BY DEF Spent
    <3>2. failed >= Price(attempt - 1) + Spent /\ Spent \in Nat /\ Price(attempt - 1) \in Nat
      BY <2>3, Cost
    <3>3. QED
      BY <1>2, <3>1, <3>2
  <2>4. tries' <= failed' /\ tries' <= 2
    BY <1>2
  <2>5. QED
    BY <1>5, <1>6, <2>1, <2>2, <2>3, <2>4, GoesOnStep
<1>7. ASSUME does \in {"skip", "mark"}, todo' = Tail(todo)
      PROVE  SendInv'
  <2>1. /\ todo' \in Seq(Part) /\ Begun' /\ Listed' /\ Place' = Place + 1
        /\ todo' # <<>> => Head(todo').kind \in {"media", "text"}
    BY <1>7, TailStep
  <2>2. /\ p.kind = "text" => msg.adapter \notin Raisers /\ msg.adapter # "discord"
        /\ p.kind = "note" => msg.adapter \notin {"telegram", "qq"}
        /\ p.kind = "media" => msg.adapter \notin {"telegram", "qq"}
        /\ p.kind \in {"media", "text", "note"}
    BY <1>1, <1>7, AtWork DEF Kinds
  <2>3. q.kind = "text" => p.kind = "text"
    BY <1>1, AtWork
  <2>4. q.kind = "media" => msg.adapter \notin {"telegram", "qq"}
    BY <2>2 DEF Raisers
  <2>5. Told'
    BY <1>1, <2>1, <2>2, <2>3, <2>4, ToldAfter
  <2>6. QED
    BY <1>6, <1>7, <2>1, <2>5 DEF Kinds
<1>8. CASE does = "skip"
  BY <1>7, <1>8 DEF Reaction, GoesOn
<1>9. CASE does = "stop"
  <2>1. todo' = <<>> /\ <<>> \in Seq(Part) /\ Len(<<>>) = 0
    BY <1>9, EmptySeq DEF Reaction, GoesOn
  <2>2. <<>> # <<BeginPart>>
    OBVIOUS
  <2>3. Begun'
    BY <1>2, <2>1, <2>2 DEF Begun
  <2>4. Listed'
    <3>1. PICK k : k = Len(Parts)
      OBVIOUS
    <3>2. k \in Nat /\ Len(Parts)' = k /\ Len(todo') = 0
      BY <2>1, <3>1, AtWork, SameMessage
    <3>3. QED
      BY <3>2 DEF Listed
  <2>5. Told'
    BY <1>9, <2>1 DEF Told
  <2>6. QED
    BY <1>6, <1>9, <2>1, <2>3, <2>4, <2>5
<1>10. CASE does = "note"
  <2>1. todo' = <<Note(Head(todo).n)>> \o Tail(todo) /\ Head(todo).kind = "media"
    BY <1>10 DEF Reaction, GoesOn
  <2>2. /\ todo' \in Seq(Part) /\ Begun' /\ Listed' /\ Place' = Place
        /\ todo' # <<>> /\ Head(todo').kind = "note"
    BY <2>1, NoteStep
  <2>3. Told'
    BY <1>1, <2>2, ToldAfter
  <2>4. QED
    BY <1>6, <1>10, <2>2, <2>3 DEF Kinds
<1>11. CASE does = "mark"
  <2>1. PICK S : S = marks'
    OBVIOUS
  <2>2. todo' = Rest(S)
    BY <1>11, <2>1 DEF Reaction, GoesOn
  <2>3. CASE todo' = Tail(todo)
    BY <1>7, <1>11, <2>3
  <2>4. CASE todo' # Tail(todo)
    <3>1. /\ todo' \in Seq(Part) /\ Begun' /\ OnlyMarks' /\ Place' = Place
          /\ todo' # <<>> /\ Head(todo') = Chunk(0)
      BY <2>2, <2>4, RestStep
    <3>2. Told'
      BY <1>1, <3>1, ToldAfter
    <3>3. Head(todo').kind = "text"
      BY <3>1, PartFields
    <3>4. QED
      BY <1>6, <1>11, <3>1, <3>2, <3>3 DEF Kinds
  <2>5. QED
    BY <2>3, <2>4
<1>12. QED
  BY <1>4, <1>8, <1>9, <1>10, <1>11

-----------------------------------------------------------------------------
(* The actions. *)

\* Nothing has been sent.
LEMMA InitStep ==
    ASSUME SendAssumption, SendInit
    PROVE  SendInv
<1>1. /\ msg \in [adapter : Senders, media : 0 .. MaxMedia, texts : 0 .. MaxTexts, progress : BOOLEAN, ready : BOOLEAN]
      /\ attempt = 0 /\ todo = <<BeginPart>> /\ tries = 0 /\ marks = {}
      /\ outcome = "sending" /\ shown = <<>> /\ sign = "on" /\ failed = 0
  BY DEF SendInit, BeginPart
<1>2. <<>> \in Seq(Part) /\ <<BeginPart>> \in Seq(Part) /\ <<BeginPart>> # <<>> /\ Len(<<>>) = 0
  BY EmptySeq DEF BeginPart, Part
<1>3. SendTypes
  <2>1. 0 .. MaxMedia \subseteq Nat /\ 0 .. MaxTexts \subseteq Nat
    BY DEF SendAssumption
  <2>2. msg \in [adapter : Senders, media : Nat, texts : Nat, progress : BOOLEAN, ready : BOOLEAN]
    BY <1>1, <2>1
  <2>3. QED
    BY <1>1, <1>2, <2>2 DEF SendTypes
<1>4. Shape /\ Attempts
  BY <1>1, <1>2 DEF Shape, Attempts, Most, SendAssumption
<1>5. Calls
  BY <1>1, <1>2 DEF Calls, Begun, Price
<1>6. Told /\ Signs
  BY <1>1 DEF Told, Begun, Signs
<1>7. ChunksFollow
  <2>1. \A i \in DOMAIN shown : FALSE
    BY <1>1
  <2>2. QED
    BY <2>1 DEF ChunksFollow
<1>8. QED
  BY <1>3, <1>4, <1>5, <1>6, <1>7 DEF SendInv

\* The channel is not ready.
LEMMA NotReadyStep ==
    ASSUME SendAssumption, SendInv, NotReady
    PROVE  SendInv'
<1>1. /\ ~ msg.ready /\ outcome' = "sent" /\ todo' = <<>>
      /\ msg' = msg /\ attempt' = attempt /\ tries' = tries /\ marks' = marks /\ shown' = shown /\ sign' = sign
      /\ failed' = failed /\ todo = <<BeginPart>> /\ outcome = "sending"
  BY DEF NotReady, Start, BeginPart
<1>2. <<>> \in Seq(Part) /\ <<>> # <<BeginPart>>
  BY EmptySeq
<1>3. SendTypes'
  BY <1>1, <1>2 DEF SendInv, SendTypes
<1>4. Shape' /\ Attempts'
  BY <1>1, <1>2 DEF SendInv, Shape, Attempts, Most
<1>5. Calls'
  BY <1>1, <1>2 DEF SendInv, Calls, Begun
<1>6. Told' /\ ChunksFollow'
  BY <1>1 DEF SendInv, Told, Begun, ChunksFollow
<1>7. Signs'
  BY <1>1 DEF SendInv, Signs
<1>8. QED
  BY <1>3, <1>4, <1>5, <1>6, <1>7 DEF SendInv

\* An attempt begins with all parts.
LEMMA BeginsStep ==
    ASSUME SendAssumption, SendInv, Begins
    PROVE  SendInv'
<1>1. /\ msg.ready /\ attempt' = attempt + 1 /\ todo' = Parts /\ tries' = 0 /\ marks' = {} /\ sign' = SignAtStart
      /\ msg' = msg /\ outcome' = outcome /\ shown' = shown /\ failed' = failed
      /\ todo = <<BeginPart>> /\ outcome = "sending"
  BY DEF Begins, Start, BeginPart, Parts
<1>2. SendTypes /\ attempt \in Nat /\ failed \in Nat
  BY DEF SendInv, SendTypes
<1>3. PICK P, k : P = Parts /\ k = Len(P)
  OBVIOUS
<1>4. PartsIn(P) /\ P \in Seq(Part) /\ k \in Nat /\ Parts' = P
  BY <1>1, <1>2, <1>3, PartsOf, LenProperties, SameMessage DEF PartsIn
<1>5. P # <<>> => Head(P).kind \in {"media", "text"}
  <2>1. ASSUME P # <<>>
        PROVE  Head(P) = P[1] /\ 1 \in 1 .. k
    BY <1>3, <1>4, <2>1, EmptySeq
  <2>2. QED
    BY <1>3, <1>4, <2>1 DEF PartsIn
<1>6. P # <<BeginPart>>
  <2>1. CASE P = <<>>
    BY <2>1
  <2>2. CASE P # <<>>
    BY <1>5, <2>2 DEF BeginPart
  <2>3. QED
    BY <2>1, <2>2
<1>7. Begun' /\ Place' = 0 /\ Listed'
  <2>1. Begun'
    BY <1>1, <1>2, <1>3, <1>6 DEF Begun
  <2>2. Place' = 0
    BY <1>1, <1>3, <1>4 DEF Place
  <2>3. \A i \in 1 .. k : 0 + i = i
    BY <1>4
  <2>4. Listed'
    BY <1>1, <1>3, <1>4, <2>2, <2>3 DEF Listed
  <2>5. QED
    BY <2>1, <2>2, <2>4
<1>8. sign' \in {"off", sign} /\ (msg.adapter = "telegram" /\ ~ msg.progress => sign' = "off")
  BY <1>1 DEF SignAtStart
<1>9. SendTypes'
  BY <1>1, <1>2, <1>3, <1>4, <1>8 DEF SendTypes
<1>10. Shape'
  BY <1>7 DEF Shape
<1>11. Attempts'
  <2>1. attempt + 1 <= Most
    BY <1>1, <1>2 DEF SendInv, Attempts, Most, SendAssumption
  <2>2. Most' = Most /\ todo' # <<BeginPart>>
    BY <1>7 DEF Most, Begun
  <2>3. QED
    BY <1>1, <1>2, <2>1, <2>2 DEF Attempts
<1>12. Calls'
  <2>1. ASSUME P # <<>>
        PROVE  0 < Send[Head(P).kind].ways
    <3>1. PICK a \in Kinds : a = Head(P).kind
      BY <1>5, <2>1 DEF Kinds
    <3>2. Send[a].ways \in 1 .. 3
      BY <1>2, Reacting DEF Hows
    <3>3. QED
      BY <3>1, <3>2
  <2>2. Spent' = 0
    BY <1>1, <1>3, <1>5 DEF Spent
  <2>3. msg.adapter \in Raisers => failed >= Price(attempt)
    BY <1>1 DEF SendInv, Calls
  <2>4. Price((attempt + 1) - 1) = Price(attempt) /\ Price(attempt) \in Nat
    BY <1>2 DEF Price
  <2>5. msg.adapter \in Raisers => failed >= Price((attempt + 1) - 1) + 0
    BY <1>2, <2>3, <2>4
  <2>6. Send' = Send /\ Price(attempt - 1)' = Price((attempt + 1) - 1) /\ todo' # <<BeginPart>> /\ todo' = P
    BY <1>1, <1>3, <1>7, SameMessage DEF Price, Begun
  <2>7. QED
    BY <1>1, <1>2, <2>1, <2>2, <2>5, <2>6 DEF Calls
<1>13. Told' /\ ChunksFollow'
  <2>1. Told'
    BY <1>7 DEF Told
  <2>2. QED
    BY <1>1, <2>1 DEF SendInv, ChunksFollow
<1>14. Signs'
  BY <1>1, <1>8 DEF SendInv, Signs
<1>15. QED
  BY <1>9, <1>10, <1>11, <1>12, <1>13, <1>14 DEF SendInv

\* A part is shown.
LEMMA SucceedsStep ==
    ASSUME SendAssumption, SendInv, Succeeds
    PROVE  SendInv'
<1>1. /\ Busy /\ shown' = shown \o Shows(Head(todo)) /\ todo' = Rest(marks) /\ tries' = 0
      /\ msg' = msg /\ attempt' = attempt /\ marks' = marks /\ outcome' = outcome /\ sign' = sign /\ failed' = failed
  BY DEF Succeeds
<1>2. PICK p, x, q : p = Head(todo) /\ x = Shows(p) /\ q = Parts[Place + 1]
  OBVIOUS
<1>3. SendTypes /\ p \in Part /\ failed \in Nat
  BY <1>1, <1>2, AtWork DEF SendInv, SendTypes
<1>4. x \in Seq(Part) /\ (p.n # 0 => Contains(x, p))
  BY <1>2, <1>3, Showing
<1>5. /\ shown' \in Seq(Part) /\ \A r : Seen(r) => Seen(r)'
      /\ p.n # 0 => Seen(p)'
  BY <1>1, <1>2, <1>3, <1>4, Appending
<1>6. ChunksFollow'
  BY <1>1, Follows
<1>7. \/ /\ Place' = Place + 1 /\ Listed'
         /\ todo' # <<>> => Head(todo').kind \in {"media", "text"}
      \/ /\ Place' = Place /\ OnlyMarks' /\ todo' # <<>> /\ Head(todo') = Chunk(0)
  BY <1>1, TailStep, RestStep
<1>8. todo' \in Seq(Part) /\ Begun' /\ (Listed' \/ OnlyMarks')
  BY <1>1, TailStep, RestStep
<1>9. todo' # <<>> => Head(todo').kind \in {"media", "text"}
  BY <1>7, PartFields
<1>10. /\ q.kind = "text" => Seen(q)'
       /\ q.kind = "media" /\ msg.adapter \notin {"matrix", "discord"} => MediaIsTold(q.n)'
  <2>1. CASE p = q /\ p.n > 0
    <3>1. Seen(q)'
      BY <1>5, <2>1
    <3>2. q.kind = "media" => q = Media(q.n)
      BY <1>3, <2>1 DEF Media, Part
    <3>3. QED
      BY <3>1, <3>2 DEF MediaIsTold
  <2>2. CASE q.kind = "media" /\ p = Note(q.n) /\ q.n > 0
    <3>1. p.n # 0
      BY <2>2, PartFields
    <3>2. QED
      BY <1>5, <2>2, <3>1 DEF MediaIsTold
  <2>3. CASE OnlyMarks /\ q.kind = "media"
    BY <2>3 DEF OnlyMarks
  <2>4. QED
    BY <1>1, <1>2, <2>1, <2>2, <2>3, AtWork
<1>11. Told'
  BY <1>1, <1>2, <1>5, <1>7, <1>10, ToldAfter
<1>12. SendTypes'
  BY <1>1, <1>3, <1>5, <1>8 DEF SendTypes
<1>13. ASSUME todo' # <<>>
       PROVE  tries' < Send[Head(todo').kind].ways
  <2>1. PICK a \in Kinds : a = Head(todo').kind
    BY <1>9, <1>13 DEF Kinds
  <2>2. Send[a].ways \in 1 .. 3
    BY <1>3, Reacting DEF Hows
  <2>3. QED
    BY <1>1, <2>1, <2>2
<1>14. Spent' = 0
  BY <1>1, <1>9 DEF Spent
<1>15. msg.adapter \in Raisers => failed >= Price(attempt - 1) + 0
  BY <1>1, <1>3, Cost
<1>16. QED
  BY <1>1, <1>3, <1>6, <1>8, <1>11, <1>12, <1>13, <1>14, <1>15, GoesOnStep

\* A call fails; another way is tried, or the part is given up.
LEMMA CallFailsStep ==
    ASSUME SendAssumption, SendInv, NEW how \in Hows, NEW done \in BOOLEAN, CallFails(how, done)
    PROVE  SendInv'
<1>1. PICK p, x : p = Head(todo) /\ x = Shows(p)
  OBVIOUS
<1>2. /\ Busy /\ failed' = failed + 1 /\ msg' = msg /\ attempt' = attempt
      /\ shown' = (IF done THEN shown \o x ELSE shown)
      /\ \/ tries + 1 < Ways(p) /\ tries' = tries + 1
            /\ todo' = todo /\ marks' = marks /\ outcome' = outcome /\ sign' = sign
         \/ ~ (tries + 1 < Ways(p)) /\ tries' = 0 /\ Reaction(p, Send[p.kind][how])
  BY <1>1 DEF CallFails
<1>3. PICK k \in Kinds : k = p.kind
  BY <1>1, <1>2, AtWork
<1>4. PICK does : does = Send[k][how]
  OBVIOUS
<1>5. /\ SendTypes /\ p \in Part /\ failed \in Nat /\ tries \in Nat /\ attempt \in Nat /\ Begun /\ outcome = "sending"
      /\ todo # <<>> /\ (Listed \/ OnlyMarks) /\ todo \in Seq(Part)
  BY <1>1, <1>2, AtWork DEF SendInv, SendTypes, Busy
<1>6. /\ Send[k].ways \in 1 .. 3 /\ does \in {"raise", "skip", "stop", "note", "mark"}
      /\ does = "mark" => k = "media" /\ msg.adapter \in {"matrix", "discord"}
      /\ does = "note" => k = "media" /\ msg.adapter # "discord"
      /\ does = "stop" => msg.adapter = "discord"
      /\ msg.adapter \in Raisers /\ k = "text" => does = "raise"
      /\ msg.adapter \in {"telegram", "qq"} /\ k = "media" => does = "note"
      /\ msg.adapter \in {"telegram", "qq"} /\ k = "note" => does = "raise"
      /\ msg.adapter = "telegram" => Send[k].ways = IF k = "text" THEN 2 ELSE 1
      /\ msg.adapter = "discord" => Send[k].ways = 3 /\ does \notin {"raise", "skip"}
  BY <1>4, <1>5, Reacting
<1>7. Ways(p) \in {1, Send[k].ways} /\ (msg.adapter # "feishu" => Ways(p) = Send[k].ways)
  BY <1>3 DEF Ways
<1>8. x \in Seq(Part)
  BY <1>1, <1>5, Showing
<1>9. shown' \in Seq(Part) /\ \A r : Seen(r) => Seen(r)'
  <2>1. CASE done
    BY <1>2, <1>5, <1>8, <2>1, Appending
  <2>2. CASE ~ done
    BY <1>2, <1>5, <2>2 DEF Seen, SendTypes
  <2>3. QED
    BY <2>1, <2>2
<1>10. ChunksFollow'
  <2>1. CASE done
    BY <1>1, <1>2, <2>1, Follows
  <2>2. CASE ~ done
    BY <1>2, <2>2 DEF ChunksFollow, SendInv
  <2>3. QED
    BY <2>1, <2>2
<1>11. Price(attempt) = Price(attempt - 1) + Price(1) /\ Price(attempt - 1) \in Nat /\ Price(1) \in {1, 2}
       /\ Spent = (IF k = "note" THEN 1 ELSE tries) /\ Spent \in Nat
       /\ (msg.adapter \in Raisers => failed >= Price(attempt - 1) + Spent)
  BY <1>1, <1>2, <1>3, Cost
<1>12. CASE tries + 1 < Ways(p)
  <2>1. /\ tries' = tries + 1 /\ todo' = todo /\ marks' = marks /\ outcome' = outcome /\ sign' = sign
    BY <1>2, <1>12
  <2>2. SendTypes'
    BY <1>2, <1>5, <1>9, <2>1 DEF SendTypes
  <2>3. Begun' /\ (Listed' \/ OnlyMarks') /\ Place' = Place
    <3>1. Parts' = Parts
      BY <1>2, SameMessage
    <3>2. Place' = Place
      BY <2>1, <3>1 DEF Place
    <3>3. Begun' /\ (OnlyMarks => OnlyMarks')
      BY <1>2, <1>5, <2>1 DEF Begun, OnlyMarks
    <3>4. Listed => Listed'
      BY <2>1, <3>1, <3>2 DEF Listed
    <3>5. QED
      BY <1>5, <3>2, <3>3, <3>4
  <2>4. PICK q : q = Parts[Place + 1]
    OBVIOUS
  <2>5. Told'
    BY <1>2, <1>9, <2>3, <2>4, ToldAfter
  <2>6. tries' < Send[Head(todo').kind].ways
    BY <1>1, <1>3, <1>5, <1>6, <1>7, <1>12, <2>1
  <2>7. tries' <= failed' /\ tries' <= 2
    <3>1. tries <= failed
      BY DEF SendInv, Calls
    <3>2. QED
      BY <1>2, <1>5, <1>6, <1>7, <1>12, <2>1, <3>1
  <2>8. Spent' <= Spent + 1 /\ Spent' \in Nat
    BY <1>1, <1>3, <1>5, <1>11, <2>1 DEF Spent
  <2>9. msg.adapter \in Raisers => failed' >= Price(attempt - 1) + Spent'
    BY <1>2, <1>5, <1>11, <2>8
  <2>10. QED
    BY <1>2, <1>5, <1>10, <2>1, <2>2, <2>3, <2>5, <2>6, <2>7, <2>9, GoesOnStep
<1>13. CASE ~ (tries + 1 < Ways(p))
  <2>1. tries' = 0 /\ Reaction(p, does)
    BY <1>2, <1>3, <1>4, <1>13
  <2>2. does = "stop" => failed' >= 3
    <3>1. tries <= failed
      BY DEF SendInv, Calls
    <3>2. does = "stop" => Ways(p) = 3
      BY <1>6, <1>7
    <3>3. QED
      BY <1>2, <1>5, <1>13, <3>1, <3>2
  <2>3. ASSUME does = "raise", msg.adapter \in Raisers
        PROVE  failed' >= Price(attempt)
    <3>1. CASE msg.adapter = "telegram"
      <4>1. Price(1) = 2
        BY <3>1 DEF Price
      <4>2. Spent >= 1
        <5>1. CASE k = "note"
          BY <1>11, <5>1
        <5>2. CASE k = "text"
          <6>1. Ways(p) = 2
            BY <1>6, <1>7, <3>1, <5>2
          <6>2. QED
            BY <1>5, <1>11, <1>13, <5>2, <6>1
        <5>3. CASE k = "media"
          BY <1>6, <2>3, <3>1, <5>3
        <5>4. QED
          BY <5>1, <5>2, <5>3 DEF Kinds
      <4>3. QED
        BY <1>2, <1>5, <1>11, <2>3, <4>1, <4>2
    <3>2. CASE msg.adapter # "telegram"
      <4>1. Price(1) = 1
        BY <3>2 DEF Price
      <4>2. QED
        BY <1>2, <1>5, <1>11, <2>3, <4>1
    <3>3. QED
      BY <3>1, <3>2
  <2>4. QED
    BY <1>1, <1>2, <1>3, <1>5, <1>6, <1>9, <1>10, <2>1, <2>2, <2>3, ReactionStep
<1>14. QED
  BY <1>12, <1>13

\* An attachment is not there.
LEMMA MissingStep ==
    ASSUME SendAssumption, SendInv, Missing
    PROVE  SendInv'
<1>1. PICK p, does : p = Head(todo) /\ does = Send["media"]["broken"]
  OBVIOUS
<1>2. /\ Busy /\ p.kind = "media" /\ tries = 0 /\ failed' = failed + 1 /\ Reaction(p, does)
      /\ msg' = msg /\ attempt' = attempt /\ tries' = 0 /\ shown' = shown /\ msg.adapter # "whatsapp"
  BY <1>1 DEF Missing
<1>3. SendTypes
  BY DEF SendInv
<1>4. /\ does \in {"raise", "skip", "stop", "note", "mark"}
      /\ does = "mark" => msg.adapter \in {"matrix", "discord"}
      /\ does # "stop" /\ does # "raise"
      /\ msg.adapter \in {"telegram", "qq"} => does = "note"
      /\ msg.adapter = "discord" => does # "skip"
  BY <1>1, <1>2, <1>3, Reacting DEF Kinds, Hows
<1>5. shown' \in Seq(Part) /\ ChunksFollow' /\ \A q : Seen(q) => Seen(q)'
  BY <1>2, <1>3 DEF SendInv, SendTypes, ChunksFollow, Seen
<1>6. QED
  BY <1>1, <1>2, <1>4, <1>5, ReactionStep

\* send() returns.
LEMMA ReturnsStep ==
    ASSUME SendAssumption, SendInv, Returns
    PROVE  SendInv'
<1>1. /\ outcome = "sending" /\ todo = <<>> /\ outcome' = "sent" /\ sign' = SignAtEnd(FALSE)
      /\ msg' = msg /\ attempt' = attempt /\ todo' = todo /\ tries' = tries /\ marks' = marks
      /\ shown' = shown /\ failed' = failed
  BY DEF Returns
<1>2. <<>> # <<BeginPart>>
  OBVIOUS
<1>3. Begun /\ Listed
  <2>1. ~ OnlyMarks
    BY <1>1 DEF OnlyMarks
  <2>2. QED
    BY <1>1, <1>2, <2>1 DEF SendInv, Shape
<1>4. Parts' = Parts /\ Send' = Send
  BY <1>1, SameMessage
<1>5. Place' = Place /\ Begun'
  BY <1>1, <1>3, <1>4 DEF Place, Begun
<1>6. Listed'
  BY <1>1, <1>3, <1>4, <1>5 DEF Listed
<1>7. Shape' /\ Attempts'
  BY <1>1, <1>2, <1>3, <1>5, <1>6 DEF SendInv, Shape, Attempts, Most, Begun
<1>8. Calls'
  BY <1>1, <1>2, <1>4 DEF SendInv, Calls, Price
<1>9. Told'
  BY <1>1, <1>3, <1>4, <1>5 DEF SendInv, Told, Seen, MediaIsTold
<1>10. /\ sign' \in {"on", "off", "done"} /\ sign # "done"
       /\ msg.adapter \in {"matrix", "discord"} /\ ~ msg.progress => sign' = "off"
       /\ msg.adapter = "telegram" => sign' = sign
       /\ sign' = "done" => msg.adapter = "slack"
  BY <1>1 DEF SignAtEnd, SendInv, SendTypes, Signs
<1>11. SendTypes' /\ ChunksFollow'
  BY <1>1, <1>10 DEF SendInv, SendTypes, ChunksFollow
<1>12. Signs'
  BY <1>1, <1>3, <1>10 DEF SendInv, Signs, Begun
<1>13. QED
  BY <1>7, <1>8, <1>9, <1>11, <1>12 DEF SendInv

\* Nothing happens.
LEMMA StutterStep ==
    ASSUME SendInv, UNCHANGED out
    PROVE  SendInv'
<1>1. /\ msg' = msg /\ attempt' = attempt /\ todo' = todo /\ tries' = tries /\ marks' = marks
      /\ outcome' = outcome /\ shown' = shown /\ sign' = sign /\ failed' = failed
  BY DEF out
<1>2. Parts' = Parts /\ Send' = Send
  BY <1>1, SameMessage
<1>3. Place' = Place /\ Begun' = Begun /\ OnlyMarks' = OnlyMarks
  BY <1>1, <1>2 DEF Place, Begun, OnlyMarks
<1>4. Listed' = Listed
  BY <1>1, <1>2, <1>3 DEF Listed
<1>5. Shape'
  BY <1>1, <1>3, <1>4 DEF SendInv, Shape
<1>6. Spent' = Spent
  BY <1>1 DEF Spent
<1>7. Calls' /\ Attempts'
  BY <1>1, <1>2, <1>3, <1>6 DEF SendInv, Calls, Price, Attempts, Most
<1>8. Told'
  BY <1>1, <1>2, <1>3 DEF SendInv, Told, Seen, MediaIsTold
<1>9. SendTypes' /\ ChunksFollow' /\ Signs'
  BY <1>1 DEF SendInv, SendTypes, ChunksFollow, Signs
<1>10. QED
  BY <1>5, <1>7, <1>8, <1>9 DEF SendInv

-----------------------------------------------------------------------------
(* What the invariant says of the properties. *)

\* The number of attempts, as the properties compute it.
LEMMA MostAttempts ==
    ASSUME SendAssumption
    PROVE  Max({1, SendMaxRetries}) = Most /\ Most \in Nat
BY DEF Max, Most, SendAssumption

\* When send() has returned, every part is behind it.
LEMMA AllPassed ==
    ASSUME SendAssumption, SendInv, outcome = "sent", msg.ready
    PROVE  /\ Place = Len(Parts) /\ DOMAIN Send.parts = 1 .. Len(Parts)
           /\ msg.adapter \in Raisers =>
                 \A i \in DOMAIN Send.parts : Send.parts[i].kind = "text" => Seen(Send.parts[i])
           /\ msg.adapter \in {"telegram", "qq"} => \A i \in 1 .. msg.media : MediaIsTold(i)
           /\ msg.adapter = "discord" =>
                 \/ \A i \in DOMAIN Send.parts : Send.parts[i].kind = "text" => Seen(Send.parts[i])
                 \/ failed >= 3
<1>1. todo = <<>> /\ attempt > 0 /\ SendTypes /\ Told
  BY DEF SendInv, Attempts
<1>2. <<>> # <<BeginPart>> /\ Len(<<>>) = 0
  BY EmptySeq
<1>3. PICK P, k : P = Parts /\ k = Len(P)
  OBVIOUS
<1>4. PartsIn(P) /\ k \in Nat /\ DOMAIN P = 1 .. k
  BY <1>1, <1>3, PartsOf, LenProperties DEF PartsIn
<1>5. Place = k
  BY <1>1, <1>2, <1>3, <1>4 DEF Place
<1>6. Begun
  BY <1>1, <1>2 DEF Begun
<1>7. /\ msg.adapter \in Raisers \cup {"discord"} =>
            \/ \A i \in 1 .. k : P[i].kind = "text" => Seen(P[i])
            \/ msg.adapter = "discord" /\ failed >= 3
      /\ msg.adapter \in {"telegram", "qq"} =>
            \A i \in 1 .. k : P[i].kind = "media" => MediaIsTold(P[i].n)
  BY <1>1, <1>3, <1>5, <1>6 DEF Told
<1>8. ASSUME msg.adapter \in {"telegram", "qq"}, NEW i \in 1 .. msg.media
      PROVE  MediaIsTold(i)
  <2>1. i \in 1 .. k /\ P[i] = Media(i)
    BY <1>1, <1>3, <1>4, <1>8, PartsOf DEF InOrder, SendTypes
  <2>2. P[i].kind = "media" /\ P[i].n = i
    BY <2>1, PartFields
  <2>3. QED
    BY <1>7, <1>8, <2>1, <2>2
<1>9. "discord" \notin Raisers
  BY DEF Raisers
<1>10. QED
  BY <1>3, <1>4, <1>5, <1>7, <1>8, <1>9 DEF Parts

\* The invariant implies the properties.
LEMMA Sound ==
    ASSUME SendAssumption, SendInv
    PROVE  SendingIsSound
<1>1. SendTypes /\ Attempts /\ Calls /\ Signs /\ ChunksFollow
  BY DEF SendInv
<1>2. SendTypeOK
  <2>1. attempt \in 0 .. Most /\ tries \in 0 .. 2
    BY <1>1, MostAttempts DEF SendTypes, Attempts, Calls
  <2>2. QED
    BY <1>1, <2>1, MostAttempts DEF SendTypeOK, SendTypes, Attempts
<1>3. SentIsShown
  BY AllPassed DEF SentIsShown, Raisers
<1>4. RetriesMend
  <2>1. PICK enough : enough = CASE msg.adapter = "telegram" -> 2 * Most
                                 [] msg.adapter \in {"slack", "wecom", "email", "mochat"} -> Most
                                 [] msg.adapter = "qq" -> Most
                                 [] msg.adapter \in {"discord"} -> 3
                                 [] OTHER -> 0
    OBVIOUS
  <2>2. SUFFICES ASSUME outcome # "sending", msg.ready, failed < enough
                 PROVE  /\ outcome = "sent"
                        /\ \A i \in DOMAIN Send.parts : Send.parts[i].kind = "text" => Seen(Send.parts[i])
    BY <2>1, MostAttempts DEF RetriesMend
  <2>3. failed \in Nat /\ attempt \in Nat /\ Most \in Nat
    BY <1>1, MostAttempts DEF SendTypes
  <2>4. \/ msg.adapter = "discord" /\ enough = 3
        \/ msg.adapter \in Raisers /\ enough = Price(Most)
        \/ enough = 0
    BY <2>1 DEF Raisers, Price
  <2>5. enough # 0
    BY <2>2, <2>3
  <2>6. outcome = "sent"
    <3>1. SUFFICES ASSUME outcome = "failed"
                   PROVE  FALSE
      BY <1>1, <2>2 DEF SendTypes
    <3>2. attempt >= Most /\ msg.adapter # "discord"
      BY <1>1, <2>3, <3>1 DEF Attempts, Most, SendAssumption
    <3>3. msg.adapter \in Raisers /\ failed >= Price(attempt)
      BY <1>1, <2>4, <2>5, <3>1, <3>2 DEF Calls
    <3>4. Price(attempt) >= Price(Most) /\ Price(attempt) \in Nat /\ Price(Most) \in Nat
      BY <2>3, <3>2 DEF Price
    <3>5. QED
      BY <2>2, <2>3, <2>4, <2>5, <3>2, <3>3, <3>4
  <2>7. QED
    BY <2>2, <2>3, <2>4, <2>5, <2>6, AllPassed
<1>5. SignIsTrue
  <2>1. outcome # "sending" /\ msg.ready => attempt > 0
    BY <1>1 DEF Attempts
  <2>2. "slack" \in Raisers
    BY DEF Raisers
  <2>3. QED
    BY <1>1, <2>1, <2>2, AllPassed DEF SignIsTrue, Signs
<1>6. QED
  BY <1>1, <1>2, <1>3, <1>4, <1>5 DEF SendingIsSound

-----------------------------------------------------------------------------
(* The theorems. *)

\* The invariant of an attempt holds in every state, whatever the message, the channel, the
\* number of attempts and of failed calls: an attempt goes through the parts in order
\* (send() of the adapters), and each attempt of _send_with_retry that raised cost calls.
THEOREM SendInvariant == SendSpec => []SendInv
<1>1. SendInit => SendInv
  BY SendAssumption, InitStep
<1>2. SendInv /\ [SendNext]_out => SendInv'
  <2>1. SUFFICES ASSUME SendInv, [SendNext]_out
                 PROVE  SendInv'
    OBVIOUS
  <2>2. CASE NotReady
    BY <2>1, <2>2, SendAssumption, NotReadyStep
  <2>3. CASE Begins
    BY <2>1, <2>3, SendAssumption, BeginsStep
  <2>4. CASE Succeeds
    BY <2>1, <2>4, SendAssumption, SucceedsStep
  <2>5. CASE Missing
    BY <2>1, <2>5, SendAssumption, MissingStep
  <2>6. CASE Returns
    BY <2>1, <2>6, SendAssumption, ReturnsStep
  <2>7. ASSUME NEW how \in Hows, NEW done \in BOOLEAN, CallFails(how, done)
        PROVE  SendInv'
    BY <2>1, <2>7, SendAssumption, CallFailsStep
  <2>8. CASE UNCHANGED out
    BY <2>1, <2>8, StutterStep
  <2>9. QED
    BY <2>1, <2>2, <2>3, <2>4, <2>5, <2>6, <2>7, <2>8 DEF SendNext, Hows
<1>3. QED
  BY <1>1, <1>2, PTL DEF SendSpec

\* What send() reports as sent was seen, a text survives fewer failed calls than the attempts
\* are good for, chunks are shown in order, and no indicator is left on (the adapters' send()
\* under _send_with_retry).
THEOREM SendingSound == SendSpec => []SendingIsSound
<1>1. SendInv => SendingIsSound
  BY SendAssumption, Sound
<1>2. QED
  BY <1>1, SendInvariant, PTL

-----------------------------------------------------------------------------
(* Induction on the naturals, and functions that are given by their steps. *)

LEMMA NatLeast ==
    ASSUME NEW T, T \subseteq Nat, T # {}
    PROVE  \E x \in T : \A y \in T : x <= y
<1>1. \E x \in T : \A y \in T : ~ (<<y, x>> \in OpToRel(<, Nat))
  BY NatLessThanWellFounded, WFMin
<1>2. ASSUME NEW x \in T, NEW y \in T, ~ (<<y, x>> \in OpToRel(<, Nat))
      PROVE  x <= y
  <2>1. x \in Nat /\ y \in Nat
    OBVIOUS
  <2>2. ~ (<<y, x>>[1] < <<y, x>>[2])
    BY <1>2, <2>1 DEF OpToRel
  <2>3. ~ (y < x)
    BY <2>2
  <2>4. QED
    BY <2>1, <2>3
<1>3. QED
  BY <1>1, <1>2

LEMMA Induct ==
    ASSUME NEW T, 0 \in T, \A n \in Nat : n \in T => n + 1 \in T
    PROVE  Nat \subseteq T
<1>1. SUFFICES ASSUME Nat \ T # {}
               PROVE  FALSE
  OBVIOUS
<1>2. PICK m \in Nat \ T : \A y \in Nat \ T : m <= y
  BY <1>1, NatLeast
<1>3. m # 0 /\ m - 1 \in Nat /\ ~ (m <= m - 1) /\ (m - 1) + 1 = m
  BY <1>2
<1>4. m - 1 \in T
  BY <1>2, <1>3
<1>5. QED
  BY <1>2, <1>3, <1>4

\* A function on 0..n, given by its first value and its steps.
LEMMA Recursion ==
    ASSUME NEW S, NEW a \in S, NEW n \in Nat, NEW step \in [1..n -> [S -> S]]
    PROVE  \E f \in [0..n -> S] : f[0] = a /\ \A i \in 1..n : f[i] = step[i][f[i - 1]]
<1> DEFINE Run(f, k) == f \in [0..k -> S] /\ f[0] = a /\ \A i \in 1..k : f[i] = step[i][f[i - 1]]
           T == {k \in Nat : k <= n => \E f : Run(f, k)}
<1>1. 0 \in T
  <2>1. Run([i \in 0..0 |-> a], 0)
    OBVIOUS
  <2>2. QED
    BY <2>1
<1>2. ASSUME NEW k \in Nat, k \in T
      PROVE  k + 1 \in T
  <2>1. SUFFICES ASSUME k + 1 <= n
                 PROVE  \E f : Run(f, k + 1)
    OBVIOUS
  <2>2. PICK f : Run(f, k)
    BY <1>2, <2>1
  <2>3. PICK g : g = [i \in 0..(k + 1) |-> IF i = k + 1 THEN step[k + 1][f[k]] ELSE f[i]]
    OBVIOUS
  <2>4. step[k + 1] \in [S -> S] /\ k \in 0..k
    BY <2>1
  <2>5. f[k] \in S
    BY <2>2, <2>4
  <2>6. step[k + 1][f[k]] \in S
    BY <2>4, <2>5
  <2>7. g \in [0..(k + 1) -> S]
    BY <2>2, <2>3, <2>6
  <2>8. ASSUME NEW i \in 1..(k + 1)
        PROVE  g[i] = step[i][g[i - 1]]
    <3>1. i \in 0..(k + 1) /\ i - 1 \in 0..(k + 1) /\ i - 1 # k + 1
      BY <2>8
    <3>2. g[i - 1] = f[i - 1]
      BY <2>3, <3>1
    <3>3. CASE i = k + 1
      <4>1. g[i] = step[k + 1][f[k]] /\ i - 1 = k
        BY <2>3, <3>1, <3>3
      <4>2. QED
        BY <3>2, <3>3, <4>1
    <3>4. CASE i # k + 1
      <4>1. g[i] = f[i] /\ i \in 1..k
        BY <2>3, <2>8, <3>1, <3>4
      <4>2. QED
        BY <2>2, <3>2, <4>1
    <3>5. QED
      BY <3>3, <3>4
  <2>9. g[0] = a
    BY <2>2, <2>3
  <2>10. Run(g, k + 1)
    BY <2>7, <2>8, <2>9
  <2>11. QED
    BY <2>10
<1>3. n \in T
  <2> HIDE DEF T
  <2>1. QED
    BY <1>1, <1>2, Induct
<1>4. QED
  BY <1>3

Recurses(g, S, a, n, step) == g \in [0..n -> S] /\ g[0] = a /\ \A i \in 1..n : g[i] = step[i][g[i - 1]]

LEMMA Recursive ==
    ASSUME NEW S, NEW a, NEW n, NEW step, a \in S /\ n \in Nat /\ step \in [1..n -> [S -> S]]
    PROVE  \E g : Recurses(g, S, a, n, step)
<1>1. \E g \in [0..n -> S] : g[0] = a /\ \A i \in 1..n : g[i] = step[i][g[i - 1]]
  BY Recursion
<1>2. QED
  BY <1>1 DEF Recurses

LEMMA Positions ==
    ASSUME NEW S, NEW s \in Seq(S)
    PROVE  Len(s) \in Nat /\ DOMAIN s = 1..Len(s) /\ \A i \in DOMAIN s : s[i] \in S
BY LenProperties, ElementOfSeq

LEMMA FunctionIsSeq ==
    ASSUME NEW S, NEW n \in Nat, NEW f \in [1..n -> S]
    PROVE  f \in Seq(S) /\ Len(f) = n
<1>1. PICK g : g = SubSeq(f, 1, n)
  OBVIOUS
<1>2. \A i \in 1..n : f[i] \in S
  OBVIOUS
<1>3. g \in Seq(S) /\ Len(g) = n /\ \A i \in 1..n : g[i] = f[i]
  <2>1. PICK one : one = 1
    OBVIOUS
  <2>2. /\ g \in Seq(S) /\ Len(g) = IF one <= n THEN n - one + 1 ELSE 0
        /\ \A i \in 1..(n - one + 1) : g[i] = f[one + i - 1]
    BY <1>1, <1>2, <2>1, SubSeqProperties
  <2>3. QED
    BY <2>1, <2>2
<1>4. g \in [1..n -> S]
  BY <1>3, LenProperties
<1>5. f = g
  BY <1>3, <1>4
<1>6. QED
  BY <1>3, <1>5


-----------------------------------------------------------------------------
(* Receiving.  Sequences of ids and of deliveries. *)

Delivered == [m : Nat, event : {"message", "app_mention"}]

LEMMA IdsAre ==
    ASSUME NEW s \in Seq(Nat)
    PROVE  /\ Len(s) \in Nat /\ DOMAIN s = 1..Len(s) /\ ToSet(s) \subseteq Nat
           /\ \A m : m \in ToSet(s) <=> \E i \in 1..Len(s) : m = s[i]
           /\ \A m : Contains(s, m) <=> m \in ToSet(s)
           /\ (s = <<>> <=> Len(s) = 0) /\ (s = <<>> <=> ToSet(s) = {})
<1>1. Len(s) \in Nat /\ DOMAIN s = 1..Len(s) /\ \A i \in 1..Len(s) : s[i] \in Nat
  BY Positions
<1>2. \A m : m \in ToSet(s) <=> \E i \in 1..Len(s) : m = s[i]
  BY <1>1 DEF ToSet
<1>3. s = <<>> <=> Len(s) = 0
  BY EmptySeq
<1>4. Len(s) # 0 => 1 \in 1..Len(s)
  BY <1>1
<1>5. s = <<>> <=> ToSet(s) = {}
  <2>1. Len(s) = 0 => ToSet(s) = {}
    BY <1>2
  <2>2. Len(s) # 0 => s[1] \in ToSet(s)
    BY <1>2, <1>4
  <2>3. QED
    BY <1>3, <2>1, <2>2
<1>6. QED
  BY <1>1, <1>2, <1>3, <1>5 DEF Contains

LEMMA NoIds == <<>> \in Seq(Nat) /\ ToSet(<<>>) = {} /\ Len(<<>>) = 0 /\ IsInjective(<<>>)
<1>1. PICK s : s = <<>>
  OBVIOUS
<1>2. s \in Seq(Nat) /\ Len(s) = 0
  BY <1>1
<1>3. ToSet(s) = {} /\ DOMAIN s = 1..0
  BY <1>1, <1>2, IdsAre
<1>4. \A i \in 1..0 : FALSE
  OBVIOUS
<1>5. IsInjective(s)
  BY <1>3, <1>4 DEF IsInjective
<1>6. QED
  BY <1>1, <1>2, <1>3, <1>5

LEMMA IdAppended ==
    ASSUME NEW s \in Seq(Nat), NEW m \in Nat
    PROVE  /\ Append(s, m) \in Seq(Nat) /\ ToSet(Append(s, m)) = ToSet(s) \cup {m} /\ Len(Append(s, m)) = Len(s) + 1
           /\ IsInjective(s) /\ m \notin ToSet(s) => IsInjective(Append(s, m))
<1>1. PICK r : r = Append(s, m)
  OBVIOUS
<1>2. PICK n \in Nat : n = Len(s) /\ DOMAIN s = 1..n
  BY IdsAre
<1>3. r \in Seq(Nat) /\ Len(r) = n + 1 /\ r[n + 1] = m /\ \A i \in 1..n : r[i] = s[i]
  BY <1>1, <1>2, AppendProperties
<1>4. DOMAIN r = 1..(n + 1)
  BY <1>3, IdsAre
<1>5. (\A i \in 1..(n + 1) : i \in 1..n \/ i = n + 1) /\ (\A i \in 1..n : i \in 1..(n + 1)) /\ n + 1 \in 1..(n + 1)
  BY <1>2
<1>6. ToSet(r) = ToSet(s) \cup {m}
  BY <1>2, <1>3, <1>4, <1>5 DEF ToSet
<1>7. ASSUME IsInjective(s), m \notin ToSet(s)
      PROVE  IsInjective(r)
  <2>1. \A i \in 1..n : r[i] # m
    BY <1>2, <1>3, <1>7 DEF ToSet
  <2>2. \A i, j \in 1..n : r[i] = r[j] => i = j
    BY <1>2, <1>3, <1>7 DEF IsInjective
  <2>3. QED
    BY <1>3, <1>4, <1>5, <2>1, <2>2 DEF IsInjective
<1>8. QED
  BY <1>1, <1>2, <1>3, <1>6, <1>7

LEMMA IdsTail ==
    ASSUME NEW s \in Seq(Nat), s # <<>>
    PROVE  /\ Head(s) \in Nat /\ Tail(s) \in Seq(Nat) /\ Len(Tail(s)) = Len(s) - 1 /\ Len(s) \in Nat \ {0}
           /\ ToSet(s) = {Head(s)} \cup ToSet(Tail(s))
           /\ IsInjective(s) => IsInjective(Tail(s)) /\ Head(s) \notin ToSet(Tail(s))
<1>1. PICK r : r = Tail(s)
  OBVIOUS
<1>2. PICK n \in Nat : n = Len(s) /\ DOMAIN s = 1..n /\ n # 0
  BY IdsAre
<1>3. Head(s) \in Nat /\ r \in Seq(Nat) /\ Len(r) = n - 1 /\ \A i \in 1..(n - 1) : r[i] = s[i + 1]
  BY <1>1, <1>2, HeadTailProperties
<1>4. Head(s) = s[1] /\ DOMAIN r = 1..(n - 1)
  BY <1>3, IdsAre
<1>5. /\ \A i \in 1..n : i = 1 \/ (i - 1 \in 1..(n - 1) /\ (i - 1) + 1 = i)
      /\ \A i \in 1..(n - 1) : i + 1 \in 1..n /\ i + 1 # 1
      /\ 1 \in 1..n
  BY <1>2
<1>6. ToSet(s) = {Head(s)} \cup ToSet(r)
  <2>1. ASSUME NEW i \in 1..n
        PROVE  s[i] \in {Head(s)} \cup ToSet(r)
    <3>1. CASE i = 1
      BY <1>4, <3>1
    <3>2. CASE i # 1
      <4>1. PICK j \in 1..(n - 1) : j + 1 = i
        BY <1>5, <3>2
      <4>2. QED
        BY <1>3, <1>4, <4>1 DEF ToSet
    <3>3. QED
      BY <3>1, <3>2
  <2>2. \A i \in 1..(n - 1) : r[i] \in ToSet(s)
    BY <1>2, <1>3, <1>5 DEF ToSet
  <2>3. QED
    BY <1>2, <1>4, <1>5, <2>1, <2>2 DEF ToSet
<1>7. ASSUME IsInjective(s)
      PROVE  IsInjective(r) /\ Head(s) \notin ToSet(r)
  <2>1. \A i, j \in 1..n : s[i] = s[j] => i = j
    BY <1>2, <1>7 DEF IsInjective
  <2>2. \A i, j \in 1..(n - 1) : r[i] = r[j] => i + 1 = j + 1
    BY <1>3, <1>5, <2>1
  <2>3. \A i \in 1..(n - 1) : r[i] # s[1]
    BY <1>3, <1>5, <2>1
  <2>4. QED
    BY <1>4, <2>2, <2>3 DEF IsInjective, ToSet
<1>8. QED
  BY <1>1, <1>2, <1>3, <1>6, <1>7

LEMMA IdsJoined ==
    ASSUME NEW s \in Seq(Nat), NEW t \in Seq(Nat)
    PROVE  s \o t \in Seq(Nat) /\ ToSet(s \o t) = ToSet(s) \cup ToSet(t) /\ Len(s \o t) = Len(s) + Len(t)
<1>1. PICK r : r = s \o t
  OBVIOUS
<1>2. PICK a \in Nat, b \in Nat : a = Len(s) /\ DOMAIN s = 1..a /\ b = Len(t) /\ DOMAIN t = 1..b
  BY IdsAre
<1>3. r \in Seq(Nat) /\ Len(r) = a + b /\ \A i \in 1..(a + b) : r[i] = IF i <= a THEN s[i] ELSE t[i - a]
  BY <1>1, <1>2, ConcatProperties
<1>4. DOMAIN r = 1..(a + b)
  BY <1>3, IdsAre
<1>5. /\ \A i \in 1..a : i \in 1..(a + b) /\ i <= a
      /\ \A i \in 1..b : i + a \in 1..(a + b) /\ ~ (i + a <= a) /\ (i + a) - a = i
      /\ \A i \in 1..(a + b) : IF i <= a THEN i \in 1..a ELSE i - a \in 1..b
  BY <1>2
<1>6. \A i \in 1..a : r[i] = s[i]
  BY <1>3, <1>5
<1>7. \A i \in 1..b : r[i + a] = t[i]
  BY <1>3, <1>5
<1>8. ToSet(r) \subseteq ToSet(s) \cup ToSet(t)
  <2>1. ASSUME NEW m \in ToSet(r)
        PROVE  m \in ToSet(s) \cup ToSet(t)
    <3>1. PICK i \in 1..(a + b) : m = r[i]
      BY <1>4, <2>1 DEF ToSet
    <3>2. CASE i <= a
      BY <1>2, <1>5, <1>6, <3>1, <3>2 DEF ToSet
    <3>3. CASE ~ (i <= a)
      <4>1. i - a \in 1..b /\ m = t[i - a]
        BY <1>3, <1>5, <3>1, <3>3
      <4>2. QED
        BY <1>2, <4>1 DEF ToSet
    <3>4. QED
      BY <3>2, <3>3
  <2>2. QED
    BY <2>1
<1>9. ToSet(s) \subseteq ToSet(r)
  BY <1>2, <1>4, <1>5, <1>6 DEF ToSet
<1>10. ToSet(t) \subseteq ToSet(r)
  <2>1. ASSUME NEW i \in 1..b
        PROVE  t[i] \in ToSet(r)
    <3>1. i + a \in 1..(a + b) /\ t[i] = r[i + a]
      BY <1>5, <1>7
    <3>2. QED
      BY <1>4, <3>1 DEF ToSet
  <2>2. QED
    BY <1>2, <2>1 DEF ToSet
<1>11. QED
  BY <1>1, <1>2, <1>3, <1>8, <1>9, <1>10

LEMMA DeliveriesAre ==
    ASSUME NEW s \in Seq(Delivered)
    PROVE  /\ Len(s) \in Nat /\ DOMAIN s = 1..Len(s) /\ ToSet(s) \subseteq Delivered
           /\ \A m : m \in ToSet(s) <=> \E i \in 1..Len(s) : m = s[i]
           /\ (s = <<>> <=> Len(s) = 0) /\ (s = <<>> <=> ToSet(s) = {})
<1>1. Len(s) \in Nat /\ DOMAIN s = 1..Len(s) /\ \A i \in 1..Len(s) : s[i] \in Delivered
  BY Positions
<1>2. \A m : m \in ToSet(s) <=> \E i \in 1..Len(s) : m = s[i]
  BY <1>1 DEF ToSet
<1>3. s = <<>> <=> Len(s) = 0
  BY EmptySeq
<1>4. Len(s) # 0 => 1 \in 1..Len(s)
  BY <1>1
<1>5. s = <<>> <=> ToSet(s) = {}
  <2>1. Len(s) = 0 => ToSet(s) = {}
    BY <1>2
  <2>2. Len(s) # 0 => s[1] \in ToSet(s)
    BY <1>2, <1>4
  <2>3. QED
    BY <1>3, <2>1, <2>2
<1>6. QED
  BY <1>1, <1>2, <1>3, <1>5

LEMMA NoDeliveries == <<>> \in Seq(Delivered) /\ ToSet(<<>>) = {}
<1>1. PICK s : s = <<>>
  OBVIOUS
<1>2. s \in Seq(Delivered)
  BY <1>1
<1>3. ToSet(s) = {}
  BY <1>1, <1>2, DeliveriesAre
<1>4. QED
  BY <1>1, <1>2, <1>3

LEMMA DeliveriesTail ==
    ASSUME NEW s \in Seq(Delivered), s # <<>>
    PROVE  /\ Head(s) \in Delivered /\ Tail(s) \in Seq(Delivered) /\ Len(Tail(s)) = Len(s) - 1 /\ Len(s) \in Nat \ {0}
           /\ ToSet(s) = {Head(s)} \cup ToSet(Tail(s))
<1>1. PICK r : r = Tail(s)
  OBVIOUS
<1>2. PICK n \in Nat : n = Len(s) /\ DOMAIN s = 1..n /\ n # 0
  BY DeliveriesAre
<1>3. Head(s) \in Delivered /\ r \in Seq(Delivered) /\ Len(r) = n - 1 /\ \A i \in 1..(n - 1) : r[i] = s[i + 1]
  BY <1>1, <1>2, HeadTailProperties
<1>4. Head(s) = s[1] /\ DOMAIN r = 1..(n - 1)
  BY <1>3, DeliveriesAre
<1>5. /\ \A i \in 1..n : i = 1 \/ (i - 1 \in 1..(n - 1) /\ (i - 1) + 1 = i)
      /\ \A i \in 1..(n - 1) : i + 1 \in 1..n /\ i + 1 # 1
      /\ 1 \in 1..n
  BY <1>2
<1>6. ToSet(s) = {Head(s)} \cup ToSet(r)
  <2>1. ASSUME NEW i \in 1..n
        PROVE  s[i] \in {Head(s)} \cup ToSet(r)
    <3>1. CASE i = 1
      BY <1>4, <3>1
    <3>2. CASE i # 1
      <4>1. PICK j \in 1..(n - 1) : j + 1 = i
        BY <1>5, <3>2
      <4>2. QED
        BY <1>3, <1>4, <4>1 DEF ToSet
    <3>3. QED
      BY <3>1, <3>2
  <2>2. \A i \in 1..(n - 1) : r[i] \in ToSet(s)
    BY <1>2, <1>3, <1>5 DEF ToSet
  <2>3. QED
    BY <1>2, <1>4, <1>5, <2>1, <2>2 DEF ToSet
<1>7. QED
  BY <1>1, <1>2, <1>3, <1>6

LEMMA DeliveriesJoined ==
    ASSUME NEW s \in Seq(Delivered), NEW t \in Seq(Delivered)
    PROVE  s \o t \in Seq(Delivered) /\ ToSet(s \o t) = ToSet(s) \cup ToSet(t) /\ Len(s \o t) = Len(s) + Len(t)
<1>1. PICK r : r = s \o t
  OBVIOUS
<1>2. PICK a \in Nat, b \in Nat : a = Len(s) /\ DOMAIN s = 1..a /\ b = Len(t) /\ DOMAIN t = 1..b
  BY DeliveriesAre
<1>3. r \in Seq(Delivered) /\ Len(r) = a + b /\ \A i \in 1..(a + b) : r[i] = IF i <= a THEN s[i] ELSE t[i - a]
  BY <1>1, <1>2, ConcatProperties
<1>4. DOMAIN r = 1..(a + b)
  BY <1>3, DeliveriesAre
<1>5. /\ \A i \in 1..a : i \in 1..(a + b) /\ i <= a
      /\ \A i \in 1..b : i + a \in 1..(a + b) /\ ~ (i + a <= a) /\ (i + a) - a = i
      /\ \A i \in 1..(a + b) : IF i <= a THEN i \in 1..a ELSE i - a \in 1..b
  BY <1>2
<1>6. \A i \in 1..a : r[i] = s[i]
  BY <1>3, <1>5
<1>7. \A i \in 1..b : r[i + a] = t[i]
  BY <1>3, <1>5
<1>8. ToSet(r) \subseteq ToSet(s) \cup ToSet(t)
  <2>1. ASSUME NEW m \in ToSet(r)
        PROVE  m \in ToSet(s) \cup ToSet(t)
    <3>1. PICK i \in 1..(a + b) : m = r[i]
      BY <1>4, <2>1 DEF ToSet
    <3>2. CASE i <= a
      BY <1>2, <1>5, <1>6, <3>1, <3>2 DEF ToSet
    <3>3. CASE ~ (i <= a)
      <4>1. i - a \in 1..b /\ m = t[i - a]
        BY <1>3, <1>5, <3>1, <3>3
      <4>2. QED
        BY <1>2, <4>1 DEF ToSet
    <3>4. QED
      BY <3>2, <3>3
  <2>2. QED
    BY <2>1
<1>9. ToSet(s) \subseteq ToSet(r)
  BY <1>2, <1>4, <1>5, <1>6 DEF ToSet
<1>10. ToSet(t) \subseteq ToSet(r)
  <2>1. ASSUME NEW i \in 1..b
        PROVE  t[i] \in ToSet(r)
    <3>1. i + a \in 1..(a + b) /\ t[i] = r[i + a]
      BY <1>5, <1>7
    <3>2. QED
      BY <1>4, <3>1 DEF ToSet
  <2>2. QED
    BY <1>2, <2>1 DEF ToSet
<1>11. QED
  BY <1>1, <1>2, <1>3, <1>8, <1>9, <1>10

-----------------------------------------------------------------------------
(* What the adapters' states have to do with each other. *)

On(turns, m) == \E i \in DOMAIN turns : m \in ToSet(turns[i])
OnBus(m) == On(bus, m)

\* A delivery that its handler will not reject when it is of a wanted message: Slack's two
\* events of a mention are one message.
Counts(d) == ~ (adapter = "slack" /\ d.event = "message" /\ (~conf.open \/ (conf.knowsBot /\ conf.kind[d.m] = "mention")))

InInbox(m)    == \E d \in ToSet(inbox) : d.m = m /\ Counts(d)
InHandlers(m) == \E h \in handlers : h.d.m = m
OnItsWay(m)   == OnBus(m) \/ InInbox(m) \/ InHandlers(m) \/ m \in ToSet(held) \/ m \in ToSet(fetch.list)

\* What may be left to do of a handler that waits.
RestsOf == {<<{"publish"}>>} \cup IF adapter = "telegram" THEN {<<{"album"}, {"publish"}>>} ELSE {}

Fetching == [on : {"no", "first", "second"}, todo : Seq(Nat), list : Seq(Nat), mark : Nat]
Turns == Seq(Nat) \ {<<>>}
Counters == [failures : Nat, restarts : Nat, links : Nat, lost : SUBSET Nat, again : SUBSET Nat, late : SUBSET Nat]

ReceiveTypes ==
    /\ adapter \in AllAdapters
    /\ posted \in 0 .. MaxMessages /\ pushes \in [Messages -> Nat] /\ flagged \in SUBSET (1 .. posted)
    /\ link \in {"up", "down"} /\ cold \in BOOLEAN
    /\ inbox \in Seq(Delivered) /\ \A d \in ToSet(inbox) : d.m \in 1 .. posted
    /\ \A h \in handlers : h.d \in Delivered /\ h.d.m \in 1 .. posted /\ h.rest \in RestsOf
    /\ seen \in Seq(Nat) /\ IsInjective(seen) /\ Len(seen) <= CacheSize /\ ToSet(seen) \subseteq 1 .. posted
    /\ cursor \in 0 .. posted /\ saved \in -1 .. posted
    /\ \A p \in flight : p \in [from : 0 .. posted, to : 0 .. posted] /\ p.from <= p.to
    /\ fetch \in Fetching
    /\ ToSet(fetch.todo) \subseteq 1 .. posted /\ ToSet(fetch.list) \subseteq 1 .. posted
    /\ held \in Seq(Nat) /\ \A m \in ToSet(held) : m \in 1 .. posted /\ Wanted(m)
    /\ bus \in Seq(Turns) /\ \A m : OnBus(m) => m \in 1 .. posted /\ Wanted(m)
    /\ used \in Counters

\* Which adapters use which parts of the state.
PartsUsed ==
    /\ adapter \in {"session", "panel"} => inbox = <<>> /\ handlers = {}
    /\ adapter \in {"email", "whatsapp"} => handlers = {}
    /\ fetch.on # "no" => adapter = "email" /\ inbox = <<>>
    /\ fetch.on = "no" => fetch = NoFetch
    /\ fetch.mark # 0 => fetch.mark \in ToSet(fetch.list)
    /\ held # <<>> => adapter \in {"telegram", "panel"}
    /\ adapter = "telegram" => \A h \in handlers : Wanted(h.d.m)
    /\ adapter \in {"session", "panel"} => \A m \in ToSet(seen) : Wanted(m)
    /\ saved <= cursor \/ (adapter = "weixin" /\ ~conf.resumes)
    /\ adapter # "session" => saved \in Nat
    /\ adapter = "session" => \A p \in flight : p.from <= cursor
    /\ \A m \in Messages : m > posted => pushes[m] = 0

\* A wanted message is somewhere; and what an adapter remembers, but of mails, was not
\* just remembered.
Kept == \A m \in 1 .. posted : Wanted(m) => OnItsWay(m) \/ StillComes(m) \/ m \in used.lost
SeenIsKept ==
    adapter # "email" => \A m \in ToSet(seen) : Wanted(m) => OnBus(m) \/ InHandlers(m) \/ m \in ToSet(held)

TakenInv == ReceiveTypes /\ PartsUsed /\ Kept /\ SeenIsKept

LEMMA TurnAppended ==
    ASSUME NEW b \in Seq(Turns), NEW t \in Turns
    PROVE  /\ Append(b, t) \in Seq(Turns)
           /\ \A m : On(Append(b, t), m) <=> On(b, m) \/ m \in ToSet(t)
<1>1. PICK r : r = Append(b, t)
  OBVIOUS
<1>2. PICK n \in Nat : n = Len(b) /\ DOMAIN b = 1..n
  BY LenProperties
<1>3. r \in Seq(Turns) /\ Len(r) = n + 1 /\ r[n + 1] = t /\ \A i \in 1..n : r[i] = b[i]
  BY <1>1, <1>2, AppendProperties
<1>4. DOMAIN r = 1..(n + 1)
  BY <1>3, LenProperties
<1>5. (\A i \in 1..(n + 1) : i \in 1..n \/ i = n + 1) /\ (\A i \in 1..n : i \in 1..(n + 1)) /\ n + 1 \in 1..(n + 1)
  BY <1>2
<1>6. ASSUME NEW m
      PROVE  On(r, m) <=> On(b, m) \/ m \in ToSet(t)
  <2>1. On(r, m) => On(b, m) \/ m \in ToSet(t)
    BY <1>2, <1>3, <1>4, <1>5 DEF On
  <2>2. On(b, m) => On(r, m)
    BY <1>2, <1>3, <1>4, <1>5 DEF On
  <2>3. m \in ToSet(t) => On(r, m)
    BY <1>3, <1>4, <1>5 DEF On
  <2>4. QED
    BY <2>1, <2>2, <2>3
<1>7. QED
  BY <1>1, <1>3, <1>6

LEMMA OneId ==
    ASSUME NEW m \in Nat
    PROVE  <<m>> \in Turns /\ <<m>> \in Seq(Nat) /\ ToSet(<<m>>) = {m} /\ Len(<<m>>) = 1
<1>1. PICK s : s = <<m>>
  OBVIOUS
<1>2. s \in Seq(Nat) /\ Len(s) = 1 /\ s[1] = m
  BY <1>1
<1>3. DOMAIN s = 1..1 /\ s # <<>>
  BY <1>2, IdsAre
<1>4. \A i \in 1..1 : i = 1
  OBVIOUS
<1>5. ToSet(s) = {m}
  BY <1>2, <1>3, <1>4 DEF ToSet
<1>6. QED
  BY <1>1, <1>2, <1>3, <1>5 DEF Turns

\* How often m is on the bus.
LEMMA TimesIs ==
    ASSUME NEW m, bus \in Seq(Turns)
    PROVE  Times(m) \in Nat /\ (Times(m) = 0 <=> ~ OnBus(m)) /\ (Times(m) > 0 <=> OnBus(m))
<1>1. PICK n \in Nat : n = Len(bus) /\ DOMAIN bus = 1..n /\ \A i \in 1..n : bus[i] \in Turns
  BY Positions
<1>2. PICK at : at = {i \in DOMAIN bus : Contains(bus[i], m)}
  OBVIOUS
<1>3. \A i \in 1..n : Contains(bus[i], m) <=> m \in ToSet(bus[i])
  <2>1. ASSUME NEW i \in 1..n
        PROVE  Contains(bus[i], m) <=> m \in ToSet(bus[i])
    <3>1. bus[i] \in Seq(Nat)
      BY <1>1 DEF Turns
    <3>2. QED
      BY <3>1, IdsAre
  <2>2. QED
    BY <2>1
<1>4. at = {} <=> ~ OnBus(m)
  BY <1>1, <1>2, <1>3 DEF OnBus, On
<1>5. IsFiniteSet(at)
  <2>1. at \subseteq 1..n /\ IsFiniteSet(1..n)
    BY <1>1, <1>2, FS_Interval
  <2>2. QED
    BY <2>1, FS_Subset
<1>6. Cardinality(at) \in Nat /\ (Cardinality(at) = 0 <=> at = {})
  BY <1>5, FS_CardinalityType, FS_EmptySet
<1>7. Times(m) = Cardinality(at)
  BY <1>2 DEF Times
<1>8. QED
  BY <1>4, <1>6, <1>7

LEMMA Greater ==
    ASSUME NEW a \in Int, NEW b \in Int
    PROVE  Max({a, b}) \in {a, b} /\ Max({a, b}) >= a /\ Max({a, b}) >= b /\ Max({a, b}) \in Int
<1>1. \E x \in {a, b} : \A y \in {a, b} : x >= y
  <2>1. CASE a >= b
    BY <2>1
  <2>2. CASE ~ (a >= b)
    BY <2>2
  <2>3. QED
    BY <2>1, <2>2
<1>2. PICK x : x = Max({a, b})
  OBVIOUS
<1>3. x \in {a, b} /\ \A y \in {a, b} : x >= y
  BY <1>1, <1>2 DEF Max
<1>4. QED
  BY <1>2, <1>3

\* The numbers that follow one.
LEMMA UptoIs ==
    ASSUME NEW a \in Nat, NEW b \in Nat
    PROVE  Upto(a, b) \in Seq(Nat) /\ ToSet(Upto(a, b)) = (a + 1)..b
<1>1. PICK s : s = Upto(a, b)
  OBVIOUS
<1>2. CASE b >= a
  <2>1. PICK n \in Nat : n = b - a
    BY <1>2
  <2>2. s = [i \in 1..n |-> a + i]
    BY <1>1, <2>1 DEF Upto
  <2>3. s \in [1..n -> Nat]
    BY <2>2
  <2>4. s \in Seq(Nat) /\ DOMAIN s = 1..n
    BY <2>2, <2>3, FunctionIsSeq
  <2>5. (\A i \in 1..n : a + i \in (a + 1)..b) /\ \A k \in (a + 1)..b : k - a \in 1..n /\ a + (k - a) = k
    BY <2>1
  <2>6. ToSet(s) = (a + 1)..b
    <3>1. \A i \in 1..n : s[i] = a + i
      BY <2>2
    <3>2. ToSet(s) \subseteq (a + 1)..b
      BY <2>4, <2>5, <3>1 DEF ToSet
    <3>3. ASSUME NEW k \in (a + 1)..b
          PROVE  k \in ToSet(s)
      <4>1. PICK i \in 1..n : a + i = k
        BY <2>5
      <4>2. QED
        BY <2>4, <3>1, <4>1 DEF ToSet
    <3>4. QED
      BY <3>2, <3>3
  <2>7. QED
    BY <1>1, <2>4, <2>6
<1>3. CASE ~ (b >= a)
  <2>1. (1..(b - a)) = 1..0 /\ ((a + 1)..b) = {}
    BY <1>3
  <2>2. s = [i \in 1..0 |-> a + i]
    BY <1>1, <2>1 DEF Upto
  <2>3. s \in [1..0 -> Nat] /\ 0 \in Nat
    BY <2>2
  <2>4. s \in Seq(Nat) /\ DOMAIN s = 1..0
    BY <2>2, <2>3, FunctionIsSeq
  <2>5. \A i \in 1..0 : FALSE
    OBVIOUS
  <2>6. ToSet(s) = {}
    BY <2>4, <2>5 DEF ToSet
  <2>7. QED
    BY <1>1, <2>1, <2>4, <2>6
<1>4. QED
  BY <1>2, <1>3

-----------------------------------------------------------------------------
(* The functions that walk over a sequence. *)

Rising(s) == \A i, j \in DOMAIN s : i < j => s[i] < s[j]

LEMMA RisingAppended ==
    ASSUME NEW s \in Seq(Nat), NEW m \in Nat, Rising(s), \A k \in ToSet(s) : k < m
    PROVE  Rising(Append(s, m))
<1>1. PICK r : r = Append(s, m)
  OBVIOUS
<1>2. PICK n \in Nat : n = Len(s) /\ DOMAIN s = 1..n
  BY IdsAre
<1>3. r \in Seq(Nat) /\ Len(r) = n + 1 /\ r[n + 1] = m /\ \A i \in 1..n : r[i] = s[i]
  BY <1>1, <1>2, AppendProperties
<1>4. DOMAIN r = 1..(n + 1)
  BY <1>3, IdsAre
<1>5. (\A i \in 1..(n + 1) : i \in 1..n \/ i = n + 1) /\ (\A i, j \in 1..(n + 1) : i < j => i \in 1..n)
  BY <1>2
<1>6. \A i \in 1..n : s[i] \in ToSet(s)
  BY <1>2 DEF ToSet
<1>7. ASSUME NEW i \in 1..(n + 1), NEW j \in 1..(n + 1), i < j
      PROVE  r[i] < r[j]
  <2>1. i \in 1..n /\ r[i] = s[i]
    BY <1>3, <1>5, <1>7
  <2>2. CASE j \in 1..n
    <3>1. r[j] = s[j]
      BY <1>3, <2>2
    <3>2. QED
      BY <1>2, <1>7, <2>1, <2>2, <3>1 DEF Rising
  <2>3. CASE j = n + 1
    BY <1>3, <1>6, <2>1, <2>3
  <2>4. QED
    BY <1>5, <2>2, <2>3
<1>8. QED
  BY <1>1, <1>4, <1>7 DEF Rising

\* The function of Those.
Chosen(walk, s, set) ==
    /\ walk \in [0..Len(s) -> Seq(Nat)] /\ walk[0] = <<>>
    /\ \A i \in 1..Len(s) : walk[i] = IF s[i] \in set THEN Append(walk[i - 1], s[i]) ELSE walk[i - 1]

LEMMA ThoseWalk ==
    ASSUME NEW s \in Seq(Nat), NEW set
    PROVE  \E walk : Those(s, set) = walk[Len(s)] /\ Chosen(walk, s, set)
<1> DEFINE S == Seq(Nat)
           After(a, i) == IF s[i] \in set THEN Append(a, s[i]) ELSE a
           Body(f) == [i \in 0..Len(s) |-> IF i = 0 THEN <<>> ELSE After(f[i - 1], i)]
<1>1. Len(s) \in Nat /\ \A i \in 1..Len(s) : s[i] \in Nat
  BY Positions
<1>2. ASSUME NEW i \in 1..Len(s), NEW a \in S
      PROVE  After(a, i) \in S
  BY <1>1, AppendProperties
<1>3. PICK step : step = [i \in 1..Len(s) |-> [a \in S |-> After(a, i)]]
  OBVIOUS
<1>4. step \in [1..Len(s) -> [S -> S]]
  <2> HIDE DEF S, After
  <2>1. QED
    BY <1>2, <1>3
<1>5. <<>> \in S
  OBVIOUS
<1>6. PICK g \in [0..Len(s) -> S] : g[0] = <<>> /\ \A i \in 1..Len(s) : g[i] = step[i][g[i - 1]]
  <2> HIDE DEF S, After, Body
  <2>1. \E g : Recurses(g, S, <<>>, Len(s), step)
    BY <1>1, <1>4, <1>5, Recursive
  <2>2. QED
    BY <2>1 DEF Recurses
<1>7. ASSUME NEW i \in 1..Len(s)
      PROVE  g[i] = After(g[i - 1], i)
  <2> HIDE DEF S, After
  <2>1. i - 1 \in 0..Len(s)
    BY <1>1
  <2>2. g[i - 1] \in S
    BY <1>6, <2>1
  <2>3. QED
    BY <1>3, <1>6, <2>2
<1>8. g = Body(g)
  <2> HIDE DEF S, After
  <2>1. \A i \in 0..Len(s) : i = 0 \/ i \in 1..Len(s)
    BY <1>1
  <2>2. \A i \in 0..Len(s) : g[i] = IF i = 0 THEN <<>> ELSE After(g[i - 1], i)
    BY <1>6, <1>7, <2>1
  <2>3. QED
    BY <1>6, <2>2
<1>9. PICK walk : walk = CHOOSE f : f = Body(f)
  OBVIOUS
<1>10. walk = Body(walk)
  <2> HIDE DEF Body
  <2>1. QED
    BY <1>8, <1>9
<1>11. Those(s, set) = walk[Len(s)]
  BY <1>9 DEF Those
<1>12. walk[0] = <<>> /\ \A i \in 1..Len(s) : walk[i] = After(walk[i - 1], i)
  <2> HIDE DEF S, After
  <2>1. 0 \in 0..Len(s) /\ \A i \in 1..Len(s) : i \in 0..Len(s) /\ i # 0
    BY <1>1
  <2>2. \A i \in 0..Len(s) : walk[i] = IF i = 0 THEN <<>> ELSE After(walk[i - 1], i)
    BY <1>10
  <2>3. QED
    BY <2>1, <2>2
<1>13. walk \in [0..Len(s) -> S]
  <2> DEFINE T == {i \in Nat : i <= Len(s) => walk[i] \in S}
  <2>1. 0 \in T
    BY <1>5, <1>12
  <2>2. ASSUME NEW i \in Nat, i \in T
        PROVE  i + 1 \in T
    <3>1. SUFFICES ASSUME i + 1 <= Len(s)
                   PROVE  walk[i + 1] \in S
      OBVIOUS
    <3>2. i + 1 \in 1..Len(s) /\ (i + 1) - 1 = i /\ i <= Len(s)
      BY <1>1, <3>1
    <3> HIDE DEF S, After
    <3>3. walk[i] \in S /\ walk[i + 1] = After(walk[i], i + 1)
      BY <1>12, <2>2, <3>2
    <3>4. QED
      BY <1>2, <3>2, <3>3
  <2>3. Nat \subseteq T
    <3> HIDE DEF T
    <3>1. QED
      BY <2>1, <2>2, Induct
  <2>4. \A i \in 0..Len(s) : walk[i] \in S
    BY <1>1, <2>3
  <2>5. QED
    <3> HIDE DEF S, After
    <3>1. QED
      BY <1>10, <2>4
<1>14. QED
  BY <1>11, <1>12, <1>13 DEF Chosen

\* Those of s keep their order.
LEMMA ThoseAre ==
    ASSUME NEW s \in Seq(Nat), NEW set
    PROVE  /\ Those(s, set) \in Seq(Nat) /\ ToSet(Those(s, set)) = ToSet(s) \cap set
           /\ IsInjective(s) => IsInjective(Those(s, set))
           /\ Rising(s) => Rising(Those(s, set))
<1>1. PICK walk : Those(s, set) = walk[Len(s)] /\ Chosen(walk, s, set)
  BY ThoseWalk
<1>2. PICK n \in Nat : n = Len(s) /\ DOMAIN s = 1..n /\ \A i \in 1..n : s[i] \in Nat
  BY Positions
<1>3. /\ walk \in [0..n -> Seq(Nat)] /\ walk[0] = <<>>
      /\ \A i \in 1..n : walk[i] = IF s[i] \in set THEN Append(walk[i - 1], s[i]) ELSE walk[i - 1]
  BY <1>1, <1>2 DEF Chosen
<1> DEFINE Good(k) ==
             /\ walk[k] \in Seq(Nat)
             /\ \A m : m \in ToSet(walk[k]) <=> m \in set /\ \E i \in 1..k : m = s[i]
             /\ IsInjective(s) => IsInjective(walk[k])
             /\ Rising(s) => Rising(walk[k])
           T == {k \in Nat : k <= n => Good(k)}
<1>4. 0 \in T
  <2>1. walk[0] \in Seq(Nat) /\ ToSet(walk[0]) = {} /\ IsInjective(walk[0])
    BY <1>3, NoIds
  <2>2. DOMAIN walk[0] = 1..0
    BY <1>3, <2>1, NoIds, IdsAre
  <2>3. \A i \in 1..0 : FALSE
    OBVIOUS
  <2>4. Rising(walk[0])
    BY <2>2, <2>3 DEF Rising
  <2>5. QED
    BY <2>1, <2>3, <2>4
<1>5. ASSUME NEW k \in Nat, k \in T
      PROVE  k + 1 \in T
  <2>1. SUFFICES ASSUME k + 1 <= n
                 PROVE  Good(k + 1)
    OBVIOUS
  <2>2. PICK j \in 1..n : j = k + 1 /\ j - 1 = k /\ k <= n
    BY <2>1
  <2>3. Good(k)
    BY <1>5, <2>2
  <2>4. PICK a, m : a = walk[k] /\ m = s[j] /\ m \in Nat
    BY <1>2
  <2>5. /\ a \in Seq(Nat) /\ \A v : v \in ToSet(a) <=> v \in set /\ \E i \in 1..k : v = s[i]
        /\ (IsInjective(s) => IsInjective(a)) /\ (Rising(s) => Rising(a))
    BY <2>3, <2>4
  <2>6. (\A i \in 1..j : i \in 1..k \/ i = j) /\ (\A i \in 1..k : i \in 1..j /\ i \in 1..n /\ i < j) /\ j \in 1..j
    BY <2>2
  <2>7. walk[j] = IF m \in set THEN Append(a, m) ELSE a
    BY <1>3, <2>2, <2>4
  <2>8. CASE m \notin set
    <3>1. walk[j] = a /\ \A v : v \in ToSet(a) <=> v \in set /\ \E i \in 1..j : v = s[i]
      BY <2>4, <2>5, <2>6, <2>7, <2>8
    <3>2. QED
      BY <2>2, <2>5, <3>1
  <2>9. CASE m \in set
    <3>1. /\ Append(a, m) \in Seq(Nat) /\ ToSet(Append(a, m)) = ToSet(a) \cup {m}
          /\ IsInjective(a) /\ m \notin ToSet(a) => IsInjective(Append(a, m))
      BY <2>4, <2>5, IdAppended
    <3>2. \A v : v \in ToSet(Append(a, m)) <=> v \in set /\ \E i \in 1..j : v = s[i]
      BY <2>4, <2>5, <2>6, <2>9, <3>1
    <3>3. IsInjective(s) => m \notin ToSet(a)
      <4>1. ASSUME IsInjective(s), m \in ToSet(a)
            PROVE  FALSE
        <5>1. PICK i \in 1..k : m = s[i]
          BY <2>5, <4>1
        <5>2. i \in 1..n /\ i < j
          BY <2>6
        <5>3. i = j
          BY <1>2, <2>4, <4>1, <5>1, <5>2 DEF IsInjective
        <5>4. QED
          BY <5>2, <5>3
      <4>2. QED
        BY <4>1
    <3>4. Rising(s) => \A v \in ToSet(a) : v < m
      <4>1. ASSUME Rising(s), NEW v \in ToSet(a)
            PROVE  v < m
        <5>1. PICK i \in 1..k : v = s[i]
          BY <2>5
        <5>2. i \in 1..n /\ i < j
          BY <2>6
        <5>3. QED
          BY <1>2, <2>4, <4>1, <5>1, <5>2 DEF Rising
      <4>2. QED
        BY <4>1
    <3>5. Rising(s) => Rising(Append(a, m))
      BY <2>4, <2>5, <3>4, RisingAppended
    <3>6. QED
      BY <2>2, <2>5, <2>7, <2>9, <3>1, <3>2, <3>3, <3>5
  <2>10. QED
    BY <2>8, <2>9
<1>6. Nat \subseteq T
  <2> HIDE DEF T
  <2>1. QED
    BY <1>4, <1>5, Induct
<1>7. Good(n)
  <2>1. n \in T /\ n <= n
    <3> HIDE DEF T
    <3>1. QED
      BY <1>2, <1>6
  <2>2. QED
    BY <2>1
<1>8. ToSet(walk[n]) = ToSet(s) \cap set
  BY <1>2, <1>7 DEF ToSet
<1>9. QED
  BY <1>1, <1>2, <1>7, <1>8

\* A half of the ids, whatever half it is.
LEMMA HalfIs ==
    ASSUME NEW s \in Seq(Nat), IsInjective(s), NEW t \in Halves(s)
    PROVE  t \in Seq(Nat) /\ IsInjective(t) /\ ToSet(t) \subseteq ToSet(s) /\ Len(t) <= Len(s) - Len(s) \div 2
<1>1. PICK k, kept : k = Len(s) - Len(s) \div 2 /\ kept \in kSubset(k, ToSet(s)) /\ t = Those(s, kept)
  BY DEF Halves
<1>2. t \in Seq(Nat) /\ ToSet(t) = ToSet(s) \cap kept /\ IsInjective(t)
  BY <1>1, ThoseAre
<1>3. kept \subseteq ToSet(s) /\ Cardinality(kept) = k
  BY <1>1 DEF kSubset
<1>4. PICK n \in Nat : n = Len(s) /\ DOMAIN s = 1..n
  BY IdsAre
<1>5. IsFiniteSet(ToSet(s))
  <2>1. IsFiniteSet(1..n)
    BY <1>4, FS_Interval
  <2>2. s \in [1..n -> Nat] 
    BY <1>4, Positions, LenProperties
  <2>3. ToSet(s) = {s[i] : i \in 1..n} /\ s \in [1..n -> ToSet(s)]
    BY <1>4, <2>2 DEF ToSet
  <2>4. s \in Surjection(1..n, ToSet(s))
    BY <1>4, <2>3 DEF Surjection, ToSet
  <2>5. QED
    BY <2>1, <2>4, FS_Surjection
<1>6. IsFiniteSet(kept)
  BY <1>3, <1>5, FS_Subset
<1>7. PICK x \in Nat : x = Len(t) /\ DOMAIN t = 1..x
  BY <1>2, IdsAre
<1>8. t \in [1..x -> kept]
  <2>1. \A i \in 1..x : t[i] \in kept
    BY <1>2, <1>7 DEF ToSet
  <2>2. t \in [1..x -> Nat]
    BY <1>2, <1>7, Positions, LenProperties
  <2>3. QED
    BY <2>1, <2>2
<1>9. t \in Injection(1..x, kept)
  BY <1>2, <1>8 DEF Injection
<1>10. Cardinality(1..x) <= Cardinality(kept)
  BY <1>6, <1>9, FS_Injection
<1>11. Cardinality(1..x) = x
  <2>1. PICK one, y : one = 1 /\ y = x /\ one \in Int /\ y \in Int
    BY <1>7
  <2>2. Cardinality(one..y) = IF one > y THEN 0 ELSE y - one + 1
    BY <2>1, FS_Interval, Zenon
  <2>3. QED
    BY <1>7, <2>1, <2>2
<1>12. QED
  BY <1>1, <1>2, <1>3, <1>7, <1>10, <1>11

-----------------------------------------------------------------------------
(* The steps of the handlers. *)

LEMMA TwoSteps == ASSUME NEW a, NEW b PROVE <<a, b>> # <<>> /\ Head(<<a, b>>) = a /\ Tail(<<a, b>>) = <<b>> /\ Drop(<<a, b>>, 1) = <<b>>
<1>1. PICK s : s = <<a, b>>
  OBVIOUS
<1>2. s \in Seq({a, b}) /\ Len(s) = 2 /\ s[1] = a /\ s[2] = b
  BY <1>1
<1>3. PICK two : two = Len(s)
  OBVIOUS
<1>4. PICK t : t = SubSeq(s, 2, 2)
  OBVIOUS
<1>5. t \in Seq({a, b}) /\ Len(t) = 1 /\ t[1] = b
  BY <1>2, <1>4
<1>6. t = <<b>>
  BY <1>5
<1>7. Drop(s, 1) = t
  BY <1>2, <1>4 DEF Drop
<1>8. QED
  BY <1>1, <1>6, <1>7

LEMMA ThreeSteps ==
    ASSUME NEW a, NEW b, NEW c
    PROVE  /\ <<a, b, c>> # <<>> /\ Head(<<a, b, c>>) = a /\ Tail(<<a, b, c>>) = <<b, c>>
           /\ Drop(<<a, b, c>>, 1) = <<b, c>> /\ Drop(<<a, b, c>>, 2) = <<c>>
<1>1. PICK s : s = <<a, b, c>>
  OBVIOUS
<1>2. s \in Seq({a, b, c}) /\ Len(s) = 3 /\ s[1] = a /\ s[2] = b /\ s[3] = c
  BY <1>1
<1>3. PICK t, u : t = SubSeq(s, 2, 3) /\ u = SubSeq(s, 3, 3)
  OBVIOUS
<1>4. t \in Seq({a, b, c}) /\ Len(t) = 2 /\ t[1] = b /\ t[2] = c
  BY <1>2, <1>3
<1>5. u \in Seq({a, b, c}) /\ Len(u) = 1 /\ u[1] = c
  BY <1>2, <1>3
<1>6. t = <<b, c>> /\ u = <<c>>
  BY <1>4, <1>5
<1>7. Drop(s, 1) = t /\ Drop(s, 2) = u
  BY <1>2, <1>3 DEF Drop
<1>8. QED
  BY <1>1, <1>6, <1>7

Handled == AllAdapters \ {"session", "panel"}
Firsts ==
    /\ Steps # <<>>
    /\ "publish" \in Head(Steps) \/ (Tail(Steps) \in RestsOf /\ adapter \notin {"email", "whatsapp"})
    /\ "remember" \in Head(Steps) <=> adapter \in Remembers \ {"email"}
    /\ "album" \notin Head(Steps)
    /\ adapter = "telegram" => Head(Steps) = {"group"}
    /\ adapter = "slack" => Head(Steps) = {"twice", "allow", "group"}
    /\ "twice" \in Head(Steps) => adapter = "slack"
    /\ adapter \notin {"email", "whatsapp"} => \A r \in RestsOf : \E k \in 1..2 : r = Drop(Steps, k)

LEMMA OneStep == ASSUME NEW a PROVE <<a>> # <<>> /\ Head(<<a>>) = a
OBVIOUS

LEMMA FirstStep ==
    ASSUME adapter \in Handled
    PROVE  Firsts
<1>1. CASE adapter = "telegram"
  <2>1. Steps = <<{"group"}, {"album"}, {"publish"}>>
    BY <1>1 DEF Steps, TelegramSteps
  <2>2. /\ Head(Steps) = {"group"} /\ Steps # <<>>
        /\ Tail(Steps) = <<{"album"}, {"publish"}>> /\ Drop(Steps, 1) = <<{"album"}, {"publish"}>> /\ Drop(Steps, 2) = <<{"publish"}>>
    BY <2>1, ThreeSteps
  <2>3. RestsOf = {<<{"publish"}>>, <<{"album"}, {"publish"}>>} /\ 1 \in 1..2 /\ 2 \in 1..2
    BY <1>1 DEF RestsOf
  <2>4. QED
    BY <1>1, <2>2, <2>3 DEF Firsts, Remembers
<1>2. CASE adapter = "weixin"
  <2>1. Steps = <<{"remember"}, {"publish"}>>
    BY <1>2 DEF Steps, WeixinSteps
  <2>2. Head(Steps) = {"remember"} /\ Steps # <<>> /\ Tail(Steps) = <<{"publish"}>> /\ Drop(Steps, 1) = <<{"publish"}>>
    BY <2>1, TwoSteps
  <2>3. RestsOf = {<<{"publish"}>>} /\ 1 \in 1..2 /\ 2 \in 1..2
    BY <1>2 DEF RestsOf
  <2>4. QED
    BY <1>2, <2>2, <2>3 DEF Firsts, Remembers
<1>3. CASE adapter = "matrix"
  <2>1. Steps = <<{"allow", "group"}, {"publish"}>>
    BY <1>3 DEF Steps, MatrixSteps
  <2>2. Head(Steps) = {"allow", "group"} /\ Steps # <<>> /\ Tail(Steps) = <<{"publish"}>> /\ Drop(Steps, 1) = <<{"publish"}>>
    BY <2>1, TwoSteps
  <2>3. RestsOf = {<<{"publish"}>>} /\ 1 \in 1..2 /\ 2 \in 1..2
    BY <1>3 DEF RestsOf
  <2>4. QED
    BY <1>3, <2>2, <2>3 DEF Firsts, Remembers
<1>4. CASE adapter = "email"
  <2>1. Steps = <<{"publish"}>>
    BY <1>4 DEF Steps, EmailSteps
  <2>2. Head(Steps) = {"publish"} /\ Steps # <<>>
    BY <2>1, OneStep
  <2>3. QED
    BY <1>4, <2>2 DEF Firsts, Remembers
<1>5. CASE adapter = "discord"
  <2>1. Steps = <<{"allow", "group"}, {"publish"}>>
    BY <1>5 DEF Steps, DiscordSteps
  <2>2. Head(Steps) = {"allow", "group"} /\ Steps # <<>> /\ Tail(Steps) = <<{"publish"}>> /\ Drop(Steps, 1) = <<{"publish"}>>
    BY <2>1, TwoSteps
  <2>3. RestsOf = {<<{"publish"}>>} /\ 1 \in 1..2 /\ 2 \in 1..2
    BY <1>5 DEF RestsOf
  <2>4. QED
    BY <1>5, <2>2, <2>3 DEF Firsts, Remembers
<1>6. CASE adapter = "feishu"
  <2>1. Steps = <<{"remember", "group"}, {"publish"}>>
    BY <1>6 DEF Steps, FeishuSteps
  <2>2. Head(Steps) = {"remember", "group"} /\ Steps # <<>> /\ Tail(Steps) = <<{"publish"}>> /\ Drop(Steps, 1) = <<{"publish"}>>
    BY <2>1, TwoSteps
  <2>3. RestsOf = {<<{"publish"}>>} /\ 1 \in 1..2 /\ 2 \in 1..2
    BY <1>6 DEF RestsOf
  <2>4. QED
    BY <1>6, <2>2, <2>3 DEF Firsts, Remembers
<1>7. CASE adapter = "qq"
  <2>1. Steps = <<{"remember"}, {"publish"}>>
    BY <1>7 DEF Steps, QQSteps
  <2>2. Head(Steps) = {"remember"} /\ Steps # <<>> /\ Tail(Steps) = <<{"publish"}>> /\ Drop(Steps, 1) = <<{"publish"}>>
    BY <2>1, TwoSteps
  <2>3. RestsOf = {<<{"publish"}>>} /\ 1 \in 1..2 /\ 2 \in 1..2
    BY <1>7 DEF RestsOf
  <2>4. QED
    BY <1>7, <2>2, <2>3 DEF Firsts, Remembers
<1>8. CASE adapter = "wecom"
  <2>1. Steps = <<{"remember"}, {"publish"}>>
    BY <1>8 DEF Steps, WecomSteps
  <2>2. Head(Steps) = {"remember"} /\ Steps # <<>> /\ Tail(Steps) = <<{"publish"}>> /\ Drop(Steps, 1) = <<{"publish"}>>
    BY <2>1, TwoSteps
  <2>3. RestsOf = {<<{"publish"}>>} /\ 1 \in 1..2 /\ 2 \in 1..2
    BY <1>8 DEF RestsOf
  <2>4. QED
    BY <1>8, <2>2, <2>3 DEF Firsts, Remembers
<1>9. CASE adapter = "dingtalk"
  <2>1. Steps = <<{}, {"publish"}>>
    BY <1>9 DEF Steps, DingtalkSteps
  <2>2. Head(Steps) = {} /\ Steps # <<>> /\ Tail(Steps) = <<{"publish"}>> /\ Drop(Steps, 1) = <<{"publish"}>>
    BY <2>1, TwoSteps
  <2>3. RestsOf = {<<{"publish"}>>} /\ 1 \in 1..2 /\ 2 \in 1..2
    BY <1>9 DEF RestsOf
  <2>4. QED
    BY <1>9, <2>2, <2>3 DEF Firsts, Remembers
<1>10. CASE adapter = "slack"
  <2>1. Steps = <<{"twice", "allow", "group"}, {"publish"}>>
    BY <1>10 DEF Steps, SlackSteps
  <2>2. Head(Steps) = {"twice", "allow", "group"} /\ Steps # <<>> /\ Tail(Steps) = <<{"publish"}>> /\ Drop(Steps, 1) = <<{"publish"}>>
    BY <2>1, TwoSteps
  <2>3. RestsOf = {<<{"publish"}>>} /\ 1 \in 1..2 /\ 2 \in 1..2
    BY <1>10 DEF RestsOf
  <2>4. QED
    BY <1>10, <2>2, <2>3 DEF Firsts, Remembers
<1>11. CASE adapter = "whatsapp"
  <2>1. Steps = <<{"remember", "group", "publish"}>>
    BY <1>11 DEF Steps, WhatsAppSteps
  <2>2. Head(Steps) = {"remember", "group", "publish"} /\ Steps # <<>>
    BY <2>1, OneStep
  <2>3. QED
    BY <1>11, <2>2 DEF Firsts, Remembers
<1>12. QED
  BY <1>1, <1>2, <1>3, <1>4, <1>5, <1>6, <1>7, <1>8, <1>9, <1>10, <1>11 DEF Handled, AllAdapters

LEMMA NextStep ==
    ASSUME NEW r \in RestsOf
    PROVE  /\ r # <<>>
           /\ \/ Head(r) = {"publish"}
              \/ adapter = "telegram" /\ Head(r) = {"album"} /\ Tail(r) \in RestsOf
<1>1. r = <<{"publish"}>> \/ (adapter = "telegram" /\ r = <<{"album"}, {"publish"}>>)
  BY DEF RestsOf
<1>2. CASE r = <<{"publish"}>>
  BY <1>2, OneStep
<1>3. CASE adapter = "telegram" /\ r = <<{"album"}, {"publish"}>>
  BY <1>3, TwoSteps DEF RestsOf
<1>4. QED
  BY <1>1, <1>2, <1>3

LEMMA RememberIs ==
    ASSUME NEW s \in Seq(Nat), IsInjective(s), Len(s) <= CacheSize, NEW m \in Nat, m \notin ToSet(s)
    PROVE  /\ Remember(s, m) \in Seq(Nat) /\ IsInjective(Remember(s, m)) /\ Len(Remember(s, m)) <= CacheSize
           /\ ToSet(Remember(s, m)) \subseteq ToSet(s) \cup {m} /\ m \in ToSet(Remember(s, m))
<1>1. CacheSize \in Nat \ {0} /\ Len(s) \in Nat
  BY ReceiveAssumption, IdsAre
<1>2. CASE Len(s) < CacheSize
  <2>1. Remember(s, m) = Append(s, m)
    BY <1>2 DEF Remember
  <2>2. /\ Append(s, m) \in Seq(Nat) /\ ToSet(Append(s, m)) = ToSet(s) \cup {m} /\ Len(Append(s, m)) = Len(s) + 1
        /\ IsInjective(Append(s, m))
    BY IdAppended
  <2>3. Len(s) + 1 <= CacheSize
    BY <1>1, <1>2
  <2>4. QED
    BY <2>1, <2>2, <2>3
<1>3. CASE ~ (Len(s) < CacheSize)
  <2>1. Remember(s, m) = Append(Tail(s), m)
    BY <1>3 DEF Remember
  <2>2. s # <<>> /\ Len(s) = CacheSize
    BY <1>1, <1>3, IdsAre
  <2>3. PICK t : t = Tail(s)
    OBVIOUS
  <2>4. t \in Seq(Nat) /\ Len(t) = CacheSize - 1 /\ ToSet(t) \subseteq ToSet(s) /\ IsInjective(t)
    BY <2>2, <2>3, IdsTail
  <2>5. /\ Append(t, m) \in Seq(Nat) /\ ToSet(Append(t, m)) = ToSet(t) \cup {m} /\ Len(Append(t, m)) = Len(t) + 1
        /\ IsInjective(Append(t, m))
    BY <2>4, IdAppended
  <2>6. Len(t) + 1 = CacheSize
    BY <1>1, <2>4
  <2>7. QED
    BY <2>1, <2>3, <2>4, <2>5, <2>6
<1>4. QED
  BY <1>2, <1>3

LEMMA GhostsKept ==
    ASSUME used \in Counters, NEW set, set \subseteq Nat
    PROVE  /\ Repeat(set) \in Counters /\ Repeat(set).lost = used.lost
           /\ Lose(set) \in Counters /\ Lose(set).lost = used.lost \cup set
BY DEF Counters, Repeat, Lose

\* What the first step of a handler does with a delivery.
Waits(d) == \E r \in RestsOf : handlers' = handlers \cup {[d |-> d, rest |-> r]}
FirstDone(d) ==
    /\ seen' \in Seq(Nat) /\ IsInjective(seen') /\ Len(seen') <= CacheSize /\ ToSet(seen') \subseteq ToSet(seen) \cup {d.m}
    /\ bus' = bus \/ (bus' = Append(bus, <<d.m>>) /\ Wanted(d.m))
    /\ held' = held
    /\ \/ handlers' = handlers
       \/ Waits(d) /\ (adapter = "telegram" => Wanted(d.m)) /\ adapter \notin {"email", "whatsapp"}
    /\ used' \in Counters /\ used'.lost = used.lost
    /\ Wanted(d.m) /\ Counts(d) =>
          bus' = Append(bus, <<d.m>>) \/ Waits(d) \/ (adapter # "email" /\ d.m \in ToSet(seen))
    /\ d.m \in ToSet(seen') \ ToSet(seen) => Counts(d)

LEMMA DoFirst ==
    ASSUME NEW d \in Delivered, adapter \in Handled, ReceiveTypes, Do(d, Steps, handlers)
    PROVE  FirstDone(d)
<1>1. Firsts
  BY FirstStep
<1>2. PICK step : step = Head(Steps)
  OBVIOUS
<1>3. PICK known : known = ("remember" \in step /\ Contains(seen, d.m)) /\ known \in BOOLEAN
  OBVIOUS
<1>4. PICK taken : taken = (~known /\ ~Rejected(step, d)) /\ taken \in BOOLEAN
  OBVIOUS
<1>5. PICK new : new = IF "remember" \in step /\ ~known THEN Remember(seen, d.m) ELSE seen
  OBVIOUS
<1>6. ~IsHeld(step, d)
  BY <1>1, <1>2 DEF Firsts, IsHeld
<1>7. /\ seen' = new /\ used' = Repeat(Forgotten(new)) /\ held' = held
      /\ bus' = IF taken /\ "publish" \in step THEN Append(bus, <<d.m>>) ELSE bus
      /\ handlers' = handlers \cup IF taken /\ "publish" \notin step THEN {[d |-> d, rest |-> Tail(Steps)]} ELSE {}
  <2>1. /\ seen' = new /\ used' = Repeat(Forgotten(new))
        /\ held' = IF IsHeld(step, d) THEN Append(held, d.m) ELSE held
        /\ bus' = IF taken /\ "publish" \in step THEN Append(bus, <<d.m>>) ELSE bus
        /\ handlers' = handlers \cup IF taken /\ ~IsHeld(step, d) /\ "publish" \notin step
                                     THEN {[d |-> d, rest |-> Tail(Steps)]} ELSE {}
    BY <1>2, <1>3, <1>4, <1>5 DEF Do
  <2>2. QED
    BY <1>6, <2>1
<1>8. seen \in Seq(Nat) /\ IsInjective(seen) /\ Len(seen) <= CacheSize /\ d.m \in Nat
  BY DEF ReceiveTypes, Delivered
<1>9. Contains(seen, d.m) <=> d.m \in ToSet(seen)
  BY <1>8, IdsAre
<1>10. new \in Seq(Nat) /\ IsInjective(new) /\ Len(new) <= CacheSize /\ ToSet(new) \subseteq ToSet(seen) \cup {d.m}
  <2>1. CASE "remember" \in step /\ ~known
    <3>1. d.m \notin ToSet(seen)
      BY <1>3, <1>9, <2>1
    <3>2. QED
      BY <1>5, <1>8, <2>1, <3>1, RememberIs
  <2>2. CASE ~ ("remember" \in step /\ ~known)
    BY <1>5, <1>8, <2>2
  <2>3. QED
    BY <2>1, <2>2
<1>11. used' \in Counters /\ used'.lost = used.lost
  <2>1. Forgotten(new) \subseteq Nat /\ used \in Counters
    BY <1>8, IdsAre DEF Forgotten, ReceiveTypes
  <2>2. QED
    BY <1>7, <2>1, GhostsKept
<1>12. taken => Wanted(d.m) \/ step \cap {"allow", "group", "publish"} = {}
  BY <1>4 DEF Rejected
<1>13. bus' = bus \/ (bus' = Append(bus, <<d.m>>) /\ Wanted(d.m))
  <2>1. CASE taken /\ "publish" \in step
    BY <1>7, <1>12, <2>1
  <2>2. CASE ~ (taken /\ "publish" \in step)
    BY <1>7, <2>2
  <2>3. QED
    BY <2>1, <2>2
<1>14. taken /\ "publish" \notin step => Waits(d) /\ adapter \notin {"email", "whatsapp"} /\ (adapter = "telegram" => Wanted(d.m))
  <2>1. ASSUME taken, "publish" \notin step
        PROVE  Waits(d) /\ adapter \notin {"email", "whatsapp"}
    <3>1. Tail(Steps) \in RestsOf /\ adapter \notin {"email", "whatsapp"}
      BY <1>1, <1>2, <2>1 DEF Firsts
    <3>2. handlers' = handlers \cup {[d |-> d, rest |-> Tail(Steps)]}
      BY <1>7, <2>1
    <3>3. QED
      BY <3>1, <3>2 DEF Waits
  <2>2. ASSUME taken, adapter = "telegram"
        PROVE  Wanted(d.m)
    <3>1. step = {"group"}
      BY <1>1, <1>2, <2>2 DEF Firsts
    <3>2. QED
      BY <1>12, <2>2, <3>1
  <2>3. QED
    BY <2>1, <2>2
<1>15. ~ (taken /\ "publish" \notin step) => handlers' = handlers
  BY <1>7
<1>16. known => adapter # "email" /\ d.m \in ToSet(seen)
  BY <1>1, <1>2, <1>3, <1>9 DEF Firsts
<1>17. Wanted(d.m) /\ Counts(d) => ~Rejected(step, d)
  BY <1>1, <1>2 DEF Firsts, Rejected, Counts
<1>18. d.m \in ToSet(seen') \ ToSet(seen) => Counts(d)
  <2>1. ASSUME d.m \in ToSet(seen') \ ToSet(seen)
        PROVE  Counts(d)
    <3>1. "remember" \in step
      BY <1>5, <1>7, <2>1
    <3>2. adapter # "slack"
      BY <1>1, <1>2, <3>1 DEF Firsts, Remembers
    <3>3. QED
      BY <3>2 DEF Counts
  <2>2. QED
    BY <2>1
<1>19. Wanted(d.m) /\ Counts(d) =>
          bus' = Append(bus, <<d.m>>) \/ Waits(d) \/ (adapter # "email" /\ d.m \in ToSet(seen))
  BY <1>4, <1>7, <1>14, <1>16, <1>17
<1>20. QED
  BY <1>7, <1>10, <1>11, <1>13, <1>14, <1>15, <1>18, <1>19 DEF FirstDone

\* What a later step does.
NextDone(h) ==
    /\ seen' = seen
    /\ used' \in Counters /\ used'.lost = used.lost
    /\ \/ handlers' = handlers \ {h} /\ held' = held /\ bus' = bus /\ ~Wanted(h.d.m)
       \/ handlers' = handlers \ {h} /\ held' = held /\ bus' = Append(bus, <<h.d.m>>) /\ Wanted(h.d.m)
       \/ handlers' = handlers \ {h} /\ held' = Append(held, h.d.m) /\ bus' = bus /\ adapter = "telegram"
       \/ held' = held /\ bus' = bus /\ adapter = "telegram"
          /\ \E r \in RestsOf : handlers' = (handlers \ {h}) \cup {[d |-> h.d, rest |-> r]}

LEMMA DoNext ==
    ASSUME NEW h \in handlers, ReceiveTypes, Do(h.d, h.rest, handlers \ {h})
    PROVE  NextDone(h)
<1>1. PICK d, rest : d = h.d /\ rest = h.rest /\ rest \in RestsOf
  BY DEF ReceiveTypes
<1>2. PICK step : step = Head(rest)
  OBVIOUS
<1>3. step = {"publish"} \/ (adapter = "telegram" /\ step = {"album"} /\ Tail(rest) \in RestsOf)
  BY <1>1, <1>2, NextStep
<1>4. "remember" \notin step
  BY <1>3
<1>5. /\ seen' = seen /\ used' = Repeat(Forgotten(seen))
      /\ held' = IF IsHeld(step, d) THEN Append(held, d.m) ELSE held
      /\ bus' = IF ~Rejected(step, d) /\ "publish" \in step THEN Append(bus, <<d.m>>) ELSE bus
      /\ handlers' = (handlers \ {h}) \cup IF ~Rejected(step, d) /\ ~IsHeld(step, d) /\ "publish" \notin step
                                   THEN {[d |-> d, rest |-> Tail(rest)]} ELSE {}
  BY <1>1, <1>2, <1>4 DEF Do
<1>6. used' \in Counters /\ used'.lost = used.lost
  <2>1. Forgotten(seen) \subseteq Nat /\ used \in Counters
    BY DEF Forgotten, ReceiveTypes
  <2>2. QED
    BY <1>5, <2>1, GhostsKept
<1>7. CASE step = {"publish"}
  <2>1. Rejected(step, d) <=> ~Wanted(d.m)
    BY <1>7 DEF Rejected
  <2>2. ~IsHeld(step, d) /\ "publish" \in step
    BY <1>7 DEF IsHeld
  <2>3. held' = held /\ handlers' = handlers \ {h}
    BY <1>5, <2>2
  <2>4. bus' = IF Wanted(d.m) THEN Append(bus, <<d.m>>) ELSE bus
    BY <1>5, <2>1, <2>2
  <2>5. QED
    BY <1>1, <1>5, <1>6, <2>3, <2>4 DEF NextDone
<1>8. CASE adapter = "telegram" /\ step = {"album"} /\ Tail(rest) \in RestsOf
  <2>1. ~Rejected(step, d) /\ "publish" \notin step
    BY <1>8 DEF Rejected
  <2>2. bus' = bus
    BY <1>5, <2>1
  <2>3. CASE IsHeld(step, d)
    <3>1. held' = Append(held, d.m) /\ handlers' = handlers \ {h}
      BY <1>5, <2>3
    <3>2. QED
      BY <1>1, <1>5, <1>6, <1>8, <2>2, <3>1 DEF NextDone
  <2>4. CASE ~IsHeld(step, d)
    <3>1. held' = held /\ handlers' = (handlers \ {h}) \cup {[d |-> d, rest |-> Tail(rest)]}
      BY <1>5, <2>1, <2>4
    <3>2. QED
      BY <1>1, <1>5, <1>6, <1>8, <2>2, <3>1 DEF NextDone
  <2>5. QED
    BY <2>3, <2>4
<1>9. QED
  BY <1>3, <1>7, <1>8

-----------------------------------------------------------------------------
(* Every step keeps TakenInv. *)

LEMMA SameConf ==
    ASSUME conf' = conf
    PROVE  /\ adapter' = adapter /\ RestsOf' = RestsOf /\ Steps' = Steps
           /\ \A m : Wanted(m)' <=> Wanted(m)
           /\ \A d : Counts(d)' <=> Counts(d)
BY DEF adapter, RestsOf, Steps, Wanted, Counts

LEMMA StillSame ==
    ASSUME conf' = conf, cursor' = cursor, pushes' = pushes, adapter \in AllAdapters,
           adapter = "email" => flagged' = flagged /\ seen' = seen
    PROVE  \A m : StillComes(m) => StillComes(m)'
<1>1. adapter' = adapter
  BY DEF adapter
<1>2. TAKE m
<1>3. CASE adapter \in {"telegram", "weixin", "matrix", "session"}
  BY <1>1, <1>3 DEF StillComes, Pushed
<1>4. CASE adapter = "email"
  BY <1>1, <1>4 DEF StillComes, Pushed
<1>5. CASE adapter = "panel"
  BY <1>1, <1>5 DEF StillComes, Pushed
<1>6. CASE adapter \in Pushed
  BY <1>1, <1>6 DEF StillComes, Pushed
<1>7. QED
  BY <1>3, <1>4, <1>5, <1>6 DEF AllAdapters, Pushed

\* Handling changes nothing of these.
Beside ==
    /\ conf' = conf /\ posted' = posted /\ pushes' = pushes /\ flagged' = flagged /\ link' = link
    /\ cursor' = cursor /\ saved' = saved /\ cold' = cold /\ flight' = flight /\ fetch' = fetch

LEMMA BeginTaken ==
    ASSUME TakenInv, Begin
    PROVE  TakenInv'
<1>1. PICK d : d = Head(inbox)
  OBVIOUS
<1>2. inbox # <<>> /\ inbox' = Tail(inbox) /\ Do(d, Steps, handlers) /\ Beside
  BY <1>1 DEF Begin, Beside, server
<1>3. ReceiveTypes /\ PartsUsed /\ Kept /\ SeenIsKept
  BY DEF TakenInv
<1>4. /\ d \in Delivered /\ inbox' \in Seq(Delivered) /\ ToSet(inbox) = {d} \cup ToSet(inbox')
      /\ d.m \in 1..posted /\ d.m \in Nat
  BY <1>1, <1>2, <1>3, DeliveriesTail DEF ReceiveTypes, Delivered
<1>5. adapter \in Handled /\ fetch.on = "no" /\ fetch = NoFetch
  BY <1>2, <1>3 DEF PartsUsed, ReceiveTypes, Handled, Fetching
<1>6. FirstDone(d)
  BY <1>2, <1>3, <1>4, <1>5, DoFirst
<1>7. /\ conf' = conf /\ adapter' = adapter /\ RestsOf' = RestsOf
      /\ \A m : Wanted(m)' <=> Wanted(m)
      /\ \A x : Counts(x)' <=> Counts(x)
  BY <1>2, SameConf DEF Beside
<1>8. /\ bus' \in Seq(Turns) /\ (\A m : OnBus(m) => OnBus(m)')
      /\ \A m : OnBus(m)' <=> OnBus(m) \/ (m = d.m /\ Wanted(d.m) /\ bus' = Append(bus, <<d.m>>))
  <2>1. CASE bus' = bus
    <3>1. bus \in Seq(Turns)
      BY <1>3 DEF ReceiveTypes
    <3>2. CASE bus' = Append(bus, <<d.m>>) /\ Wanted(d.m)
      <4>1. \A m : On(Append(bus, <<d.m>>), m) <=> On(bus, m) \/ m = d.m
        BY <1>4, <3>1, OneId, TurnAppended
      <4>2. QED
        BY <2>1, <3>1, <3>2, <4>1 DEF OnBus
    <3>3. CASE ~ (bus' = Append(bus, <<d.m>>) /\ Wanted(d.m))
      BY <2>1, <3>1, <3>3 DEF OnBus
    <3>4. QED
      BY <3>2, <3>3
  <2>2. CASE bus' = Append(bus, <<d.m>>) /\ Wanted(d.m)
    <3>1. bus \in Seq(Turns)
      BY <1>3 DEF ReceiveTypes
    <3>2. /\ Append(bus, <<d.m>>) \in Seq(Turns)
          /\ \A m : On(Append(bus, <<d.m>>), m) <=> On(bus, m) \/ m = d.m
      BY <1>4, <3>1, OneId, TurnAppended
    <3>3. QED
      BY <2>2, <3>2 DEF OnBus
  <2>3. QED
    BY <1>6, <2>1, <2>2 DEF FirstDone
<1>9. /\ \A h \in handlers' : h \in handlers \/ (h.d = d /\ h.rest \in RestsOf /\ Waits(d))
      /\ handlers \subseteq handlers'
      /\ (Waits(d) => InHandlers(d.m)')
      /\ \A m : InHandlers(m) => InHandlers(m)'
  <2>1. handlers' = handlers \/ Waits(d)
    BY <1>6 DEF FirstDone
  <2>2. CASE Waits(d)
    <3>1. PICK r \in RestsOf : handlers' = handlers \cup {[d |-> d, rest |-> r]}
      BY <2>2 DEF Waits
    <3>2. PICK h : h = [d |-> d, rest |-> r]
      OBVIOUS
    <3>3. handlers' = handlers \cup {h} /\ h.d = d /\ h.rest = r
      BY <3>1, <3>2
    <3>4. QED
      BY <2>2, <3>3 DEF InHandlers
  <2>3. CASE handlers' = handlers /\ ~Waits(d)
    BY <2>3 DEF InHandlers
  <2>4. QED
    BY <2>1, <2>2, <2>3
<1>10. ReceiveTypes'
  <2>1. \A h \in handlers' : h.d \in Delivered /\ h.d.m \in 1 .. posted /\ h.rest \in RestsOf
    BY <1>3, <1>4, <1>9 DEF ReceiveTypes
  <2>2. ToSet(seen') \subseteq 1..posted /\ seen' \in Seq(Nat) /\ IsInjective(seen') /\ Len(seen') <= CacheSize
    BY <1>3, <1>4, <1>6 DEF ReceiveTypes, FirstDone
  <2>3. \A x \in ToSet(inbox') : x.m \in 1..posted
    BY <1>3, <1>4 DEF ReceiveTypes
  <2>4. \A m : OnBus(m)' => m \in 1..posted /\ Wanted(m)
    BY <1>3, <1>4, <1>8 DEF ReceiveTypes
  <2>5. held' = held /\ used' \in Counters
    BY <1>6 DEF FirstDone
  <2>6. QED
    BY <1>2, <1>3, <1>4, <1>7, <1>8, <2>1, <2>2, <2>3, <2>4, <2>5 DEF ReceiveTypes, Beside
<1>11. PartsUsed'
  <2>1. adapter \in {"email", "whatsapp"} => handlers' = {}
    BY <1>3, <1>6 DEF PartsUsed, FirstDone
  <2>2. adapter = "telegram" => \A h \in handlers' : Wanted(h.d.m)
    BY <1>3, <1>6, <1>9 DEF PartsUsed, FirstDone, Waits
  <2>3. held' = held
    BY <1>6 DEF FirstDone
  <2>4. QED
    BY <1>2, <1>3, <1>5, <1>7, <2>1, <2>2, <2>3 DEF PartsUsed, Beside, Handled, NoFetch
<1>12. \A m \in ToSet(seen) : adapter # "email" /\ Wanted(m) => OnBus(m)' \/ InHandlers(m)' \/ m \in ToSet(held')
  BY <1>3, <1>6, <1>8, <1>9 DEF SeenIsKept, FirstDone
<1>13. Wanted(d.m) /\ Counts(d) => OnBus(d.m)' \/ InHandlers(d.m)' \/ d.m \in ToSet(held')
  BY <1>6, <1>8, <1>9, <1>12 DEF FirstDone
<1>14. SeenIsKept'
  <2>1. \A m \in ToSet(seen') : m \in ToSet(seen) \/ (m = d.m /\ Counts(d))
    BY <1>6 DEF FirstDone
  <2>2. QED
    BY <1>7, <1>12, <1>13, <2>1 DEF SeenIsKept
<1>15. Kept'
  <2>1. ASSUME NEW m \in 1..posted, Wanted(m)
        PROVE  OnItsWay(m)' \/ StillComes(m)' \/ m \in used'.lost
    <3>1. CASE OnItsWay(m)
      <4>1. InInbox(m) => InInbox(m)' \/ (m = d.m /\ Counts(d))
        BY <1>4, <1>7 DEF InInbox
      <4>2. held' = held /\ fetch' = fetch
        BY <1>2, <1>6 DEF FirstDone, Beside
      <4>3. QED
        BY <1>8, <1>9, <1>13, <2>1, <3>1, <4>1, <4>2 DEF OnItsWay
    <3>2. CASE StillComes(m)
      <4>1. adapter # "email" => StillComes(m)'
        BY <1>2, <1>5, <1>7, <3>2, StillSame DEF Handled, Beside
      <4>2. CASE adapter = "email"
        <5>1. CASE m = d.m
          <6>1. Counts(d)
            BY <4>2 DEF Counts
          <6>2. QED
            BY <1>13, <2>1, <5>1, <6>1 DEF OnItsWay
        <5>2. CASE m # d.m
          <6>1. m \notin flagged /\ ~Contains(seen, m)
            BY <3>2, <4>2 DEF StillComes, Pushed
          <6>2. m \notin ToSet(seen')
            BY <1>3, <1>6, <5>2, <6>1, IdsAre DEF FirstDone, ReceiveTypes
          <6>3. ~Contains(seen', m)
            BY <1>6, <6>2, IdsAre DEF FirstDone
          <6>4. QED
            BY <1>2, <1>7, <4>2, <6>1, <6>3 DEF StillComes, Pushed, Beside
        <5>3. QED
          BY <5>1, <5>2
      <4>3. QED
        BY <4>1, <4>2
    <3>3. CASE m \in used.lost
      BY <1>6, <3>3 DEF FirstDone
    <3>4. QED
      BY <1>3, <2>1, <3>1, <3>2, <3>3 DEF Kept
  <2>2. posted' = posted
    BY <1>2 DEF Beside
  <2>3. QED
    BY <1>7, <2>1, <2>2 DEF Kept
<1>16. QED
  BY <1>10, <1>11, <1>14, <1>15 DEF TakenInv

\* The three places of a message that was taken and remembered.
Forwarded(m) == OnBus(m) \/ InHandlers(m) \/ m \in ToSet(held)

LEMMA StepTaken ==
    ASSUME TakenInv, NEW h \in handlers, Step(h)
    PROVE  TakenInv'
<1>1. Do(h.d, h.rest, handlers \ {h}) /\ Beside /\ inbox' = inbox
  BY DEF Step, Beside, server
<1>2. ReceiveTypes /\ PartsUsed /\ Kept /\ SeenIsKept
  BY DEF TakenInv
<1>3. NextDone(h)
  BY <1>1, <1>2, DoNext
<1>4. /\ conf' = conf /\ adapter' = adapter /\ RestsOf' = RestsOf
      /\ \A m : Wanted(m)' <=> Wanted(m)
      /\ \A x : Counts(x)' <=> Counts(x)
  BY <1>1, SameConf DEF Beside
<1>5. PICK d : d = h.d /\ d \in Delivered /\ d.m \in 1..posted /\ d.m \in Nat
  BY <1>2 DEF ReceiveTypes, Delivered
<1>6. bus \in Seq(Turns) /\ held \in Seq(Nat)
  BY <1>2 DEF ReceiveTypes
<1>7. /\ Append(bus, <<d.m>>) \in Seq(Turns)
      /\ \A m : On(Append(bus, <<d.m>>), m) <=> On(bus, m) \/ m = d.m
  BY <1>5, <1>6, OneId, TurnAppended
<1>8. Append(held, d.m) \in Seq(Nat) /\ ToSet(Append(held, d.m)) = ToSet(held) \cup {d.m}
  BY <1>5, <1>6, IdAppended
<1>9. adapter \notin {"email", "whatsapp", "session", "panel"} /\ fetch.on = "no"
  BY <1>2 DEF PartsUsed, ReceiveTypes, Fetching
<1>10. adapter = "telegram" => Wanted(d.m)
  BY <1>2, <1>5 DEF PartsUsed
<1> DEFINE Good ==
             /\ bus' \in Seq(Turns) /\ (\A m : OnBus(m)' => OnBus(m) \/ (m = d.m /\ Wanted(m)))
             /\ held' \in Seq(Nat) /\ (\A m \in ToSet(held') : m \in ToSet(held) \/ (m = d.m /\ Wanted(m)))
             /\ held' # held => adapter = "telegram"
             /\ \A x \in handlers' : x \in handlers \/ (x.d = d /\ x.rest \in RestsOf)
             /\ \A m : Wanted(m) /\ Forwarded(m) => Forwarded(m)'
<1>11. Good
  <2>1. CASE handlers' = handlers \ {h} /\ held' = held /\ bus' = bus /\ ~Wanted(d.m)
    BY <1>5, <1>6, <2>1 DEF OnBus, InHandlers, Forwarded
  <2>2. CASE handlers' = handlers \ {h} /\ held' = held /\ bus' = Append(bus, <<d.m>>) /\ Wanted(d.m)
    <3>1. \A m : OnBus(m)' <=> OnBus(m) \/ m = d.m
      BY <1>7, <2>2 DEF OnBus
    <3>2. \A m : InHandlers(m) => InHandlers(m)' \/ m = d.m
      BY <1>5, <2>2 DEF InHandlers
    <3>3. QED
      BY <1>6, <1>7, <2>2, <3>1, <3>2 DEF Forwarded
  <2>3. CASE handlers' = handlers \ {h} /\ held' = Append(held, d.m) /\ bus' = bus /\ adapter = "telegram"
    <3>1. \A m : InHandlers(m) => InHandlers(m)' \/ m = d.m
      BY <1>5, <2>3 DEF InHandlers
    <3>2. QED
      BY <1>6, <1>8, <1>10, <2>3, <3>1 DEF Forwarded, OnBus
  <2>4. CASE /\ held' = held /\ bus' = bus /\ adapter = "telegram"
             /\ \E r \in RestsOf : handlers' = (handlers \ {h}) \cup {[d |-> h.d, rest |-> r]}
    <3>1. PICK r \in RestsOf : handlers' = (handlers \ {h}) \cup {[d |-> h.d, rest |-> r]}
      BY <2>4
    <3>2. PICK x : x = [d |-> h.d, rest |-> r]
      OBVIOUS
    <3>3. handlers' = (handlers \ {h}) \cup {x} /\ x.d = d /\ x.rest = r
      BY <1>5, <3>1, <3>2
    <3>4. \A m : InHandlers(m) => InHandlers(m)'
      BY <1>5, <3>3 DEF InHandlers
    <3>5. QED
      BY <1>6, <2>4, <3>3, <3>4 DEF Forwarded, OnBus
  <2>5. QED
    BY <1>3, <1>5, <2>1, <2>2, <2>3, <2>4 DEF NextDone
<1> HIDE DEF Good
<1>12. seen' = seen /\ used' \in Counters /\ used'.lost = used.lost
  BY <1>3 DEF NextDone
<1>13. ReceiveTypes'
  <2>1. \A x \in handlers' : x.d \in Delivered /\ x.d.m \in 1 .. posted /\ x.rest \in RestsOf
    BY <1>2, <1>5, <1>11 DEF ReceiveTypes, Good
  <2>2. \A m : OnBus(m)' => m \in 1..posted /\ Wanted(m)
    BY <1>2, <1>5, <1>11 DEF ReceiveTypes, Good
  <2>3. held' \in Seq(Nat) /\ \A m \in ToSet(held') : m \in 1..posted /\ Wanted(m)
    BY <1>2, <1>5, <1>11 DEF ReceiveTypes, Good
  <2>4. bus' \in Seq(Turns)
    BY <1>11 DEF Good
  <2>5. QED
    BY <1>1, <1>2, <1>4, <1>12, <2>1, <2>2, <2>3, <2>4 DEF ReceiveTypes, Beside
<1>14. PartsUsed'
  <2>1. adapter = "telegram" => \A x \in handlers' : Wanted(x.d.m)
    BY <1>2, <1>10, <1>11 DEF PartsUsed, Good
  <2>2. held' # <<>> => adapter \in {"telegram", "panel"}
    BY <1>2, <1>11 DEF PartsUsed, Good
  <2>3. QED
    BY <1>1, <1>2, <1>4, <1>9, <1>12, <2>1, <2>2 DEF PartsUsed, Beside, NoFetch
<1>15. SeenIsKept'
  BY <1>2, <1>4, <1>11, <1>12 DEF SeenIsKept, Good, Forwarded
<1>16. Kept'
  <2>1. \A m : StillComes(m) => StillComes(m)'
    BY <1>1, <1>2, <1>9, <1>12, StillSame DEF ReceiveTypes, Beside
  <2>2. \A m : InInbox(m) => InInbox(m)'
    BY <1>1, <1>4 DEF InInbox
  <2>3. \A m : Wanted(m) /\ OnItsWay(m) => OnItsWay(m)'
    BY <1>1, <1>11, <2>2 DEF OnItsWay, Good, Forwarded, Beside
  <2>4. QED
    BY <1>1, <1>2, <1>4, <1>12, <2>1, <2>3 DEF Kept, Beside
<1>17. QED
  BY <1>13, <1>14, <1>15, <1>16 DEF TakenInv

\* Nothing of what an adapter has, or does, changes.
Aside ==
    /\ conf' = conf /\ inbox' = inbox /\ handlers' = handlers /\ seen' = seen /\ cursor' = cursor /\ saved' = saved
    /\ cold' = cold /\ fetch' = fetch /\ held' = held /\ bus' = bus

LEMMA AsideKeeps ==
    ASSUME Aside
    PROVE  /\ adapter' = adapter /\ RestsOf' = RestsOf
           /\ \A m : Wanted(m)' <=> Wanted(m)
           /\ \A m : OnItsWay(m)' <=> OnItsWay(m)
           /\ \A m : OnBus(m)' <=> OnBus(m)
           /\ \A m : InHandlers(m)' <=> InHandlers(m)
<1>1. /\ adapter' = adapter /\ RestsOf' = RestsOf
      /\ \A m : Wanted(m)' <=> Wanted(m)
      /\ \A d : Counts(d)' <=> Counts(d)
  BY SameConf DEF Aside
<1>2. \A m : OnBus(m)' <=> OnBus(m)
  BY DEF Aside, OnBus
<1>3. \A m : InHandlers(m)' <=> InHandlers(m)
  BY DEF Aside, InHandlers
<1>4. \A m : InInbox(m)' <=> InInbox(m)
  BY <1>1 DEF Aside, InInbox
<1>5. \A m : OnItsWay(m)' <=> OnItsWay(m)
  BY <1>2, <1>3, <1>4 DEF Aside, OnItsWay
<1>6. QED
  BY <1>1, <1>2, <1>3, <1>5

LEMMA PostsTaken ==
    ASSUME TakenInv, Posts
    PROVE  TakenInv'
<1>1. /\ Aside /\ posted' = posted + 1 /\ posted < MaxMessages /\ pushes' = pushes /\ flagged' = flagged /\ link' = link
      /\ flight' = flight /\ used' = IF adapter \in Transient /\ link = "down" THEN Lose({posted + 1}) ELSE used
  BY DEF Posts, Aside, state
<1>2. ReceiveTypes /\ PartsUsed /\ Kept /\ SeenIsKept
  BY DEF TakenInv
<1>3. /\ adapter' = adapter /\ RestsOf' = RestsOf
      /\ \A m : Wanted(m)' <=> Wanted(m)
      /\ \A m : OnItsWay(m)' <=> OnItsWay(m)
      /\ \A m : OnBus(m)' <=> OnBus(m)
      /\ \A m : InHandlers(m)' <=> InHandlers(m)
  BY <1>1, AsideKeeps
<1>4. posted \in Nat /\ MaxMessages \in Nat /\ posted + 1 \in 0..MaxMessages /\ 1..posted \subseteq 1..(posted + 1) /\ 0..posted \subseteq 0..(posted + 1)
      /\ -1..posted \subseteq -1..(posted + 1)
  BY <1>1, <1>2, ReceiveAssumption DEF ReceiveTypes
<1>5. used' \in Counters /\ used.lost \subseteq used'.lost
  <2>1. used \in Counters /\ {posted + 1} \subseteq Nat
    BY <1>2, <1>4 DEF ReceiveTypes
  <2>2. QED
    BY <1>1, <2>1, GhostsKept
<1>6. ReceiveTypes'
  BY <1>1, <1>2, <1>3, <1>4, <1>5 DEF ReceiveTypes, Aside
<1>7. PartsUsed'
  BY <1>1, <1>2, <1>3, <1>4 DEF PartsUsed, Aside, NoFetch, Messages
<1>8. SeenIsKept'
  BY <1>1, <1>2, <1>3 DEF SeenIsKept, Aside
<1>9. \A m : StillComes(m) => StillComes(m)'
  BY <1>1, <1>2, StillSame DEF Aside, ReceiveTypes
<1>10. StillComes(posted + 1)
  <2>1. PICK m \in Nat : m = posted + 1 /\ m > posted /\ m \in Messages /\ m \notin 1..posted
    BY <1>1, <1>4 DEF Messages
  <2>2. CASE adapter \in {"telegram", "weixin", "matrix", "session"}
    <3>1. cursor \in 0..posted
      BY <1>2 DEF ReceiveTypes
    <3>2. m > cursor
      BY <1>4, <2>1, <3>1
    <3>3. QED
      BY <2>1, <2>2, <3>2 DEF StillComes, Pushed
  <2>3. CASE adapter = "email"
    <3>1. m \notin flagged /\ ~Contains(seen, m)
      BY <1>2, <2>1, IdsAre DEF ReceiveTypes
    <3>2. QED
      BY <2>1, <2>3, <3>1 DEF StillComes, Pushed
  <2>4. CASE adapter = "panel"
    BY <2>4 DEF StillComes, Pushed
  <2>5. CASE adapter \in Pushed
    <3>1. pushes[m] = 0
      BY <1>2, <2>1 DEF PartsUsed
    <3>2. QED
      BY <2>1, <2>5, <3>1 DEF StillComes, Pushed
  <2>6. QED
    BY <1>2, <2>2, <2>3, <2>4, <2>5 DEF ReceiveTypes, AllAdapters, Pushed
<1>11. Kept'
  <2>1. \A m \in 1..(posted + 1) : m \in 1..posted \/ m = posted + 1
    BY <1>4
  <2>2. QED
    BY <1>1, <1>2, <1>3, <1>5, <1>9, <1>10, <2>1 DEF Kept
<1>12. QED
  BY <1>6, <1>7, <1>8, <1>11 DEF TakenInv

LEMMA RestTaken ==
    ASSUME TakenInv, UNCHANGED vars
    PROVE  TakenInv'
<1>1. Aside /\ posted' = posted /\ pushes' = pushes /\ flagged' = flagged /\ link' = link /\ flight' = flight /\ used' = used
  BY DEF vars, Aside
<1>2. ReceiveTypes /\ PartsUsed /\ Kept /\ SeenIsKept
  BY DEF TakenInv
<1>3. /\ adapter' = adapter /\ RestsOf' = RestsOf
      /\ \A m : Wanted(m)' <=> Wanted(m)
      /\ \A m : OnItsWay(m)' <=> OnItsWay(m)
      /\ \A m : OnBus(m)' <=> OnBus(m)
      /\ \A m : InHandlers(m)' <=> InHandlers(m)
  BY <1>1, AsideKeeps
<1>4. ReceiveTypes'
  BY <1>1, <1>2, <1>3 DEF ReceiveTypes, Aside
<1>5. PartsUsed'
  BY <1>1, <1>2, <1>3 DEF PartsUsed, Aside, NoFetch
<1>6. SeenIsKept'
  BY <1>1, <1>2, <1>3 DEF SeenIsKept, Aside
<1>7. \A m : StillComes(m) => StillComes(m)'
  BY <1>1, <1>2, StillSame DEF Aside, ReceiveTypes
<1>8. Kept'
  BY <1>1, <1>2, <1>3, <1>7 DEF Kept
<1>9. QED
  BY <1>4, <1>5, <1>6, <1>8 DEF TakenInv

LEMMA LinkTaken ==
    ASSUME TakenInv, LinkChanges
    PROVE  TakenInv'
<1>1. /\ Aside /\ posted' = posted /\ pushes' = pushes /\ flagged' = flagged /\ flight' = flight
      /\ link' \in {"up", "down"} /\ used' = [used EXCEPT !.links = @ + 1]
  BY DEF LinkChanges, Aside, state
<1>2. ReceiveTypes /\ PartsUsed /\ Kept /\ SeenIsKept
  BY DEF TakenInv
<1>3. /\ adapter' = adapter /\ RestsOf' = RestsOf
      /\ \A m : Wanted(m)' <=> Wanted(m)
      /\ \A m : OnItsWay(m)' <=> OnItsWay(m)
      /\ \A m : OnBus(m)' <=> OnBus(m)
      /\ \A m : InHandlers(m)' <=> InHandlers(m)
  BY <1>1, AsideKeeps
<1>4. used' \in Counters /\ used'.lost = used.lost
  <2>1. used \in Counters
    BY <1>2 DEF ReceiveTypes
  <2>2. used.links + 1 \in Nat
    BY <2>1 DEF Counters
  <2>3. QED
    BY <1>1, <2>1, <2>2 DEF Counters
<1>5. ReceiveTypes'
  BY <1>1, <1>2, <1>3, <1>4 DEF ReceiveTypes, Aside
<1>6. PartsUsed'
  BY <1>1, <1>2, <1>3 DEF PartsUsed, Aside, NoFetch
<1>7. SeenIsKept'
  BY <1>1, <1>2, <1>3 DEF SeenIsKept, Aside
<1>8. \A m : StillComes(m) => StillComes(m)'
  BY <1>1, <1>2, StillSame DEF Aside, ReceiveTypes
<1>9. Kept'
  BY <1>1, <1>2, <1>3, <1>4, <1>8 DEF Kept
<1>10. QED
  BY <1>5, <1>6, <1>7, <1>9 DEF TakenInv

LEMMA SaveCursorsTaken ==
    ASSUME TakenInv, \/ MatrixStored \/ SaveCursors
    PROVE  TakenInv'
<1>1. /\ conf' = conf /\ inbox' = inbox /\ handlers' = handlers /\ seen' = seen /\ cursor' = cursor /\ saved' = cursor
      /\ cold' = cold /\ fetch' = fetch /\ held' = held /\ bus' = bus
      /\ posted' = posted /\ pushes' = pushes /\ flagged' = flagged /\ link' = link /\ flight' = flight /\ used' = used
  BY DEF MatrixStored, SaveCursors, server
<1>2. ReceiveTypes /\ PartsUsed /\ Kept /\ SeenIsKept
  BY DEF TakenInv
<1>3. /\ adapter' = adapter /\ RestsOf' = RestsOf
      /\ \A m : Wanted(m)' <=> Wanted(m)
      /\ \A d : Counts(d)' <=> Counts(d)
  BY <1>1, SameConf
<1>4. /\ \A m : OnBus(m)' <=> OnBus(m)
      /\ \A m : InHandlers(m)' <=> InHandlers(m)
      /\ \A m : InInbox(m)' <=> InInbox(m)
  BY <1>1, <1>3 DEF OnBus, InHandlers, InInbox
<1>5. \A m : OnItsWay(m)' <=> OnItsWay(m)
  BY <1>1, <1>4 DEF OnItsWay
<1>6. cursor \in -1..posted /\ cursor <= cursor /\ posted \in Nat /\ cursor \in Nat
  BY <1>2 DEF ReceiveTypes
<1>7. ReceiveTypes'
  BY <1>1, <1>2, <1>3, <1>4, <1>6 DEF ReceiveTypes
<1>8. PartsUsed'
  BY <1>1, <1>2, <1>3, <1>6 DEF PartsUsed, NoFetch
<1>9. SeenIsKept'
  BY <1>1, <1>2, <1>3, <1>4 DEF SeenIsKept
<1>10. \A m : StillComes(m) => StillComes(m)'
  BY <1>1, <1>2, StillSame DEF ReceiveTypes
<1>11. Kept'
  BY <1>1, <1>2, <1>3, <1>5, <1>10 DEF Kept
<1>12. QED
  BY <1>7, <1>8, <1>9, <1>11 DEF TakenInv

LEMMA AnswersTaken ==
    ASSUME TakenInv, Answers
    PROVE  TakenInv'
<1>1. PICK from : from = IF adapter = "session" THEN cursor ELSE Max({0, posted - PanelLimit})
  OBVIOUS
<1>2. PICK p : p = [from |-> from, to |-> posted]
  OBVIOUS
<1>3. /\ Aside /\ posted' = posted /\ pushes' = pushes /\ flagged' = flagged /\ link' = link /\ used' = used
      /\ flight' = flight \cup {p}
  BY <1>1, <1>2 DEF Answers, Aside, server
<1>4. ReceiveTypes /\ PartsUsed /\ Kept /\ SeenIsKept
  BY DEF TakenInv
<1>5. /\ adapter' = adapter /\ RestsOf' = RestsOf
      /\ \A m : Wanted(m)' <=> Wanted(m)
      /\ \A m : OnItsWay(m)' <=> OnItsWay(m)
      /\ \A m : OnBus(m)' <=> OnBus(m)
      /\ \A m : InHandlers(m)' <=> InHandlers(m)
  BY <1>3, AsideKeeps
<1>6. posted \in Nat /\ PanelLimit \in Nat \ {0} /\ cursor \in 0..posted
  BY <1>4, ReceiveAssumption DEF ReceiveTypes
<1>7. from \in 0..posted
  <2>1. CASE adapter = "session"
    BY <1>1, <1>6, <2>1
  <2>2. CASE adapter # "session"
    <3>1. PICK d \in Int : d = posted - PanelLimit /\ d <= posted
      BY <1>6
    <3>2. Max({0, d}) \in {0, d} /\ Max({0, d}) >= 0 /\ Max({0, d}) \in Int
      BY Greater
    <3>3. from = Max({0, d})
      BY <1>1, <2>2, <3>1
    <3>4. QED
      BY <1>6, <3>1, <3>2, <3>3
  <2>3. QED
    BY <2>1, <2>2
<1>8. p \in [from : 0..posted, to : 0..posted] /\ p.from = from /\ p.to = posted /\ from <= posted /\ (adapter = "session" => from <= cursor)
  BY <1>1, <1>2, <1>6, <1>7
<1>9. ReceiveTypes'
  <2>1. \A q \in flight' : q \in [from : 0..posted, to : 0..posted] /\ q.from <= q.to
    BY <1>3, <1>4, <1>8 DEF ReceiveTypes
  <2>2. QED
    BY <1>3, <1>4, <1>5, <2>1 DEF ReceiveTypes, Aside
<1>10. PartsUsed'
  BY <1>3, <1>4, <1>5, <1>8 DEF PartsUsed, Aside, NoFetch
<1>11. SeenIsKept'
  BY <1>3, <1>4, <1>5 DEF SeenIsKept, Aside
<1>12. \A m : StillComes(m) => StillComes(m)'
  BY <1>3, <1>4, StillSame DEF Aside, ReceiveTypes
<1>13. Kept'
  BY <1>3, <1>4, <1>5, <1>12 DEF Kept
<1>14. QED
  BY <1>9, <1>10, <1>11, <1>13 DEF TakenInv

LEMMA FlushTaken ==
    ASSUME TakenInv, Flush
    PROVE  TakenInv'
<1>1. /\ held # <<>> /\ bus' = Append(bus, held) /\ held' = <<>>
      /\ conf' = conf /\ inbox' = inbox /\ handlers' = handlers /\ seen' = seen /\ cursor' = cursor /\ saved' = saved
      /\ cold' = cold /\ fetch' = fetch
      /\ posted' = posted /\ pushes' = pushes /\ flagged' = flagged /\ link' = link /\ flight' = flight /\ used' = used
  BY DEF Flush, server, state
<1>2. ReceiveTypes /\ PartsUsed /\ Kept /\ SeenIsKept
  BY DEF TakenInv
<1>3. /\ adapter' = adapter /\ RestsOf' = RestsOf
      /\ \A m : Wanted(m)' <=> Wanted(m)
      /\ \A d : Counts(d)' <=> Counts(d)
  BY <1>1, SameConf
<1>4. bus \in Seq(Turns) /\ held \in Turns /\ held \in Seq(Nat) /\ \A m \in ToSet(held) : m \in 1..posted /\ Wanted(m)
  BY <1>1, <1>2 DEF ReceiveTypes, Turns
<1>5. bus' \in Seq(Turns) /\ \A m : OnBus(m)' <=> OnBus(m) \/ m \in ToSet(held)
  <2>1. Append(bus, held) \in Seq(Turns) /\ \A m : On(Append(bus, held), m) <=> On(bus, m) \/ m \in ToSet(held)
    BY <1>4, TurnAppended
  <2>2. QED
    BY <1>1, <2>1 DEF OnBus
<1>6. /\ \A m : InHandlers(m)' <=> InHandlers(m)
      /\ \A m : InInbox(m)' <=> InInbox(m)
  BY <1>1, <1>3 DEF InHandlers, InInbox
<1>7. \A m : OnItsWay(m) => OnItsWay(m)'
  BY <1>1, <1>5, <1>6 DEF OnItsWay
<1>8. held' \in Seq(Nat) /\ ToSet(held') = {}
  BY <1>1, NoIds
<1>9. ReceiveTypes'
  BY <1>1, <1>2, <1>3, <1>4, <1>5, <1>8 DEF ReceiveTypes
<1>10. PartsUsed'
  BY <1>1, <1>2, <1>3 DEF PartsUsed, NoFetch
<1>11. SeenIsKept'
  BY <1>1, <1>2, <1>3, <1>5, <1>6 DEF SeenIsKept
<1>12. \A m : StillComes(m) => StillComes(m)'
  BY <1>1, <1>2, StillSame DEF ReceiveTypes
<1>13. Kept'
  BY <1>1, <1>2, <1>3, <1>7, <1>12 DEF Kept
<1>14. QED
  BY <1>9, <1>10, <1>11, <1>13 DEF TakenInv

\* What an adapter gets when it asks.
LEMMA TakenAre ==
    ASSUME posted \in Nat, cursor \in 0..posted
    PROVE  /\ Taken \in Seq(Delivered)
           /\ \A d \in ToSet(Taken) : d \in Delivered /\ d.m \in (cursor + 1)..posted /\ d.event = "message"
           /\ \A k \in (cursor + 1)..posted : \E d \in ToSet(Taken) : d.m = k
<1>1. PICK n \in Nat : n = posted - cursor
  OBVIOUS
<1>2. PICK s : s = Taken
  OBVIOUS
<1>3. s = [i \in 1..n |-> [m |-> cursor + i, event |-> "message"]]
  BY <1>1, <1>2 DEF Taken
<1>4. cursor \in Nat
  OBVIOUS
<1>5. s \in [1..n -> Delivered]
  BY <1>3, <1>4 DEF Delivered
<1>6. s \in Seq(Delivered) /\ DOMAIN s = 1..n
  BY <1>3, <1>5, FunctionIsSeq
<1>7. \A i \in 1..n : s[i].m = cursor + i /\ s[i].event = "message" /\ s[i] \in Delivered
  BY <1>3, <1>5
<1>8. (\A i \in 1..n : cursor + i \in (cursor + 1)..posted) /\ \A k \in (cursor + 1)..posted : k - cursor \in 1..n /\ cursor + (k - cursor) = k
  BY <1>1, <1>4
<1>9. \A d \in ToSet(s) : \E i \in 1..n : d = s[i]
  BY <1>6 DEF ToSet
<1>10. \A i \in 1..n : s[i] \in ToSet(s)
  BY <1>6 DEF ToSet
<1>11. ASSUME NEW k \in (cursor + 1)..posted
       PROVE  \E d \in ToSet(s) : d.m = k
  <2>1. PICK i \in 1..n : cursor + i = k
    BY <1>8
  <2>2. QED
    BY <1>7, <1>10, <2>1
<1>12. ASSUME NEW d \in ToSet(s)
       PROVE  d \in Delivered /\ d.m \in (cursor + 1)..posted /\ d.event = "message"
  <2>1. PICK i \in 1..n : d = s[i]
    BY <1>9
  <2>2. QED
    BY <1>7, <1>8, <2>1
<1>13. QED
  BY <1>2, <1>6, <1>11, <1>12

\* WeixinPoll, MatrixSync and TelegramUpdates.
LEMMA AsksTaken ==
    ASSUME TakenInv, \/ WeixinPoll \/ MatrixSync \/ TelegramUpdates
    PROVE  TakenInv'
<1>1. /\ adapter \in {"weixin", "matrix", "telegram"} /\ cursor' = posted /\ saved' \in {saved, posted}
      /\ inbox' = inbox \o Taken \/ (inbox = <<>> /\ inbox' = Taken)
      /\ conf' = conf /\ handlers' = handlers /\ seen' = seen
      /\ cold' = cold /\ fetch' = fetch /\ held' = held /\ bus' = bus
      /\ posted' = posted /\ pushes' = pushes /\ flagged' = flagged /\ link' = link /\ flight' = flight /\ used' = used
  <2>1. CASE WeixinPoll
    BY <2>1 DEF WeixinPoll, Idle, server
  <2>2. CASE MatrixSync
    BY <2>2 DEF MatrixSync, Idle, server
  <2>3. CASE TelegramUpdates
    BY <2>3 DEF TelegramUpdates, server
  <2>4. QED
    BY <2>1, <2>2, <2>3
<1>2. ReceiveTypes /\ PartsUsed /\ Kept /\ SeenIsKept
  BY DEF TakenInv
<1>3. /\ adapter' = adapter /\ RestsOf' = RestsOf
      /\ \A m : Wanted(m)' <=> Wanted(m)
      /\ \A d : Counts(d)' <=> Counts(d)
  BY <1>1, SameConf
<1>4. posted \in Nat /\ cursor \in 0..posted /\ saved \in -1..posted /\ inbox \in Seq(Delivered)
  BY <1>2 DEF ReceiveTypes
<1>5. /\ Taken \in Seq(Delivered)
      /\ \A d \in ToSet(Taken) : d.m \in 1..posted
      /\ \A k \in (cursor + 1)..posted : \E d \in ToSet(Taken) : d.m = k
  <2>1. \A k \in (cursor + 1)..posted : k \in 1..posted
    BY <1>4
  <2>2. QED
    BY <1>4, <2>1, TakenAre
<1>6. inbox' \in Seq(Delivered) /\ ToSet(inbox') = ToSet(inbox) \cup ToSet(Taken)
  <2>1. inbox \o Taken \in Seq(Delivered) /\ ToSet(inbox \o Taken) = ToSet(inbox) \cup ToSet(Taken)
    BY <1>4, <1>5, DeliveriesJoined
  <2>2. inbox = <<>> => ToSet(inbox) = {}
    BY NoDeliveries
  <2>3. QED
    BY <1>1, <1>5, <2>1, <2>2
<1>7. /\ \A m : OnBus(m)' <=> OnBus(m)
      /\ \A m : InHandlers(m)' <=> InHandlers(m)
      /\ \A m : InInbox(m) => InInbox(m)'
  BY <1>1, <1>3, <1>6 DEF OnBus, InHandlers, InInbox
<1>8. ReceiveTypes'
  <2>1. posted \in 0..posted /\ saved' \in -1..posted
    BY <1>1, <1>4
  <2>2. \A d \in ToSet(inbox') : d.m \in 1..posted
    BY <1>2, <1>5, <1>6 DEF ReceiveTypes
  <2>3. QED
    BY <1>1, <1>2, <1>3, <1>6, <1>7, <2>1, <2>2 DEF ReceiveTypes
<1>9. PartsUsed'
  <2>1. saved' <= posted /\ saved' \in Nat
    BY <1>1, <1>2, <1>4 DEF PartsUsed
  <2>2. QED
    BY <1>1, <1>2, <1>3, <2>1 DEF PartsUsed, NoFetch
<1>10. SeenIsKept'
  BY <1>1, <1>2, <1>3, <1>7 DEF SeenIsKept
<1>11. Kept'
  <2>1. ASSUME NEW m \in 1..posted, StillComes(m)
        PROVE  InInbox(m)'
    <3>1. m > cursor
      BY <1>1, <2>1 DEF StillComes, Pushed
    <3>2. m \in (cursor + 1)..posted
      BY <1>4, <3>1
    <3>3. PICK d \in ToSet(Taken) : d.m = m
      BY <1>5, <3>2
    <3>4. Counts(d)
      BY <1>1 DEF Counts
    <3>5. QED
      BY <1>3, <1>6, <3>3, <3>4 DEF InInbox
  <2>2. \A m : OnItsWay(m) => OnItsWay(m)'
    BY <1>1, <1>7 DEF OnItsWay
  <2>3. \A m : InInbox(m)' => OnItsWay(m)'
    BY DEF OnItsWay
  <2>4. QED
    BY <1>1, <1>2, <1>3, <2>1, <2>2, <2>3 DEF Kept
<1>12. QED
  BY <1>8, <1>9, <1>10, <1>11 DEF TakenInv

LEMMA EventsAre ==
    ASSUME NEW m \in Nat
    PROVE  /\ Events(m) \in Seq(Delivered) /\ \A d \in ToSet(Events(m)) : d.m = m
           /\ Wanted(m) => \E d \in ToSet(Events(m)) : Counts(d)
<1>1. PICK a, b : /\ a = [m |-> m, event |-> "message"] /\ b = [m |-> m, event |-> "app_mention"]
  OBVIOUS
<1>2. /\ a \in Delivered /\ b \in Delivered /\ a.m = m /\ b.m = m /\ b.event = "app_mention" /\ a.event = "message"
  BY <1>1 DEF Delivered
<1>3. PICK s : s = Events(m)
  OBVIOUS
<1>4. CASE adapter = "slack" /\ conf.kind[m] = "mention"
  <2>1. s = <<a, b>>
    BY <1>1, <1>3, <1>4 DEF Events
  <2>2. s \in Seq(Delivered) /\ Len(s) = 2 /\ s[1] = a /\ s[2] = b
    BY <1>2, <2>1
  <2>3. DOMAIN s = 1..2 /\ (\A i \in 1..2 : i = 1 \/ i = 2) /\ 2 \in 1..2
    BY <2>2, DeliveriesAre
  <2>4. ToSet(s) = {a, b}
    BY <2>2, <2>3 DEF ToSet
  <2>5. Counts(b)
    BY <1>2 DEF Counts
  <2>6. QED
    BY <1>2, <1>3, <2>2, <2>4, <2>5
<1>5. CASE ~ (adapter = "slack" /\ conf.kind[m] = "mention")
  <2>1. s = <<a>>
    BY <1>1, <1>3, <1>5 DEF Events
  <2>2. s \in Seq(Delivered) /\ Len(s) = 1 /\ s[1] = a
    BY <1>2, <2>1
  <2>3. DOMAIN s = 1..1 /\ (\A i \in 1..1 : i = 1) /\ 1 \in 1..1
    BY <2>2, DeliveriesAre
  <2>4. ToSet(s) = {a}
    BY <2>2, <2>3 DEF ToSet
  <2>5. Wanted(m) => Counts(a)
    BY <1>2, <1>5 DEF Counts, Wanted
  <2>6. QED
    BY <1>2, <1>3, <2>2, <2>4, <2>5
<1>6. QED
  BY <1>4, <1>5

LEMMA PushTaken ==
    ASSUME TakenInv, NEW m \in Messages, Push(m)
    PROVE  TakenInv'
<1>1. /\ adapter \in Pushed /\ m <= posted /\ pushes' = [pushes EXCEPT ![m] = @ + 1] /\ inbox' = inbox \o Events(m)
      /\ conf' = conf /\ handlers' = handlers /\ seen' = seen /\ cursor' = cursor /\ saved' = saved
      /\ cold' = cold /\ fetch' = fetch /\ held' = held /\ bus' = bus
      /\ posted' = posted /\ flagged' = flagged /\ link' = link /\ flight' = flight /\ used' = used
  BY DEF Push, state
<1>2. ReceiveTypes /\ PartsUsed /\ Kept /\ SeenIsKept
  BY DEF TakenInv
<1>3. /\ adapter' = adapter /\ RestsOf' = RestsOf
      /\ \A k : Wanted(k)' <=> Wanted(k)
      /\ \A d : Counts(d)' <=> Counts(d)
  BY <1>1, SameConf
<1>4. posted \in Nat /\ m \in 1..posted /\ m \in Nat /\ inbox \in Seq(Delivered) /\ adapter \notin {"email", "session", "panel", "telegram"}
  BY <1>1, <1>2 DEF ReceiveTypes, Messages, Pushed
<1>5. /\ Events(m) \in Seq(Delivered) /\ \A d \in ToSet(Events(m)) : d.m = m
      /\ Wanted(m) => \E d \in ToSet(Events(m)) : Counts(d)
  BY <1>4, EventsAre
<1>6. inbox' \in Seq(Delivered) /\ ToSet(inbox') = ToSet(inbox) \cup ToSet(Events(m))
  BY <1>1, <1>4, <1>5, DeliveriesJoined
<1>7. /\ \A k : OnBus(k)' <=> OnBus(k)
      /\ \A k : InHandlers(k)' <=> InHandlers(k)
      /\ \A k : InInbox(k) => InInbox(k)'
      /\ Wanted(m) => InInbox(m)'
  BY <1>1, <1>3, <1>5, <1>6 DEF OnBus, InHandlers, InInbox
<1>8. pushes' \in [Messages -> Nat] /\ \A k \in Messages : k # m => pushes'[k] = pushes[k]
  BY <1>1, <1>2 DEF ReceiveTypes
<1>9. ReceiveTypes'
  <2>1. \A d \in ToSet(inbox') : d.m \in 1..posted
    BY <1>2, <1>4, <1>5, <1>6 DEF ReceiveTypes
  <2>2. QED
    BY <1>1, <1>2, <1>3, <1>6, <1>7, <1>8, <2>1 DEF ReceiveTypes
<1>10. PartsUsed'
  <2>1. \A k \in Messages : k > posted => pushes'[k] = 0
    BY <1>2, <1>4, <1>8 DEF PartsUsed
  <2>2. QED
    BY <1>1, <1>2, <1>3, <1>4, <2>1 DEF PartsUsed, NoFetch
<1>11. SeenIsKept'
  BY <1>1, <1>2, <1>3, <1>7 DEF SeenIsKept
<1>12. Kept'
  <2>1. ASSUME NEW k \in 1..posted, Wanted(k), StillComes(k)
        PROVE  InInbox(k)' \/ StillComes(k)'
    <3>1. CASE k = m
      BY <1>7, <2>1, <3>1
    <3>2. CASE k # m
      <4>1. k \in Messages
        BY <1>2, ReceiveAssumption DEF Messages, ReceiveTypes
      <4>2. pushes[k] = 0
        BY <1>1, <2>1 DEF StillComes, Pushed
      <4>3. pushes'[k] = 0
        BY <1>8, <3>2, <4>1, <4>2
      <4>4. QED
        BY <1>1, <1>3, <4>3 DEF StillComes, Pushed
    <3>3. QED
      BY <3>1, <3>2
  <2>2. \A k : OnItsWay(k) => OnItsWay(k)'
    BY <1>1, <1>7 DEF OnItsWay
  <2>3. \A k : InInbox(k)' => OnItsWay(k)'
    BY DEF OnItsWay
  <2>4. QED
    BY <1>1, <1>2, <1>3, <2>1, <2>2, <2>3 DEF Kept
<1>13. QED
  BY <1>9, <1>10, <1>11, <1>12 DEF TakenInv

-----------------------------------------------------------------------------
(* What Mochat does with the messages that it is told of. *)

Accounts == [seen : Seq(Nat), held : Seq(Nat), bus : Seq(Turns), forgotten : SUBSET Nat]
Holds(a, m) == On(a.bus, m) \/ m \in ToSet(a.held)

\* Accounts in which nothing got lost.
GoodAccounts ==
    {a \in Accounts :
        /\ IsInjective(a.seen) /\ Len(a.seen) <= CacheSize /\ \A m \in ToSet(a.seen) : Holds(a, m)
        /\ \A m \in Nat : Holds(a, m) => m \in 1..posted /\ Wanted(m)
        /\ a.held # <<>> => adapter = "panel"
        /\ \A m \in Nat : OnBus(m) \/ m \in ToSet(held) => Holds(a, m)}

LEMMA HeldAreNumbers ==
    ASSUME NEW a \in Accounts, NEW m, Holds(a, m)
    PROVE  m \in Nat
<1>1. a.bus \in Seq(Turns) /\ a.held \in Seq(Nat)
  BY DEF Accounts
<1>2. CASE m \in ToSet(a.held)
  BY <1>1, <1>2, IdsAre
<1>3. CASE On(a.bus, m)
  <2>1. PICK i \in DOMAIN a.bus : m \in ToSet(a.bus[i])
    BY <1>3 DEF On
  <2>2. PICK s : s = a.bus[i] /\ s \in Seq(Nat)
    BY <1>1, Positions DEF Turns
  <2>3. QED
    BY <2>1, <2>2, IdsAre
<1>4. QED
  BY <1>2, <1>3 DEF Holds

LEMMA TakeDirectIs ==
    ASSUME NEW a \in Accounts, NEW m \in Nat
    PROVE  /\ TakeDirect(a, m) \in Accounts /\ TakeDirect(a, m).seen = a.seen /\ TakeDirect(a, m).held = a.held
           /\ \A k : Holds(TakeDirect(a, m), k) <=> Holds(a, k) \/ k = m
<1>1. PICK r : r = TakeDirect(a, m)
  OBVIOUS
<1>2. a.bus \in Seq(Turns)
  BY DEF Accounts
<1>3. PICK b : b = Append(a.bus, <<m>>) /\ b \in Seq(Turns) /\ \A k : On(b, k) <=> On(a.bus, k) \/ k = m
  BY <1>2, OneId, TurnAppended
<1>4. r \in Accounts /\ r.seen = a.seen /\ r.held = a.held /\ r.bus = b
  BY <1>1, <1>3 DEF TakeDirect, Accounts
<1>5. QED
  BY <1>1, <1>3, <1>4 DEF Holds

LEMMA TakeDelayedIs ==
    ASSUME NEW a \in Accounts, NEW m \in Nat
    PROVE  /\ TakeDelayed(a, m) \in Accounts /\ TakeDelayed(a, m).seen = a.seen
           /\ \A k : Holds(TakeDelayed(a, m), k) <=> Holds(a, k) \/ k = m
<1>1. PICK r : r = TakeDelayed(a, m)
  OBVIOUS
<1>2. a.bus \in Seq(Turns) /\ a.held \in Seq(Nat)
  BY DEF Accounts
<1>3. CASE conf.kind[m] = "mention"
  <2>1. PICK one : one = <<m>> /\ one \in Seq(Nat) /\ ToSet(one) = {m} /\ Len(one) = 1
    BY OneId
  <2>2. PICK t : t = a.held \o one
    OBVIOUS
  <2>3. t \in Seq(Nat) /\ ToSet(t) = ToSet(a.held) \cup {m} /\ Len(t) = Len(a.held) + 1 /\ Len(a.held) \in Nat
    <3>1. t \in Seq(Nat) /\ ToSet(t) = ToSet(a.held) \cup {m} /\ Len(t) = Len(a.held) + Len(one)
      BY <1>2, <2>1, <2>2, IdsJoined
    <3>2. Len(a.held) \in Nat
      BY <1>2, IdsAre
    <3>3. QED
      BY <2>1, <3>1, <3>2
  <2>4. t \in Turns
    <3>1. t # <<>>
      BY <2>3, IdsAre
    <3>2. QED
      BY <2>3, <3>1 DEF Turns
  <2>5. PICK b : b = Append(a.bus, t) /\ b \in Seq(Turns) /\ \A k : On(b, k) <=> On(a.bus, k) \/ k \in ToSet(t)
    BY <1>2, <2>4, TurnAppended
  <2>6. r = [a EXCEPT !.bus = b, !.held = <<>>]
    BY <1>1, <1>3, <2>1, <2>2, <2>5 DEF TakeDelayed
  <2>7. r \in Accounts /\ r.seen = a.seen /\ r.held = <<>> /\ r.bus = b
    BY <2>5, <2>6, NoIds DEF Accounts
  <2>8. \A k : Holds(r, k) <=> Holds(a, k) \/ k = m
    BY <2>3, <2>5, <2>7, NoIds DEF Holds
  <2>9. QED
    BY <1>1, <2>7, <2>8
<1>4. CASE conf.kind[m] # "mention"
  <2>1. PICK t : t = Append(a.held, m) /\ t \in Seq(Nat) /\ ToSet(t) = ToSet(a.held) \cup {m}
    BY <1>2, IdAppended
  <2>2. r = [a EXCEPT !.held = t]
    BY <1>1, <1>4, <2>1 DEF TakeDelayed
  <2>3. r \in Accounts /\ r.seen = a.seen /\ r.held = t /\ r.bus = a.bus
    BY <2>1, <2>2 DEF Accounts
  <2>4. \A k : Holds(r, k) <=> Holds(a, k) \/ k = m
    BY <2>1, <2>3 DEF Holds
  <2>5. QED
    BY <1>1, <2>3, <2>4
<1>5. QED
  BY <1>3, <1>4

LEMMA EventKept ==
    ASSUME NEW a \in GoodAccounts, NEW m \in 1..posted, posted \in Nat, adapter \in {"session", "panel"}
    PROVE  /\ ProcessEvent(a, m) \in GoodAccounts
           /\ Wanted(m) => Holds(ProcessEvent(a, m), m)
           /\ \A k : Holds(a, k) => Holds(ProcessEvent(a, m), k)
<1>1. PICK r : r = ProcessEvent(a, m)
  OBVIOUS
<1>2. /\ a \in Accounts /\ IsInjective(a.seen) /\ Len(a.seen) <= CacheSize /\ \A k \in ToSet(a.seen) : Holds(a, k)
      /\ \A k \in Nat : Holds(a, k) => k \in 1..posted /\ Wanted(k)
      /\ a.held # <<>> => adapter = "panel"
      /\ \A k \in Nat : OnBus(k) \/ k \in ToSet(held) => Holds(a, k)
  BY DEF GoodAccounts
<1>3. a.seen \in Seq(Nat) /\ m \in Nat
  BY <1>2 DEF Accounts
<1>4. CASE ~Wanted(m) \/ Contains(a.seen, m)
  <2>1. r = a
    BY <1>1, <1>4 DEF ProcessEvent
  <2>2. Wanted(m) => Holds(a, m)
    BY <1>2, <1>3, <1>4, IdsAre
  <2>3. QED
    BY <1>1, <2>1, <2>2
<1>5. CASE Wanted(m) /\ ~Contains(a.seen, m)
  <2>1. m \notin ToSet(a.seen)
    BY <1>3, <1>5, IdsAre
  <2>2. PICK kept : kept = Remember(a.seen, m)
    OBVIOUS
  <2>3. kept \in Seq(Nat) /\ IsInjective(kept) /\ Len(kept) <= CacheSize /\ ToSet(kept) \subseteq ToSet(a.seen) \cup {m}
    BY <1>2, <1>3, <2>1, <2>2, RememberIs
  <2>4. PICK new : new = [a EXCEPT !.seen = kept, !.forgotten = @ \cup (ToSet(a.seen) \ ToSet(kept))]
    OBVIOUS
  <2>5. new \in Accounts /\ new.seen = kept /\ new.held = a.held /\ new.bus = a.bus
    <3>1. ToSet(a.seen) \subseteq Nat
      BY <1>3, IdsAre
    <3>2. QED
      BY <1>2, <2>3, <2>4, <3>1 DEF Accounts
  <2>6. \A k : Holds(new, k) <=> Holds(a, k)
    BY <2>5 DEF Holds
  <2>7. r = IF adapter = "panel" THEN TakeDelayed(new, m) ELSE TakeDirect(new, m)
    BY <1>1, <1>5, <2>2, <2>4 DEF ProcessEvent
  <2>8. /\ r \in Accounts /\ r.seen = kept
        /\ \A k : Holds(r, k) <=> Holds(a, k) \/ k = m
        /\ r.held # <<>> => adapter = "panel"
    <3>1. CASE adapter = "panel"
      <4>1. r = TakeDelayed(new, m)
        BY <2>7, <3>1
      <4>2. QED
        BY <1>3, <2>5, <2>6, <3>1, <4>1, TakeDelayedIs
    <3>2. CASE adapter # "panel"
      <4>1. r = TakeDirect(new, m)
        BY <2>7, <3>2
      <4>2. QED
        BY <1>2, <1>3, <2>5, <2>6, <4>1, TakeDirectIs
    <3>3. QED
      BY <3>1, <3>2
  <2>9. \A k \in ToSet(r.seen) : Holds(r, k)
    BY <1>2, <2>3, <2>8
  <2>10. \A k \in Nat : Holds(r, k) => k \in 1..posted /\ Wanted(k)
    BY <1>2, <1>5, <2>8
  <2>11. \A k \in Nat : OnBus(k) \/ k \in ToSet(held) => Holds(r, k)
    BY <1>2, <2>8
  <2>12. r \in GoodAccounts
    BY <2>3, <2>8, <2>9, <2>10, <2>11 DEF GoodAccounts
  <2>13. QED
    BY <1>1, <2>8, <2>12
<1>6. QED
  BY <1>4, <1>5

\* The function of ProcessAll.
Accounted(walk, events) ==
    /\ walk \in [0..Len(events) -> GoodAccounts]
    /\ walk[0] = [seen |-> seen, held |-> held, bus |-> bus, forgotten |-> {}]
    /\ \A i \in 1..Len(events) : walk[i] = ProcessEvent(walk[i - 1], events[i])

LEMMA AllWalk ==
    ASSUME NEW events \in Seq(Nat), ToSet(events) \subseteq 1..posted, posted \in Nat, adapter \in {"session", "panel"},
           [seen |-> seen, held |-> held, bus |-> bus, forgotten |-> {}] \in GoodAccounts,
           ProcessAll(events)
    PROVE  \E walk : /\ Accounted(walk, events)
                     /\ seen' = walk[Len(events)].seen /\ held' = walk[Len(events)].held /\ bus' = walk[Len(events)].bus
                     /\ used' = Repeat(walk[Len(events)].forgotten)
<1> DEFINE S == GoodAccounts
           zero == [seen |-> seen, held |-> held, bus |-> bus, forgotten |-> {}]
           After(a, i) == ProcessEvent(a, events[i])
           Body(f) == [i \in 0..Len(events) |-> IF i = 0 THEN zero ELSE After(f[i - 1], i)]
<1>1. Len(events) \in Nat /\ \A i \in 1..Len(events) : events[i] \in 1..posted
  BY IdsAre
<1>2. ASSUME NEW i \in 1..Len(events), NEW a \in S
      PROVE  After(a, i) \in S
  BY <1>1, EventKept
<1>3. PICK step : step = [i \in 1..Len(events) |-> [a \in S |-> After(a, i)]]
  OBVIOUS
<1>4. step \in [1..Len(events) -> [S -> S]]
  <2> HIDE DEF S, After
  <2>1. QED
    BY <1>2, <1>3
<1>5. zero \in S
  OBVIOUS
<1>6. PICK g \in [0..Len(events) -> S] : g[0] = zero /\ \A i \in 1..Len(events) : g[i] = step[i][g[i - 1]]
  <2> HIDE DEF S, After, Body, zero
  <2>1. \E g : Recurses(g, S, zero, Len(events), step)
    BY <1>1, <1>4, <1>5, Recursive
  <2>2. QED
    BY <2>1 DEF Recurses
<1>7. ASSUME NEW i \in 1..Len(events)
      PROVE  g[i] = After(g[i - 1], i)
  <2> HIDE DEF S, After, zero
  <2>1. i - 1 \in 0..Len(events)
    BY <1>1
  <2>2. g[i - 1] \in S
    BY <1>6, <2>1
  <2>3. QED
    BY <1>3, <1>6, <2>2
<1>8. g = Body(g)
  <2> HIDE DEF S, After, zero
  <2>1. \A i \in 0..Len(events) : i = 0 \/ i \in 1..Len(events)
    BY <1>1
  <2>2. \A i \in 0..Len(events) : g[i] = IF i = 0 THEN zero ELSE After(g[i - 1], i)
    BY <1>6, <1>7, <2>1
  <2>3. QED
    BY <1>6, <2>2
<1>9. PICK walk : walk = CHOOSE f : f = Body(f)
  OBVIOUS
<1>10. walk = Body(walk)
  <2> HIDE DEF Body
  <2>1. QED
    BY <1>8, <1>9
<1>11. /\ seen' = walk[Len(events)].seen /\ held' = walk[Len(events)].held /\ bus' = walk[Len(events)].bus
       /\ used' = Repeat(walk[Len(events)].forgotten)
  BY <1>9 DEF ProcessAll
<1>12. walk[0] = zero /\ \A i \in 1..Len(events) : walk[i] = After(walk[i - 1], i)
  <2> HIDE DEF S, After, zero
  <2>1. 0 \in 0..Len(events) /\ \A i \in 1..Len(events) : i \in 0..Len(events) /\ i # 0
    BY <1>1
  <2>2. \A i \in 0..Len(events) : walk[i] = IF i = 0 THEN zero ELSE After(walk[i - 1], i)
    BY <1>10
  <2>3. QED
    BY <2>1, <2>2
<1>13. walk \in [0..Len(events) -> S]
  <2> DEFINE T == {i \in Nat : i <= Len(events) => walk[i] \in S}
  <2>1. 0 \in T
    BY <1>5, <1>12
  <2>2. ASSUME NEW i \in Nat, i \in T
        PROVE  i + 1 \in T
    <3>1. SUFFICES ASSUME i + 1 <= Len(events)
                   PROVE  walk[i + 1] \in S
      OBVIOUS
    <3>2. i + 1 \in 1..Len(events) /\ (i + 1) - 1 = i /\ i <= Len(events)
      BY <1>1, <3>1
    <3> HIDE DEF S, After
    <3>3. walk[i] \in S /\ walk[i + 1] = After(walk[i], i + 1)
      BY <1>12, <2>2, <3>2
    <3>4. QED
      BY <1>2, <3>2, <3>3
  <2>3. Nat \subseteq T
    <3> HIDE DEF T
    <3>1. QED
      BY <2>1, <2>2, Induct
  <2>4. \A i \in 0..Len(events) : walk[i] \in S
    BY <1>1, <2>3
  <2>5. QED
    <3> HIDE DEF S, After, zero
    <3>1. QED
      BY <1>10, <2>4
<1>14. QED
  BY <1>11, <1>12, <1>13 DEF Accounted

\* Every wanted message of the events is forwarded or waits, and none is forgotten before.
LEMMA AllKept ==
    ASSUME NEW events \in Seq(Nat), ToSet(events) \subseteq 1..posted, posted \in Nat, adapter \in {"session", "panel"},
           [seen |-> seen, held |-> held, bus |-> bus, forgotten |-> {}] \in GoodAccounts,
           ProcessAll(events)
    PROVE  \E r \in GoodAccounts :
              /\ seen' = r.seen /\ held' = r.held /\ bus' = r.bus /\ used' = Repeat(r.forgotten)
              /\ \A m \in ToSet(events) : Wanted(m) => Holds(r, m)
<1>1. PICK walk : /\ Accounted(walk, events)
                  /\ seen' = walk[Len(events)].seen /\ held' = walk[Len(events)].held /\ bus' = walk[Len(events)].bus
                  /\ used' = Repeat(walk[Len(events)].forgotten)
  BY AllWalk
<1>2. PICK n \in Nat : n = Len(events) /\ DOMAIN events = 1..n /\ \A i \in 1..n : events[i] \in 1..posted
  <2>1. Len(events) \in Nat /\ DOMAIN events = 1..Len(events)
    BY IdsAre
  <2>2. \A i \in 1..Len(events) : events[i] \in ToSet(events)
    BY <2>1 DEF ToSet
  <2>3. QED
    BY <2>1, <2>2
<1>3. /\ walk \in [0..n -> GoodAccounts]
      /\ \A i \in 1..n : walk[i] = ProcessEvent(walk[i - 1], events[i])
  BY <1>1, <1>2 DEF Accounted
<1> DEFINE T == {i \in Nat : i <= n => \A j \in 1..i : Wanted(events[j]) => Holds(walk[i], events[j])}
<1>4. 0 \in T
  <2>1. \A j \in 1..0 : FALSE
    OBVIOUS
  <2>2. QED
    BY <2>1
<1>5. ASSUME NEW i \in Nat, i \in T
      PROVE  i + 1 \in T
  <2>1. SUFFICES ASSUME i + 1 <= n
                 PROVE  \A j \in 1..(i + 1) : Wanted(events[j]) => Holds(walk[i + 1], events[j])
    OBVIOUS
  <2>2. PICK k \in 1..n : k = i + 1 /\ k - 1 = i /\ i <= n /\ i \in 0..n
    BY <2>1
  <2>3. PICK a, e : a = walk[i] /\ e = events[k] /\ a \in GoodAccounts /\ e \in 1..posted
    BY <1>2, <1>3, <2>2
  <2>4. walk[k] = ProcessEvent(a, e)
    BY <1>3, <2>2, <2>3
  <2>5. (Wanted(e) => Holds(walk[k], e)) /\ \A m : Holds(a, m) => Holds(walk[k], m)
    BY <2>3, <2>4, EventKept
  <2>6. \A j \in 1..k : j \in 1..i \/ j = k
    BY <2>2
  <2>7. \A j \in 1..i : Wanted(events[j]) => Holds(a, events[j])
    BY <1>5, <2>2, <2>3
  <2>8. QED
    BY <2>2, <2>3, <2>5, <2>6, <2>7
<1>6. Nat \subseteq T
  <2> HIDE DEF T
  <2>1. QED
    BY <1>4, <1>5, Induct
<1>7. n \in T /\ n <= n /\ n \in 0..n
  <2> HIDE DEF T
  <2>1. QED
    BY <1>2, <1>6
<1>8. \A j \in 1..n : Wanted(events[j]) => Holds(walk[n], events[j])
  BY <1>7
<1>9. \A m \in ToSet(events) : \E j \in 1..n : m = events[j]
  BY <1>2 DEF ToSet
<1>10. walk[n] \in GoodAccounts
  BY <1>3, <1>7
<1>11. QED
  BY <1>1, <1>2, <1>8, <1>9, <1>10

\* What stays when Mochat's adapter has processed events: its cursor and the lost may grow.
Heard(events) ==
    /\ adapter \in {"session", "panel"} /\ events \in Seq(Nat) /\ ToSet(events) \subseteq 1..posted
    /\ ProcessAll(events)
    /\ conf' = conf /\ posted' = posted /\ flagged' = flagged /\ link' = link
    /\ inbox' = inbox /\ handlers' = handlers /\ saved' = saved /\ fetch' = fetch /\ cold' \in BOOLEAN
    /\ flight' \subseteq flight /\ cursor' \in cursor..posted
    /\ pushes' \in [Messages -> Nat] /\ \A m \in Messages : m > posted => pushes'[m] = pushes[m]
    /\ adapter = "session" => \A m \in 1..posted : m > cursor /\ m <= cursor' => m \in ToSet(events)

LEMMA HeardTaken ==
    ASSUME TakenInv, NEW events, Heard(events)
    PROVE  TakenInv'
<1>1. ReceiveTypes /\ PartsUsed /\ Kept /\ SeenIsKept
  BY DEF TakenInv
<1>2. /\ adapter \in {"session", "panel"} /\ events \in Seq(Nat) /\ ToSet(events) \subseteq 1..posted
      /\ ProcessAll(events)
      /\ conf' = conf /\ posted' = posted /\ flagged' = flagged /\ link' = link
      /\ inbox' = inbox /\ handlers' = handlers /\ saved' = saved /\ fetch' = fetch /\ cold' \in BOOLEAN
      /\ flight' \subseteq flight /\ cursor' \in cursor..posted
      /\ pushes' \in [Messages -> Nat] /\ \A m \in Messages : m > posted => pushes'[m] = pushes[m]
      /\ adapter = "session" => \A m \in 1..posted : m > cursor /\ m <= cursor' => m \in ToSet(events)
  BY DEF Heard
<1>3. /\ adapter' = adapter /\ RestsOf' = RestsOf
      /\ \A m : Wanted(m)' <=> Wanted(m)
      /\ \A d : Counts(d)' <=> Counts(d)
  BY <1>2, SameConf
<1>4. inbox = <<>> /\ handlers = {} /\ fetch = NoFetch /\ posted \in Nat /\ cursor \in 0..posted /\ cursor' \in 0..posted
      /\ fetch.on = "no" /\ fetch.list = <<>>
  BY <1>1, <1>2 DEF PartsUsed, ReceiveTypes, NoFetch, Fetching
<1>5. /\ seen \in Seq(Nat) /\ IsInjective(seen) /\ Len(seen) <= CacheSize /\ held \in Seq(Nat) /\ bus \in Seq(Turns)
      /\ \A m : OnBus(m) => m \in 1..posted /\ Wanted(m)
      /\ \A m \in ToSet(held) : m \in 1..posted /\ Wanted(m)
  BY <1>1 DEF ReceiveTypes
<1>6. \A m \in ToSet(seen) : OnBus(m) \/ m \in ToSet(held)
  BY <1>1, <1>2, <1>4 DEF SeenIsKept, PartsUsed, InHandlers
<1>7. PICK zero : zero = [seen |-> seen, held |-> held, bus |-> bus, forgotten |-> {}]
  OBVIOUS
<1>8. /\ zero \in Accounts /\ zero.seen = seen /\ zero.held = held
      /\ \A m : Holds(zero, m) <=> OnBus(m) \/ m \in ToSet(held)
  BY <1>5, <1>7 DEF Accounts, Holds, OnBus
<1>9. held # <<>> => adapter = "panel"
  BY <1>1, <1>2 DEF PartsUsed
<1>10. zero \in GoodAccounts
  BY <1>5, <1>6, <1>8, <1>9 DEF GoodAccounts
<1>11. PICK r \in GoodAccounts :
              /\ seen' = r.seen /\ held' = r.held /\ bus' = r.bus /\ used' = Repeat(r.forgotten)
              /\ \A m \in ToSet(events) : Wanted(m) => Holds(r, m)
  BY <1>2, <1>4, <1>7, <1>10, AllKept
<1>12. /\ r \in Accounts /\ IsInjective(r.seen) /\ Len(r.seen) <= CacheSize /\ \A m \in ToSet(r.seen) : Holds(r, m)
       /\ \A m \in Nat : Holds(r, m) => m \in 1..posted /\ Wanted(m)
       /\ r.held # <<>> => adapter = "panel"
       /\ \A m \in Nat : OnBus(m) \/ m \in ToSet(held) => Holds(r, m)
  BY <1>11 DEF GoodAccounts
<1>13. \A m : Holds(r, m) => m \in 1..posted /\ Wanted(m)
  BY <1>12, HeldAreNumbers
<1>14. \A m : Holds(r, m) <=> OnBus(m)' \/ m \in ToSet(held')
  BY <1>11 DEF Holds, OnBus
<1>15. used' \in Counters /\ used'.lost = used.lost
  <2>1. r.forgotten \subseteq Nat /\ used \in Counters
    BY <1>1, <1>12 DEF Accounts, ReceiveTypes
  <2>2. QED
    BY <1>11, <2>1, GhostsKept
<1>16. ReceiveTypes'
  <2>1. seen' \in Seq(Nat) /\ held' \in Seq(Nat) /\ bus' \in Seq(Turns)
    BY <1>11, <1>12 DEF Accounts
  <2>2. ToSet(seen') \subseteq 1..posted /\ IsInjective(seen') /\ Len(seen') <= CacheSize
    BY <1>11, <1>12, <1>13
  <2>3. (\A m \in ToSet(held') : m \in 1..posted /\ Wanted(m)) /\ \A m : OnBus(m)' => m \in 1..posted /\ Wanted(m)
    BY <1>13, <1>14
  <2>4. \A p \in flight' : p \in [from : 0..posted, to : 0..posted] /\ p.from <= p.to
    BY <1>1, <1>2 DEF ReceiveTypes
  <2>5. \A h \in handlers' : FALSE
    BY <1>2, <1>4
  <2>6. QED
    BY <1>1, <1>2, <1>3, <1>4, <1>15, <2>1, <2>2, <2>3, <2>4, <2>5 DEF ReceiveTypes
<1>17. PartsUsed'
  <2>1. \A m \in ToSet(seen') : Wanted(m)
    BY <1>11, <1>12, <1>13
  <2>2. held' # <<>> => adapter \in {"telegram", "panel"}
    BY <1>11, <1>12
  <2>3. \A m \in Messages : m > posted => pushes'[m] = 0
    BY <1>1, <1>2 DEF PartsUsed
  <2>4. saved <= cursor /\ cursor <= cursor' /\ saved \in Int /\ cursor \in Int /\ cursor' \in Int
    BY <1>1, <1>2, <1>4 DEF PartsUsed, ReceiveTypes
  <2>5. saved' <= cursor'
    BY <1>2, <2>4
  <2>6. adapter = "session" => \A p \in flight' : p.from <= cursor'
    <3>1. \A p \in flight' : p.from \in 0..posted /\ p \in flight
      BY <1>1, <1>2 DEF ReceiveTypes
    <3>2. \A p \in flight' : adapter = "session" => p.from <= cursor
      BY <1>1, <3>1 DEF PartsUsed
    <3>3. \A x \in 0..posted : x <= cursor => x <= cursor'
      BY <1>4, <2>4
    <3>4. QED
      BY <3>1, <3>2, <3>3
  <2>7. QED
    BY <1>1, <1>2, <1>3, <1>4, <2>1, <2>2, <2>3, <2>5, <2>6 DEF PartsUsed, NoFetch
<1>18. SeenIsKept'
  BY <1>3, <1>11, <1>12, <1>14 DEF SeenIsKept
<1>19. Kept'
  <2>1. ASSUME NEW m \in 1..posted, Wanted(m)
        PROVE  OnItsWay(m)' \/ StillComes(m)' \/ m \in used'.lost
    <3>1. Holds(r, m) => OnItsWay(m)'
      BY <1>14 DEF OnItsWay
    <3>2. CASE adapter = "panel"
      BY <1>3, <3>2 DEF StillComes, Pushed
    <3>3. CASE adapter = "session"
      <4>1. CASE OnItsWay(m)
        <5>1. ~InInbox(m) /\ ~InHandlers(m) /\ m \notin ToSet(fetch.list)
          BY <1>4, NoDeliveries, NoIds DEF InInbox, InHandlers
        <5>2. Holds(r, m)
          BY <1>12, <2>1, <4>1, <5>1 DEF OnItsWay
        <5>3. QED
          BY <3>1, <5>2
      <4>2. CASE StillComes(m)
        <5>1. m > cursor
          BY <3>3, <4>2 DEF StillComes, Pushed
        <5>2. CASE m > cursor'
          BY <1>3, <3>3, <5>2 DEF StillComes, Pushed
        <5>3. CASE ~ (m > cursor')
          <6>1. m \in ToSet(events)
            BY <1>2, <1>4, <3>3, <5>1, <5>3
          <6>2. QED
            BY <1>11, <2>1, <3>1, <6>1
        <5>4. QED
          BY <5>2, <5>3
      <4>3. CASE m \in used.lost
        BY <1>15, <4>3
      <4>4. QED
        BY <1>1, <2>1, <4>1, <4>2, <4>3 DEF Kept
    <3>4. QED
      BY <1>2, <3>2, <3>3
  <2>2. QED
    BY <1>2, <1>3, <2>1 DEF Kept
<1>20. QED
  BY <1>16, <1>17, <1>18, <1>19 DEF TakenInv

LEMMA NotifyTaken ==
    ASSUME TakenInv, NEW m \in Messages, Notify(m)
    PROVE  TakenInv'
<1>1. PICK events : events = <<m>>
  OBVIOUS
<1>2. /\ adapter \in {"session", "panel"} /\ m <= posted /\ pushes' = [pushes EXCEPT ![m] = @ + 1] /\ ProcessAll(events)
      /\ conf' = conf /\ posted' = posted /\ flagged' = flagged /\ link' = link
      /\ inbox' = inbox /\ handlers' = handlers /\ saved' = saved /\ fetch' = fetch /\ cold' = cold
      /\ flight' = flight /\ cursor' = cursor
  BY <1>1 DEF Notify
<1>3. posted \in 0..MaxMessages /\ pushes \in [Messages -> Nat] /\ cursor \in 0..posted /\ cold \in BOOLEAN /\ MaxMessages \in Nat
  BY ReceiveAssumption DEF TakenInv, ReceiveTypes
<1>4. m \in 1..posted /\ m \in Nat /\ cursor \in cursor..posted /\ cursor \in Int
  BY <1>2, <1>3 DEF Messages
<1>5. events \in Seq(Nat) /\ ToSet(events) \subseteq 1..posted
  BY <1>1, <1>4, OneId
<1>6. pushes' \in [Messages -> Nat]
  BY <1>2, <1>3
<1>7. \A k \in Messages : k > posted => pushes'[k] = pushes[k]
  <2>1. \A k \in Messages : k > posted => k # m
    BY <1>3, <1>4
  <2>2. QED
    BY <1>2, <1>3, <2>1
<1>8. \A k \in 1..posted : ~ (k > cursor /\ k <= cursor')
  BY <1>2, <1>4
<1>9. Heard(events)
  BY <1>2, <1>3, <1>4, <1>5, <1>6, <1>7, <1>8 DEF Heard
<1>10. QED
  BY <1>9, HeardTaken

LEMMA PanelPayloadTaken ==
    ASSUME TakenInv, NEW p \in flight, PanelPayload(p)
    PROVE  TakenInv'
<1>1. PICK events : events = Upto(p.from, p.to)
  OBVIOUS
<1>2. /\ adapter = "panel" /\ pushes' = pushes /\ ProcessAll(events)
      /\ conf' = conf /\ posted' = posted /\ flagged' = flagged /\ link' = link
      /\ inbox' = inbox /\ handlers' = handlers /\ saved' = saved /\ fetch' = fetch /\ cold' = cold
      /\ flight' = flight \ {p} /\ cursor' = cursor
  BY <1>1 DEF PanelPayload, server
<1>3. /\ posted \in Nat /\ pushes \in [Messages -> Nat] /\ cursor \in 0..posted /\ cold \in BOOLEAN
      /\ p.from \in 0..posted /\ p.to \in 0..posted
  BY DEF TakenInv, ReceiveTypes
<1>4. cursor \in cursor..posted
  BY <1>3
<1>5. events \in Seq(Nat) /\ ToSet(events) \subseteq 1..posted
  <2>1. p.from \in Nat /\ p.to \in Nat /\ (p.from + 1)..p.to \subseteq 1..posted
    BY <1>3
  <2>2. QED
    BY <1>1, <2>1, UptoIs
<1>6. Heard(events)
  BY <1>2, <1>3, <1>4, <1>5 DEF Heard
<1>7. QED
  BY <1>6, HeardTaken

LEMMA SessionPayloadTaken ==
    ASSUME TakenInv, NEW p \in flight, SessionPayload(p)
    PROVE  TakenInv'
<1>1. PICK events : events = Upto(p.from, p.to)
  OBVIOUS
<1>2. /\ adapter = "session" /\ pushes' = pushes /\ cursor' = Max({cursor, p.to}) /\ cold' = FALSE
      /\ IF cold THEN used' = Lose(ToSet(events)) /\ seen' = seen /\ held' = held /\ bus' = bus ELSE ProcessAll(events)
      /\ conf' = conf /\ posted' = posted /\ flagged' = flagged /\ link' = link
      /\ inbox' = inbox /\ handlers' = handlers /\ saved' = saved /\ fetch' = fetch
      /\ flight' = flight \ {p}
  BY <1>1 DEF SessionPayload, server
<1>3. ReceiveTypes /\ PartsUsed /\ Kept /\ SeenIsKept
  BY DEF TakenInv
<1>4. /\ posted \in Nat /\ pushes \in [Messages -> Nat] /\ cursor \in 0..posted /\ cold \in BOOLEAN
      /\ p.from \in 0..posted /\ p.to \in 0..posted /\ p.from <= cursor
  BY <1>2, <1>3 DEF ReceiveTypes, PartsUsed
<1>5. cursor' \in {cursor, p.to} /\ cursor' >= cursor /\ cursor' >= p.to
  <2>1. PICK a \in Int, b \in Int : a = cursor /\ b = p.to
    BY <1>4
  <2>2. Max({a, b}) \in {a, b} /\ Max({a, b}) >= a /\ Max({a, b}) >= b
    BY Greater
  <2>3. QED
    BY <1>2, <2>1, <2>2
<1>6. cursor' \in cursor..posted /\ cursor' \in 0..posted /\ cursor <= cursor'
  BY <1>4, <1>5
<1>7. events \in Seq(Nat) /\ ToSet(events) \subseteq 1..posted /\ ToSet(events) = (p.from + 1)..p.to
  <2>1. p.from \in Nat /\ p.to \in Nat /\ (p.from + 1)..p.to \subseteq 1..posted
    BY <1>4
  <2>2. QED
    BY <1>1, <2>1, UptoIs
<1>8. \A m \in 1..posted : m > cursor /\ m <= cursor' => m \in ToSet(events)
  <2>1. ASSUME NEW m \in 1..posted, m > cursor, m <= cursor'
        PROVE  m \in (p.from + 1)..p.to
    <3>1. cursor' = p.to
      BY <1>4, <1>5, <2>1
    <3>2. QED
      BY <1>4, <2>1, <3>1
  <2>2. QED
    BY <1>7, <2>1
<1>9. CASE ~cold
  <2>1. Heard(events)
    BY <1>2, <1>4, <1>6, <1>7, <1>8, <1>9 DEF Heard
  <2>2. QED
    BY <2>1, HeardTaken
<1>10. CASE cold
  <2>1. used' = Lose(ToSet(events)) /\ seen' = seen /\ held' = held /\ bus' = bus
    BY <1>2, <1>10
  <2>2. used' \in Counters /\ used'.lost = used.lost \cup ToSet(events)
    <3>1. ToSet(events) \subseteq Nat /\ used \in Counters
      BY <1>3, <1>7, IdsAre DEF ReceiveTypes
    <3>2. QED
      BY <2>1, <3>1, GhostsKept
  <2>3. /\ adapter' = adapter /\ RestsOf' = RestsOf
        /\ \A m : Wanted(m)' <=> Wanted(m)
        /\ \A d : Counts(d)' <=> Counts(d)
    BY <1>2, SameConf
  <2>4. /\ \A m : OnBus(m)' <=> OnBus(m)
        /\ \A m : InHandlers(m)' <=> InHandlers(m)
        /\ \A m : InInbox(m)' <=> InInbox(m)
    BY <1>2, <2>1, <2>3 DEF OnBus, InHandlers, InInbox
  <2>5. \A m : OnItsWay(m)' <=> OnItsWay(m)
    BY <1>2, <2>1, <2>4 DEF OnItsWay
  <2>6. ReceiveTypes'
    BY <1>2, <1>3, <1>6, <2>1, <2>2, <2>3, <2>4 DEF ReceiveTypes
  <2>7. PartsUsed'
    <3>1. \A q \in flight : q.from \in 0..posted /\ q.from <= cursor
      BY <1>2, <1>3 DEF ReceiveTypes, PartsUsed
    <3>2. \A x \in 0..posted : x <= cursor => x <= cursor'
      BY <1>4, <1>6
    <3>3. \A q \in flight' : q.from <= cursor'
      BY <1>2, <3>1, <3>2
    <3>4. saved <= cursor /\ saved \in Int
      BY <1>2, <1>3, <1>4 DEF PartsUsed, ReceiveTypes
    <3>5. saved' <= cursor'
      BY <1>2, <1>4, <1>6, <3>4
    <3>6. QED
      BY <1>2, <1>3, <2>1, <2>3, <3>3, <3>5 DEF PartsUsed, NoFetch
  <2>8. SeenIsKept'
    BY <1>3, <2>1, <2>3, <2>4 DEF SeenIsKept
  <2>9. Kept'
    <3>1. ASSUME NEW m \in 1..posted, StillComes(m)
          PROVE  StillComes(m)' \/ m \in used'.lost
      <4>1. m > cursor
        BY <1>2, <3>1 DEF StillComes, Pushed
      <4>2. CASE m > cursor'
        BY <1>2, <2>3, <4>2 DEF StillComes, Pushed
      <4>3. CASE ~ (m > cursor')
        <5>1. m \in ToSet(events)
          BY <1>4, <1>6, <1>8, <4>1, <4>3
        <5>2. QED
          BY <2>2, <5>1
      <4>4. QED
        BY <4>2, <4>3
    <3>2. QED
      BY <1>2, <1>3, <2>2, <2>3, <2>5, <3>1 DEF Kept
  <2>10. QED
    BY <2>6, <2>7, <2>8, <2>9 DEF TakenInv
<1>11. QED
  BY <1>4, <1>9, <1>10

-----------------------------------------------------------------------------
(* Fetching mail. *)

\* A step of _fetch_messages loses no mail without a note of it.
MailStep ==
    /\ adapter = "email" /\ inbox = <<>>
    /\ conf' = conf /\ posted' = posted /\ pushes' = pushes /\ link' = link /\ inbox' = inbox /\ handlers' = handlers
    /\ cursor' = cursor /\ saved' = saved /\ cold' = cold /\ flight' = flight /\ held' = held /\ bus' = bus
    /\ fetch' \in Fetching /\ ToSet(fetch'.todo) \subseteq 1..posted /\ ToSet(fetch'.list) \subseteq 1..posted
    /\ fetch'.on = "no" => fetch' = NoFetch
    /\ fetch'.mark # 0 => fetch'.mark \in ToSet(fetch'.list)
    /\ seen' \in Seq(Nat) /\ IsInjective(seen') /\ Len(seen') <= CacheSize /\ ToSet(seen') \subseteq 1..posted
    /\ flagged' \subseteq 1..posted
    /\ used' \in Counters /\ used.lost \subseteq used'.lost
    /\ \A m \in ToSet(fetch.list) : m \in ToSet(fetch'.list) \/ m \in used'.lost
    /\ \A m \in 1..posted : m \notin flagged /\ m \notin ToSet(seen) =>
          (m \notin flagged' /\ m \notin ToSet(seen')) \/ m \in ToSet(fetch'.list)

LEMMA MailTaken ==
    ASSUME TakenInv, MailStep
    PROVE  TakenInv'
<1>1. ReceiveTypes /\ PartsUsed /\ Kept /\ SeenIsKept
  BY DEF TakenInv
<1>2. /\ adapter = "email" /\ inbox = <<>>
      /\ conf' = conf /\ posted' = posted /\ pushes' = pushes /\ link' = link /\ inbox' = inbox /\ handlers' = handlers
      /\ cursor' = cursor /\ saved' = saved /\ cold' = cold /\ flight' = flight /\ held' = held /\ bus' = bus
  BY DEF MailStep
<1>3. /\ fetch' \in Fetching /\ ToSet(fetch'.todo) \subseteq 1..posted /\ ToSet(fetch'.list) \subseteq 1..posted
      /\ fetch'.on = "no" => fetch' = NoFetch
      /\ fetch'.mark # 0 => fetch'.mark \in ToSet(fetch'.list)
      /\ seen' \in Seq(Nat) /\ IsInjective(seen') /\ Len(seen') <= CacheSize /\ ToSet(seen') \subseteq 1..posted
      /\ flagged' \subseteq 1..posted
      /\ used' \in Counters /\ used.lost \subseteq used'.lost
  BY DEF MailStep
<1>4. /\ \A m \in ToSet(fetch.list) : m \in ToSet(fetch'.list) \/ m \in used'.lost
      /\ \A m \in 1..posted : m \notin flagged /\ m \notin ToSet(seen) =>
            (m \notin flagged' /\ m \notin ToSet(seen')) \/ m \in ToSet(fetch'.list)
  BY DEF MailStep
<1>5. /\ adapter' = adapter /\ RestsOf' = RestsOf
      /\ \A m : Wanted(m)' <=> Wanted(m)
      /\ \A d : Counts(d)' <=> Counts(d)
  BY <1>2, SameConf
<1>6. /\ \A m : OnBus(m)' <=> OnBus(m)
      /\ \A m : InHandlers(m)' <=> InHandlers(m)
      /\ \A m : InInbox(m)' <=> InInbox(m)
  BY <1>2, <1>5 DEF OnBus, InHandlers, InInbox
<1>7. ReceiveTypes'
  BY <1>1, <1>2, <1>3, <1>5, <1>6 DEF ReceiveTypes
<1>8. PartsUsed'
  BY <1>1, <1>2, <1>3, <1>5 DEF PartsUsed, NoFetch
<1>9. SeenIsKept'
  BY <1>2, <1>5 DEF SeenIsKept
<1>10. Kept'
  <2>1. ASSUME NEW m \in 1..posted, Wanted(m)
        PROVE  OnItsWay(m)' \/ StillComes(m)' \/ m \in used'.lost
    <3>1. CASE OnItsWay(m)
      BY <1>2, <1>4, <1>6, <3>1 DEF OnItsWay
    <3>2. CASE StillComes(m)
      <4>1. m \notin flagged /\ ~Contains(seen, m) /\ seen \in Seq(Nat)
        BY <1>1, <1>2, <3>2 DEF StillComes, Pushed, ReceiveTypes
      <4>2. m \notin ToSet(seen)
        BY <4>1, IdsAre
      <4>3. CASE m \in ToSet(fetch'.list)
        BY <4>3 DEF OnItsWay
      <4>4. CASE m \notin flagged' /\ m \notin ToSet(seen')
        <5>1. ~Contains(seen', m)
          BY <1>3, <4>4, IdsAre
        <5>2. QED
          BY <1>2, <1>5, <4>4, <5>1 DEF StillComes, Pushed
      <4>5. QED
        BY <1>4, <4>1, <4>2, <4>3, <4>4
    <3>3. CASE m \in used.lost
      BY <1>3, <3>3
    <3>4. QED
      BY <1>1, <2>1, <3>1, <3>2, <3>3 DEF Kept
  <2>2. QED
    BY <1>2, <1>5, <2>1 DEF Kept
<1>11. QED
  BY <1>7, <1>8, <1>9, <1>10 DEF TakenInv

\* What the steps of a fetch have in common.
Fetched ==
    /\ adapter = "email" /\ inbox = <<>> /\ posted \in Nat /\ fetch \in Fetching
    /\ fetch.todo \in Seq(Nat) /\ fetch.list \in Seq(Nat) /\ fetch.mark \in Nat /\ fetch.on \in {"no", "first", "second"}
    /\ ToSet(fetch.todo) \subseteq 1..posted /\ ToSet(fetch.list) \subseteq 1..posted
    /\ fetch.mark # 0 => fetch.mark \in ToSet(fetch.list)
    /\ seen \in Seq(Nat) /\ IsInjective(seen) /\ Len(seen) <= CacheSize /\ ToSet(seen) \subseteq 1..posted
    /\ flagged \subseteq 1..posted /\ used \in Counters

LEMMA InAFetch ==
    ASSUME TakenInv, fetch.on # "no" \/ fetch.todo # <<>> \/ fetch.mark # 0
    PROVE  Fetched /\ fetch.on # "no"
<1>1. ReceiveTypes /\ PartsUsed
  BY DEF TakenInv
<1>2. fetch.on = "no" => fetch.todo = <<>> /\ fetch.mark = 0
  BY <1>1 DEF PartsUsed, NoFetch
<1>3. fetch.on # "no"
  BY <1>2
<1>4. QED
  BY <1>1, <1>3 DEF ReceiveTypes, PartsUsed, Fetching, Fetched

LEMMA Unreads ==
    ASSUME posted \in Nat
    PROVE  Unread \in Seq(Nat) /\ ToSet(Unread) \subseteq 1..posted /\ ToSet(Unread) \cap flagged = {}
<1>1. 0 \in Nat
  OBVIOUS
<1>2. PICK u : u = Upto(0, posted) /\ u \in Seq(Nat) /\ ToSet(u) = (0 + 1)..posted
  BY <1>1, UptoIs
<1>3. PICK set : set = Messages \ flagged
  OBVIOUS
<1>4. Those(u, set) \in Seq(Nat) /\ ToSet(Those(u, set)) = ToSet(u) \cap set
  BY <1>2, ThoseAre
<1>5. Unread = Those(u, set)
  BY <1>2, <1>3 DEF Unread
<1>6. ToSet(u) = 1..posted /\ set \cap flagged = {}
  BY <1>2, <1>3
<1>7. QED
  BY <1>4, <1>5, <1>6

LEMMA SearchTaken ==
    ASSUME TakenInv, EmailSearch
    PROVE  TakenInv'
<1>1. /\ adapter = "email" /\ inbox = <<>> /\ fetch' = [NoFetch EXCEPT !.on = "first", !.todo = Unread] /\ fetch.on = "no"
      /\ conf' = conf /\ posted' = posted /\ pushes' = pushes /\ link' = link /\ inbox' = inbox /\ handlers' = handlers
      /\ cursor' = cursor /\ saved' = saved /\ cold' = cold /\ flight' = flight /\ held' = held /\ bus' = bus
      /\ flagged' = flagged /\ seen' = seen /\ used' = used
  BY DEF EmailSearch, Idle, server
<1>2. ReceiveTypes /\ PartsUsed
  BY DEF TakenInv
<1>3. Unread \in Seq(Nat) /\ ToSet(Unread) \subseteq 1..posted
  BY <1>2, Unreads DEF ReceiveTypes
<1>4. fetch'.on = "first" /\ fetch'.todo = Unread /\ fetch'.list = <<>> /\ fetch'.mark = 0 /\ fetch' \in Fetching
  BY <1>1, <1>3, NoIds DEF NoFetch, Fetching
<1>5. ToSet(fetch.list) = {} /\ ToSet(fetch'.list) = {}
  BY <1>1, <1>2, <1>4, NoIds DEF PartsUsed, NoFetch
<1>6. MailStep
  BY <1>1, <1>2, <1>3, <1>4, <1>5 DEF MailStep, ReceiveTypes
<1>7. QED
  BY <1>6, MailTaken

LEMMA FetchOneTaken ==
    ASSUME TakenInv, EmailFetchOne
    PROVE  TakenInv'
<1>1. PICK m : m = Head(fetch.todo)
  OBVIOUS
<1>2. /\ fetch.todo # <<>> /\ fetch.mark = 0
      /\ IF m \in InCycle \/ Contains(seen, m)
         THEN fetch' = [fetch EXCEPT !.todo = Tail(@)] /\ seen' = seen /\ used' = used
         ELSE /\ fetch' = [fetch EXCEPT !.todo = Tail(@), !.list = Append(@, m), !.mark = m]
              /\ seen' \in Processed(seen, m)
              /\ used' = Repeat((ToSet(seen) \cup {m}) \ (ToSet(seen') \cup flagged))
      /\ conf' = conf /\ posted' = posted /\ pushes' = pushes /\ link' = link /\ inbox' = inbox /\ handlers' = handlers
      /\ cursor' = cursor /\ saved' = saved /\ cold' = cold /\ flight' = flight /\ held' = held /\ bus' = bus
      /\ flagged' = flagged
  BY <1>1 DEF EmailFetchOne, server
<1>3. /\ adapter = "email" /\ inbox = <<>> /\ posted \in Nat /\ fetch \in Fetching
      /\ fetch.todo \in Seq(Nat) /\ fetch.list \in Seq(Nat) /\ fetch.mark \in Nat /\ fetch.on \in {"first", "second"}
      /\ ToSet(fetch.todo) \subseteq 1..posted /\ ToSet(fetch.list) \subseteq 1..posted
      /\ seen \in Seq(Nat) /\ IsInjective(seen) /\ Len(seen) <= CacheSize /\ ToSet(seen) \subseteq 1..posted
      /\ flagged \subseteq 1..posted /\ used \in Counters
  BY <1>2, InAFetch DEF Fetched
<1>4. m \in Nat /\ Tail(fetch.todo) \in Seq(Nat) /\ ToSet(Tail(fetch.todo)) \subseteq 1..posted /\ m \in 1..posted
  BY <1>1, <1>2, <1>3, IdsTail
<1>5. CASE m \in InCycle \/ Contains(seen, m)
  <2>1. fetch' = [fetch EXCEPT !.todo = Tail(@)] /\ seen' = seen /\ used' = used
    BY <1>2, <1>5
  <2>2. fetch'.on = fetch.on /\ fetch'.todo = Tail(fetch.todo) /\ fetch'.list = fetch.list /\ fetch'.mark = 0 /\ fetch' \in Fetching
    BY <1>2, <1>3, <1>4, <2>1 DEF Fetching
  <2>3. MailStep
    BY <1>2, <1>3, <1>4, <2>1, <2>2 DEF MailStep
  <2>4. QED
    BY <2>3, MailTaken
<1>6. CASE ~ (m \in InCycle \/ Contains(seen, m))
  <2>1. /\ fetch' = [fetch EXCEPT !.todo = Tail(@), !.list = Append(@, m), !.mark = m]
        /\ seen' \in Processed(seen, m)
        /\ used' = Repeat((ToSet(seen) \cup {m}) \ (ToSet(seen') \cup flagged))
    BY <1>2, <1>6
  <2>2. PICK list : list = Append(fetch.list, m) /\ list \in Seq(Nat) /\ ToSet(list) = ToSet(fetch.list) \cup {m}
    BY <1>3, <1>4, IdAppended
  <2>3. fetch'.on = fetch.on /\ fetch'.todo = Tail(fetch.todo) /\ fetch'.list = list /\ fetch'.mark = m /\ fetch' \in Fetching
    BY <1>2, <1>3, <1>4, <2>1, <2>2 DEF Fetching
  <2>4. m \notin ToSet(seen) /\ CacheSize \in Nat \ {0} /\ Len(seen) \in Nat
    BY <1>3, <1>6, IdsAre, ReceiveAssumption
  <2>5. PICK more : /\ more = Append(seen, m) /\ more \in Seq(Nat) /\ ToSet(more) = ToSet(seen) \cup {m} /\ Len(more) = Len(seen) + 1
                    /\ IsInjective(more)
    BY <1>3, <1>4, <2>4, IdAppended
  <2>6. seen' \in Seq(Nat) /\ IsInjective(seen') /\ Len(seen') <= CacheSize /\ ToSet(seen') \subseteq ToSet(seen) \cup {m}
    <3>1. CASE Len(seen) < CacheSize
      <4>1. seen' = more
        BY <2>1, <2>5, <3>1 DEF Processed
      <4>2. Len(more) <= CacheSize
        BY <2>4, <2>5, <3>1
      <4>3. QED
        BY <2>5, <4>1, <4>2
    <3>2. CASE ~ (Len(seen) < CacheSize)
      <4>1. seen' \in Halves(more)
        BY <2>1, <2>5, <3>2 DEF Processed
      <4>2. PICK t : t = seen'
        OBVIOUS
      <4>3. t \in Halves(more)
        BY <4>1, <4>2
      <4>4. t \in Seq(Nat) /\ IsInjective(t) /\ ToSet(t) \subseteq ToSet(more) /\ Len(t) <= Len(more) - Len(more) \div 2
        BY <2>5, <4>3, HalfIs
      <4>5. PICK n \in Nat : n = Len(more) /\ n = CacheSize + 1
        BY <1>3, <2>4, <2>5, <3>2
      <4>6. n \div 2 >= 1 /\ n \div 2 \in Nat
        BY <2>4, <4>5
      <4>7. Len(t) \in Nat
        BY <4>4, IdsAre
      <4>8. Len(t) <= CacheSize
        BY <2>4, <4>4, <4>5, <4>6, <4>7
      <4>9. QED
        BY <2>5, <4>2, <4>4, <4>8
    <3>3. QED
      BY <3>1, <3>2
  <2>7. used' \in Counters /\ used'.lost = used.lost
    <3>1. (ToSet(seen) \cup {m}) \ (ToSet(seen') \cup flagged) \subseteq Nat
      BY <1>3, <1>4
    <3>2. QED
      BY <1>3, <2>1, <3>1, GhostsKept
  <2>8. ToSet(seen') \subseteq 1..posted /\ ToSet(list) \subseteq 1..posted /\ m \in ToSet(list)
    BY <1>3, <1>4, <2>2, <2>6
  <2>9. MailStep
    BY <1>2, <1>3, <1>4, <2>2, <2>3, <2>6, <2>7, <2>8 DEF MailStep
  <2>10. QED
    BY <2>9, MailTaken
<1>7. QED
  BY <1>5, <1>6

LEMMA SkipsTaken ==
    ASSUME TakenInv, EmailSkips
    PROVE  TakenInv'
<1>1. /\ fetch.todo # <<>> /\ fetch.mark = 0 /\ fetch' = [fetch EXCEPT !.todo = Tail(@)]
      /\ used' = [used EXCEPT !.failures = @ + 1, !.late = @ \cup {Head(fetch.todo)}]
      /\ conf' = conf /\ posted' = posted /\ pushes' = pushes /\ link' = link /\ inbox' = inbox /\ handlers' = handlers
      /\ cursor' = cursor /\ saved' = saved /\ cold' = cold /\ flight' = flight /\ held' = held /\ bus' = bus
      /\ flagged' = flagged /\ seen' = seen
  BY DEF EmailSkips, server
<1>2. Fetched /\ fetch.on # "no"
  BY <1>1, InAFetch
<1>3. Head(fetch.todo) \in Nat /\ Tail(fetch.todo) \in Seq(Nat) /\ ToSet(Tail(fetch.todo)) \subseteq 1..posted
  BY <1>1, <1>2, IdsTail DEF Fetched
<1>4. fetch'.on = fetch.on /\ fetch'.todo = Tail(fetch.todo) /\ fetch'.list = fetch.list /\ fetch'.mark = 0 /\ fetch' \in Fetching
  BY <1>1, <1>2, <1>3 DEF Fetching, Fetched
<1>5. used' \in Counters /\ used'.lost = used.lost
  <2>1. used \in Counters /\ used.failures + 1 \in Nat
    BY <1>2 DEF Fetched, Counters
  <2>2. QED
    BY <1>1, <1>3, <2>1 DEF Counters
<1>6. MailStep
  BY <1>1, <1>2, <1>3, <1>4, <1>5 DEF MailStep, Fetched
<1>7. QED
  BY <1>6, MailTaken

LEMMA MarkTaken ==
    ASSUME TakenInv, EmailMark
    PROVE  TakenInv'
<1>1. /\ fetch.mark # 0 /\ fetch' = [fetch EXCEPT !.mark = 0] /\ flagged' = flagged \cup {fetch.mark}
      /\ conf' = conf /\ posted' = posted /\ pushes' = pushes /\ link' = link /\ inbox' = inbox /\ handlers' = handlers
      /\ cursor' = cursor /\ saved' = saved /\ cold' = cold /\ flight' = flight /\ held' = held /\ bus' = bus
      /\ used' = used /\ seen' = seen
  BY DEF EmailMark
<1>2. Fetched /\ fetch.on # "no"
  BY <1>1, InAFetch
<1>3. fetch'.on = fetch.on /\ fetch'.todo = fetch.todo /\ fetch'.list = fetch.list /\ fetch'.mark = 0 /\ fetch' \in Fetching
  BY <1>1, <1>2 DEF Fetching, Fetched
<1>4. fetch.mark \in ToSet(fetch.list) /\ fetch.mark \in 1..posted
  BY <1>1, <1>2 DEF Fetched
<1>5. MailStep
  BY <1>1, <1>2, <1>3, <1>4 DEF MailStep, Fetched
<1>6. QED
  BY <1>5, MailTaken

LEMMA GoesStaleTaken ==
    ASSUME TakenInv, EmailGoesStale
    PROVE  TakenInv'
<1>1. /\ fetch.on = "first" /\ fetch' = [fetch EXCEPT !.on = "second", !.todo = Unread, !.mark = 0]
      /\ used' = [used EXCEPT !.failures = @ + 1]
      /\ conf' = conf /\ posted' = posted /\ pushes' = pushes /\ link' = link /\ inbox' = inbox /\ handlers' = handlers
      /\ cursor' = cursor /\ saved' = saved /\ cold' = cold /\ flight' = flight /\ held' = held /\ bus' = bus
      /\ flagged' = flagged /\ seen' = seen
  BY DEF EmailGoesStale, server
<1>2. Fetched
  BY <1>1, InAFetch
<1>3. Unread \in Seq(Nat) /\ ToSet(Unread) \subseteq 1..posted
  BY <1>2, Unreads DEF Fetched
<1>4. fetch'.on = "second" /\ fetch'.todo = Unread /\ fetch'.list = fetch.list /\ fetch'.mark = 0 /\ fetch' \in Fetching
  BY <1>1, <1>2, <1>3 DEF Fetching, Fetched
<1>5. used' \in Counters /\ used'.lost = used.lost
  <2>1. used \in Counters /\ used.failures + 1 \in Nat
    BY <1>2 DEF Fetched, Counters
  <2>2. QED
    BY <1>1, <2>1 DEF Counters
<1>6. MailStep
  BY <1>1, <1>2, <1>3, <1>4, <1>5 DEF MailStep, Fetched
<1>7. QED
  BY <1>6, MailTaken

LEMMA BreaksTaken ==
    ASSUME TakenInv, EmailBreaks
    PROVE  TakenInv'
<1>1. /\ fetch.on # "no" /\ fetch' = NoFetch /\ used' = [Lose(ToSet(fetch.list)) EXCEPT !.failures = @ + 1]
      /\ conf' = conf /\ posted' = posted /\ pushes' = pushes /\ link' = link /\ inbox' = inbox /\ handlers' = handlers
      /\ cursor' = cursor /\ saved' = saved /\ cold' = cold /\ flight' = flight /\ held' = held /\ bus' = bus
      /\ flagged' = flagged /\ seen' = seen
  BY DEF EmailBreaks, server
<1>2. Fetched
  BY <1>1, InAFetch
<1>3. fetch'.on = "no" /\ fetch'.todo = <<>> /\ fetch'.list = <<>> /\ fetch'.mark = 0 /\ fetch' \in Fetching /\ ToSet(<<>>) = {}
  BY <1>1, NoIds DEF NoFetch, Fetching
<1>4. PICK lose : lose = Lose(ToSet(fetch.list)) /\ lose \in Counters /\ lose.lost = used.lost \cup ToSet(fetch.list)
  <2>1. ToSet(fetch.list) \subseteq Nat /\ used \in Counters
    BY <1>2, IdsAre DEF Fetched
  <2>2. QED
    BY <2>1, GhostsKept
<1>5. used' \in Counters /\ used'.lost = lose.lost
  <2>1. lose.failures + 1 \in Nat
    BY <1>4 DEF Counters
  <2>2. QED
    BY <1>1, <1>4, <2>1 DEF Counters
<1>6. MailStep
  BY <1>1, <1>2, <1>3, <1>4, <1>5 DEF MailStep, Fetched
<1>7. QED
  BY <1>6, MailTaken

LEMMA HandsOverTaken ==
    ASSUME TakenInv, EmailHandsOver
    PROVE  TakenInv'
<1>1. /\ fetch.on # "no" /\ fetch' = NoFetch
      /\ inbox' = [i \in DOMAIN fetch.list |-> [m |-> fetch.list[i], event |-> "message"]]
      /\ conf' = conf /\ posted' = posted /\ pushes' = pushes /\ link' = link /\ handlers' = handlers
      /\ cursor' = cursor /\ saved' = saved /\ cold' = cold /\ flight' = flight /\ held' = held /\ bus' = bus
      /\ flagged' = flagged /\ seen' = seen /\ used' = used
  BY DEF EmailHandsOver, server
<1>2. ReceiveTypes /\ PartsUsed /\ Kept /\ SeenIsKept
  BY DEF TakenInv
<1>3. adapter = "email" /\ inbox = <<>> /\ fetch.list \in Seq(Nat) /\ ToSet(fetch.list) \subseteq 1..posted
  BY <1>1, InAFetch DEF Fetched
<1>4. PICK list, n : list = fetch.list /\ n = Len(list) /\ n \in Nat /\ DOMAIN list = 1..n /\ \A i \in 1..n : list[i] \in Nat
  BY <1>3, Positions
<1>5. inbox' \in [1..n -> Delivered]
  BY <1>1, <1>4 DEF Delivered
<1>6. inbox' \in Seq(Delivered) /\ DOMAIN inbox' = 1..n
  <2>1. PICK s : s = inbox'
    OBVIOUS
  <2>2. s \in Seq(Delivered) /\ DOMAIN s = 1..n
    BY <1>4, <1>5, <2>1, FunctionIsSeq
  <2>3. QED
    BY <2>1, <2>2
<1>7. \A i \in 1..n : inbox'[i].m = list[i]
  BY <1>1, <1>4
<1>8. /\ \A d \in ToSet(inbox') : d.m \in ToSet(list)
      /\ \A m \in ToSet(list) : \E d \in ToSet(inbox') : d.m = m
  BY <1>4, <1>6, <1>7 DEF ToSet
<1>9. /\ adapter' = adapter /\ RestsOf' = RestsOf
      /\ \A m : Wanted(m)' <=> Wanted(m)
      /\ \A d : Counts(d)' <=> Counts(d)
  BY <1>1, SameConf
<1>10. /\ \A m : OnBus(m)' <=> OnBus(m)
       /\ \A m : InHandlers(m)' <=> InHandlers(m)
  BY <1>1 DEF OnBus, InHandlers
<1>11. \A m \in ToSet(fetch.list) : InInbox(m)'
  <2>1. \A d : Counts(d)
    BY <1>3 DEF Counts
  <2>2. QED
    BY <1>4, <1>8, <1>9, <2>1 DEF InInbox
<1>12. ReceiveTypes'
  <2>1. \A d \in ToSet(inbox') : d.m \in 1..posted
    BY <1>3, <1>4, <1>8
  <2>2. NoFetch \in Fetching /\ ToSet(NoFetch.todo) \subseteq 1..posted /\ ToSet(NoFetch.list) \subseteq 1..posted
    BY NoIds DEF NoFetch, Fetching
  <2>3. QED
    BY <1>1, <1>2, <1>6, <1>9, <1>10, <2>1, <2>2 DEF ReceiveTypes
<1>13. PartsUsed'
  BY <1>1, <1>2, <1>3, <1>9 DEF PartsUsed, NoFetch
<1>14. SeenIsKept'
  BY <1>3, <1>9 DEF SeenIsKept
<1>15. Kept'
  <2>1. \A m : OnItsWay(m) => OnItsWay(m)'
    <3>1. \A m : ~InInbox(m)
      BY <1>3, NoDeliveries DEF InInbox
    <3>2. QED
      BY <1>1, <1>10, <1>11, <3>1 DEF OnItsWay
  <2>2. \A m : StillComes(m) => StillComes(m)'
    BY <1>1, <1>2, StillSame DEF ReceiveTypes
  <2>3. QED
    BY <1>1, <1>2, <1>9, <2>1, <2>2 DEF Kept
<1>16. QED
  BY <1>12, <1>13, <1>14, <1>15 DEF TakenInv

-----------------------------------------------------------------------------
(* Restarts, the beginning, and the theorem. *)

\* What is in hand is what InHand says.
LEMMA HandIs ==
    ASSUME ReceiveTypes, NEW m, InInbox(m) \/ InHandlers(m) \/ m \in ToSet(held) \/ m \in ToSet(fetch.list)
    PROVE  InHand(m)
<1>1. inbox \in Seq(Delivered) /\ held \in Seq(Nat) /\ fetch.list \in Seq(Nat)
  BY DEF ReceiveTypes, Fetching
<1>2. CASE InInbox(m)
  BY <1>2 DEF InInbox, ToSet, InHand
<1>3. CASE InHandlers(m)
  BY <1>3 DEF InHandlers, InHand
<1>4. CASE m \in ToSet(held)
  BY <1>1, <1>4, IdsAre DEF InHand
<1>5. CASE m \in ToSet(fetch.list)
  BY <1>1, <1>5, IdsAre DEF InHand
<1>6. QED
  BY <1>2, <1>3, <1>4, <1>5

LEMMA RestartTaken ==
    ASSUME TakenInv, NEW graceful \in BOOLEAN, Restart(graceful)
    PROVE  TakenInv'
<1>1. PICK s : s = IF graceful /\ adapter = "session" /\ ~cold THEN cursor ELSE saved
  OBVIOUS
<1>2. PICK known, doubtful : known = 1..posted /\ doubtful = {m \in known : ComesAgain(m, s)}
  OBVIOUS
<1>3. /\ graceful => adapter = "session"
      /\ saved' = s
      /\ cursor' = CASE adapter = "telegram" -> TelegramBegins
                     [] adapter = "weixin"   -> WeixinBegins(s)
                     [] OTHER                -> MochatBegins(s)
      /\ cold' = (s = -1)
      /\ used' = [used EXCEPT !.restarts = @ + 1,
                      !.again = @ \cup {m \in doubtful : Times(m) > 0 \/ Contains(seen, m)},
                      !.lost = @ \cup {m \in known : Times(m) = 0 /\
                          (adapter = "telegram" \/ (InHand(m) /\ (m \notin doubtful \/ adapter \in Pushed)))}]
      /\ inbox' = <<>> /\ handlers' = {} /\ seen' = <<>> /\ flight' = {} /\ fetch' = NoFetch /\ held' = <<>>
      /\ link' = "up"
      /\ conf' = conf /\ posted' = posted /\ pushes' = pushes /\ flagged' = flagged /\ bus' = bus
  BY <1>1, <1>2 DEF Restart
<1>4. ReceiveTypes /\ PartsUsed /\ Kept /\ SeenIsKept
  BY DEF TakenInv
<1>5. /\ posted \in Nat /\ cursor \in 0..posted /\ saved \in -1..posted /\ bus \in Seq(Turns) /\ used \in Counters
      /\ seen \in Seq(Nat) /\ flagged \subseteq 1..posted /\ adapter \in AllAdapters
  BY <1>4 DEF ReceiveTypes
<1>6. /\ adapter' = adapter /\ RestsOf' = RestsOf
      /\ \A m : Wanted(m)' <=> Wanted(m)
      /\ \A d : Counts(d)' <=> Counts(d)
  BY <1>3, SameConf
<1>7. s \in -1..posted /\ (s <= cursor \/ (adapter = "weixin" /\ ~conf.resumes))
  BY <1>1, <1>4, <1>5 DEF PartsUsed
<1>8. MochatBegins(s) \in 0..posted /\ s <= MochatBegins(s) /\ (MochatBegins(s) = 0 \/ MochatBegins(s) = s)
  <2>1. PICK a \in Int : a = s
    BY <1>7
  <2>2. Max({0, a}) \in {0, a} /\ Max({0, a}) >= 0 /\ Max({0, a}) >= a /\ Max({0, a}) \in Int
    BY Greater
  <2>3. MochatBegins(s) = Max({0, a})
    BY <2>1 DEF MochatBegins
  <2>4. QED
    BY <1>5, <1>7, <2>1, <2>2, <2>3
<1>9. \/ adapter = "telegram" /\ cursor' = posted
      \/ adapter = "weixin" /\ cursor' = (IF conf.resumes THEN s ELSE 0)
      \/ adapter \notin {"telegram", "weixin"} /\ cursor' = MochatBegins(s)
  BY <1>3 DEF TelegramBegins, WeixinBegins
<1>10. cursor' \in 0..posted
  <2>1. CASE adapter = "telegram"
    BY <1>5, <1>9, <2>1
  <2>2. CASE adapter = "weixin"
    <3>1. s = saved /\ saved \in Nat
      BY <1>1, <1>4, <2>2 DEF PartsUsed
    <3>2. QED
      BY <1>5, <1>9, <2>2, <3>1
  <2>3. CASE adapter \notin {"telegram", "weixin"}
    BY <1>8, <1>9, <2>3
  <2>4. QED
    BY <2>1, <2>2, <2>3
<1>11. s <= cursor' \/ (adapter = "weixin" /\ ~conf.resumes)
  <2>1. CASE adapter = "telegram"
    <3>1. s \in -1..posted /\ posted \in Nat
      BY <1>5, <1>7
    <3>2. QED
      BY <1>9, <2>1, <3>1
  <2>2. CASE adapter = "weixin" /\ conf.resumes
    <3>1. s \in Int
      BY <1>7
    <3>2. QED
      BY <1>9, <2>2, <3>1
  <2>3. CASE adapter \notin {"telegram", "weixin"}
    BY <1>8, <1>9, <2>3
  <2>4. QED
    BY <2>1, <2>2, <2>3
<1>12. used' \in Counters
       /\ used'.lost = used.lost \cup {m \in known : Times(m) = 0 /\
                          (adapter = "telegram" \/ (InHand(m) /\ (m \notin doubtful \/ adapter \in Pushed)))}
  <2>1. PICK again, lost : /\ again = {m \in doubtful : Times(m) > 0 \/ Contains(seen, m)}
                          /\ lost = {m \in known : Times(m) = 0 /\
                                (adapter = "telegram" \/ (InHand(m) /\ (m \notin doubtful \/ adapter \in Pushed)))}
    OBVIOUS
  <2>2. again \subseteq Nat /\ lost \subseteq Nat
    BY <1>2, <1>5, <2>1
  <2>3. used' = [used EXCEPT !.restarts = @ + 1, !.again = @ \cup again, !.lost = @ \cup lost]
    BY <1>3, <2>1
  <2>4. used.restarts + 1 \in Nat
    BY <1>5 DEF Counters
  <2>5. used' \in Counters /\ used'.lost = used.lost \cup lost
    BY <1>5, <2>2, <2>3, <2>4 DEF Counters
  <2>6. QED
    BY <2>1, <2>5
<1>13. \A m : OnBus(m)' <=> OnBus(m)
  BY <1>3 DEF OnBus
<1>14. ReceiveTypes'
  <2>1. /\ inbox' \in Seq(Delivered) /\ ToSet(inbox') = {}
        /\ seen' \in Seq(Nat) /\ IsInjective(seen') /\ Len(seen') <= CacheSize /\ ToSet(seen') = {}
        /\ held' \in Seq(Nat) /\ ToSet(held') = {}
    BY <1>3, NoIds, NoDeliveries, ReceiveAssumption
  <2>2. fetch' \in Fetching /\ ToSet(fetch'.todo) \subseteq 1..posted /\ ToSet(fetch'.list) \subseteq 1..posted
    BY <1>3, NoIds DEF NoFetch, Fetching
  <2>3. cold' \in BOOLEAN
    BY <1>3
  <2>4. QED
    BY <1>3, <1>4, <1>6, <1>7, <1>10, <1>12, <1>13, <2>1, <2>2, <2>3 DEF ReceiveTypes
<1>15. PartsUsed'
  <2>1. adapter # "session" => s \in Nat
    BY <1>1, <1>4 DEF PartsUsed
  <2>2. ToSet(seen') = {}
    BY <1>3, NoIds
  <2>3. QED
    BY <1>3, <1>4, <1>6, <1>11, <2>1, <2>2 DEF PartsUsed, NoFetch
<1>16. SeenIsKept'
  BY <1>3, NoIds DEF SeenIsKept
<1>17. Kept'
  <2>1. ASSUME NEW m \in 1..posted, Wanted(m), ~OnBus(m), m \notin used.lost, m \notin used'.lost
        PROVE  StillComes(m)'
    <3>1. Times(m) = 0 /\ m \in known /\ m \in Nat /\ m > 0
      BY <1>2, <1>5, <2>1, TimesIs
    <3>2. adapter # "telegram"
      BY <1>12, <2>1, <3>1
    <3>3. InHand(m) => m \in doubtful /\ adapter \notin Pushed
      BY <1>12, <2>1, <3>1
    <3>4. InHand(m) \/ StillComes(m)
      <4>1. OnItsWay(m) => InHand(m)
        BY <1>4, <2>1, HandIs DEF OnItsWay
      <4>2. QED
        BY <1>4, <2>1, <4>1 DEF Kept
    <3>5. m > s => m > MochatBegins(s)
      BY <1>7, <1>8, <3>1
    <3>6. CASE adapter = "weixin"
      <4>1. m > cursor'
        <5>1. CASE ~conf.resumes
          BY <1>9, <3>1, <3>6, <5>1
        <5>2. CASE conf.resumes
          <6>1. InHand(m) => m > s
            BY <1>2, <3>3, <3>6, <5>2 DEF ComesAgain, Pushed
          <6>2. StillComes(m) => m > cursor
            BY <3>6 DEF StillComes, Pushed
          <6>3. m > s
            BY <1>5, <1>7, <3>1, <3>4, <5>2, <6>1, <6>2
          <6>4. QED
            BY <1>9, <3>6, <5>2, <6>3
        <5>3. QED
          BY <5>1, <5>2
      <4>2. QED
        BY <1>6, <3>6, <4>1 DEF StillComes, Pushed
    <3>7. CASE adapter = "matrix"
      <4>1. InHand(m) => m > s
        BY <1>2, <3>3, <3>7 DEF ComesAgain, Pushed
      <4>2. StillComes(m) => m > cursor
        BY <3>7 DEF StillComes, Pushed
      <4>3. m > s
        BY <1>5, <1>7, <3>1, <3>4, <3>7, <4>1, <4>2
      <4>4. m > cursor'
        BY <1>9, <3>5, <3>7, <4>3
      <4>5. QED
        BY <1>6, <3>7, <4>4 DEF StillComes, Pushed
    <3>8. CASE adapter = "session"
      <4>1. ~OnItsWay(m)
        <5>1. inbox = <<>> /\ handlers = {} /\ held = <<>> /\ fetch.on = "no" /\ fetch = NoFetch
          BY <1>4, <3>8 DEF PartsUsed, ReceiveTypes, Fetching
        <5>2. ToSet(inbox) = {} /\ ToSet(held) = {} /\ ToSet(fetch.list) = {}
          BY <5>1, NoIds, NoDeliveries DEF NoFetch
        <5>3. QED
          BY <2>1, <5>1, <5>2 DEF OnItsWay, InInbox, InHandlers
      <4>2. StillComes(m)
        BY <1>4, <2>1, <4>1 DEF Kept
      <4>3. m > cursor
        BY <3>8, <4>2 DEF StillComes, Pushed
      <4>4. m > s
        BY <1>5, <1>7, <3>1, <3>8, <4>3
      <4>5. m > cursor'
        BY <1>9, <3>5, <3>8, <4>4
      <4>6. QED
        BY <1>6, <3>8, <4>5 DEF StillComes, Pushed
    <3>9. CASE adapter = "email"
      <4>1. InHand(m) => m \notin flagged
        BY <1>2, <3>3, <3>9 DEF ComesAgain, Pushed
      <4>2. StillComes(m) => m \notin flagged
        BY <3>9 DEF StillComes, Pushed
      <4>3. m \notin flagged' /\ ~Contains(seen', m)
        <5>1. seen' \in Seq(Nat) /\ ToSet(seen') = {}
          BY <1>3, NoIds
        <5>2. ~Contains(seen', m)
          BY <5>1, IdsAre
        <5>3. QED
          BY <1>3, <3>4, <4>1, <4>2, <5>2
      <4>4. QED
        BY <1>6, <3>9, <4>3 DEF StillComes, Pushed
    <3>10. CASE adapter = "panel"
      BY <1>6, <3>10 DEF StillComes, Pushed
    <3>11. CASE adapter \in Pushed
      <4>1. StillComes(m)
        BY <3>3, <3>4, <3>11
      <4>2. pushes[m] = 0
        BY <3>11, <4>1 DEF StillComes, Pushed
      <4>3. QED
        BY <1>3, <1>6, <3>11, <4>2 DEF StillComes, Pushed
    <3>12. QED
      BY <1>5, <3>2, <3>6, <3>7, <3>8, <3>9, <3>10, <3>11 DEF AllAdapters, Pushed
  <2>2. \A m : OnBus(m) => OnItsWay(m)'
    BY <1>13 DEF OnItsWay
  <2>3. \A m : m \in used.lost => m \in used'.lost
    BY <1>12
  <2>4. QED
    BY <1>3, <1>6, <2>1, <2>2, <2>3 DEF Kept
<1>18. QED
  BY <1>14, <1>15, <1>16, <1>17 DEF TakenInv

LEMMA InitTaken ==
    ASSUME Init
    PROVE  TakenInv
<1>1. adapter \in AllAdapters
  <2>1. PICK a \in Adapters : conf \in [adapter : {a}, kind : [Messages -> KindsOf(a)],
                        resumes : IF a \in {"weixin", "matrix"} THEN BOOLEAN ELSE {TRUE},
                        knowsBot : IF a = "slack" THEN BOOLEAN ELSE {TRUE},
                        open : IF a = "slack" THEN BOOLEAN ELSE {TRUE}]
    BY DEF Init
  <2>2. conf.adapter = a
    BY <2>1
  <2>3. QED
    BY <2>2, ReceiveAssumption DEF adapter
<1>2. /\ posted = 0 /\ pushes = [m \in Messages |-> 0] /\ flagged = {} /\ link = "up"
      /\ inbox = <<>> /\ handlers = {} /\ seen = <<>> /\ cursor = 0
      /\ saved = IF adapter = "session" THEN -1 ELSE 0
      /\ cold = (adapter = "session")
      /\ flight = {} /\ fetch = NoFetch /\ held = <<>> /\ bus = <<>>
      /\ used = [failures |-> 0, restarts |-> 0, links |-> 0, lost |-> {}, again |-> {}, late |-> {}]
  BY DEF Init
<1>3. /\ inbox \in Seq(Delivered) /\ ToSet(inbox) = {}
      /\ seen \in Seq(Nat) /\ IsInjective(seen) /\ Len(seen) <= CacheSize /\ ToSet(seen) = {}
      /\ held \in Seq(Nat) /\ ToSet(held) = {}
  BY <1>2, NoIds, NoDeliveries, ReceiveAssumption
<1>4. fetch \in Fetching /\ ToSet(fetch.todo) = {} /\ ToSet(fetch.list) = {} /\ fetch.on = "no" /\ fetch.mark = 0
  BY <1>2, NoIds DEF NoFetch, Fetching
<1>5. bus \in Seq(Turns) /\ \A m : ~OnBus(m)
  <2>1. DOMAIN bus = {} /\ bus \in Seq(Turns)
    BY <1>2
  <2>2. QED
    BY <2>1 DEF OnBus, On
<1>6. used \in Counters
  BY <1>2 DEF Counters
<1>7. MaxMessages \in Nat /\ 0 \in 0..0 /\ saved \in -1..0 /\ saved <= 0 /\ (adapter # "session" => saved \in Nat)
  BY <1>2, ReceiveAssumption
<1>8. ReceiveTypes
  BY <1>1, <1>2, <1>3, <1>4, <1>5, <1>6, <1>7 DEF ReceiveTypes
<1>9. PartsUsed
  BY <1>2, <1>3, <1>4, <1>7 DEF PartsUsed
<1>10. Kept /\ SeenIsKept
  <2>1. \A m \in 1..0 : FALSE
    OBVIOUS
  <2>2. QED
    BY <1>2, <1>3, <2>1 DEF Kept, SeenIsKept
<1>11. QED
  BY <1>8, <1>9, <1>10 DEF TakenInv

LEMMA NextTaken ==
    ASSUME TakenInv, [Next]_vars
    PROVE  TakenInv'
<1>1. CASE UNCHANGED vars
  BY <1>1, RestTaken
<1>2. CASE Next
  <2>1. CASE Posts
    BY <2>1, PostsTaken
  <2>2. CASE LinkChanges
    BY <2>2, LinkTaken
  <2>3. CASE \E m \in Messages : Push(m) \/ Notify(m)
    BY <2>3, PushTaken, NotifyTaken
  <2>4. CASE Handles
    BY <2>4, BeginTaken, StepTaken, FlushTaken DEF Handles
  <2>5. CASE Asks
    BY <2>5, AsksTaken, SaveCursorsTaken, SearchTaken, AnswersTaken DEF Asks
  <2>6. CASE Fetches
    BY <2>6, FetchOneTaken, MarkTaken, HandsOverTaken DEF Fetches
  <2>7. CASE EmailSkips
    BY <2>7, SkipsTaken
  <2>8. CASE EmailGoesStale
    BY <2>8, GoesStaleTaken
  <2>9. CASE EmailBreaks
    BY <2>9, BreaksTaken
  <2>10. CASE \E p \in flight : SessionPayload(p) \/ PanelPayload(p)
    BY <2>10, SessionPayloadTaken, PanelPayloadTaken
  <2>11. CASE SaveCursors
    BY <2>11, SaveCursorsTaken
  <2>12. CASE \E graceful \in BOOLEAN : Restart(graceful)
    BY <2>12, RestartTaken
  <2>13. QED
    BY <1>2, <2>1, <2>2, <2>3, <2>4, <2>5, <2>6, <2>7, <2>8, <2>9, <2>10, <2>11, <2>12 DEF Next
<1>3. QED
  BY <1>1, <1>2

\* TakenInv says what TakenIsKept says.
LEMMA TakenHolds ==
    ASSUME TakenInv
    PROVE  TakenIsKept
<1>1. ReceiveTypes /\ PartsUsed /\ Kept /\ SeenIsKept
  BY DEF TakenInv
<1>2. TypeOK
  <2>1. /\ posted \in 0 .. MaxMessages /\ pushes \in [Messages -> Nat] /\ flagged \subseteq 1 .. posted
        /\ link \in {"up", "down"} /\ cold \in BOOLEAN
        /\ ToSet(seen) \subseteq 1 .. posted /\ Len(seen) <= CacheSize /\ IsInjective(seen)
        /\ cursor \in 0 .. posted /\ saved \in -1 .. posted
        /\ ToSet(fetch.todo) \cup ToSet(fetch.list) \subseteq 1 .. posted
        /\ ToSet(held) \subseteq 1 .. posted
    BY <1>1 DEF ReceiveTypes
  <2>2. \A i \in DOMAIN inbox : inbox[i].m \in 1 .. posted
    BY <1>1 DEF ReceiveTypes, ToSet
  <2>3. \A p \in flight : 0 <= p.from /\ p.from <= p.to /\ p.to <= posted
    <3>1. \A p \in flight : p.from \in 0..posted /\ p.to \in 0..posted /\ p.from <= p.to
      BY <1>1 DEF ReceiveTypes
    <3>2. QED
      BY <3>1
  <2>4. ASSUME NEW h \in handlers
        PROVE  h.d.m \in 1 .. posted /\ h.rest # <<>> /\ \E k \in 1 .. 2 : h.rest = Drop(Steps, k)
    <3>1. h.d.m \in 1..posted /\ h.rest \in RestsOf
      BY <1>1 DEF ReceiveTypes
    <3>2. adapter \in Handled /\ adapter \notin {"email", "whatsapp"}
      BY <1>1 DEF ReceiveTypes, PartsUsed, Handled
    <3>3. Firsts
      BY <3>2, FirstStep
    <3>4. h.rest # <<>>
      BY <3>1, NextStep
    <3>5. QED
      BY <3>1, <3>2, <3>3, <3>4 DEF Firsts
  <2>5. ASSUME NEW i \in DOMAIN bus
        PROVE  bus[i] # <<>> /\ ToSet(bus[i]) \subseteq {m \in 1 .. posted : Wanted(m)}
    <3>1. bus \in Seq(Turns) /\ \A m : OnBus(m) => m \in 1 .. posted /\ Wanted(m)
      BY <1>1 DEF ReceiveTypes
    <3>2. bus[i] \in Turns
      BY <3>1, Positions
    <3>3. \A m \in ToSet(bus[i]) : OnBus(m)
      BY DEF OnBus, On
    <3>4. QED
      BY <3>1, <3>2, <3>3 DEF Turns
  <2>6. QED
    BY <2>1, <2>2, <2>3, <2>4, <2>5 DEF TypeOK
<1>3. bus \in Seq(Turns)
  BY <1>1 DEF ReceiveTypes
<1>4. NothingLost
  <2>1. ASSUME NEW m \in 1..posted, Wanted(m)
        PROVE  Times(m) > 0 \/ InHand(m) \/ StillComes(m) \/ m \in used.lost
    <3>1. OnBus(m) => Times(m) > 0
      BY <1>3, TimesIs
    <3>2. OnItsWay(m) => OnBus(m) \/ InHand(m)
      BY <1>1, HandIs DEF OnItsWay
    <3>3. QED
      BY <1>1, <2>1, <3>1, <3>2 DEF Kept
  <2>2. QED
    BY <2>1 DEF NothingLost
<1>5. DelayedIsKept
  <2>1. ASSUME adapter = "panel", NEW m \in ToSet(seen)
        PROVE  Times(m) > 0 \/ Contains(held, m)
    <3>1. OnBus(m) \/ m \in ToSet(held)
      BY <1>1, <2>1 DEF SeenIsKept, PartsUsed, InHandlers
    <3>2. held \in Seq(Nat)
      BY <1>1 DEF ReceiveTypes
    <3>3. QED
      BY <1>3, <3>1, <3>2, TimesIs, IdsAre
  <2>2. QED
    BY <2>1 DEF DelayedIsKept
<1>6. QED
  BY <1>2, <1>4, <1>5 DEF TakenIsKept

\* Every message that an adapter has taken from its server is on the bus or on its way
\* there, or is among the known losses (channels/*.py).
THEOREM TakenIsKeptAlways == Spec => []TakenIsKept
<1>1. Init => TakenInv
  BY InitTaken
<1>2. TakenInv /\ [Next]_vars => TakenInv'
  BY NextTaken
<1>3. TakenInv => TakenIsKept
  BY TakenHolds
<1>4. QED
  BY <1>1, <1>2, <1>3, PTL DEF Spec

\* The same beside the other half of the model, which sends.
THEOREM TakenIsKeptBesideSending == MCSpec => []TakenIsKept
<1>1. MCInit => TakenInv
  BY InitTaken DEF MCInit, ReceiveRests
<1>2. TakenInv /\ [MCNext]_mc => TakenInv'
  <2>1. [MCNext]_mc => [Next]_vars
    BY DEF MCNext, Receive, Sends, mc
  <2>2. QED
    BY <2>1, NextTaken
<1>3. TakenInv => TakenIsKept
  BY TakenHolds
<1>4. QED
  BY <1>1, <1>2, <1>3, PTL DEF MCSpec

-----------------------------------------------------------------------------
(* Once and in order: the inductive invariant. *)

\* The adapters whose deliveries may repeat, and are told apart by what they remember.
Filtering == Pushed \cap Remembers

\* The messages that OnceInOrder makes no exception for.
Fresh(m) == m \notin used.again /\ ~ (adapter = "slack" /\ ~conf.knowsBot /\ conf.open)
Free(m)  == conf.kind[m] # "album" /\ m \notin used.again \cup used.late

\* m has been accepted: another delivery of it would make another turn.
Accepted(m) == OnBus(m) \/ InHandlers(m) \/ m \in ToSet(held) \/ m \in ToSet(fetch.list) \/ (adapter \notin Filtering /\ InInbox(m))

\* No other delivery of m will be accepted.
Exhausted(m) == pushes[m] >= MaxNotifies /\ m <= cursor /\ \A p \in flight : m <= p.from
Shut(m) ==
    /\ adapter \in {"telegram", "weixin", "matrix"} => m <= cursor
    /\ adapter \in Pushed \ Remembers => pushes[m] > 0
    /\ adapter \in Filtering => m \in ToSet(seen) \/ (pushes[m] >= MaxPushes /\ ~InInbox(m))
    /\ adapter = "session" => m \in ToSet(seen) \/ Exhausted(m)
    /\ adapter = "panel" => m \in ToSet(seen)
    /\ adapter = "email" => m \in ToSet(seen) \/ m \in flagged

OneTurn(turns, m) == \A i, j \in DOMAIN turns : m \in ToSet(turns[i]) /\ m \in ToSet(turns[j]) => i = j
OneHandler(m)  == \A h, k \in handlers : h.d.m = m /\ k.d.m = m => h = k
OneDelivery(m) == \A i, j \in DOMAIN inbox : inbox[i].m = m /\ inbox[j].m = m /\ Counts(inbox[i]) /\ Counts(inbox[j]) => i = j

\* An accepted message is in one place, and there once.
OnePlace(m) ==
    /\ OneTurn(bus, m) /\ OneHandler(m)
    /\ OnBus(m) => ~InHandlers(m) /\ m \notin ToSet(held) /\ m \notin ToSet(fetch.list)
    /\ InHandlers(m) => m \notin ToSet(held)
    /\ adapter \notin Filtering =>
          OneDelivery(m) /\ (InInbox(m) => ~OnBus(m) /\ ~InHandlers(m) /\ m \notin ToSet(held))

Once == \A m \in Messages : Fresh(m) => OnePlace(m) /\ (Accepted(m) => Shut(m))

\* What is left of a search has no mail that was marked since, and rises.
SearchIsFresh ==
    /\ Rising(fetch.todo) /\ ToSet(fetch.todo) \cap flagged = {}
    /\ fetch.mark # 0 => fetch.mark \notin ToSet(fetch.todo)
    /\ IsInjective(fetch.list)

\* The deliveries that will be accepted, and the messages that will be delivered.
Live(i) == adapter = "whatsapp" => inbox[i].m \notin ToSet(seen) /\ \A k \in DOMAIN inbox : k < i => inbox[k].m # inbox[i].m
Coming(m) ==
    /\ adapter \in {"telegram", "weixin", "matrix"} => m > cursor
    /\ adapter \in Pushed => pushes[m] = 0 /\ m \notin used.lost
    /\ adapter = "email" => m \notin flagged /\ m \notin ToSet(seen)
Waiting(m) == (\E i \in DOMAIN inbox : inbox[i].m = m /\ Live(i)) \/ m \in ToSet(fetch.list) \/ Coming(m)

FreeOnes == {m \in Messages : Free(m)}
BusOrdered(turns, set) ==
    \A i, j \in DOMAIN turns : \A x \in DOMAIN turns[i], y \in DOMAIN turns[j] :
        (i < j \/ (i = j /\ x < y)) /\ turns[i][x] \in set /\ turns[j][y] \in set => turns[i][x] < turns[j][y]

BusFirst     == \A x, y \in FreeOnes : OnBus(x) /\ (InHandlers(y) \/ Waiting(y)) => x < y
HandlerNext  == \A x, y \in FreeOnes : InHandlers(x) /\ Waiting(y) => x < y
InboxNext    == \A i \in DOMAIN inbox : \A y \in FreeOnes : Live(i) /\ inbox[i].m \in FreeOnes /\ Coming(y) => inbox[i].m < y
ListNext     == \A x, y \in FreeOnes : x \in ToSet(fetch.list) /\ Coming(y) => x < y
InboxOrdered == \A i, j \in DOMAIN inbox :
                    i < j /\ Live(i) /\ Live(j) /\ inbox[i].m \in FreeOnes /\ inbox[j].m \in FreeOnes => inbox[i].m < inbox[j].m
ListOrdered  == \A i, j \in DOMAIN fetch.list :
                    i < j /\ fetch.list[i] \in FreeOnes /\ fetch.list[j] \in FreeOnes => fetch.list[i] < fetch.list[j]

\* What a search has left out was written later.
SearchIsAhead == fetch.on # "no" => \A m \in FreeOnes : Coming(m) => m \in ToSet(fetch.todo) \/ \A k \in ToSet(fetch.todo) : k < m

\* What WhatsApp's bridge may send again waits, or is remembered.
PushedIsKnown ==
    adapter = "whatsapp" => \A m \in Messages : 0 < pushes[m] /\ pushes[m] < MaxPushes =>
        m \in ToSet(seen) \/ m \in used.again \/ m \in used.lost \/ \E d \in ToSet(inbox) : d.m = m

ArrivalOrder ==
    /\ BusOrdered(bus, FreeOnes) /\ BusFirst /\ HandlerNext /\ InboxNext /\ ListNext /\ InboxOrdered /\ ListOrdered
    /\ \A h, k \in handlers : h = k
    /\ adapter = "telegram" => \A m \in ToSet(held) : conf.kind[m] = "album"
    /\ SearchIsAhead /\ PushedIsKnown

OnceInv == Once /\ SearchIsFresh /\ (adapter \in OneByOne => ArrivalOrder)

\* The exceptions do not grow fewer.
Excepts == conf' = conf /\ used.again \subseteq used'.again /\ used.late \subseteq used'.late

LEMMA FreeStays ==
    ASSUME Excepts
    PROVE  /\ \A m : Fresh(m)' => Fresh(m) /\ m \notin used'.again
           /\ \A m : Free(m)' => Free(m)
           /\ \A m \in FreeOnes' : m \in FreeOnes /\ m \in Messages /\ m \notin used'.again /\ m \notin used'.late
<1>1. \A m : Fresh(m)' => Fresh(m) /\ m \notin used'.again
  BY DEF Excepts, Fresh, adapter
<1>2. \A m : Free(m)' => Free(m) /\ m \notin used'.again /\ m \notin used'.late
  BY DEF Excepts, Free
<1>3. QED
  BY <1>1, <1>2 DEF FreeOnes

LEMMA GhostsMore ==
    ASSUME used \in Counters, NEW set
    PROVE  /\ Repeat(set).again = used.again \cup set /\ Repeat(set).late = used.late
           /\ Lose(set).again = used.again /\ Lose(set).late = used.late /\ Lose(set).lost = used.lost \cup set
BY DEF Counters, Repeat, Lose

LEMMA OneTurnAppended ==
    ASSUME NEW b \in Seq(Turns), NEW t \in Turns, NEW m, OneTurn(b, m), ~ (On(b, m) /\ m \in ToSet(t))
    PROVE  OneTurn(Append(b, t), m)
<1>1. PICK r : r = Append(b, t)
  OBVIOUS
<1>2. PICK n \in Nat : n = Len(b) /\ DOMAIN b = 1..n
  BY LenProperties
<1>3. r \in Seq(Turns) /\ Len(r) = n + 1 /\ r[n + 1] = t /\ \A i \in 1..n : r[i] = b[i]
  BY <1>1, <1>2, AppendProperties
<1>4. DOMAIN r = 1..(n + 1)
  BY <1>3, LenProperties
<1>5. \A i \in 1..(n + 1) : i \in 1..n \/ i = n + 1
  BY <1>2
<1>6. ASSUME NEW i \in 1..(n + 1), NEW j \in 1..(n + 1), m \in ToSet(r[i]), m \in ToSet(r[j])
      PROVE  i = j
  <2>1. CASE i \in 1..n /\ j \in 1..n
    <3>1. m \in ToSet(b[i]) /\ m \in ToSet(b[j])
      BY <1>3, <1>6, <2>1
    <3>2. QED
      BY <1>2, <2>1, <3>1 DEF OneTurn
  <2>2. CASE i = n + 1 /\ j = n + 1
    BY <2>2
  <2>3. CASE i \in 1..n /\ j = n + 1
    BY <1>2, <1>3, <1>6, <2>3 DEF On
  <2>4. CASE i = n + 1 /\ j \in 1..n
    BY <1>2, <1>3, <1>6, <2>4 DEF On
  <2>5. QED
    BY <1>5, <2>1, <2>2, <2>3, <2>4
<1>7. OneTurn(r, m)
  BY <1>4, <1>6 DEF OneTurn
<1>8. QED
  BY <1>1, <1>7

LEMMA BusOrderedLess ==
    ASSUME NEW b, NEW set, NEW less, less \subseteq set, BusOrdered(b, set)
    PROVE  BusOrdered(b, less)
<1>1. SUFFICES ASSUME NEW i \in DOMAIN b, NEW j \in DOMAIN b, NEW x \in DOMAIN b[i], NEW y \in DOMAIN b[j],
                      i < j \/ (i = j /\ x < y), b[i][x] \in less, b[j][y] \in less
               PROVE  b[i][x] < b[j][y]
  BY DEF BusOrdered
<1>2. b[i][x] \in set /\ b[j][y] \in set
  BY <1>1
<1>3. QED
  BY <1>1, <1>2 DEF BusOrdered

\* A turn follows what is on the bus.
LEMMA BusOrderedAppended ==
    ASSUME NEW b \in Seq(Turns), NEW t \in Turns, NEW set, BusOrdered(b, set),
           \A x, y \in set : On(b, x) /\ y \in ToSet(t) => x < y,
           \A x, y \in DOMAIN t : x < y /\ t[x] \in set /\ t[y] \in set => t[x] < t[y]
    PROVE  BusOrdered(Append(b, t), set)
<1>1. PICK r : r = Append(b, t)
  OBVIOUS
<1>2. PICK n \in Nat : n = Len(b) /\ DOMAIN b = 1..n
  BY LenProperties
<1>3. r \in Seq(Turns) /\ Len(r) = n + 1 /\ r[n + 1] = t /\ \A i \in 1..n : r[i] = b[i]
  BY <1>1, <1>2, AppendProperties
<1>4. DOMAIN r = 1..(n + 1)
  BY <1>3, LenProperties
<1>5. (\A i \in 1..(n + 1) : i \in 1..n \/ i = n + 1) /\ \A j \in 1..(n + 1) : ~ (n + 1 < j)
  BY <1>2
<1>6. ASSUME NEW i \in 1..(n + 1), NEW j \in 1..(n + 1), NEW x \in DOMAIN r[i], NEW y \in DOMAIN r[j],
             i < j \/ (i = j /\ x < y), r[i][x] \in set, r[j][y] \in set
      PROVE  r[i][x] < r[j][y]
  <2>1. CASE i \in 1..n /\ j \in 1..n
    <3>1. r[i] = b[i] /\ r[j] = b[j]
      BY <1>3, <2>1
    <3>2. x \in DOMAIN b[i] /\ y \in DOMAIN b[j] /\ b[i][x] \in set /\ b[j][y] \in set
      BY <1>6, <3>1
    <3>3. b[i][x] < b[j][y]
      BY <1>2, <1>6, <2>1, <3>2 DEF BusOrdered
    <3>4. QED
      BY <3>1, <3>3
  <2>2. CASE i = n + 1 /\ j = n + 1
    <3>1. x < y /\ r[i] = t /\ r[j] = t
      BY <1>2, <1>3, <1>6, <2>2
    <3>2. QED
      BY <1>6, <3>1
  <2>3. CASE i \in 1..n /\ j = n + 1
    <3>1. r[i] = b[i] /\ r[j] = t
      BY <1>3, <2>3
    <3>2. On(b, r[i][x]) /\ r[j][y] \in ToSet(t)
      BY <1>2, <1>6, <2>3, <3>1 DEF On, ToSet
    <3>3. QED
      BY <1>6, <3>2
  <2>4. CASE i = n + 1 /\ j \in 1..n
    BY <1>5, <1>6, <2>4
  <2>5. QED
    BY <1>5, <2>1, <2>2, <2>3, <2>4
<1>7. BusOrdered(r, set)
  BY <1>4, <1>6 DEF BusOrdered
<1>8. QED
  BY <1>1, <1>7

\* Where the deliveries of a shorter and of a longer inbox stand.
LEMMA TailAt ==
    ASSUME NEW s \in Seq(Delivered), s # <<>>
    PROVE  /\ 1 \in DOMAIN s /\ s[1] = Head(s) /\ DOMAIN s \subseteq Nat /\ DOMAIN Tail(s) \subseteq Nat
           /\ \A i \in DOMAIN Tail(s) : i + 1 \in DOMAIN s /\ Tail(s)[i] = s[i + 1] /\ 1 < i + 1 /\ s[i + 1] \in Delivered
           /\ \A i \in DOMAIN s : i = 1 \/ (i - 1 \in DOMAIN Tail(s) /\ (i - 1) + 1 = i)
<1>1. PICK r : r = Tail(s)
  OBVIOUS
<1>2. PICK n \in Nat : n = Len(s) /\ DOMAIN s = 1..n /\ n # 0 /\ \A i \in 1..n : s[i] \in Delivered
  <2>1. Len(s) \in Nat /\ DOMAIN s = 1..Len(s) /\ Len(s) # 0
    BY DeliveriesAre
  <2>2. \A i \in 1..Len(s) : s[i] \in Delivered
    BY Positions
  <2>3. QED
    BY <2>1, <2>2
<1>3. Head(s) \in Delivered /\ r \in Seq(Delivered) /\ Len(r) = n - 1 /\ \A i \in 1..(n - 1) : r[i] = s[i + 1]
  BY <1>1, <1>2, HeadTailProperties
<1>4. Head(s) = s[1] /\ DOMAIN r = 1..(n - 1)
  BY <1>3, DeliveriesAre
<1>5. /\ \A i \in 1..n : i = 1 \/ (i - 1 \in 1..(n - 1) /\ (i - 1) + 1 = i)
      /\ \A i \in 1..(n - 1) : i + 1 \in 1..n /\ 1 < i + 1
      /\ 1 \in 1..n /\ 1..n \subseteq Nat /\ 1..(n - 1) \subseteq Nat
  BY <1>2
<1>6. QED
  BY <1>1, <1>2, <1>3, <1>4, <1>5

LEMMA JoinedAt ==
    ASSUME NEW s \in Seq(Delivered), NEW t \in Seq(Delivered)
    PROVE  /\ DOMAIN s \subseteq DOMAIN (s \o t) /\ DOMAIN (s \o t) \subseteq Nat
           /\ \A i \in DOMAIN s : (s \o t)[i] = s[i]
           /\ \A i \in DOMAIN (s \o t) : i \in DOMAIN s \/ (i - Len(s) \in DOMAIN t /\ (s \o t)[i] = t[i - Len(s)])
           /\ \A i \in DOMAIN s, j \in DOMAIN (s \o t) : j \notin DOMAIN s => i < j
           /\ \A i \in DOMAIN s : \A j \in DOMAIN (s \o t) : j < i => j \in DOMAIN s
           /\ Len(s) \in Nat
<1>1. PICK r : r = s \o t
  OBVIOUS
<1>2. PICK a \in Nat, b \in Nat : a = Len(s) /\ DOMAIN s = 1..a /\ b = Len(t) /\ DOMAIN t = 1..b
  BY DeliveriesAre
<1>3. r \in Seq(Delivered) /\ Len(r) = a + b /\ \A i \in 1..(a + b) : r[i] = IF i <= a THEN s[i] ELSE t[i - a]
  BY <1>1, <1>2, ConcatProperties
<1>4. DOMAIN r = 1..(a + b)
  BY <1>3, DeliveriesAre
<1>5. /\ \A i \in 1..a : i \in 1..(a + b) /\ i <= a
      /\ \A i \in 1..(a + b) : IF i <= a THEN i \in 1..a ELSE i - a \in 1..b /\ i \notin 1..a
      /\ \A i \in 1..a, j \in 1..(a + b) : j \notin 1..a => i < j
      /\ \A i \in 1..a, j \in 1..(a + b) : j < i => j \in 1..a
      /\ 1..(a + b) \subseteq Nat
  BY <1>2
<1>6. \A i \in 1..(a + b) : i \in 1..a \/ (i - a \in 1..b /\ r[i] = t[i - a])
  BY <1>3, <1>5
<1>7. \A i \in 1..a : r[i] = s[i]
  BY <1>3, <1>5
<1>8. QED
  BY <1>1, <1>2, <1>4, <1>5, <1>6, <1>7

\* The members of ToSet(inbox) and the positions in it.
LEMMA InInboxAt ==
    ASSUME NEW m
    PROVE  InInbox(m) <=> \E i \in DOMAIN inbox : inbox[i].m = m /\ Counts(inbox[i])
BY DEF InInbox, ToSet

LEMMA AtMostOneMakes ==
    ASSUME NEW m, bus \in Seq(Turns), OneTurn(bus, m)
    PROVE  Times(m) <= 1
<1>1. PICK n \in Nat : n = Len(bus) /\ DOMAIN bus = 1..n /\ \A i \in 1..n : bus[i] \in Turns
  BY Positions
<1>2. PICK at : at = {i \in DOMAIN bus : Contains(bus[i], m)}
  OBVIOUS
<1>3. ASSUME NEW i \in 1..n
      PROVE  Contains(bus[i], m) <=> m \in ToSet(bus[i])
  <2>1. bus[i] \in Seq(Nat)
    BY <1>1 DEF Turns
  <2>2. QED
    BY <2>1, IdsAre
<1>4. \A i, j \in at : i = j
  BY <1>1, <1>2, <1>3 DEF OneTurn
<1>5. Times(m) = Cardinality(at)
  BY <1>2 DEF Times
<1>6. CASE at = {}
  BY <1>5, <1>6, FS_EmptySet
<1>7. CASE at # {}
  <2>1. PICK x : x \in at
    BY <1>7
  <2>2. at = {x}
    BY <1>4, <2>1
  <2>3. Cardinality({x}) = 1
    BY FS_Singleton
  <2>4. QED
    BY <1>5, <2>2, <2>3
<1>8. QED
  BY <1>6, <1>7

\* OnceInv says what OnceInOrder says.
LEMMA OnceHolds ==
    ASSUME TakenInv, OnceInv
    PROVE  OnceInOrder
<1>1. bus \in Seq(Turns)
  BY DEF TakenInv, ReceiveTypes
<1>2. AtMostOnce
  <2>1. ASSUME NEW m \in Messages, Fresh(m)
        PROVE  Times(m) <= 1
    <3>1. OneTurn(bus, m)
      BY <2>1 DEF OnceInv, Once, OnePlace
    <3>2. QED
      BY <1>1, <3>1, AtMostOneMakes
  <2>2. QED
    BY <2>1 DEF AtMostOnce, Fresh
<1>3. OrderKept
  <2>1. SUFFICES ASSUME adapter \in OneByOne, NEW i \in DOMAIN bus, NEW j \in DOMAIN bus,
                        NEW x \in DOMAIN bus[i], NEW y \in DOMAIN bus[j],
                        i < j \/ (i = j /\ x < y), Free(bus[i][x]), Free(bus[j][y])
                 PROVE  bus[i][x] < bus[j][y]
    BY DEF OrderKept, Free
  <2>2. BusOrdered(bus, FreeOnes)
    BY <2>1 DEF OnceInv, ArrivalOrder
  <2>3. OnBus(bus[i][x]) /\ OnBus(bus[j][y])
    BY <2>1 DEF OnBus, On, ToSet
  <2>4. bus[i][x] \in Messages /\ bus[j][y] \in Messages
    <3>1. posted \in 0..MaxMessages /\ \A m : OnBus(m) => m \in 1..posted
      BY DEF TakenInv, ReceiveTypes
    <3>2. 1..posted \subseteq Messages
      BY <3>1, ReceiveAssumption DEF Messages
    <3>3. QED
      BY <2>3, <3>1, <3>2
  <2>5. QED
    BY <2>1, <2>2, <2>4 DEF BusOrdered, FreeOnes
<1>4. QED
  BY <1>2, <1>3 DEF OnceInOrder

\* What else the first step of a handler does: it moves the delivery at most once.
FirstMore(d) ==
    /\ used'.late = used.late /\ used.again \cup (ToSet(seen) \ ToSet(seen')) \subseteq used'.again
    /\ adapter \notin Remembers \ {"email"} => seen' = seen
    /\ adapter \in Remembers \ {"email"} => d.m \in ToSet(seen')
    /\ \/ bus' = bus /\ handlers' = handlers
       \/ /\ Counts(d) /\ (adapter \in Remembers \ {"email"} => d.m \notin ToSet(seen))
          /\ (bus' = Append(bus, <<d.m>>) /\ handlers' = handlers) \/ (bus' = bus /\ Waits(d))

LEMMA DoFirstMore ==
    ASSUME NEW d \in Delivered, adapter \in Handled, ReceiveTypes, Do(d, Steps, handlers)
    PROVE  FirstMore(d)
<1>1. Firsts
  BY FirstStep
<1>2. PICK step : step = Head(Steps)
  OBVIOUS
<1>3. PICK known : known = ("remember" \in step /\ Contains(seen, d.m)) /\ known \in BOOLEAN
  OBVIOUS
<1>4. PICK taken : taken = (~known /\ ~Rejected(step, d)) /\ taken \in BOOLEAN
  OBVIOUS
<1>5. PICK new : new = IF "remember" \in step /\ ~known THEN Remember(seen, d.m) ELSE seen
  OBVIOUS
<1>6. ~IsHeld(step, d)
  BY <1>1, <1>2 DEF Firsts, IsHeld
<1>7. /\ seen' = new /\ used' = Repeat(Forgotten(new))
      /\ bus' = IF taken /\ "publish" \in step THEN Append(bus, <<d.m>>) ELSE bus
      /\ handlers' = handlers \cup IF taken /\ "publish" \notin step THEN {[d |-> d, rest |-> Tail(Steps)]} ELSE {}
  <2>1. /\ seen' = new /\ used' = Repeat(Forgotten(new))
        /\ bus' = IF taken /\ "publish" \in step THEN Append(bus, <<d.m>>) ELSE bus
        /\ handlers' = handlers \cup IF taken /\ ~IsHeld(step, d) /\ "publish" \notin step
                                     THEN {[d |-> d, rest |-> Tail(Steps)]} ELSE {}
    BY <1>2, <1>3, <1>4, <1>5 DEF Do
  <2>2. QED
    BY <1>6, <2>1
<1>8. seen \in Seq(Nat) /\ IsInjective(seen) /\ Len(seen) <= CacheSize /\ d.m \in Nat /\ used \in Counters
  BY DEF ReceiveTypes, Delivered
<1>9. Contains(seen, d.m) <=> d.m \in ToSet(seen)
  BY <1>8, IdsAre
<1>10. "remember" \in step <=> adapter \in Remembers \ {"email"}
  BY <1>1, <1>2 DEF Firsts
<1>11. used'.late = used.late /\ used.again \cup (ToSet(seen) \ ToSet(seen')) \subseteq used'.again
  BY <1>7, <1>8, GhostsMore DEF Forgotten
<1>12. adapter \in Remembers \ {"email"} => d.m \in ToSet(seen')
  <2>1. CASE known
    BY <1>3, <1>5, <1>7, <1>9, <2>1
  <2>2. CASE ~known /\ "remember" \in step
    <3>1. d.m \notin ToSet(seen)
      BY <1>3, <1>9, <2>2
    <3>2. d.m \in ToSet(Remember(seen, d.m))
      BY <1>8, <3>1, RememberIs
    <3>3. QED
      BY <1>5, <1>7, <2>2, <3>2
  <2>3. QED
    BY <1>10, <2>1, <2>2
<1>13. taken => Counts(d) /\ (adapter \in Remembers \ {"email"} => d.m \notin ToSet(seen))
  <2>1. taken /\ adapter \in Remembers \ {"email"} => d.m \notin ToSet(seen)
    BY <1>3, <1>4, <1>9, <1>10
  <2>2. taken => Counts(d)
    BY <1>1, <1>2, <1>4 DEF Firsts, Rejected, Counts
  <2>3. QED
    BY <2>1, <2>2
<1>14. taken /\ "publish" \notin step => Waits(d)
  <2>1. ASSUME taken, "publish" \notin step
        PROVE  Waits(d)
    <3>1. Tail(Steps) \in RestsOf
      BY <1>1, <1>2, <2>1 DEF Firsts
    <3>2. handlers' = handlers \cup {[d |-> d, rest |-> Tail(Steps)]}
      BY <1>7, <2>1
    <3>3. QED
      BY <3>1, <3>2 DEF Waits
  <2>2. QED
    BY <2>1
<1>15. adapter \notin Remembers \ {"email"} => seen' = seen
  BY <1>5, <1>7, <1>10
<1>16. \/ bus' = bus /\ handlers' = handlers
       \/ taken /\ ((bus' = Append(bus, <<d.m>>) /\ handlers' = handlers) \/ (bus' = bus /\ Waits(d)))
  BY <1>7, <1>14
<1>17. QED
  BY <1>11, <1>12, <1>13, <1>15, <1>16 DEF FirstMore

\* What else a later step does.
NextMore(h) ==
    /\ used.again \subseteq used'.again /\ used'.late = used.late
    /\ held' # held => conf.kind[h.d.m] = "album"

LEMMA DoNextMore ==
    ASSUME NEW h \in handlers, ReceiveTypes, Do(h.d, h.rest, handlers \ {h})
    PROVE  NextMore(h)
<1>1. \/ held' = held
      \/ conf.kind[h.d.m] = "album"
  BY DEF Do, IsHeld
<1>2. \E set : used' = Repeat(set)
  BY DEF Do
<1>3. used \in Counters
  BY DEF ReceiveTypes
<1>4. used.again \subseteq used'.again /\ used'.late = used.late
  BY <1>2, <1>3, GhostsMore
<1>5. QED
  BY <1>1, <1>4 DEF NextMore

\* A message that will not be accepted again stays so.
Onward(m) ==
    /\ cursor' \in Nat /\ cursor <= cursor' /\ pushes' \in [Messages -> Nat] /\ pushes[m] <= pushes'[m] /\ flagged \subseteq flagged'
    /\ m \in ToSet(seen) => m \in ToSet(seen') \/ m \in used'.again \/ (adapter = "email" /\ m \in flagged')
    /\ adapter \in Filtering /\ pushes[m] >= MaxPushes /\ InInbox(m)' => InInbox(m)
    /\ adapter = "session" => \A p \in flight' : p.from \in Nat /\ (p \in flight \/ cursor <= p.from)

LEMMA ShutStays ==
    ASSUME ReceiveTypes, NEW m \in Messages, conf' = conf, Shut(m), m \notin used'.again, Onward(m)
    PROVE  Shut(m)'
<1>1. /\ cursor' \in Nat /\ cursor <= cursor' /\ pushes' \in [Messages -> Nat] /\ pushes[m] <= pushes'[m] /\ flagged \subseteq flagged'
      /\ m \in ToSet(seen) => m \in ToSet(seen') \/ (adapter = "email" /\ m \in flagged')
      /\ adapter \in Filtering /\ pushes[m] >= MaxPushes /\ InInbox(m)' => InInbox(m)
      /\ adapter = "session" => \A p \in flight' : p.from \in Nat /\ (p \in flight \/ cursor <= p.from)
  BY DEF Onward
<1>2. adapter' = adapter
  BY DEF adapter
<1>3. m \in Nat /\ cursor \in Nat /\ pushes[m] \in Nat /\ pushes'[m] \in Nat /\ MaxPushes \in Nat /\ MaxNotifies \in Nat
  BY <1>1, ReceiveAssumption DEF ReceiveTypes, Messages
<1>4. adapter \in {"telegram", "weixin", "matrix"} => m <= cursor'
  BY <1>1, <1>3 DEF Shut
<1>5. adapter \in Pushed \ Remembers => pushes'[m] > 0
  BY <1>1, <1>3 DEF Shut
<1>6. adapter \in Filtering => m \in ToSet(seen') \/ (pushes'[m] >= MaxPushes /\ ~InInbox(m)')
  <2>1. ASSUME adapter \in Filtering
        PROVE  m \in ToSet(seen') \/ (pushes'[m] >= MaxPushes /\ ~InInbox(m)')
    <3>1. adapter # "email"
      BY <2>1 DEF Filtering, Pushed
    <3>2. m \in ToSet(seen) \/ (pushes[m] >= MaxPushes /\ ~InInbox(m))
      BY <2>1 DEF Shut
    <3>3. CASE m \in ToSet(seen)
      BY <1>1, <3>1, <3>3
    <3>4. CASE pushes[m] >= MaxPushes /\ ~InInbox(m)
      BY <1>1, <1>3, <2>1, <3>4
    <3>5. QED
      BY <3>2, <3>3, <3>4
  <2>2. QED
    BY <2>1
<1>7. adapter = "session" => m \in ToSet(seen') \/ Exhausted(m)'
  <2>1. ASSUME adapter = "session", Exhausted(m)
        PROVE  Exhausted(m)'
    <3>1. pushes[m] >= MaxNotifies /\ m <= cursor /\ \A p \in flight : m <= p.from
      BY <2>1 DEF Exhausted
    <3>2. \A p \in flight' : m <= p.from
      BY <1>1, <1>3, <2>1, <3>1
    <3>3. pushes'[m] >= MaxNotifies /\ m <= cursor'
      BY <1>1, <1>3, <3>1
    <3>4. QED
      BY <3>2, <3>3 DEF Exhausted
  <2>2. QED
    BY <1>1, <2>1 DEF Shut
<1>8. adapter = "panel" => m \in ToSet(seen')
  BY <1>1 DEF Shut
<1>9. adapter = "email" => m \in ToSet(seen') \/ m \in flagged'
  BY <1>1 DEF Shut
<1>10. Filtering' = Filtering
  BY DEF Filtering, Pushed, Remembers
<1>11. QED
  BY <1>2, <1>4, <1>5, <1>6, <1>7, <1>8, <1>9, <1>10 DEF Shut, Pushed, Remembers

\* A delivery that the adapter goes on with is of a message that is in no later place.
LEMMA NewHere ==
    ASSUME Once, NEW d \in ToSet(inbox), Counts(d), d.m \in Messages, Fresh(d.m),
           adapter \in Remembers \ {"email"} => d.m \notin ToSet(seen)
    PROVE  /\ ~OnBus(d.m) /\ ~InHandlers(d.m) /\ d.m \notin ToSet(held)
           /\ adapter \notin Filtering => Shut(d.m) /\ OneDelivery(d.m)
<1>1. InInbox(d.m)
  BY DEF InInbox
<1>2. OnePlace(d.m) /\ (Accepted(d.m) => Shut(d.m))
  BY DEF Once
<1>3. CASE adapter \notin Filtering
  BY <1>1, <1>2, <1>3 DEF OnePlace, Accepted
<1>4. CASE adapter \in Filtering
  <2>1. adapter \in Remembers \ {"email"}
    BY <1>4 DEF Filtering, Pushed
  <2>2. ~Shut(d.m)
    BY <1>1, <1>4, <2>1 DEF Shut
  <2>3. QED
    BY <1>2, <1>4, <2>2 DEF Accepted
<1>5. QED
  BY <1>3, <1>4

LEMMA Bounded ==
    ASSUME ReceiveTypes
    PROVE  posted \in Nat /\ 1..posted \subseteq Messages
BY ReceiveAssumption DEF ReceiveTypes, Messages

LEMMA BeginOnce ==
    ASSUME TakenInv, Once, Begin
    PROVE  Once'
<1>1. PICK d : d = Head(inbox)
  OBVIOUS
<1>2. inbox # <<>> /\ inbox' = Tail(inbox) /\ Do(d, Steps, handlers) /\ Beside
  BY <1>1 DEF Begin, Beside, server
<1>3. ReceiveTypes /\ PartsUsed
  BY DEF TakenInv
<1>4. /\ d \in Delivered /\ inbox' \in Seq(Delivered) /\ ToSet(inbox) = {d} \cup ToSet(inbox')
      /\ d.m \in Messages /\ d.m \in Nat /\ d \in ToSet(inbox) /\ inbox \in Seq(Delivered)
  BY <1>1, <1>2, <1>3, DeliveriesTail, Bounded DEF ReceiveTypes, Delivered
<1>5. adapter \in Handled /\ ToSet(fetch.list) = {} /\ ToSet(fetch'.list) = {}
  BY <1>2, <1>3, NoIds DEF PartsUsed, ReceiveTypes, Handled, Fetching, NoFetch, Beside
<1>6. FirstDone(d) /\ FirstMore(d)
  BY <1>2, <1>3, <1>4, <1>5, DoFirst, DoFirstMore
<1>7. /\ conf' = conf /\ adapter' = adapter /\ Filtering' = Filtering
      /\ \A x : Counts(x)' <=> Counts(x)
  BY <1>2, SameConf DEF Beside, Filtering, Pushed, Remembers
<1>8. Excepts
  BY <1>2, <1>6 DEF Excepts, Beside, FirstMore
<1>9. bus \in Seq(Turns) /\ bus' \in Seq(Turns) /\ held' = held /\ <<d.m>> \in Turns /\ ToSet(<<d.m>>) = {d.m}
  <2>1. bus \in Seq(Turns) /\ <<d.m>> \in Turns /\ ToSet(<<d.m>>) = {d.m}
    BY <1>3, <1>4, OneId DEF ReceiveTypes
  <2>2. Append(bus, <<d.m>>) \in Seq(Turns)
    BY <2>1, TurnAppended
  <2>3. QED
    BY <1>6, <2>1, <2>2 DEF FirstDone
<1>10. \A m : InInbox(m)' => InInbox(m)
  BY <1>4, <1>7 DEF InInbox
<1>11. ASSUME NEW m \in Messages, OneDelivery(m)
       PROVE  OneDelivery(m)' /\ (Counts(d) /\ m = d.m => ~InInbox(m)')
  <2>1. /\ 1 \in DOMAIN inbox /\ inbox[1] = d /\ DOMAIN inbox \subseteq Nat /\ DOMAIN inbox' \subseteq Nat
        /\ \A i \in DOMAIN inbox' : i + 1 \in DOMAIN inbox /\ inbox'[i] = inbox[i + 1] /\ 1 < i + 1
    BY <1>1, <1>2, <1>4, TailAt
  <2>2. ASSUME NEW i \in DOMAIN inbox', NEW j \in DOMAIN inbox', inbox'[i].m = m, inbox'[j].m = m,
               Counts(inbox'[i]), Counts(inbox'[j])
        PROVE  i = j
    <3>1. i + 1 = j + 1 /\ i \in Nat /\ j \in Nat
      BY <1>11, <2>1, <2>2 DEF OneDelivery
    <3>2. QED
      BY <3>1
  <2>3. ASSUME Counts(d), m = d.m, InInbox(m)'
        PROVE  FALSE
    <3>1. PICK i \in DOMAIN inbox' : inbox'[i].m = m /\ Counts(inbox'[i])
      BY <1>7, <2>3 DEF InInbox, ToSet
    <3>2. i + 1 \in DOMAIN inbox /\ inbox[i + 1].m = m /\ Counts(inbox[i + 1]) /\ 1 < i + 1 /\ i \in Nat
      BY <2>1, <3>1
    <3>3. i + 1 = 1
      BY <1>11, <2>1, <2>3, <3>2 DEF OneDelivery
    <3>4. QED
      BY <3>2, <3>3
  <2>4. QED
    BY <1>7, <2>2, <2>3 DEF OneDelivery
<1>12. SUFFICES ASSUME NEW m \in Messages, Fresh(m)'
                PROVE  OnePlace(m)' /\ (Accepted(m)' => Shut(m)')
  BY DEF Once
<1>13. Fresh(m) /\ m \notin used'.again /\ OnePlace(m) /\ (Accepted(m) => Shut(m))
  BY <1>8, <1>12, FreeStays DEF Once
<1>14. Shut(m) => Shut(m)'
  <2>1. m \in ToSet(seen) => m \in ToSet(seen') \/ m \in used'.again
    BY <1>6 DEF FirstMore
  <2>2. cursor \in Nat /\ pushes \in [Messages -> Nat] /\ pushes[m] \in Nat
    BY <1>3 DEF ReceiveTypes
  <2>3. \A p \in flight : p.from \in Nat
    BY <1>3 DEF ReceiveTypes
  <2>4. cursor <= cursor /\ pushes[m] <= pushes[m]
    BY <2>2
  <2>5. Onward(m)
    BY <1>2, <1>10, <2>1, <2>2, <2>3, <2>4 DEF Onward, Beside
  <2>6. QED
    BY <1>3, <1>7, <1>13, <2>5, ShutStays
<1>15. adapter \notin Filtering => OneDelivery(m)' /\ (Counts(d) /\ m = d.m => ~InInbox(m)')
  BY <1>11, <1>13 DEF OnePlace
<1>16. CASE bus' = bus /\ handlers' = handlers
  <2>1. OneTurn(bus', m) /\ OneHandler(m)' /\ (OnBus(m)' <=> OnBus(m)) /\ (InHandlers(m)' <=> InHandlers(m))
    BY <1>13, <1>16 DEF OnePlace, OneHandler, OnBus, InHandlers
  <2>2. OnePlace(m)'
    BY <1>5, <1>7, <1>9, <1>10, <1>13, <1>15, <2>1 DEF OnePlace
  <2>3. Accepted(m)' => Accepted(m)
    BY <1>5, <1>7, <1>9, <1>10, <2>1 DEF Accepted
  <2>4. QED
    BY <1>13, <1>14, <2>2, <2>3
<1>17. CASE Counts(d) /\ (adapter \in Remembers \ {"email"} => d.m \notin ToSet(seen)) /\ m # d.m
            /\ ((bus' = Append(bus, <<d.m>>) /\ handlers' = handlers) \/ (bus' = bus /\ Waits(d)))
  <2>1. OneTurn(bus', m) /\ (OnBus(m)' <=> OnBus(m))
    <3>1. OneTurn(Append(bus, <<d.m>>), m) /\ (On(Append(bus, <<d.m>>), m) <=> On(bus, m))
      BY <1>9, <1>13, <1>17, OneTurnAppended, TurnAppended DEF OnePlace
    <3>2. QED
      BY <1>13, <1>17, <3>1 DEF OnePlace, OnBus
  <2>2. OneHandler(m)' /\ (InHandlers(m)' <=> InHandlers(m))
    <3>1. CASE handlers' = handlers
      BY <1>13, <3>1 DEF OnePlace, OneHandler, InHandlers
    <3>2. CASE Waits(d)
      <4>1. PICK r \in RestsOf : handlers' = handlers \cup {[d |-> d, rest |-> r]}
        BY <3>2 DEF Waits
      <4>2. \A h \in handlers' : h \in handlers \/ h.d = d
        BY <4>1
      <4>3. handlers \subseteq handlers'
        BY <4>1
      <4>4. QED
        BY <1>13, <1>17, <4>2, <4>3 DEF OnePlace, OneHandler, InHandlers
    <3>3. QED
      BY <1>17, <3>1, <3>2
  <2>3. OnePlace(m)'
    BY <1>5, <1>7, <1>9, <1>10, <1>13, <1>15, <2>1, <2>2 DEF OnePlace
  <2>4. Accepted(m)' => Accepted(m)
    BY <1>5, <1>7, <1>9, <1>10, <2>1, <2>2 DEF Accepted
  <2>5. QED
    BY <1>13, <1>14, <2>3, <2>4
<1>18. CASE Counts(d) /\ (adapter \in Remembers \ {"email"} => d.m \notin ToSet(seen)) /\ m = d.m
            /\ ((bus' = Append(bus, <<d.m>>) /\ handlers' = handlers) \/ (bus' = bus /\ Waits(d)))
  <2>1. /\ ~OnBus(m) /\ ~InHandlers(m) /\ m \notin ToSet(held)
        /\ adapter \notin Filtering => Shut(m) /\ OneDelivery(m)
    BY <1>4, <1>13, <1>18, NewHere
  <2>2. Shut(m)'
    <3>1. CASE adapter \notin Filtering
      BY <1>14, <2>1, <3>1
    <3>2. CASE adapter \in Filtering
      <4>1. m \in ToSet(seen') /\ adapter \notin {"telegram", "weixin", "matrix", "session", "panel", "email"}
        BY <1>6, <1>18, <3>2 DEF FirstMore, Filtering, Pushed, Remembers
      <4>2. QED
        BY <1>7, <3>2, <4>1 DEF Shut, Filtering, Pushed, Remembers
    <3>3. QED
      BY <3>1, <3>2
  <2>3. CASE bus' = Append(bus, <<d.m>>) /\ handlers' = handlers
    <3>1. OneTurn(bus', m)
      BY <1>9, <1>13, <2>1, <2>3, OneTurnAppended DEF OnePlace, OnBus
    <3>2. OneHandler(m)' /\ ~InHandlers(m)'
      BY <1>13, <2>1, <2>3 DEF OnePlace, OneHandler, InHandlers
    <3>3. OnePlace(m)'
      BY <1>5, <1>7, <1>9, <1>15, <1>18, <2>1, <3>1, <3>2 DEF OnePlace
    <3>4. QED
      BY <2>2, <3>3
  <2>4. CASE bus' = bus /\ Waits(d)
    <3>1. OneTurn(bus', m) /\ ~OnBus(m)'
      BY <1>13, <2>1, <2>4 DEF OnePlace, OnBus
    <3>2. PICK r \in RestsOf : handlers' = handlers \cup {[d |-> d, rest |-> r]}
      BY <2>4 DEF Waits
    <3>3. \A h \in handlers' : h \in handlers \/ h = [d |-> d, rest |-> r]
      BY <3>2
    <3>4. OneHandler(m)'
      BY <2>1, <3>3 DEF OneHandler, InHandlers
    <3>5. OnePlace(m)'
      BY <1>5, <1>7, <1>9, <1>15, <1>18, <2>1, <3>1, <3>4 DEF OnePlace
    <3>6. QED
      BY <2>2, <3>5
  <2>5. QED
    BY <1>18, <2>3, <2>4
<1>19. QED
  BY <1>6, <1>16, <1>17, <1>18 DEF FirstMore

LEMMA StepOnce ==
    ASSUME TakenInv, Once, NEW h \in handlers, Step(h)
    PROVE  Once'
<1>1. Do(h.d, h.rest, handlers \ {h}) /\ Beside /\ inbox' = inbox
  BY DEF Step, Beside, server
<1>2. ReceiveTypes /\ PartsUsed
  BY DEF TakenInv
<1>3. NextDone(h) /\ NextMore(h)
  BY <1>1, <1>2, DoNext, DoNextMore
<1>4. /\ conf' = conf /\ adapter' = adapter /\ Filtering' = Filtering
      /\ \A x : Counts(x)' <=> Counts(x)
  BY <1>1, SameConf DEF Beside, Filtering, Pushed, Remembers
<1>5. Excepts
  BY <1>1, <1>3 DEF Excepts, Beside, NextMore
<1>6. PICK d : d = h.d /\ d \in Delivered /\ d.m \in Nat
  BY <1>2 DEF ReceiveTypes, Delivered
<1>7. bus \in Seq(Turns) /\ held \in Seq(Nat) /\ <<d.m>> \in Turns /\ ToSet(<<d.m>>) = {d.m}
  BY <1>2, <1>6, OneId DEF ReceiveTypes
<1>8. \A m : On(Append(bus, <<d.m>>), m) <=> On(bus, m) \/ m = d.m
  BY <1>7, TurnAppended
<1>9. Append(held, d.m) \in Seq(Nat) /\ ToSet(Append(held, d.m)) = ToSet(held) \cup {d.m}
  BY <1>6, <1>7, IdAppended
<1>10. ToSet(fetch.list) = {} /\ ToSet(fetch'.list) = {}
  BY <1>1, <1>2, NoIds DEF PartsUsed, ReceiveTypes, Fetching, NoFetch, Beside
<1>11. /\ \A m : InInbox(m)' <=> InInbox(m)
       /\ \A m : OneDelivery(m)' <=> OneDelivery(m)
       /\ \A m : InHandlers(d.m)
  BY <1>1, <1>4, <1>6 DEF InInbox, OneDelivery, InHandlers
<1>12. SUFFICES ASSUME NEW m \in Messages, Fresh(m)'
                PROVE  OnePlace(m)' /\ (Accepted(m)' => Shut(m)')
  BY DEF Once
<1>13. Fresh(m) /\ m \notin used'.again /\ OnePlace(m) /\ (Accepted(m) => Shut(m))
  BY <1>5, <1>12, FreeStays DEF Once
<1>14. Shut(m) => Shut(m)'
  <2>1. cursor \in Nat /\ pushes \in [Messages -> Nat] /\ pushes[m] \in Nat /\ seen' = seen
    BY <1>2, <1>3 DEF ReceiveTypes, NextDone
  <2>2. \A p \in flight : p.from \in Nat
    BY <1>2 DEF ReceiveTypes
  <2>3. cursor <= cursor /\ pushes[m] <= pushes[m]
    BY <2>1
  <2>4. Onward(m)
    BY <1>1, <1>11, <2>1, <2>2, <2>3 DEF Onward, Beside
  <2>5. QED
    BY <1>2, <1>4, <1>13, <2>4, ShutStays
<1> DEFINE Here == OnBus(m) \/ InHandlers(m) \/ m \in ToSet(held)
           Next1 == OnBus(m)' \/ InHandlers(m)' \/ m \in ToSet(held')
<1>15. /\ Next1 => Here
       /\ OneTurn(bus', m) /\ OneHandler(m)'
       /\ OnBus(m)' => ~InHandlers(m)' /\ m \notin ToSet(held')
       /\ InHandlers(m)' => m \notin ToSet(held')
  <2>1. /\ OneTurn(bus, m) /\ OneHandler(m)
        /\ OnBus(m) => ~InHandlers(m) /\ m \notin ToSet(held)
        /\ InHandlers(m) => m \notin ToSet(held)
    BY <1>13 DEF OnePlace
  <2>2. \A x \in handlers \ {h} : x.d.m = m => m # d.m \/ ~OneHandler(m)
    BY <1>6 DEF OneHandler
  <2>3. CASE handlers' = handlers \ {h} /\ held' = held /\ bus' = bus
    <3>1. OneHandler(m)' /\ (InHandlers(m)' => InHandlers(m))
      BY <2>1, <2>3 DEF OneHandler, InHandlers
    <3>2. OnBus(m)' <=> OnBus(m)
      BY <2>3 DEF OnBus
    <3>3. QED
      BY <2>1, <2>3, <3>1, <3>2
  <2>4. CASE handlers' = handlers \ {h} /\ held' = held /\ bus' = Append(bus, <<d.m>>)
    <3>1. OneHandler(m)' /\ (InHandlers(m)' => InHandlers(m) /\ m # d.m)
      BY <2>1, <2>2, <2>4 DEF OneHandler, InHandlers
    <3>2. OnBus(m)' <=> OnBus(m) \/ m = d.m
      BY <1>8, <2>4 DEF OnBus
    <3>3. OneTurn(bus', m)
      BY <1>7, <1>11, <2>1, <2>4, OneTurnAppended DEF OnBus
    <3>4. QED
      BY <1>11, <2>1, <2>4, <3>1, <3>2, <3>3
  <2>5. CASE handlers' = handlers \ {h} /\ held' = Append(held, d.m) /\ bus' = bus
    <3>1. OneHandler(m)' /\ (InHandlers(m)' => InHandlers(m) /\ m # d.m)
      BY <2>1, <2>2, <2>5 DEF OneHandler, InHandlers
    <3>2. OnBus(m)' <=> OnBus(m)
      BY <2>5 DEF OnBus
    <3>3. m \in ToSet(held') <=> m \in ToSet(held) \/ m = d.m
      BY <1>9, <2>5
    <3>4. QED
      BY <1>11, <2>1, <2>5, <3>1, <3>2, <3>3
  <2>6. CASE held' = held /\ bus' = bus /\ \E r \in RestsOf : handlers' = (handlers \ {h}) \cup {[d |-> h.d, rest |-> r]}
    <3>1. PICK x : x.d = d /\ handlers' = (handlers \ {h}) \cup {x}
      <4>1. PICK r \in RestsOf : handlers' = (handlers \ {h}) \cup {[d |-> h.d, rest |-> r]}
        BY <2>6
      <4>2. QED
        BY <1>6, <4>1
    <3>2. OneHandler(m)' /\ (InHandlers(m)' => InHandlers(m))
      BY <1>6, <1>11, <2>1, <2>2, <3>1 DEF OneHandler, InHandlers
    <3>3. OnBus(m)' <=> OnBus(m)
      BY <2>6 DEF OnBus
    <3>4. QED
      BY <2>1, <2>6, <3>2, <3>3
  <2>7. QED
    BY <1>3, <1>6, <2>3, <2>4, <2>5, <2>6 DEF NextDone
<1>16. OnePlace(m)'
  BY <1>4, <1>10, <1>11, <1>13, <1>15 DEF OnePlace
<1>17. Accepted(m)' => Accepted(m)
  BY <1>4, <1>10, <1>11, <1>15 DEF Accepted
<1>18. QED
  BY <1>13, <1>14, <1>16, <1>17

LEMMA FlushOnce ==
    ASSUME TakenInv, Once, Flush
    PROVE  Once'
<1>1. /\ held # <<>> /\ bus' = Append(bus, held) /\ held' = <<>> /\ inbox' = inbox /\ handlers' = handlers /\ seen' = seen
      /\ used' = used /\ Beside
  BY DEF Flush, server, state, Beside
<1>2. ReceiveTypes /\ PartsUsed
  BY DEF TakenInv
<1>3. /\ conf' = conf /\ adapter' = adapter /\ Filtering' = Filtering
      /\ \A x : Counts(x)' <=> Counts(x)
  BY <1>1, SameConf DEF Beside, Filtering, Pushed, Remembers
<1>4. Excepts
  BY <1>1 DEF Excepts, Beside
<1>5. bus \in Seq(Turns) /\ held \in Turns /\ ToSet(held') = {}
  BY <1>1, <1>2, NoIds DEF ReceiveTypes, Turns
<1>6. \A m : OnBus(m)' <=> OnBus(m) \/ m \in ToSet(held)
  <2>1. \A m : On(Append(bus, held), m) <=> On(bus, m) \/ m \in ToSet(held)
    BY <1>5, TurnAppended
  <2>2. QED
    BY <1>1, <2>1 DEF OnBus
<1>7. ToSet(fetch'.list) = ToSet(fetch.list) /\ (ToSet(held) # {} => ToSet(fetch.list) = {})
  BY <1>1, <1>2, NoIds DEF PartsUsed, ReceiveTypes, Fetching, NoFetch, Beside
<1>8. /\ \A m : InInbox(m)' <=> InInbox(m)
      /\ \A m : OneDelivery(m)' <=> OneDelivery(m)
      /\ \A m : InHandlers(m)' <=> InHandlers(m)
      /\ \A m : OneHandler(m)' <=> OneHandler(m)
  BY <1>1, <1>3 DEF InInbox, OneDelivery, InHandlers, OneHandler
<1>9. SUFFICES ASSUME NEW m \in Messages, Fresh(m)'
               PROVE  OnePlace(m)' /\ (Accepted(m)' => Shut(m)')
  BY DEF Once
<1>10. Fresh(m) /\ m \notin used'.again /\ OnePlace(m) /\ (Accepted(m) => Shut(m))
  BY <1>4, <1>9, FreeStays DEF Once
<1>11. Shut(m) => Shut(m)'
  <2>1. cursor \in Nat /\ pushes \in [Messages -> Nat] /\ pushes[m] \in Nat
    BY <1>2 DEF ReceiveTypes
  <2>2. \A p \in flight : p.from \in Nat
    BY <1>2 DEF ReceiveTypes
  <2>3. cursor <= cursor /\ pushes[m] <= pushes[m]
    BY <2>1
  <2>4. Onward(m)
    BY <1>1, <1>8, <2>1, <2>2, <2>3 DEF Onward, Beside
  <2>5. QED
    BY <1>2, <1>3, <1>10, <2>4, ShutStays
<1>12. OneTurn(bus', m)
  BY <1>1, <1>5, <1>10, OneTurnAppended DEF OnePlace, OnBus
<1>13. OnePlace(m)'
  BY <1>3, <1>5, <1>6, <1>7, <1>8, <1>10, <1>12 DEF OnePlace
<1>14. Accepted(m)' => Accepted(m)
  BY <1>3, <1>5, <1>6, <1>7, <1>8 DEF Accepted
<1>15. QED
  BY <1>10, <1>11, <1>13, <1>14

\* A step that does not change what an adapter has accepts nothing.
LEMMA StillOnce ==
    ASSUME TakenInv, Once, conf' = conf, inbox' = inbox, handlers' = handlers, seen' = seen, fetch' = fetch,
           held' = held, bus' = bus, pushes' = pushes, flagged' = flagged, used'.again = used.again, used'.late = used.late,
           cursor' \in Nat, cursor <= cursor',
           adapter = "session" => \A p \in flight' : p.from \in Nat /\ (p \in flight \/ cursor <= p.from)
    PROVE  Once'
<1>1. ReceiveTypes /\ PartsUsed
  BY DEF TakenInv
<1>2. /\ adapter' = adapter /\ Filtering' = Filtering
      /\ \A x : Counts(x)' <=> Counts(x)
  BY SameConf DEF Filtering, Pushed, Remembers
<1>3. Excepts
  BY DEF Excepts
<1>4. /\ \A m : InInbox(m)' <=> InInbox(m)
      /\ \A m : OneDelivery(m)' <=> OneDelivery(m)
      /\ \A m : InHandlers(m)' <=> InHandlers(m)
      /\ \A m : OneHandler(m)' <=> OneHandler(m)
      /\ \A m : OnBus(m)' <=> OnBus(m)
  BY <1>2 DEF InInbox, OneDelivery, InHandlers, OneHandler, OnBus
<1>5. SUFFICES ASSUME NEW m \in Messages, Fresh(m)'
               PROVE  OnePlace(m)' /\ (Accepted(m)' => Shut(m)')
  BY DEF Once
<1>6. Fresh(m) /\ m \notin used'.again /\ OnePlace(m) /\ (Accepted(m) => Shut(m))
  BY <1>3, <1>5, FreeStays DEF Once
<1>7. Shut(m) => Shut(m)'
  <2>1. pushes \in [Messages -> Nat] /\ pushes[m] \in Nat
    BY <1>1 DEF ReceiveTypes
  <2>2. pushes[m] <= pushes[m]
    BY <2>1
  <2>3. Onward(m)
    BY <1>4, <2>1, <2>2 DEF Onward
  <2>4. QED
    BY <1>1, <1>6, <2>3, ShutStays
<1>8. OnePlace(m)'
  BY <1>2, <1>4, <1>6 DEF OnePlace
<1>9. Accepted(m)' => Accepted(m)
  BY <1>2, <1>4 DEF Accepted
<1>10. QED
  BY <1>6, <1>7, <1>8, <1>9

\* What is taken follows the cursor, each message once and in order.
LEMMA TakenAt ==
    ASSUME posted \in Nat, cursor \in 0..posted
    PROVE  /\ DOMAIN Taken \subseteq Nat
           /\ \A i \in DOMAIN Taken : Taken[i].m = cursor + i /\ cursor < Taken[i].m /\ Taken[i].m <= posted /\ Taken[i].m \in Nat
<1>1. PICK n \in Nat : n = posted - cursor
  OBVIOUS
<1>2. PICK s : s = Taken
  OBVIOUS
<1>3. s = [i \in 1..n |-> [m |-> cursor + i, event |-> "message"]]
  BY <1>1, <1>2 DEF Taken
<1>4. DOMAIN s = 1..n /\ \A i \in 1..n : s[i].m = cursor + i
  BY <1>3
<1>5. 1..n \subseteq Nat /\ \A i \in 1..n : cursor < cursor + i /\ cursor + i <= posted /\ cursor + i \in Nat
  BY <1>1
<1>6. QED
  BY <1>2, <1>4, <1>5

\* WeixinPoll, MatrixSync and TelegramUpdates: what they have in common.
Polls ==
    /\ adapter \in {"weixin", "matrix", "telegram"} /\ cursor' = posted
    /\ inbox' = inbox \o Taken
    /\ conf' = conf /\ handlers' = handlers /\ seen' = seen
    /\ cold' = cold /\ fetch' = fetch /\ held' = held /\ bus' = bus
    /\ posted' = posted /\ pushes' = pushes /\ flagged' = flagged /\ link' = link /\ flight' = flight /\ used' = used

LEMMA PollsAre ==
    ASSUME ReceiveTypes, WeixinPoll \/ MatrixSync \/ TelegramUpdates
    PROVE  Polls
<1>1. posted \in Nat /\ cursor \in 0..posted
  BY DEF ReceiveTypes
<1>2. PICK t : t = Taken /\ t \in Seq(Delivered)
  BY <1>1, TakenAre
<1>3. <<>> \o t = t
  BY <1>2, ConcatEmptySeq
<1>4. CASE WeixinPoll
  BY <1>2, <1>3, <1>4 DEF WeixinPoll, Idle, server, Polls
<1>5. CASE MatrixSync
  BY <1>2, <1>3, <1>5 DEF MatrixSync, Idle, server, Polls
<1>6. CASE TelegramUpdates
  BY <1>6 DEF TelegramUpdates, server, Polls
<1>7. QED
  BY <1>4, <1>5, <1>6

LEMMA PollsOnce ==
    ASSUME TakenInv, Once, Polls
    PROVE  Once'
<1>1. /\ adapter \in {"weixin", "matrix", "telegram"} /\ cursor' = posted
      /\ inbox' = inbox \o Taken
      /\ conf' = conf /\ handlers' = handlers /\ seen' = seen
      /\ fetch' = fetch /\ held' = held /\ bus' = bus
      /\ posted' = posted /\ pushes' = pushes /\ flagged' = flagged /\ flight' = flight /\ used' = used
  BY DEF Polls
<1>2. ReceiveTypes /\ PartsUsed
  BY DEF TakenInv
<1>3. /\ adapter' = adapter /\ Filtering' = Filtering /\ adapter \notin Filtering
      /\ \A x : Counts(x)' <=> Counts(x)
  BY <1>1, SameConf DEF Filtering, Pushed, Remembers
<1>4. Excepts
  BY <1>1 DEF Excepts
<1>5. posted \in Nat /\ cursor \in 0..posted /\ cursor \in Nat /\ inbox \in Seq(Delivered) /\ Taken \in Seq(Delivered) /\ cursor <= posted
  BY <1>2, TakenAre DEF ReceiveTypes
<1>6. /\ DOMAIN Taken \subseteq Nat
      /\ \A i \in DOMAIN Taken : Taken[i].m = cursor + i /\ cursor < Taken[i].m /\ Taken[i].m <= posted /\ Taken[i].m \in Nat
  BY <1>5, TakenAt
<1>7. PICK n \in Nat : n = Len(inbox)
  BY <1>5, DeliveriesAre
<1>8. /\ DOMAIN inbox \subseteq DOMAIN inbox' /\ DOMAIN inbox' \subseteq Nat
      /\ \A i \in DOMAIN inbox : inbox'[i] = inbox[i]
      /\ \A i \in DOMAIN inbox' : i \in DOMAIN inbox \/ (i - n \in DOMAIN Taken /\ inbox'[i] = Taken[i - n])
  BY <1>1, <1>5, <1>7, JoinedAt
<1>9. \A i \in DOMAIN inbox' : i \in DOMAIN inbox \/ (cursor < inbox'[i].m /\ inbox'[i].m <= posted /\ inbox'[i].m = cursor + (i - n))
  BY <1>6, <1>8
<1>10. /\ \A m : InHandlers(m)' <=> InHandlers(m)
       /\ \A m : OneHandler(m)' <=> OneHandler(m)
       /\ \A m : OnBus(m)' <=> OnBus(m)
  BY <1>1, <1>3 DEF InHandlers, OneHandler, OnBus
<1>11. \A m : InInbox(m)' => InInbox(m) \/ (cursor < m /\ m <= posted)
  <2>1. ASSUME NEW m, InInbox(m)'
        PROVE  InInbox(m) \/ (cursor < m /\ m <= posted)
    <3>1. PICK i \in DOMAIN inbox' : inbox'[i].m = m /\ Counts(inbox'[i])
      BY <1>3, <2>1 DEF InInbox, ToSet
    <3>2. CASE i \in DOMAIN inbox
      BY <1>8, <3>1, <3>2 DEF InInbox, ToSet
    <3>3. CASE i \notin DOMAIN inbox
      BY <1>9, <3>1, <3>3
    <3>4. QED
      BY <3>2, <3>3
  <2>2. QED
    BY <2>1
<1>12. SUFFICES ASSUME NEW m \in Messages, Fresh(m)'
                PROVE  OnePlace(m)' /\ (Accepted(m)' => Shut(m)')
  BY DEF Once
<1>13. Fresh(m) /\ m \notin used'.again /\ OnePlace(m) /\ (Accepted(m) => Shut(m)) /\ m \in Nat
  BY <1>4, <1>12, FreeStays DEF Once, Messages
<1>14. Shut(m) <=> m <= cursor
  BY <1>1 DEF Shut, Pushed, Remembers, Filtering
<1>15. Shut(m)' <=> m <= posted
  BY <1>1, <1>3 DEF Shut, Pushed, Remembers, Filtering
<1>16. m <= cursor => m <= posted
  BY <1>5, <1>13
<1>17. CASE cursor < m
  <2>1. ~ (m <= cursor)
    BY <1>5, <1>13, <1>17
  <2>2. ~Accepted(m)
    BY <1>13, <1>14, <2>1
  <2>3. ~OnBus(m) /\ ~InHandlers(m) /\ m \notin ToSet(held) /\ m \notin ToSet(fetch.list) /\ ~InInbox(m)
    BY <1>3, <2>2 DEF Accepted
  <2>4. \A i \in DOMAIN inbox' : inbox'[i].m = m /\ Counts(inbox'[i]) => i \in Nat /\ m = cursor + (i - n)
    BY <1>8, <1>9, <2>3, InInboxAt
  <2>5. OneDelivery(m)'
    <3>1. ASSUME NEW i \in DOMAIN inbox', NEW j \in DOMAIN inbox', inbox'[i].m = m, inbox'[j].m = m,
                 Counts(inbox'[i]), Counts(inbox'[j])
          PROVE  i = j
      <4>1. i \in Nat /\ j \in Nat /\ m = cursor + (i - n) /\ m = cursor + (j - n)
        BY <2>4, <3>1
      <4>2. QED
        BY <1>5, <4>1
    <3>2. QED
      BY <1>3, <3>1 DEF OneDelivery
  <2>6. OnePlace(m)'
    BY <1>1, <1>3, <1>10, <1>13, <2>3, <2>5 DEF OnePlace
  <2>7. Accepted(m)' => InInbox(m)'
    BY <1>1, <1>10, <2>3 DEF Accepted
  <2>8. Accepted(m)' => m <= posted
    BY <1>11, <2>3, <2>7
  <2>9. QED
    BY <1>15, <2>6, <2>8
<1>18. CASE ~ (cursor < m)
  <2>1. InInbox(m)' => InInbox(m)
    BY <1>11, <1>18
  <2>2. OneDelivery(m)'
    <3>1. \A i \in DOMAIN inbox' : inbox'[i].m = m => i \in DOMAIN inbox /\ inbox'[i] = inbox[i]
      BY <1>8, <1>9, <1>18
    <3>2. OneDelivery(m)
      BY <1>3, <1>13 DEF OnePlace
    <3>3. QED
      BY <1>3, <3>1, <3>2 DEF OneDelivery
  <2>3. OnePlace(m)'
    BY <1>1, <1>3, <1>10, <1>13, <2>1, <2>2 DEF OnePlace
  <2>4. Accepted(m)' => Accepted(m)
    BY <1>1, <1>3, <1>10, <2>1 DEF Accepted
  <2>5. QED
    BY <1>13, <1>14, <1>15, <1>16, <2>3, <2>4
<1>19. QED
  BY <1>17, <1>18

\* The events of one message: at most one of them counts.
LEMMA EventsAt ==
    ASSUME NEW m \in Messages, Fresh(m)
    PROVE  \A i, j \in DOMAIN Events(m) : Counts(Events(m)[i]) /\ Counts(Events(m)[j]) => i = j
<1>1. PICK a, b : a = [m |-> m, event |-> "message"] /\ b = [m |-> m, event |-> "app_mention"]
  OBVIOUS
<1>2. a \in Delivered /\ b \in Delivered /\ a.m = m /\ a.event = "message"
  BY <1>1 DEF Delivered, Messages
<1>3. PICK s : s = Events(m)
  OBVIOUS
<1>4. CASE adapter = "slack" /\ conf.kind[m] = "mention"
  <2>1. s = <<a, b>>
    BY <1>1, <1>3, <1>4 DEF Events
  <2>2. s \in Seq(Delivered) /\ Len(s) = 2 /\ s[1] = a /\ s[2] = b
    BY <1>2, <2>1
  <2>3. DOMAIN s = 1..2 /\ (\A i \in 1..2 : i = 1 \/ i = 2)
    BY <2>2, DeliveriesAre
  <2>4. ~Counts(a)
    BY <1>2, <1>4 DEF Counts, Fresh
  <2>5. QED
    BY <1>3, <2>2, <2>3, <2>4
<1>5. CASE ~ (adapter = "slack" /\ conf.kind[m] = "mention")
  <2>1. s = <<a>>
    BY <1>1, <1>3, <1>5 DEF Events
  <2>2. s \in Seq(Delivered) /\ Len(s) = 1
    BY <1>2, <2>1
  <2>3. DOMAIN s = 1..1 /\ (\A i \in 1..1 : i = 1)
    BY <2>2, DeliveriesAre
  <2>4. QED
    BY <1>3, <2>3
<1>6. QED
  BY <1>4, <1>5

LEMMA PushOnce ==
    ASSUME TakenInv, Once, NEW m \in Messages, Push(m)
    PROVE  Once'
<1>1. /\ adapter \in Pushed /\ m <= posted /\ pushes' = [pushes EXCEPT ![m] = @ + 1] /\ inbox' = inbox \o Events(m)
      /\ pushes[m] < IF adapter \in Remembers THEN MaxPushes ELSE 1
      /\ conf' = conf /\ handlers' = handlers /\ seen' = seen /\ cursor' = cursor
      /\ fetch' = fetch /\ held' = held /\ bus' = bus
      /\ posted' = posted /\ flagged' = flagged /\ flight' = flight /\ used' = used
  BY DEF Push, state
<1>2. ReceiveTypes /\ PartsUsed
  BY DEF TakenInv
<1>3. /\ adapter' = adapter /\ Filtering' = Filtering /\ (adapter \in Filtering <=> adapter \in Remembers)
      /\ \A x : Counts(x)' <=> Counts(x)
  BY <1>1, SameConf DEF Filtering, Pushed, Remembers
<1>4. Excepts
  BY <1>1 DEF Excepts
<1>5. m \in Nat /\ inbox \in Seq(Delivered) /\ pushes \in [Messages -> Nat] /\ pushes[m] \in Nat
  <2>1. m \in Nat
    BY ReceiveAssumption DEF Messages
  <2>2. QED
    BY <1>2, <2>1 DEF ReceiveTypes
<1>6. Events(m) \in Seq(Delivered) /\ \A d \in ToSet(Events(m)) : d.m = m
  BY <1>5, EventsAre
<1>7. PICK n \in Nat : n = Len(inbox)
  BY <1>5, DeliveriesAre
<1>8. /\ DOMAIN inbox \subseteq DOMAIN inbox' /\ DOMAIN inbox' \subseteq Nat
      /\ \A i \in DOMAIN inbox : inbox'[i] = inbox[i]
      /\ \A i \in DOMAIN inbox' : i \in DOMAIN inbox \/ (i - n \in DOMAIN Events(m) /\ inbox'[i] = Events(m)[i - n])
  BY <1>1, <1>5, <1>6, <1>7, JoinedAt
<1>9. \A i \in DOMAIN inbox' : i \in DOMAIN inbox \/ inbox'[i].m = m
  BY <1>6, <1>8 DEF ToSet
<1>10. /\ \A k : InHandlers(k)' <=> InHandlers(k)
       /\ \A k : OneHandler(k)' <=> OneHandler(k)
       /\ \A k : OnBus(k)' <=> OnBus(k)
  BY <1>1, <1>3 DEF InHandlers, OneHandler, OnBus
<1>11. pushes' \in [Messages -> Nat] /\ pushes'[m] = pushes[m] + 1 /\ \A k \in Messages : k # m => pushes'[k] = pushes[k]
  BY <1>1, <1>5
<1>12. \A k : k # m /\ InInbox(k)' => InInbox(k)
  <2>1. ASSUME NEW k, k # m, InInbox(k)'
        PROVE  InInbox(k)
    <3>1. PICK i \in DOMAIN inbox' : inbox'[i].m = k /\ Counts(inbox'[i])
      BY <1>3, <2>1 DEF InInbox, ToSet
    <3>2. i \in DOMAIN inbox
      BY <1>9, <2>1, <3>1
    <3>3. QED
      BY <1>8, <3>1, <3>2 DEF InInbox, ToSet
  <2>2. QED
    BY <2>1
<1>13. SUFFICES ASSUME NEW k \in Messages, Fresh(k)'
                PROVE  OnePlace(k)' /\ (Accepted(k)' => Shut(k)')
  BY DEF Once
<1>14. Fresh(k) /\ k \notin used'.again /\ OnePlace(k) /\ (Accepted(k) => Shut(k))
  BY <1>4, <1>13, FreeStays DEF Once
<1>15. adapter \in Filtering /\ pushes[k] >= MaxPushes /\ InInbox(k)' => InInbox(k)
  <2>1. CASE k = m
    <3>1. MaxPushes \in Nat
      BY ReceiveAssumption
    <3>2. QED
      BY <1>1, <1>3, <1>5, <2>1, <3>1
  <2>2. CASE k # m
    BY <1>12, <2>2
  <2>3. QED
    BY <2>1, <2>2
<1>16. Shut(k) => Shut(k)'
  <2>1. pushes[k] \in Nat /\ (k = m => pushes'[k] = pushes[k] + 1) /\ (k # m => pushes'[k] = pushes[k])
    BY <1>5, <1>11
  <2>2. pushes[k] <= pushes'[k] /\ cursor \in Nat /\ cursor <= cursor
    BY <1>2, <2>1 DEF ReceiveTypes
  <2>3. \A p \in flight : p.from \in Nat
    BY <1>2 DEF ReceiveTypes
  <2>4. Onward(k)
    BY <1>1, <1>11, <1>15, <2>2, <2>3 DEF Onward
  <2>5. QED
    BY <1>1, <1>2, <1>14, <2>4, ShutStays
<1>17. CASE adapter \in Filtering
  <2>1. OnePlace(k)'
    BY <1>1, <1>3, <1>10, <1>14, <1>17 DEF OnePlace
  <2>2. Accepted(k)' => Accepted(k)
    BY <1>1, <1>3, <1>10, <1>17 DEF Accepted
  <2>3. QED
    BY <1>14, <1>16, <2>1, <2>2
<1>18. CASE adapter \notin Filtering /\ k # m
  <2>1. \A i \in DOMAIN inbox' : inbox'[i].m = k => i \in DOMAIN inbox /\ inbox'[i] = inbox[i]
    BY <1>8, <1>9, <1>18
  <2>2. OneDelivery(k)'
    BY <1>3, <1>14, <1>18, <2>1 DEF OneDelivery, OnePlace
  <2>3. OnePlace(k)'
    BY <1>1, <1>3, <1>10, <1>12, <1>14, <1>18, <2>2 DEF OnePlace
  <2>4. Accepted(k)' => Accepted(k)
    BY <1>1, <1>3, <1>10, <1>12, <1>18 DEF Accepted
  <2>5. QED
    BY <1>14, <1>16, <2>3, <2>4
<1>19. CASE adapter \notin Filtering /\ k = m
  <2>1. pushes[k] = 0 /\ pushes'[k] > 0
    BY <1>1, <1>3, <1>5, <1>11, <1>19
  <2>2. ~Shut(k)
    BY <1>1, <1>3, <1>19, <2>1 DEF Shut
  <2>3. ~OnBus(k) /\ ~InHandlers(k) /\ k \notin ToSet(held) /\ k \notin ToSet(fetch.list) /\ ~InInbox(k)
    BY <1>3, <1>14, <1>19, <2>2 DEF Accepted
  <2>4. \A i \in DOMAIN inbox' : inbox'[i].m = k /\ Counts(inbox'[i]) => i - n \in DOMAIN Events(k) /\ inbox'[i] = Events(k)[i - n] /\ i \in Nat
    BY <1>8, <1>19, <2>3, InInboxAt
  <2>5. OneDelivery(k)'
    <3>1. ASSUME NEW i \in DOMAIN inbox', NEW j \in DOMAIN inbox', inbox'[i].m = k, inbox'[j].m = k,
                 Counts(inbox'[i]), Counts(inbox'[j])
          PROVE  i = j
      <4>1. i - n = j - n /\ i \in Nat /\ j \in Nat
        BY <1>14, <2>4, <3>1, EventsAt
      <4>2. QED
        BY <4>1
    <3>2. QED
      BY <1>3, <3>1 DEF OneDelivery
  <2>6. OnePlace(k)'
    BY <1>1, <1>3, <1>10, <1>14, <2>3, <2>5 DEF OnePlace
  <2>7. Shut(k)'
    <3>1. adapter \notin {"telegram", "weixin", "matrix", "session", "panel", "email"}
      BY <1>1 DEF Pushed
    <3>2. QED
      BY <1>3, <1>19, <2>1, <3>1 DEF Shut
  <2>8. QED
    BY <2>6, <2>7
<1>20. QED
  BY <1>17, <1>18, <1>19

\* A mail that was not known is put on the list.
Listed1(m) ==
    /\ m \in Messages /\ m \notin flagged /\ m \notin ToSet(seen) /\ m \notin ToSet(fetch.list)
    /\ m \in ToSet(seen') \/ m \in used'.again
    /\ fetch'.list = Append(fetch.list, m)

\* What a step of a fetch does with the mails.
MailMove ==
    /\ adapter = "email" /\ inbox = <<>> /\ handlers = {} /\ held = <<>> /\ fetch.list \in Seq(Nat)
    /\ conf' = conf /\ pushes' = pushes /\ inbox' = inbox /\ handlers' = handlers
    /\ cursor' = cursor /\ flight' = flight /\ held' = held /\ bus' = bus
    /\ flagged \subseteq flagged' /\ used.again \subseteq used'.again /\ used.late \subseteq used'.late
    /\ \A m \in ToSet(seen) : m \in ToSet(seen') \/ m \in used'.again \/ m \in flagged'
    /\ fetch'.list = fetch.list \/ fetch'.list = <<>> \/ \E m \in Messages : Listed1(m)

LEMMA MailOnce ==
    ASSUME TakenInv, Once, MailMove
    PROVE  Once'
<1>1. /\ adapter = "email" /\ inbox = <<>> /\ handlers = {} /\ held = <<>> /\ fetch.list \in Seq(Nat)
      /\ conf' = conf /\ pushes' = pushes /\ inbox' = inbox /\ handlers' = handlers
      /\ cursor' = cursor /\ flight' = flight /\ held' = held /\ bus' = bus
      /\ flagged \subseteq flagged' /\ used.again \subseteq used'.again /\ used.late \subseteq used'.late
      /\ \A m \in ToSet(seen) : m \in ToSet(seen') \/ m \in used'.again \/ m \in flagged'
      /\ fetch'.list = fetch.list \/ fetch'.list = <<>> \/ \E m \in Messages : Listed1(m)
  BY DEF MailMove
<1>2. ReceiveTypes /\ PartsUsed
  BY DEF TakenInv
<1>3. /\ adapter' = adapter /\ Filtering' = Filtering /\ adapter \notin Filtering
      /\ \A x : Counts(x)' <=> Counts(x)
  BY <1>1, SameConf DEF Filtering, Pushed, Remembers
<1>4. Excepts
  BY <1>1 DEF Excepts
<1>5. /\ \A m : InInbox(m)' <=> InInbox(m)
      /\ \A m : OneDelivery(m)' <=> OneDelivery(m)
      /\ \A m : InHandlers(m)' <=> InHandlers(m)
      /\ \A m : OneHandler(m)' <=> OneHandler(m)
      /\ \A m : OnBus(m)' <=> OnBus(m)
  BY <1>1, <1>3 DEF InInbox, OneDelivery, InHandlers, OneHandler, OnBus
<1>6. \A m : m \in ToSet(fetch'.list) => m \in ToSet(fetch.list) \/ (m \in Messages /\ Listed1(m))
  <2>1. CASE fetch'.list = fetch.list
    BY <2>1
  <2>2. CASE fetch'.list = <<>>
    BY <2>2, NoIds
  <2>3. CASE \E m \in Messages : Listed1(m)
    <3>1. PICK m \in Messages : Listed1(m)
      BY <2>3
    <3>2. m \in Nat
      BY <3>1, ReceiveAssumption DEF Messages
    <3>3. ToSet(fetch'.list) = ToSet(fetch.list) \cup {m}
      BY <1>1, <3>1, <3>2, IdAppended DEF Listed1
    <3>4. QED
      BY <3>1, <3>3
  <2>4. QED
    BY <1>1, <2>1, <2>2, <2>3
<1>7. SUFFICES ASSUME NEW m \in Messages, Fresh(m)'
               PROVE  OnePlace(m)' /\ (Accepted(m)' => Shut(m)')
  BY DEF Once
<1>8. Fresh(m) /\ m \notin used'.again /\ OnePlace(m) /\ (Accepted(m) => Shut(m))
  BY <1>4, <1>7, FreeStays DEF Once
<1>9. Shut(m) <=> m \in ToSet(seen) \/ m \in flagged
  BY <1>1 DEF Shut, Pushed, Remembers, Filtering
<1>10. Shut(m)' <=> m \in ToSet(seen') \/ m \in flagged'
  BY <1>1, <1>3 DEF Shut, Pushed, Remembers, Filtering
<1>11. Shut(m) => Shut(m)'
  BY <1>1, <1>8, <1>9, <1>10
<1>12. m \in ToSet(fetch'.list) => m \in ToSet(fetch.list) \/ (~OnBus(m) /\ Shut(m)')
  <2>1. ASSUME Listed1(m)
        PROVE  ~OnBus(m) /\ Shut(m)'
    <3>1. ~Shut(m)
      BY <1>9, <2>1 DEF Listed1
    <3>2. ~Accepted(m)
      BY <1>8, <3>1
    <3>3. QED
      BY <1>8, <1>10, <2>1, <3>2 DEF Listed1, Accepted
  <2>2. QED
    BY <1>6, <2>1
<1>13. ~InHandlers(m) /\ m \notin ToSet(held) /\ m \notin ToSet(held')
  BY <1>1, NoIds DEF InHandlers
<1>14. OneTurn(bus', m) /\ OneTurn(bus, m)
  BY <1>1, <1>8 DEF OnePlace
<1>15. OnePlace(m)'
  BY <1>3, <1>5, <1>8, <1>12, <1>13, <1>14 DEF OnePlace
<1>16. Accepted(m)' => Accepted(m) \/ Shut(m)'
  BY <1>3, <1>5, <1>12, <1>13 DEF Accepted
<1>17. QED
  BY <1>8, <1>11, <1>15, <1>16

\* The steps of a fetch are such steps.
LEMMA Fetches1 ==
    ASSUME TakenInv, adapter = "email", inbox = <<>>
    PROVE  handlers = {} /\ held = <<>> /\ fetch.list \in Seq(Nat) /\ fetch.todo \in Seq(Nat) /\ seen \in Seq(Nat) /\ used \in Counters
BY DEF TakenInv, PartsUsed, ReceiveTypes, Fetching

LEMMA InAFetch1 ==
    ASSUME TakenInv, fetch.on # "no" \/ fetch.todo # <<>> \/ fetch.mark # 0
    PROVE  /\ adapter = "email" /\ inbox = <<>> /\ fetch.on # "no" /\ posted \in Nat /\ ToSet(fetch.todo) \subseteq Messages
           /\ handlers = {} /\ held = <<>> /\ fetch.list \in Seq(Nat) /\ fetch.todo \in Seq(Nat) /\ seen \in Seq(Nat)
           /\ used \in Counters /\ fetch \in Fetching
<1>1. Fetched /\ fetch.on # "no"
  BY InAFetch
<1>2. 1..posted \subseteq Messages
  BY Bounded DEF TakenInv
<1>3. QED
  BY <1>1, <1>2, Fetches1 DEF Fetched

LEMMA UnreadRises ==
    ASSUME posted \in Nat
    PROVE  Unread \in Seq(Nat) /\ Rising(Unread) /\ ToSet(Unread) = ((1..posted) \cap Messages) \ flagged
<1>1. PICK zero : zero = 0 /\ zero \in Nat
  OBVIOUS
<1>2. PICK u : u = Upto(zero, posted) /\ u \in Seq(Nat) /\ ToSet(u) = (zero + 1)..posted
  BY <1>1, UptoIs
<1>3. PICK n \in Nat : n = posted - zero /\ n = posted
  BY <1>1
<1>4. DOMAIN u = 1..n /\ \A i \in 1..n : u[i] = i
  <2>1. u = [i \in 1..n |-> zero + i]
    BY <1>2, <1>3 DEF Upto
  <2>2. QED
    BY <1>1, <2>1
<1>5. Rising(u)
  BY <1>4 DEF Rising
<1>6. PICK set : set = Messages \ flagged
  OBVIOUS
<1>7. Those(u, set) \in Seq(Nat) /\ ToSet(Those(u, set)) = ToSet(u) \cap set /\ Rising(Those(u, set))
  BY <1>2, <1>5, ThoseAre
<1>8. Unread = Those(u, set)
  BY <1>1, <1>2, <1>6 DEF Unread
<1>9. ToSet(u) = 1..posted
  BY <1>1, <1>2
<1>10. QED
  BY <1>6, <1>7, <1>8, <1>9

LEMMA RisingTail ==
    ASSUME NEW s \in Seq(Nat), s # <<>>, Rising(s)
    PROVE  /\ Rising(Tail(s)) /\ Head(s) \notin ToSet(Tail(s)) /\ ToSet(s) = {Head(s)} \cup ToSet(Tail(s))
           /\ \A k \in ToSet(Tail(s)) : Head(s) < k
<1>1. PICK r : r = Tail(s)
  OBVIOUS
<1>2. PICK n \in Nat : n = Len(s) /\ DOMAIN s = 1..n /\ n # 0 /\ \A i \in 1..n : s[i] \in Nat
  <2>1. Len(s) \in Nat /\ DOMAIN s = 1..Len(s) /\ Len(s) # 0
    BY IdsAre
  <2>2. \A i \in 1..Len(s) : s[i] \in Nat
    BY Positions
  <2>3. QED
    BY <2>1, <2>2
<1>3. r \in Seq(Nat) /\ Len(r) = n - 1 /\ \A i \in 1..(n - 1) : r[i] = s[i + 1]
  BY <1>1, <1>2, HeadTailProperties
<1>4. Head(s) = s[1] /\ DOMAIN r = 1..(n - 1)
  BY <1>3, IdsAre
<1>5. /\ \A i \in 1..(n - 1) : i + 1 \in 1..n /\ 1 < i + 1
      /\ \A i, j \in 1..(n - 1) : i < j => i + 1 < j + 1
      /\ 1 \in 1..n
  BY <1>2
<1>6. \A i, j \in 1..n : i < j => s[i] < s[j]
  BY <1>2 DEF Rising
<1>7. Rising(r)
  BY <1>3, <1>4, <1>5, <1>6 DEF Rising
<1>8. \A i \in 1..(n - 1) : s[1] < r[i]
  BY <1>3, <1>5, <1>6
<1>9. \A k \in ToSet(r) : s[1] < k
  BY <1>4, <1>8 DEF ToSet
<1>10. s[1] \in Nat
  BY <1>2, <1>5
<1>11. s[1] \notin ToSet(r)
  BY <1>9, <1>10
<1>12. ToSet(s) = {Head(s)} \cup ToSet(r)
  BY <1>1, IdsTail
<1>13. QED
  BY <1>1, <1>4, <1>7, <1>9, <1>11, <1>12

LEMMA NothingRises == Rising(<<>>) /\ IsInjective(<<>>) /\ ToSet(<<>>) = {}
<1>1. PICK s : s = <<>> /\ DOMAIN s = {}
  OBVIOUS
<1>2. Rising(s)
  BY <1>1 DEF Rising
<1>3. QED
  BY <1>1, <1>2, NoIds

LEMMA SearchMoves ==
    ASSUME TakenInv, EmailSearch
    PROVE  MailMove /\ SearchIsFresh' /\ fetch'.todo = Unread /\ fetch'.list = <<>> /\ fetch'.on = "first"
<1>1. /\ adapter = "email" /\ inbox = <<>> /\ fetch' = [NoFetch EXCEPT !.on = "first", !.todo = Unread]
      /\ conf' = conf /\ pushes' = pushes /\ inbox' = inbox /\ handlers' = handlers
      /\ cursor' = cursor /\ flight' = flight /\ held' = held /\ bus' = bus
      /\ flagged' = flagged /\ seen' = seen /\ used' = used
  BY DEF EmailSearch, Idle, server
<1>2. Unread \in Seq(Nat) /\ Rising(Unread) /\ ToSet(Unread) \cap flagged = {}
  <2>1. posted \in Nat
    BY DEF TakenInv, ReceiveTypes
  <2>2. QED
    BY <2>1, UnreadRises
<1>3. fetch'.on = "first" /\ fetch'.todo = Unread /\ fetch'.list = <<>> /\ fetch'.mark = 0
  BY <1>1 DEF NoFetch
<1>4. SearchIsFresh'
  BY <1>1, <1>2, <1>3, NothingRises DEF SearchIsFresh
<1>5. MailMove
  BY <1>1, <1>3, Fetches1 DEF MailMove
<1>6. QED
  BY <1>3, <1>4, <1>5

LEMMA FetchOneMoves ==
    ASSUME TakenInv, SearchIsFresh, EmailFetchOne
    PROVE  /\ MailMove /\ SearchIsFresh' /\ fetch'.todo = Tail(fetch.todo) /\ fetch.todo # <<>> /\ flagged' = flagged /\ fetch'.on = fetch.on
           /\ \/ fetch'.list = fetch.list /\ seen' = seen /\ (Head(fetch.todo) \in ToSet(fetch.list) \/ Head(fetch.todo) \in ToSet(seen))
              \/ Listed1(Head(fetch.todo))
<1>1. PICK m : m = Head(fetch.todo)
  OBVIOUS
<1>2. /\ fetch.todo # <<>> /\ fetch.mark = 0
      /\ IF m \in InCycle \/ Contains(seen, m)
         THEN fetch' = [fetch EXCEPT !.todo = Tail(@)] /\ seen' = seen /\ used' = used
         ELSE /\ fetch' = [fetch EXCEPT !.todo = Tail(@), !.list = Append(@, m), !.mark = m]
              /\ used' = Repeat((ToSet(seen) \cup {m}) \ (ToSet(seen') \cup flagged))
      /\ conf' = conf /\ pushes' = pushes /\ inbox' = inbox /\ handlers' = handlers
      /\ cursor' = cursor /\ flight' = flight /\ held' = held /\ bus' = bus
      /\ flagged' = flagged
  BY <1>1 DEF EmailFetchOne, server
<1>3. /\ adapter = "email" /\ inbox = <<>> /\ fetch.on # "no" /\ ToSet(fetch.todo) \subseteq Messages
      /\ handlers = {} /\ held = <<>> /\ fetch.list \in Seq(Nat) /\ fetch.todo \in Seq(Nat) /\ seen \in Seq(Nat)
      /\ used \in Counters /\ fetch \in Fetching
  BY <1>2, InAFetch1
<1>4. /\ Rising(fetch.todo) /\ ToSet(fetch.todo) \cap flagged = {} /\ IsInjective(fetch.list)
  BY DEF SearchIsFresh
<1>5. PICK t : /\ t = Tail(fetch.todo) /\ Rising(t) /\ m \notin ToSet(t) /\ ToSet(fetch.todo) = {m} \cup ToSet(t)
  BY <1>1, <1>2, <1>3, <1>4, RisingTail
<1>6. m \in Messages /\ m \notin flagged /\ ToSet(t) \cap flagged = {} /\ (Contains(seen, m) <=> m \in ToSet(seen)) /\ m \in Nat
  <2>1. m \in ToSet(fetch.todo)
    BY <1>5
  <2>2. QED
    BY <1>3, <1>4, <1>5, <2>1, IdsAre
<1>7. CASE m \in InCycle \/ Contains(seen, m)
  <2>1. fetch' = [fetch EXCEPT !.todo = Tail(@)] /\ seen' = seen /\ used' = used
    BY <1>2, <1>7
  <2>2. fetch'.on = fetch.on /\ fetch'.todo = t /\ fetch'.list = fetch.list /\ fetch'.mark = 0
    BY <1>2, <1>3, <1>5, <2>1 DEF Fetching
  <2>3. MailMove
    BY <1>2, <1>3, <2>1, <2>2 DEF MailMove
  <2>4. SearchIsFresh'
    BY <1>2, <1>4, <1>5, <1>6, <2>2 DEF SearchIsFresh
  <2>5. QED
    BY <1>1, <1>2, <1>5, <1>6, <1>7, <2>1, <2>2, <2>3, <2>4 DEF InCycle
<1>8. CASE ~ (m \in InCycle \/ Contains(seen, m))
  <2>1. /\ fetch' = [fetch EXCEPT !.todo = Tail(@), !.list = Append(@, m), !.mark = m]
        /\ used' = Repeat((ToSet(seen) \cup {m}) \ (ToSet(seen') \cup flagged))
    BY <1>2, <1>8
  <2>2. fetch'.on = fetch.on /\ fetch'.todo = t /\ fetch'.list = Append(fetch.list, m) /\ fetch'.mark = m
    BY <1>3, <1>5, <2>1 DEF Fetching
  <2>3. used'.again = used.again \cup ((ToSet(seen) \cup {m}) \ (ToSet(seen') \cup flagged)) /\ used'.late = used.late
    BY <1>3, <2>1, GhostsMore
  <2>4. m \notin ToSet(seen) /\ m \notin ToSet(fetch.list)
    BY <1>6, <1>8 DEF InCycle
  <2>5. Listed1(m)
    BY <1>6, <2>2, <2>3, <2>4 DEF Listed1
  <2>6. MailMove
    BY <1>2, <1>3, <1>6, <2>3, <2>5 DEF MailMove
  <2>7. IsInjective(Append(fetch.list, m))
    BY <1>3, <1>4, <1>6, <2>4, IdAppended
  <2>8. SearchIsFresh'
    BY <1>2, <1>5, <1>6, <2>2, <2>7 DEF SearchIsFresh
  <2>9. QED
    BY <1>1, <1>2, <1>5, <2>2, <2>5, <2>6, <2>8
<1>9. QED
  BY <1>7, <1>8

LEMMA SkipsMoves ==
    ASSUME TakenInv, SearchIsFresh, EmailSkips
    PROVE  /\ MailMove /\ SearchIsFresh' /\ fetch'.todo = Tail(fetch.todo) /\ fetch.todo # <<>> /\ flagged' = flagged /\ seen' = seen
           /\ fetch'.list = fetch.list /\ Head(fetch.todo) \in used'.late /\ fetch'.on = fetch.on
<1>1. PICK m : m = Head(fetch.todo)
  OBVIOUS
<1>2. /\ fetch.todo # <<>> /\ fetch.mark = 0 /\ fetch' = [fetch EXCEPT !.todo = Tail(@)]
      /\ used' = [used EXCEPT !.failures = @ + 1, !.late = @ \cup {m}]
      /\ conf' = conf /\ pushes' = pushes /\ inbox' = inbox /\ handlers' = handlers
      /\ cursor' = cursor /\ flight' = flight /\ held' = held /\ bus' = bus
      /\ flagged' = flagged /\ seen' = seen
  BY <1>1 DEF EmailSkips, server
<1>3. /\ adapter = "email" /\ inbox = <<>> /\ fetch.on # "no" /\ ToSet(fetch.todo) \subseteq Messages
      /\ handlers = {} /\ held = <<>> /\ fetch.list \in Seq(Nat) /\ fetch.todo \in Seq(Nat) /\ seen \in Seq(Nat)
      /\ used \in Counters /\ fetch \in Fetching
  BY <1>2, InAFetch1
<1>4. /\ Rising(fetch.todo) /\ ToSet(fetch.todo) \cap flagged = {} /\ IsInjective(fetch.list)
  BY DEF SearchIsFresh
<1>5. PICK t : /\ t = Tail(fetch.todo) /\ Rising(t) /\ ToSet(fetch.todo) = {m} \cup ToSet(t)
  BY <1>1, <1>2, <1>3, <1>4, RisingTail
<1>6. fetch'.on = fetch.on /\ fetch'.todo = t /\ fetch'.list = fetch.list /\ fetch'.mark = 0
  BY <1>2, <1>3, <1>5 DEF Fetching
<1>7. used'.again = used.again /\ used'.late = used.late \cup {m}
  BY <1>2, <1>3 DEF Counters
<1>8. SearchIsFresh'
  BY <1>2, <1>4, <1>5, <1>6 DEF SearchIsFresh
<1>9. MailMove
  BY <1>2, <1>3, <1>6, <1>7 DEF MailMove
<1>10. QED
  BY <1>1, <1>2, <1>5, <1>6, <1>7, <1>8, <1>9

LEMMA MarkMoves ==
    ASSUME TakenInv, SearchIsFresh, EmailMark
    PROVE  MailMove /\ SearchIsFresh' /\ fetch'.todo = fetch.todo /\ fetch'.list = fetch.list /\ flagged \subseteq flagged' /\ seen' = seen
           /\ fetch'.on = fetch.on
<1>1. /\ fetch.mark # 0 /\ fetch' = [fetch EXCEPT !.mark = 0] /\ flagged' = flagged \cup {fetch.mark}
      /\ conf' = conf /\ pushes' = pushes /\ inbox' = inbox /\ handlers' = handlers
      /\ cursor' = cursor /\ flight' = flight /\ held' = held /\ bus' = bus
      /\ used' = used /\ seen' = seen
  BY DEF EmailMark
<1>2. /\ adapter = "email" /\ inbox = <<>>
      /\ handlers = {} /\ held = <<>> /\ fetch.list \in Seq(Nat) /\ fetch.todo \in Seq(Nat) /\ fetch \in Fetching
  BY <1>1, InAFetch1
<1>3. fetch'.on = fetch.on /\ fetch'.todo = fetch.todo /\ fetch'.list = fetch.list /\ fetch'.mark = 0
  BY <1>1, <1>2 DEF Fetching
<1>4. SearchIsFresh'
  BY <1>1, <1>3 DEF SearchIsFresh
<1>5. MailMove
  BY <1>1, <1>2, <1>3 DEF MailMove
<1>6. QED
  BY <1>1, <1>3, <1>4, <1>5

LEMMA GoesStaleMoves ==
    ASSUME TakenInv, SearchIsFresh, EmailGoesStale
    PROVE  MailMove /\ SearchIsFresh' /\ fetch'.todo = Unread /\ fetch'.list = fetch.list /\ flagged' = flagged /\ seen' = seen
<1>1. /\ fetch.on = "first" /\ fetch' = [fetch EXCEPT !.on = "second", !.todo = Unread, !.mark = 0]
      /\ used' = [used EXCEPT !.failures = @ + 1]
      /\ conf' = conf /\ pushes' = pushes /\ inbox' = inbox /\ handlers' = handlers
      /\ cursor' = cursor /\ flight' = flight /\ held' = held /\ bus' = bus
      /\ flagged' = flagged /\ seen' = seen
  BY DEF EmailGoesStale, server
<1>2. /\ adapter = "email" /\ inbox = <<>> /\ posted \in Nat
      /\ handlers = {} /\ held = <<>> /\ fetch.list \in Seq(Nat) /\ used \in Counters /\ fetch \in Fetching
  BY <1>1, InAFetch1
<1>3. Unread \in Seq(Nat) /\ Rising(Unread) /\ ToSet(Unread) \cap flagged = {}
  BY <1>2, UnreadRises
<1>4. fetch'.todo = Unread /\ fetch'.list = fetch.list /\ fetch'.mark = 0
  BY <1>1, <1>2 DEF Fetching
<1>5. used'.again = used.again /\ used'.late = used.late
  BY <1>1, <1>2 DEF Counters
<1>6. SearchIsFresh'
  BY <1>1, <1>3, <1>4 DEF SearchIsFresh
<1>7. MailMove
  BY <1>1, <1>2, <1>4, <1>5 DEF MailMove
<1>8. QED
  BY <1>1, <1>4, <1>6, <1>7

LEMMA BreaksMoves ==
    ASSUME TakenInv, EmailBreaks
    PROVE  MailMove /\ SearchIsFresh' /\ fetch'.list = <<>> /\ fetch'.on = "no" /\ seen' = seen /\ flagged' = flagged
<1>1. /\ fetch.on # "no" /\ fetch' = NoFetch /\ used' = [Lose(ToSet(fetch.list)) EXCEPT !.failures = @ + 1]
      /\ conf' = conf /\ pushes' = pushes /\ inbox' = inbox /\ handlers' = handlers
      /\ cursor' = cursor /\ flight' = flight /\ held' = held /\ bus' = bus
      /\ flagged' = flagged /\ seen' = seen
  BY DEF EmailBreaks, server
<1>2. /\ adapter = "email" /\ inbox = <<>>
      /\ handlers = {} /\ held = <<>> /\ fetch.list \in Seq(Nat) /\ used \in Counters
  BY <1>1, InAFetch1
<1>3. fetch'.todo = <<>> /\ fetch'.list = <<>> /\ fetch'.mark = 0 /\ fetch'.on = "no"
  BY <1>1 DEF NoFetch
<1>4. PICK lose : lose = Lose(ToSet(fetch.list)) /\ lose.again = used.again /\ lose.late = used.late /\ lose \in Counters
  <2>1. ToSet(fetch.list) \subseteq Nat
    BY <1>2, IdsAre
  <2>2. QED
    BY <1>2, <2>1, GhostsMore, GhostsKept
<1>5. used'.again = used.again /\ used'.late = used.late
  BY <1>1, <1>4 DEF Counters
<1>6. SearchIsFresh'
  BY <1>3, NothingRises DEF SearchIsFresh
<1>7. MailMove
  BY <1>1, <1>2, <1>3, <1>5 DEF MailMove
<1>8. QED
  BY <1>1, <1>3, <1>6, <1>7

\* What is handed over stands in the inbox as it stood in the list.
HandedOver ==
    /\ adapter = "email" /\ inbox = <<>> /\ handlers = {} /\ held = <<>> /\ fetch.list \in Seq(Nat)
    /\ conf' = conf /\ pushes' = pushes /\ handlers' = handlers /\ flagged' = flagged /\ seen' = seen /\ used' = used
    /\ cursor' = cursor /\ flight' = flight /\ held' = held /\ bus' = bus
    /\ fetch'.on = "no" /\ fetch'.list = <<>> /\ fetch'.todo = <<>> /\ fetch'.mark = 0
    /\ DOMAIN inbox' = DOMAIN fetch.list /\ \A i \in DOMAIN inbox' : inbox'[i].m = fetch.list[i]

LEMMA HandsOverIs ==
    ASSUME TakenInv, EmailHandsOver
    PROVE  HandedOver /\ SearchIsFresh'
<1>1. /\ fetch.on # "no" /\ fetch' = NoFetch
      /\ inbox' = [i \in DOMAIN fetch.list |-> [m |-> fetch.list[i], event |-> "message"]]
      /\ conf' = conf /\ pushes' = pushes /\ handlers' = handlers
      /\ cursor' = cursor /\ flight' = flight /\ held' = held /\ bus' = bus
      /\ flagged' = flagged /\ seen' = seen /\ used' = used
  BY DEF EmailHandsOver, server
<1>2. /\ adapter = "email" /\ inbox = <<>> /\ handlers = {} /\ held = <<>> /\ fetch.list \in Seq(Nat)
  BY <1>1, InAFetch1
<1>3. fetch'.on = "no" /\ fetch'.list = <<>> /\ fetch'.todo = <<>> /\ fetch'.mark = 0
  BY <1>1 DEF NoFetch
<1>4. DOMAIN inbox' = DOMAIN fetch.list /\ \A i \in DOMAIN inbox' : inbox'[i].m = fetch.list[i]
  BY <1>1
<1>5. SearchIsFresh'
  BY <1>3, NothingRises DEF SearchIsFresh
<1>6. QED
  BY <1>1, <1>2, <1>3, <1>4, <1>5 DEF HandedOver

LEMMA HandedOverOnce ==
    ASSUME TakenInv, Once, IsInjective(fetch.list), HandedOver
    PROVE  Once'
<1>1. /\ adapter = "email" /\ inbox = <<>> /\ handlers = {} /\ held = <<>> /\ fetch.list \in Seq(Nat)
      /\ conf' = conf /\ pushes' = pushes /\ handlers' = handlers /\ flagged' = flagged /\ seen' = seen /\ used' = used
      /\ cursor' = cursor /\ flight' = flight /\ held' = held /\ bus' = bus
      /\ fetch'.on = "no" /\ fetch'.list = <<>> /\ fetch'.todo = <<>> /\ fetch'.mark = 0
      /\ DOMAIN inbox' = DOMAIN fetch.list /\ \A i \in DOMAIN inbox' : inbox'[i].m = fetch.list[i]
  BY DEF HandedOver
<1>2. /\ adapter' = adapter /\ Filtering' = Filtering /\ adapter \notin Filtering
      /\ \A x : Counts(x)' <=> Counts(x)
  BY <1>1, SameConf DEF Filtering, Pushed, Remembers
<1>3. Excepts
  BY <1>1 DEF Excepts
<1>4. /\ \A m : OneHandler(m)' <=> OneHandler(m)
      /\ \A m : OnBus(m)' <=> OnBus(m)
  BY <1>1, <1>2 DEF OneHandler, OnBus
<1>5. \A m : ~InHandlers(m)' /\ m \notin ToSet(held') /\ m \notin ToSet(fetch'.list)
  BY <1>1, NoIds DEF InHandlers
<1>6. \A m : InInbox(m)' => m \in ToSet(fetch.list)
  BY <1>1 DEF InInbox, ToSet
<1>7. SUFFICES ASSUME NEW m \in Messages, Fresh(m)'
               PROVE  OnePlace(m)' /\ (Accepted(m)' => Shut(m)')
  BY DEF Once
<1>8. Fresh(m) /\ OnePlace(m) /\ (Accepted(m) => Shut(m))
  BY <1>3, <1>7, FreeStays DEF Once
<1>9. Shut(m) => Shut(m)'
  BY <1>1, <1>2 DEF Shut, Pushed, Remembers, Filtering
<1>10. OneDelivery(m)'
  BY <1>1 DEF OneDelivery, IsInjective
<1>11. OnePlace(m)'
  BY <1>1, <1>2, <1>4, <1>5, <1>6, <1>8, <1>10 DEF OnePlace
<1>12. Accepted(m)' => Accepted(m)
  BY <1>2, <1>4, <1>5, <1>6 DEF Accepted
<1>13. QED
  BY <1>8, <1>9, <1>11, <1>12

\* Accounts in which m makes one turn, and is remembered when it has been forwarded, unless exempt.
OnceIn(a, m, exempt) ==
    \/ m \in a.forgotten
    \/ /\ OneTurn(a.bus, m) /\ (On(a.bus, m) => m \notin ToSet(a.held))
       /\ Holds(a, m) => m \in ToSet(a.seen) \/ exempt

LEMMA EventOnce ==
    ASSUME NEW a \in GoodAccounts, NEW e \in 1..posted, NEW m, NEW exempt \in BOOLEAN, posted \in Nat,
           OnceIn(a, m, exempt), e = m => ~exempt
    PROVE  OnceIn(ProcessEvent(a, e), m, exempt)
<1>1. PICK r : r = ProcessEvent(a, e)
  OBVIOUS
<1>2. /\ a \in Accounts /\ IsInjective(a.seen) /\ Len(a.seen) <= CacheSize
      /\ a.seen \in Seq(Nat) /\ a.held \in Seq(Nat) /\ a.bus \in Seq(Turns) /\ a.forgotten \subseteq Nat /\ e \in Nat
  BY DEF GoodAccounts, Accounts
<1>3. CASE ~Wanted(e) \/ Contains(a.seen, e)
  BY <1>1, <1>3 DEF ProcessEvent
<1>4. CASE Wanted(e) /\ ~Contains(a.seen, e)
  <2>1. e \notin ToSet(a.seen)
    BY <1>2, <1>4, IdsAre
  <2>2. PICK kept : kept = Remember(a.seen, e)
    OBVIOUS
  <2>3. kept \in Seq(Nat) /\ e \in ToSet(kept)
    BY <1>2, <2>1, <2>2, RememberIs
  <2>4. PICK new : new = [a EXCEPT !.seen = kept, !.forgotten = @ \cup (ToSet(a.seen) \ ToSet(kept))]
    OBVIOUS
  <2>5. /\ new \in Accounts /\ new.seen = kept /\ new.held = a.held /\ new.bus = a.bus
        /\ new.forgotten = a.forgotten \cup (ToSet(a.seen) \ ToSet(kept))
    <3>1. ToSet(a.seen) \subseteq Nat
      BY <1>2, IdsAre
    <3>2. QED
      BY <1>2, <2>3, <2>4, <3>1 DEF Accounts
  <2>6. r = IF adapter = "panel" THEN TakeDelayed(new, e) ELSE TakeDirect(new, e)
    BY <1>1, <1>4, <2>2, <2>4 DEF ProcessEvent
  <2>7. r.forgotten = new.forgotten /\ r.seen = kept
    BY <2>5, <2>6 DEF TakeDelayed, TakeDirect, Accounts
  <2>8. SUFFICES ASSUME m \notin r.forgotten
                 PROVE  /\ OneTurn(r.bus, m) /\ (On(r.bus, m) => m \notin ToSet(r.held))
                        /\ Holds(r, m) => m \in ToSet(r.seen) \/ exempt
    BY <1>1 DEF OnceIn
  <2>9. /\ OneTurn(a.bus, m) /\ (On(a.bus, m) => m \notin ToSet(a.held))
        /\ Holds(a, m) => m \in ToSet(a.seen) \/ exempt
        /\ m \in ToSet(a.seen) => m \in ToSet(kept)
    BY <2>5, <2>7, <2>8 DEF OnceIn
  <2>10. e = m => ~On(a.bus, m) /\ m \notin ToSet(a.held) /\ m \in ToSet(kept)
    BY <2>1, <2>3, <2>9 DEF Holds
  <2>11. <<e>> \in Turns /\ <<e>> \in Seq(Nat) /\ ToSet(<<e>>) = {e}
    BY <1>2, OneId
  <2>12. CASE adapter # "panel"
    <3>1. r.bus = Append(a.bus, <<e>>) /\ r.held = a.held
      BY <2>5, <2>6, <2>12 DEF TakeDirect, Accounts
    <3>2. On(r.bus, m) <=> On(a.bus, m) \/ m = e
      BY <1>2, <2>11, <3>1, TurnAppended
    <3>3. OneTurn(r.bus, m)
      BY <1>2, <2>9, <2>10, <2>11, <3>1, OneTurnAppended
    <3>4. QED
      BY <2>7, <2>9, <2>10, <3>1, <3>2, <3>3 DEF Holds
  <2>13. CASE adapter = "panel" /\ conf.kind[e] = "mention"
    <3>1. PICK t : t = a.held \o <<e>>
      OBVIOUS
    <3>2. t \in Seq(Nat) /\ ToSet(t) = ToSet(a.held) \cup {e}
      BY <1>2, <2>11, <3>1, IdsJoined
    <3>3. t \in Turns
      <4>1. t # <<>>
        BY <3>2, IdsAre
      <4>2. QED
        BY <3>2, <4>1 DEF Turns
    <3>4. r = [new EXCEPT !.bus = Append(@, t), !.held = <<>>]
      BY <2>5, <2>6, <2>13, <3>1 DEF TakeDelayed
    <3>5. r.bus = Append(a.bus, t) /\ r.held = <<>>
      BY <2>5, <3>4 DEF Accounts
    <3>6. On(r.bus, m) <=> On(a.bus, m) \/ m \in ToSet(t)
      BY <1>2, <3>3, <3>5, TurnAppended
    <3>7. OneTurn(r.bus, m)
      BY <1>2, <2>9, <2>10, <3>2, <3>3, <3>5, OneTurnAppended
    <3>8. m \notin ToSet(r.held)
      BY <3>5, NoIds
    <3>9. QED
      BY <2>7, <2>9, <2>10, <3>2, <3>6, <3>7, <3>8 DEF Holds
  <2>14. CASE adapter = "panel" /\ conf.kind[e] # "mention"
    <3>1. r.bus = a.bus /\ r.held = Append(a.held, e)
      BY <2>5, <2>6, <2>14 DEF TakeDelayed, Accounts
    <3>2. ToSet(r.held) = ToSet(a.held) \cup {e}
      BY <1>2, <3>1, IdAppended
    <3>3. QED
      BY <2>7, <2>9, <2>10, <3>1, <3>2 DEF Holds
  <2>15. QED
    BY <2>12, <2>13, <2>14
<1>5. QED
  BY <1>3, <1>4

\* All the events of an answer.
LEMMA AllOnce ==
    ASSUME NEW events \in Seq(Nat), ToSet(events) \subseteq 1..posted, posted \in Nat, adapter \in {"session", "panel"},
           [seen |-> seen, held |-> held, bus |-> bus, forgotten |-> {}] \in GoodAccounts,
           ProcessAll(events), NEW m, NEW exempt \in BOOLEAN, m \in ToSet(events) => ~exempt,
           OnceIn([seen |-> seen, held |-> held, bus |-> bus, forgotten |-> {}], m, exempt)
    PROVE  \E r \in GoodAccounts :
              /\ seen' = r.seen /\ held' = r.held /\ bus' = r.bus /\ used' = Repeat(r.forgotten)
              /\ OnceIn(r, m, exempt)
<1>1. PICK walk : /\ Accounted(walk, events)
                  /\ seen' = walk[Len(events)].seen /\ held' = walk[Len(events)].held /\ bus' = walk[Len(events)].bus
                  /\ used' = Repeat(walk[Len(events)].forgotten)
  BY AllWalk
<1>2. PICK n \in Nat : n = Len(events) /\ DOMAIN events = 1..n /\ \A i \in 1..n : events[i] \in 1..posted /\ events[i] \in ToSet(events)
  <2>1. Len(events) \in Nat /\ DOMAIN events = 1..Len(events)
    BY IdsAre
  <2>2. \A i \in 1..Len(events) : events[i] \in ToSet(events)
    BY <2>1 DEF ToSet
  <2>3. QED
    BY <2>1, <2>2
<1>3. /\ walk \in [0..n -> GoodAccounts] /\ OnceIn(walk[0], m, exempt)
      /\ \A i \in 1..n : walk[i] = ProcessEvent(walk[i - 1], events[i])
  BY <1>1, <1>2 DEF Accounted
<1> DEFINE T == {i \in Nat : i <= n => OnceIn(walk[i], m, exempt)}
<1>4. 0 \in T
  BY <1>3
<1>5. ASSUME NEW i \in Nat, i \in T
      PROVE  i + 1 \in T
  <2>1. SUFFICES ASSUME i + 1 <= n
                 PROVE  OnceIn(walk[i + 1], m, exempt)
    OBVIOUS
  <2>2. PICK k \in 1..n : k = i + 1 /\ k - 1 = i /\ i <= n /\ i \in 0..n
    BY <2>1
  <2>3. PICK a, e : a = walk[i] /\ e = events[k] /\ a \in GoodAccounts /\ e \in 1..posted /\ e \in ToSet(events)
    BY <1>2, <1>3, <2>2
  <2>4. walk[k] = ProcessEvent(a, e) /\ OnceIn(a, m, exempt)
    BY <1>3, <1>5, <2>2, <2>3
  <2>5. OnceIn(ProcessEvent(a, e), m, exempt)
    BY <2>3, <2>4, EventOnce
  <2>6. QED
    BY <2>2, <2>4, <2>5
<1>6. Nat \subseteq T
  <2> HIDE DEF T
  <2>1. QED
    BY <1>4, <1>5, Induct
<1>7. n \in T /\ n <= n /\ n \in 0..n
  <2> HIDE DEF T
  <2>1. QED
    BY <1>2, <1>6
<1>8. OnceIn(walk[n], m, exempt) /\ walk[n] \in GoodAccounts
  BY <1>3, <1>7
<1>9. QED
  BY <1>1, <1>2, <1>8

\* What Mochat's adapter is told of it was not told of too often.
LEMMA HeardOnce ==
    ASSUME TakenInv, Once, NEW events, Heard(events), \A m \in Messages : pushes[m] <= pushes'[m],
           adapter = "session" => \A m \in ToSet(events) : ~Exhausted(m)
    PROVE  Once'
<1>1. ReceiveTypes /\ PartsUsed /\ SeenIsKept
  BY DEF TakenInv
<1>2. /\ adapter \in {"session", "panel"} /\ events \in Seq(Nat) /\ ToSet(events) \subseteq 1..posted
      /\ ProcessAll(events)
      /\ conf' = conf /\ inbox' = inbox /\ handlers' = handlers /\ fetch' = fetch
      /\ flight' \subseteq flight /\ cursor' \in cursor..posted
      /\ pushes' \in [Messages -> Nat]
  BY DEF Heard
<1>3. /\ adapter' = adapter /\ Filtering' = Filtering /\ adapter \notin Filtering
      /\ \A x : Counts(x)' <=> Counts(x)
  BY <1>2, SameConf DEF Filtering, Pushed, Remembers
<1>4. inbox = <<>> /\ handlers = {} /\ posted \in Nat /\ cursor \in 0..posted /\ cursor' \in 0..posted /\ ToSet(fetch.list) = {}
  BY <1>1, <1>2, NoIds DEF PartsUsed, ReceiveTypes, NoFetch, Fetching
<1>5. /\ seen \in Seq(Nat) /\ IsInjective(seen) /\ Len(seen) <= CacheSize /\ held \in Seq(Nat) /\ bus \in Seq(Turns)
      /\ \A m : OnBus(m) => m \in 1..posted /\ Wanted(m)
      /\ \A m \in ToSet(held) : m \in 1..posted /\ Wanted(m)
  BY <1>1 DEF ReceiveTypes
<1>6. \A m \in ToSet(seen) : OnBus(m) \/ m \in ToSet(held)
  BY <1>1, <1>2, <1>4 DEF SeenIsKept, PartsUsed, InHandlers
<1>7. PICK zero : zero = [seen |-> seen, held |-> held, bus |-> bus, forgotten |-> {}]
  OBVIOUS
<1>8. /\ zero \in Accounts /\ zero.seen = seen /\ zero.held = held /\ zero.bus = bus
      /\ \A m : Holds(zero, m) <=> OnBus(m) \/ m \in ToSet(held)
  BY <1>5, <1>7 DEF Accounts, Holds, OnBus
<1>9. held # <<>> => adapter = "panel"
  BY <1>1, <1>2 DEF PartsUsed
<1>10. zero \in GoodAccounts
  BY <1>5, <1>6, <1>8, <1>9 DEF GoodAccounts
<1>11. used \in Counters /\ \E set : used' = Repeat(set)
  BY <1>1, <1>2 DEF ReceiveTypes, ProcessAll
<1>12. Excepts
  BY <1>2, <1>11, GhostsMore DEF Excepts
<1>13. SUFFICES ASSUME NEW m \in Messages, Fresh(m)'
                PROVE  OnePlace(m)' /\ (Accepted(m)' => Shut(m)')
  BY DEF Once
<1>14. Fresh(m) /\ m \notin used'.again /\ OnePlace(m) /\ (Accepted(m) => Shut(m))
  BY <1>12, <1>13, FreeStays DEF Once
<1>15. \A k : ~InHandlers(k) /\ ~InHandlers(k)' /\ ~InInbox(k) /\ ~InInbox(k)' /\ OneHandler(k)' /\ OneDelivery(k)'
  <2>1. DOMAIN inbox = {} /\ ToSet(inbox) = {}
    BY <1>4, NoDeliveries
  <2>2. QED
    BY <1>2, <1>4, <2>1 DEF InHandlers, InInbox, OneHandler, OneDelivery
<1>16. PICK exempt \in BOOLEAN : exempt <=> (adapter = "session" /\ Exhausted(m))
  OBVIOUS
<1>17. OnceIn(zero, m, exempt)
  <2>1. OneTurn(bus, m) /\ (On(bus, m) => m \notin ToSet(held))
    BY <1>14 DEF OnePlace, OnBus
  <2>2. Holds(zero, m) => m \in ToSet(seen) \/ exempt
    BY <1>2, <1>8, <1>14, <1>16 DEF Accepted, Shut
  <2>3. QED
    BY <1>8, <2>1, <2>2 DEF OnceIn
<1>18. m \in ToSet(events) => ~exempt
  BY <1>16
<1>19. PICK r \in GoodAccounts : /\ seen' = r.seen /\ held' = r.held /\ bus' = r.bus /\ used' = Repeat(r.forgotten)
                                 /\ OnceIn(r, m, exempt)
  BY <1>2, <1>4, <1>7, <1>10, <1>17, <1>18, AllOnce
<1>20. m \notin r.forgotten
  BY <1>11, <1>14, <1>19, GhostsMore
<1>21. /\ OneTurn(bus', m) /\ (OnBus(m)' => m \notin ToSet(held'))
       /\ OnBus(m)' \/ m \in ToSet(held') => m \in ToSet(seen') \/ exempt
  BY <1>19, <1>20 DEF OnceIn, Holds, OnBus
<1>22. OnePlace(m)'
  BY <1>2, <1>3, <1>4, <1>15, <1>21 DEF OnePlace
<1>23. exempt => Exhausted(m)'
  <2>1. ASSUME Exhausted(m)
        PROVE  Exhausted(m)'
    <3>1. pushes[m] >= MaxNotifies /\ m <= cursor /\ \A p \in flight : m <= p.from
      BY <2>1 DEF Exhausted
    <3>2. pushes[m] \in Nat /\ pushes'[m] \in Nat /\ pushes[m] <= pushes'[m] /\ MaxNotifies \in Nat /\ m \in Nat
      BY <1>1, <1>2, ReceiveAssumption DEF ReceiveTypes, Messages
    <3>3. pushes'[m] >= MaxNotifies /\ m <= cursor'
      BY <1>2, <1>4, <3>1, <3>2
    <3>4. QED
      BY <1>2, <3>1, <3>3 DEF Exhausted
  <2>2. QED
    BY <1>16, <2>1
<1>24. Accepted(m)' => Shut(m)'
  <2>1. Accepted(m)' => m \in ToSet(seen') \/ exempt
    BY <1>2, <1>3, <1>4, <1>15, <1>21 DEF Accepted
  <2>2. QED
    BY <1>2, <1>3, <1>16, <1>23, <2>1 DEF Shut, Pushed, Filtering, Remembers
<1>25. QED
  BY <1>22, <1>24

\* The steps of Mochat's adapter.
LEMMA NotifyOnce ==
    ASSUME TakenInv, Once, NEW m \in Messages, Notify(m)
    PROVE  Once'
<1>1. PICK events : events = <<m>>
  OBVIOUS
<1>2. /\ adapter \in {"session", "panel"} /\ m <= posted /\ pushes' = [pushes EXCEPT ![m] = @ + 1] /\ ProcessAll(events)
      /\ pushes[m] < MaxNotifies
      /\ conf' = conf /\ posted' = posted /\ flagged' = flagged /\ link' = link
      /\ inbox' = inbox /\ handlers' = handlers /\ saved' = saved /\ fetch' = fetch /\ cold' = cold
      /\ flight' = flight /\ cursor' = cursor
  BY <1>1 DEF Notify
<1>3. posted \in 0..MaxMessages /\ pushes \in [Messages -> Nat] /\ cursor \in 0..posted /\ cold \in BOOLEAN /\ MaxMessages \in Nat /\ MaxNotifies \in Nat
  BY ReceiveAssumption DEF TakenInv, ReceiveTypes
<1>4. m \in 1..posted /\ m \in Nat /\ cursor \in cursor..posted /\ cursor \in Int /\ pushes[m] \in Nat
  BY <1>2, <1>3 DEF Messages
<1>5. events \in Seq(Nat) /\ ToSet(events) = {m} /\ {m} \subseteq 1..posted
  BY <1>1, <1>4, OneId
<1>6. pushes' \in [Messages -> Nat] /\ pushes'[m] = pushes[m] + 1 /\ \A k \in Messages : k # m => pushes'[k] = pushes[k]
  BY <1>2, <1>3
<1>7. \A k \in Messages : k > posted => pushes'[k] = pushes[k]
  <2>1. \A k \in Messages : k > posted => k # m
    BY <1>3, <1>4
  <2>2. QED
    BY <1>6, <2>1
<1>8. \A k \in 1..posted : ~ (k > cursor /\ k <= cursor')
  BY <1>2, <1>4
<1>9. Heard(events)
  BY <1>2, <1>3, <1>4, <1>5, <1>6, <1>7, <1>8 DEF Heard
<1>10. \A k \in Messages : pushes[k] <= pushes'[k]
  <2>1. TAKE k \in Messages
  <2>2. pushes[k] \in Nat /\ (pushes'[k] = pushes[k] \/ pushes'[k] = pushes[k] + 1)
    BY <1>3, <1>6
  <2>3. QED
    BY <2>2
<1>11. ~Exhausted(m)
  BY <1>2, <1>3, <1>4 DEF Exhausted
<1>12. QED
  BY <1>5, <1>9, <1>10, <1>11, HeardOnce

LEMMA PanelPayloadOnce ==
    ASSUME TakenInv, Once, NEW p \in flight, PanelPayload(p)
    PROVE  Once'
<1>1. PICK events : events = Upto(p.from, p.to)
  OBVIOUS
<1>2. /\ adapter = "panel" /\ pushes' = pushes /\ ProcessAll(events)
      /\ conf' = conf /\ posted' = posted /\ flagged' = flagged /\ link' = link
      /\ inbox' = inbox /\ handlers' = handlers /\ saved' = saved /\ fetch' = fetch /\ cold' = cold
      /\ flight' = flight \ {p} /\ cursor' = cursor
  BY <1>1 DEF PanelPayload, server
<1>3. /\ posted \in Nat /\ pushes \in [Messages -> Nat] /\ cursor \in 0..posted /\ cold \in BOOLEAN
      /\ p.from \in 0..posted /\ p.to \in 0..posted
  BY DEF TakenInv, ReceiveTypes
<1>4. cursor \in cursor..posted
  BY <1>3
<1>5. events \in Seq(Nat) /\ ToSet(events) \subseteq 1..posted
  <2>1. p.from \in Nat /\ p.to \in Nat /\ (p.from + 1)..p.to \subseteq 1..posted
    BY <1>3
  <2>2. QED
    BY <1>1, <2>1, UptoIs
<1>6. Heard(events)
  BY <1>2, <1>3, <1>4, <1>5 DEF Heard
<1>7. \A k \in Messages : pushes[k] <= pushes[k]
  <2>1. TAKE k \in Messages
  <2>2. pushes[k] \in Nat
    BY <1>3
  <2>3. QED
    BY <2>2
<1>8. QED
  BY <1>2, <1>6, <1>7, HeardOnce

LEMMA SessionPayloadOnce ==
    ASSUME TakenInv, Once, NEW p \in flight, SessionPayload(p)
    PROVE  Once'
<1>1. PICK events : events = Upto(p.from, p.to)
  OBVIOUS
<1>2. /\ adapter = "session" /\ pushes' = pushes /\ cursor' = Max({cursor, p.to}) /\ cold' = FALSE
      /\ IF cold THEN used' = Lose(ToSet(events)) /\ seen' = seen /\ held' = held /\ bus' = bus ELSE ProcessAll(events)
      /\ conf' = conf /\ posted' = posted /\ flagged' = flagged /\ link' = link
      /\ inbox' = inbox /\ handlers' = handlers /\ saved' = saved /\ fetch' = fetch
      /\ flight' = flight \ {p}
  BY <1>1 DEF SessionPayload, server
<1>3. ReceiveTypes /\ PartsUsed
  BY DEF TakenInv
<1>4. /\ posted \in Nat /\ pushes \in [Messages -> Nat] /\ cursor \in 0..posted /\ cold \in BOOLEAN /\ used \in Counters
      /\ p.from \in 0..posted /\ p.to \in 0..posted /\ p.from <= cursor
      /\ \A q \in flight : q.from \in 0..posted
  BY <1>2, <1>3 DEF ReceiveTypes, PartsUsed
<1>5. cursor' \in {cursor, p.to} /\ cursor' >= cursor /\ cursor' >= p.to
  <2>1. PICK a \in Int, b \in Int : a = cursor /\ b = p.to
    BY <1>4
  <2>2. Max({a, b}) \in {a, b} /\ Max({a, b}) >= a /\ Max({a, b}) >= b
    BY Greater
  <2>3. QED
    BY <1>2, <2>1, <2>2
<1>6. cursor' \in cursor..posted /\ cursor' \in Nat /\ cursor <= cursor'
  BY <1>4, <1>5
<1>7. events \in Seq(Nat) /\ ToSet(events) \subseteq 1..posted /\ ToSet(events) = (p.from + 1)..p.to
  <2>1. p.from \in Nat /\ p.to \in Nat /\ (p.from + 1)..p.to \subseteq 1..posted
    BY <1>4
  <2>2. QED
    BY <1>1, <2>1, UptoIs
<1>8. \A m \in 1..posted : m > cursor /\ m <= cursor' => m \in ToSet(events)
  <2>1. ASSUME NEW m \in 1..posted, m > cursor, m <= cursor'
        PROVE  m \in (p.from + 1)..p.to
    <3>1. cursor' = p.to
      BY <1>4, <1>5, <2>1
    <3>2. QED
      BY <1>4, <2>1, <3>1
  <2>2. QED
    BY <1>7, <2>1
<1>9. CASE ~cold
  <2>1. Heard(events)
    BY <1>2, <1>4, <1>6, <1>7, <1>8, <1>9 DEF Heard
  <2>2. \A k \in Messages : pushes[k] <= pushes[k]
    <3>1. TAKE k \in Messages
    <3>2. pushes[k] \in Nat
      BY <1>4
    <3>3. QED
      BY <3>2
  <2>3. \A m \in ToSet(events) : ~Exhausted(m)
    <3>1. \A m \in (p.from + 1)..p.to : ~ (m <= p.from)
      BY <1>4
    <3>2. QED
      BY <1>7, <3>1 DEF Exhausted
  <2>4. QED
    BY <1>2, <2>1, <2>2, <2>3, HeardOnce
<1>10. CASE cold
  <2>1. used' = Lose(ToSet(events)) /\ seen' = seen /\ held' = held /\ bus' = bus
    BY <1>2, <1>10
  <2>2. used'.again = used.again /\ used'.late = used.late
    BY <1>4, <2>1, GhostsMore
  <2>3. \A q \in flight' : q.from \in Nat /\ q \in flight
    BY <1>2, <1>4
  <2>4. QED
    BY <1>2, <1>6, <2>1, <2>2, <2>3, StillOnce
<1>11. QED
  BY <1>4, <1>9, <1>10

LEMMA AnswersOnce ==
    ASSUME TakenInv, Once, Answers
    PROVE  Once'
<1>1. PICK from : from = IF adapter = "session" THEN cursor ELSE Max({0, posted - PanelLimit})
  OBVIOUS
<1>2. PICK p : p = [from |-> from, to |-> posted]
  OBVIOUS
<1>3. /\ conf' = conf /\ inbox' = inbox /\ handlers' = handlers /\ seen' = seen /\ fetch' = fetch
      /\ held' = held /\ bus' = bus /\ pushes' = pushes /\ flagged' = flagged /\ used' = used /\ cursor' = cursor
      /\ flight' = flight \cup {p}
  BY <1>1, <1>2 DEF Answers, server
<1>4. cursor \in 0..posted /\ posted \in Nat /\ \A q \in flight : q.from \in 0..posted
  BY DEF TakenInv, ReceiveTypes
<1>5. cursor \in Nat /\ cursor <= cursor /\ \A q \in flight : q.from \in Nat
  BY <1>4
<1>6. adapter = "session" => p.from = cursor
  BY <1>1, <1>2
<1>7. adapter = "session" => \A q \in flight' : q.from \in Nat /\ (q \in flight \/ cursor <= q.from)
  BY <1>3, <1>5, <1>6
<1>8. QED
  BY <1>3, <1>5, <1>7, StillOnce

\* The steps that change nothing of what an adapter has.
Quiet ==
    /\ conf' = conf /\ inbox' = inbox /\ handlers' = handlers /\ seen' = seen /\ fetch' = fetch
    /\ held' = held /\ bus' = bus /\ pushes' = pushes /\ flagged' = flagged /\ cursor' = cursor /\ flight' = flight
    /\ used'.again = used.again /\ used'.late = used.late /\ used.lost \subseteq used'.lost

LEMMA QuietSteps ==
    ASSUME TakenInv, Posts \/ LinkChanges \/ MatrixStored \/ SaveCursors \/ UNCHANGED vars
    PROVE  Quiet
<1>1. used \in Counters
  BY DEF TakenInv, ReceiveTypes
<1>2. CASE Posts
  <2>1. used' = Lose({posted + 1}) \/ used' = used
    BY <1>2 DEF Posts
  <2>2. used'.again = used.again /\ used'.late = used.late /\ used.lost \subseteq used'.lost
    BY <1>1, <2>1, GhostsMore
  <2>3. QED
    BY <1>2, <2>2 DEF Posts, state, Quiet
<1>3. CASE LinkChanges
  <2>1. used' = [used EXCEPT !.links = @ + 1]
    BY <1>3 DEF LinkChanges
  <2>2. used'.again = used.again /\ used'.late = used.late /\ used'.lost = used.lost
    BY <1>1, <2>1 DEF Counters
  <2>3. QED
    BY <1>3, <2>2 DEF LinkChanges, state, Quiet
<1>4. CASE MatrixStored
  BY <1>4 DEF MatrixStored, server, Quiet
<1>5. CASE SaveCursors
  BY <1>5 DEF SaveCursors, server, Quiet
<1>6. CASE UNCHANGED vars
  BY <1>6 DEF vars, Quiet
<1>7. QED
  BY <1>2, <1>3, <1>4, <1>5, <1>6

LEMMA QuietOnce ==
    ASSUME TakenInv, Once, Quiet
    PROVE  Once'
<1>1. cursor \in 0..posted /\ posted \in Nat /\ \A q \in flight : q.from \in 0..posted
  BY DEF TakenInv, ReceiveTypes
<1>2. cursor \in Nat /\ cursor <= cursor /\ \A q \in flight : q.from \in Nat
  BY <1>1
<1>3. QED
  BY <1>2, StillOnce DEF Quiet

\* What a restart leaves, and what may come again after it.
Restarted(s) ==
    /\ conf' = conf /\ posted' = posted /\ pushes' = pushes /\ flagged' = flagged /\ bus' = bus
    /\ inbox' = <<>> /\ handlers' = {} /\ seen' = <<>> /\ flight' = {} /\ fetch' = NoFetch /\ held' = <<>>
    /\ used.again \subseteq used'.again /\ used'.late = used.late /\ used.lost \subseteq used'.lost
    /\ \A m \in 1..posted : ComesAgain(m, s) /\ (OnBus(m) \/ m \in ToSet(seen)) => m \in used'.again
    /\ \A m \in 1..posted : adapter \in Pushed /\ InHand(m) /\ ~OnBus(m) => m \in used'.lost
    /\ s \in Int /\ cursor' \in Nat
    /\ adapter = "telegram" => cursor' = posted
    /\ adapter = "weixin" /\ conf.resumes => cursor' = s
    /\ adapter \in {"matrix", "session"} => s <= cursor'

LEMMA RestartIs ==
    ASSUME TakenInv, NEW graceful \in BOOLEAN, Restart(graceful)
    PROVE  \E s : Restarted(s)
<1>1. PICK s : s = IF graceful /\ adapter = "session" /\ ~cold THEN cursor ELSE saved
  OBVIOUS
<1>2. PICK known, doubtful : known = 1..posted /\ doubtful = {m \in known : ComesAgain(m, s)}
  OBVIOUS
<1>3. PICK again, lost : /\ again = {m \in doubtful : Times(m) > 0 \/ Contains(seen, m)}
                         /\ lost = {m \in known : Times(m) = 0 /\
                               (adapter = "telegram" \/ (InHand(m) /\ (m \notin doubtful \/ adapter \in Pushed)))}
  OBVIOUS
<1>4. /\ cursor' = CASE adapter = "telegram" -> TelegramBegins
                     [] adapter = "weixin"   -> WeixinBegins(s)
                     [] OTHER                -> MochatBegins(s)
      /\ used' = [used EXCEPT !.restarts = @ + 1, !.again = @ \cup again, !.lost = @ \cup lost]
      /\ inbox' = <<>> /\ handlers' = {} /\ seen' = <<>> /\ flight' = {} /\ fetch' = NoFetch /\ held' = <<>>
      /\ conf' = conf /\ posted' = posted /\ pushes' = pushes /\ flagged' = flagged /\ bus' = bus
  BY <1>1, <1>2, <1>3 DEF Restart
<1>5. /\ posted \in Nat /\ cursor \in 0..posted /\ saved \in -1..posted /\ bus \in Seq(Turns) /\ used \in Counters
      /\ seen \in Seq(Nat) /\ (adapter # "session" => saved \in Nat)
  BY DEF TakenInv, ReceiveTypes, PartsUsed
<1>6. used'.again = used.again \cup again /\ used'.late = used.late /\ used'.lost = used.lost \cup lost
  BY <1>4, <1>5 DEF Counters
<1>7. s \in -1..posted /\ s \in Int /\ (adapter # "session" => s \in Nat)
  BY <1>1, <1>5
<1>8. MochatBegins(s) \in Nat /\ s <= MochatBegins(s)
  <2>1. PICK a \in Int : a = s
    BY <1>7
  <2>2. Max({0, a}) \in {0, a} /\ Max({0, a}) >= 0 /\ Max({0, a}) >= a /\ Max({0, a}) \in Int
    BY Greater
  <2>3. MochatBegins(s) = Max({0, a})
    BY <2>1 DEF MochatBegins
  <2>4. QED
    BY <1>7, <2>1, <2>2, <2>3
<1>9. \/ adapter = "telegram" /\ cursor' = posted
      \/ adapter = "weixin" /\ cursor' = (IF conf.resumes THEN s ELSE 0)
      \/ adapter \notin {"telegram", "weixin"} /\ cursor' = MochatBegins(s)
  BY <1>4 DEF TelegramBegins, WeixinBegins
<1>10. cursor' \in Nat
  BY <1>5, <1>7, <1>8, <1>9
<1>11. adapter \in {"matrix", "session"} => s <= cursor'
  BY <1>8, <1>9
<1>12. \A m \in 1..posted : ComesAgain(m, s) /\ (OnBus(m) \/ m \in ToSet(seen)) => m \in used'.again
  <2>1. ASSUME NEW m \in 1..posted, ComesAgain(m, s), OnBus(m) \/ m \in ToSet(seen)
        PROVE  m \in again
    <3>1. Times(m) > 0 \/ Contains(seen, m)
      BY <1>5, <2>1, TimesIs, IdsAre
    <3>2. QED
      BY <1>2, <1>3, <2>1, <3>1
  <2>2. QED
    BY <1>6, <2>1
<1>13. \A m \in 1..posted : adapter \in Pushed /\ InHand(m) /\ ~OnBus(m) => m \in used'.lost
  <2>1. ASSUME NEW m \in 1..posted, adapter \in Pushed, InHand(m), ~OnBus(m)
        PROVE  m \in lost
    <3>1. Times(m) = 0
      BY <1>5, <2>1, TimesIs
    <3>2. QED
      BY <1>2, <1>3, <2>1, <3>1
  <2>2. QED
    BY <1>6, <2>1
<1>14. Restarted(s)
  BY <1>4, <1>6, <1>7, <1>9, <1>10, <1>11, <1>12, <1>13 DEF Restarted
<1>15. QED
  BY <1>14

LEMMA RestartOnce ==
    ASSUME TakenInv, Once, NEW s, Restarted(s)
    PROVE  Once'
<1>1. /\ conf' = conf /\ posted' = posted /\ pushes' = pushes /\ flagged' = flagged /\ bus' = bus
      /\ inbox' = <<>> /\ handlers' = {} /\ seen' = <<>> /\ flight' = {} /\ fetch' = NoFetch /\ held' = <<>>
      /\ used.again \subseteq used'.again /\ used'.late = used.late
      /\ \A m \in 1..posted : ComesAgain(m, s) /\ (OnBus(m) \/ m \in ToSet(seen)) => m \in used'.again
      /\ s \in Int /\ cursor' \in Nat
      /\ adapter = "telegram" => cursor' = posted
      /\ adapter = "weixin" /\ conf.resumes => cursor' = s
      /\ adapter \in {"matrix", "session"} => s <= cursor'
  BY DEF Restarted
<1>2. ReceiveTypes
  BY DEF TakenInv
<1>3. /\ adapter' = adapter /\ Filtering' = Filtering
      /\ \A x : Counts(x)' <=> Counts(x)
  BY <1>1, SameConf DEF Filtering, Pushed, Remembers
<1>4. Excepts
  BY <1>1 DEF Excepts
<1>5. /\ \A m : OnBus(m)' <=> OnBus(m)
      /\ \A m : ~InHandlers(m)' /\ ~InInbox(m)' /\ m \notin ToSet(held') /\ m \notin ToSet(fetch'.list)
      /\ \A m : OneHandler(m)' /\ OneDelivery(m)'
  <2>1. ToSet(inbox') = {} /\ ToSet(held') = {} /\ ToSet(fetch'.list) = {} /\ DOMAIN inbox' = {}
    BY <1>1, NoIds, NoDeliveries DEF NoFetch
  <2>2. QED
    BY <1>1, <2>1 DEF OnBus, InHandlers, InInbox, OneHandler, OneDelivery
<1>6. SUFFICES ASSUME NEW m \in Messages, Fresh(m)'
               PROVE  OnePlace(m)' /\ (Accepted(m)' => Shut(m)')
  BY DEF Once
<1>7. Fresh(m) /\ m \notin used'.again /\ OnePlace(m)
  BY <1>4, <1>6, FreeStays DEF Once
<1>8. OnePlace(m)'
  BY <1>1, <1>5, <1>7 DEF OnePlace
<1>9. Accepted(m)' => OnBus(m)
  BY <1>5 DEF Accepted
<1>10. ASSUME OnBus(m)
       PROVE  Shut(m)'
  <2>1. m \in 1..posted /\ m \in Nat /\ adapter \in AllAdapters /\ posted \in Nat /\ pushes[m] \in Nat
    BY <1>2, <1>6, <1>10 DEF ReceiveTypes
  <2>2. ~ComesAgain(m, s)
    BY <1>1, <1>7, <1>10, <2>1
  <2>3. MaxPushes \in Nat /\ MaxNotifies \in Nat
    BY ReceiveAssumption
  <2>4. CASE adapter = "telegram"
    BY <1>1, <1>3, <2>1, <2>4 DEF Shut, Filtering, Pushed, Remembers
  <2>5. CASE adapter = "weixin"
    <3>1. conf.resumes /\ ~ (m > s)
      BY <2>2, <2>5 DEF ComesAgain, Pushed
    <3>2. m <= cursor'
      BY <1>1, <2>1, <2>5, <3>1
    <3>3. QED
      BY <1>3, <2>5, <3>2 DEF Shut, Filtering, Pushed, Remembers
  <2>6. CASE adapter = "matrix"
    <3>1. ~ (m > s)
      BY <2>2, <2>6 DEF ComesAgain, Pushed
    <3>2. m <= cursor'
      BY <1>1, <2>1, <2>6, <3>1
    <3>3. QED
      BY <1>3, <2>6, <3>2 DEF Shut, Filtering, Pushed, Remembers
  <2>7. CASE adapter = "session"
    <3>1. ~ (m > s) /\ ~ (pushes[m] < MaxNotifies)
      BY <2>2, <2>7 DEF ComesAgain, Pushed
    <3>2. m <= cursor' /\ pushes[m] >= MaxNotifies
      BY <1>1, <2>1, <2>3, <2>7, <3>1
    <3>3. Exhausted(m)'
      BY <1>1, <3>2 DEF Exhausted
    <3>4. QED
      BY <1>3, <2>7, <3>3 DEF Shut, Filtering, Pushed, Remembers
  <2>8. CASE adapter = "email"
    <3>1. m \in flagged
      BY <2>2, <2>8 DEF ComesAgain, Pushed
    <3>2. QED
      BY <1>1, <1>3, <2>8, <3>1 DEF Shut, Filtering, Pushed, Remembers
  <2>9. CASE adapter = "panel"
    BY <2>2, <2>9 DEF ComesAgain, Pushed
  <2>10. CASE adapter \in Pushed
    <3>1. adapter \notin {"telegram", "weixin", "matrix", "session", "email", "panel"}
      BY <2>10 DEF Pushed
    <3>2. ~ (pushes[m] < IF adapter \in Remembers THEN MaxPushes ELSE 1)
      BY <2>2, <2>10, <3>1 DEF ComesAgain, Pushed
    <3>3. CASE adapter \in Remembers
      <4>1. pushes[m] >= MaxPushes
        BY <2>1, <2>3, <3>2, <3>3
      <4>2. QED
        BY <1>1, <1>3, <1>5, <3>1, <3>3, <4>1 DEF Shut
    <3>4. CASE adapter \notin Remembers
      <4>1. pushes[m] > 0
        BY <2>1, <3>2, <3>4
      <4>2. QED
        BY <1>1, <1>3, <3>1, <3>4, <4>1 DEF Shut, Filtering
    <3>5. QED
      BY <3>3, <3>4
  <2>11. QED
    BY <2>1, <2>4, <2>5, <2>6, <2>7, <2>8, <2>9, <2>10 DEF AllAdapters, Pushed
<1>11. QED
  BY <1>8, <1>9, <1>10

\* Steps that put nothing on the bus and move no handler: what waits, waited.
Resting ==
    /\ Excepts /\ bus' = bus /\ handlers' = handlers /\ held' = held
    /\ \A m \in FreeOnes' : Waiting(m)' => Waiting(m)

LEMMA RestingOrder ==
    ASSUME ArrivalOrder, Resting, InboxNext', ListNext', InboxOrdered', ListOrdered', SearchIsAhead', PushedIsKnown'
    PROVE  ArrivalOrder'
<1>1. /\ Excepts /\ conf' = conf /\ bus' = bus /\ handlers' = handlers /\ held' = held
      /\ \A m \in FreeOnes' : Waiting(m)' => Waiting(m)
  BY DEF Resting, Excepts
<1>2. FreeOnes' \subseteq FreeOnes /\ adapter' = adapter
  BY <1>1, FreeStays DEF adapter
<1>3. BusOrdered(bus, FreeOnes) /\ BusFirst /\ HandlerNext
  BY DEF ArrivalOrder
<1>4. BusOrdered(bus, FreeOnes')
  BY <1>2, <1>3, BusOrderedLess
<1>5. BusOrdered(bus, FreeOnes)'
  BY <1>1, <1>4 DEF BusOrdered
<1>6. /\ \A m : OnBus(m)' <=> OnBus(m)
      /\ \A m : InHandlers(m)' <=> InHandlers(m)
  BY <1>1 DEF OnBus, InHandlers
<1>7. BusFirst' /\ HandlerNext'
  BY <1>1, <1>2, <1>3, <1>6 DEF BusFirst, HandlerNext
<1>8. (\A h, k \in handlers : h = k) /\ (adapter = "telegram" => \A m \in ToSet(held) : conf.kind[m] = "album")
  BY DEF ArrivalOrder
<1>9. (\A h, k \in handlers : h = k)' /\ (adapter = "telegram" => \A m \in ToSet(held) : conf.kind[m] = "album")'
  BY <1>1, <1>2, <1>8
<1>10. QED
  BY <1>5, <1>7, <1>9 DEF ArrivalOrder

\* Quiet, but for the answers under way, of which no order speaks.
Calm ==
    /\ conf' = conf /\ inbox' = inbox /\ handlers' = handlers /\ seen' = seen /\ fetch' = fetch
    /\ held' = held /\ bus' = bus /\ pushes' = pushes /\ flagged' = flagged /\ cursor' = cursor
    /\ used'.again = used.again /\ used'.late = used.late /\ used.lost \subseteq used'.lost

LEMMA CalmOrder ==
    ASSUME ArrivalOrder, Calm
    PROVE  ArrivalOrder'
<1>1. /\ conf' = conf /\ inbox' = inbox /\ handlers' = handlers /\ seen' = seen /\ fetch' = fetch
      /\ held' = held /\ bus' = bus /\ pushes' = pushes /\ flagged' = flagged /\ cursor' = cursor
      /\ used'.again = used.again /\ used'.late = used.late /\ used.lost \subseteq used'.lost
  BY DEF Calm
<1>2. Excepts /\ adapter' = adapter
  BY <1>1 DEF Excepts, adapter
<1>3. FreeOnes' \subseteq FreeOnes
  BY <1>2, FreeStays
<1>4. \A m : Coming(m)' => Coming(m)
  BY <1>1, <1>2 DEF Coming, Pushed
<1>5. \A i : Live(i)' <=> Live(i)
  BY <1>1, <1>2 DEF Live
<1>6. \A m : Waiting(m)' => Waiting(m)
  BY <1>1, <1>4, <1>5 DEF Waiting
<1>7. Resting
  BY <1>1, <1>2, <1>6 DEF Resting
<1>8. InboxNext /\ ListNext /\ InboxOrdered /\ ListOrdered /\ SearchIsAhead /\ PushedIsKnown
  BY DEF ArrivalOrder
<1>9. InboxNext' /\ ListNext'
  BY <1>1, <1>3, <1>4, <1>5, <1>8 DEF InboxNext, ListNext
<1>10. InboxOrdered' /\ ListOrdered'
  BY <1>1, <1>3, <1>5, <1>8 DEF InboxOrdered, ListOrdered
<1>11. SearchIsAhead'
  BY <1>1, <1>3, <1>4, <1>8 DEF SearchIsAhead
<1>12. PushedIsKnown'
  BY <1>1, <1>2, <1>8 DEF PushedIsKnown
<1>13. QED
  BY <1>7, <1>9, <1>10, <1>11, <1>12, RestingOrder

LEMMA PollsOrder ==
    ASSUME TakenInv, ArrivalOrder, Polls
    PROVE  ArrivalOrder'
<1>1. /\ adapter \in {"weixin", "matrix", "telegram"} /\ cursor' = posted
      /\ inbox' = inbox \o Taken
      /\ conf' = conf /\ handlers' = handlers /\ seen' = seen
      /\ fetch' = fetch /\ held' = held /\ bus' = bus
      /\ posted' = posted /\ pushes' = pushes /\ flagged' = flagged /\ used' = used
  BY DEF Polls
<1>2. ReceiveTypes /\ PartsUsed
  BY DEF TakenInv
<1>3. Excepts /\ adapter' = adapter
  BY <1>1 DEF Excepts, adapter
<1>4. FreeOnes' \subseteq FreeOnes /\ FreeOnes \subseteq Nat
  BY <1>3, FreeStays DEF FreeOnes, Messages
<1>5. posted \in Nat /\ cursor \in 0..posted /\ cursor \in Nat /\ inbox \in Seq(Delivered) /\ Taken \in Seq(Delivered) /\ cursor <= posted
  BY <1>2, TakenAre DEF ReceiveTypes
<1>6. /\ DOMAIN Taken \subseteq Nat
      /\ \A i \in DOMAIN Taken : Taken[i].m = cursor + i /\ cursor < Taken[i].m /\ Taken[i].m <= posted /\ Taken[i].m \in Nat
  BY <1>5, TakenAt
<1>7. PICK n \in Nat : n = Len(inbox)
  BY <1>5, DeliveriesAre
<1>8. /\ DOMAIN inbox \subseteq DOMAIN inbox' /\ DOMAIN inbox' \subseteq Nat
      /\ \A i \in DOMAIN inbox : inbox'[i] = inbox[i]
      /\ \A i \in DOMAIN inbox' : i \in DOMAIN inbox \/ (i - n \in DOMAIN Taken /\ inbox'[i] = Taken[i - n])
      /\ \A i \in DOMAIN inbox : \A j \in DOMAIN inbox' : j < i => j \in DOMAIN inbox
  BY <1>1, <1>5, <1>7, JoinedAt
<1>9. \A i \in DOMAIN inbox' : i \in DOMAIN inbox
         \/ (cursor < inbox'[i].m /\ inbox'[i].m <= posted /\ inbox'[i].m = cursor + (i - n) /\ inbox'[i].m \in Nat)
  BY <1>6, <1>8
<1>10. \A i : Live(i) /\ Live(i)'
  BY <1>1, <1>3 DEF Live
<1>11. \A m : (Coming(m)' <=> m > posted) /\ (Coming(m) <=> m > cursor)
  BY <1>1, <1>3 DEF Coming, Pushed
<1>12. \A m \in Nat : Coming(m)' => Coming(m)
  BY <1>5, <1>11
<1>13. \A i \in DOMAIN inbox' : i \in DOMAIN inbox \/ Coming(inbox'[i].m)
  BY <1>5, <1>9, <1>11
<1>14. \A m \in FreeOnes' : Waiting(m)' => Waiting(m)
  <2>1. TAKE m \in FreeOnes'
  <2>2. HAVE Waiting(m)'
  <2>3. m \in Nat
    BY <1>4
  <2>4. CASE \E i \in DOMAIN inbox' : inbox'[i].m = m
    BY <1>8, <1>10, <1>13, <2>4 DEF Waiting
  <2>5. CASE m \in ToSet(fetch'.list)
    BY <1>1, <2>5 DEF Waiting
  <2>6. CASE Coming(m)'
    BY <1>12, <2>3, <2>6 DEF Waiting
  <2>7. QED
    BY <2>2, <2>4, <2>5, <2>6 DEF Waiting
<1>15. Resting
  BY <1>1, <1>3, <1>14 DEF Resting
<1>16. InboxNext /\ ListNext /\ InboxOrdered /\ ListOrdered /\ SearchIsAhead /\ PushedIsKnown
  BY DEF ArrivalOrder
<1>17. InboxNext'
  <2>1. SUFFICES ASSUME NEW i \in DOMAIN inbox', NEW y \in FreeOnes', inbox'[i].m \in FreeOnes', Coming(y)'
                 PROVE  inbox'[i].m < y
    BY DEF InboxNext
  <2>2. y \in Nat /\ y \in FreeOnes /\ inbox'[i].m \in FreeOnes /\ Coming(y) /\ y > posted
    BY <1>4, <1>11, <1>12, <2>1
  <2>3. CASE i \in DOMAIN inbox
    BY <1>8, <1>10, <1>16, <2>2, <2>3 DEF InboxNext
  <2>4. CASE i \notin DOMAIN inbox
    <3>1. inbox'[i].m <= posted /\ inbox'[i].m \in Nat
      BY <1>9, <2>4
    <3>2. QED
      BY <1>5, <2>2, <3>1
  <2>5. QED
    BY <2>3, <2>4
<1>18. InboxOrdered'
  <2>1. SUFFICES ASSUME NEW i \in DOMAIN inbox', NEW j \in DOMAIN inbox', i < j, inbox'[i].m \in FreeOnes', inbox'[j].m \in FreeOnes'
                 PROVE  inbox'[i].m < inbox'[j].m
    BY DEF InboxOrdered
  <2>2. inbox'[i].m \in FreeOnes /\ inbox'[j].m \in FreeOnes /\ i \in Nat /\ j \in Nat
    BY <1>4, <1>8, <2>1
  <2>3. CASE i \in DOMAIN inbox /\ j \in DOMAIN inbox
    BY <1>8, <1>10, <1>16, <2>1, <2>2, <2>3 DEF InboxOrdered
  <2>4. CASE i \in DOMAIN inbox /\ j \notin DOMAIN inbox
    <3>1. Coming(inbox'[j].m)
      BY <1>13, <2>4
    <3>2. QED
      BY <1>8, <1>10, <1>16, <2>2, <2>4, <3>1 DEF InboxNext
  <2>5. CASE i \notin DOMAIN inbox
    <3>1. j \notin DOMAIN inbox
      BY <1>8, <2>1, <2>5
    <3>2. inbox'[i].m = cursor + (i - n) /\ inbox'[j].m = cursor + (j - n)
      BY <1>9, <2>5, <3>1
    <3>3. QED
      BY <1>5, <2>1, <2>2, <3>2
  <2>6. QED
    BY <2>3, <2>4, <2>5
<1>19. ListNext' /\ ListOrdered'
  BY <1>1, <1>4, <1>12, <1>16 DEF ListNext, ListOrdered
<1>20. SearchIsAhead'
  BY <1>1, <1>4, <1>12, <1>16 DEF SearchIsAhead
<1>21. PushedIsKnown'
  BY <1>1, <1>3 DEF PushedIsKnown
<1>22. QED
  BY <1>15, <1>17, <1>18, <1>19, <1>20, <1>21, RestingOrder

\* Discord and WhatsApp push a message as one event.
LEMMA OneEvent ==
    ASSUME NEW m \in Messages, adapter # "slack"
    PROVE  Events(m) \in Seq(Delivered) /\ DOMAIN Events(m) = {1} /\ Events(m)[1].m = m
<1>1. PICK a : a = [m |-> m, event |-> "message"]
  OBVIOUS
<1>2. a \in Delivered /\ a.m = m
  BY <1>1 DEF Delivered, Messages
<1>3. PICK s : s = Events(m) /\ s = <<a>>
  BY <1>1 DEF Events
<1>4. s \in Seq(Delivered) /\ Len(s) = 1 /\ s[1] = a
  BY <1>2, <1>3
<1>5. DOMAIN s = 1..1 /\ 1..1 = {1}
  BY <1>4, DeliveriesAre
<1>6. QED
  BY <1>2, <1>3, <1>4, <1>5

LEMMA PushOrder ==
    ASSUME TakenInv, ArrivalOrder, adapter \in OneByOne, NEW m \in Messages, Push(m)
    PROVE  ArrivalOrder'
<1>1. /\ adapter \in Pushed /\ m <= posted /\ pushes' = [pushes EXCEPT ![m] = @ + 1] /\ inbox' = inbox \o Events(m)
      /\ m \notin used.lost
      /\ pushes[m] < IF adapter \in Remembers THEN MaxPushes ELSE 1
      /\ \A k \in 1 .. (m - 1) : pushes[k] > 0 \/ k \in used.lost
      /\ conf' = conf /\ handlers' = handlers /\ seen' = seen /\ cursor' = cursor
      /\ fetch' = fetch /\ held' = held /\ bus' = bus
      /\ posted' = posted /\ flagged' = flagged /\ used' = used
  BY DEF Push, state
<1>2. ReceiveTypes /\ PartsUsed
  BY DEF TakenInv
<1>3. Excepts /\ adapter' = adapter /\ adapter \in {"discord", "whatsapp"} /\ adapter # "slack"
  BY <1>1 DEF Excepts, adapter, OneByOne, Pushed
<1>4. FreeOnes' \subseteq FreeOnes /\ FreeOnes \subseteq Nat /\ FreeOnes \subseteq Messages /\ \A k \in FreeOnes : k \notin used.again /\ k > 0
  BY <1>3, FreeStays DEF FreeOnes, Free, Messages
<1>5. m \in Nat /\ inbox \in Seq(Delivered) /\ pushes \in [Messages -> Nat] /\ pushes[m] \in Nat /\ Events(m) \in Seq(Delivered)
      /\ DOMAIN Events(m) = {1} /\ Events(m)[1].m = m
  <2>1. m \in Nat
    BY ReceiveAssumption DEF Messages
  <2>2. QED
    BY <1>2, <1>3, <2>1, OneEvent DEF ReceiveTypes
<1>6. PICK n \in Nat : n = Len(inbox)
  BY <1>5, DeliveriesAre
<1>7. /\ DOMAIN inbox \subseteq DOMAIN inbox' /\ DOMAIN inbox' \subseteq Nat
      /\ \A i \in DOMAIN inbox : inbox'[i] = inbox[i]
      /\ \A i \in DOMAIN inbox' : i \in DOMAIN inbox \/ (i - n \in DOMAIN Events(m) /\ inbox'[i] = Events(m)[i - n])
      /\ \A i \in DOMAIN inbox, j \in DOMAIN inbox' : j \notin DOMAIN inbox => i < j
      /\ \A i \in DOMAIN inbox : \A j \in DOMAIN inbox' : j < i => j \in DOMAIN inbox
  BY <1>1, <1>5, <1>6, JoinedAt
<1>8. \A i \in DOMAIN inbox' : i \in DOMAIN inbox \/ (i - n = 1 /\ inbox'[i].m = m)
  BY <1>5, <1>7
<1>9. pushes'[m] = pushes[m] + 1 /\ pushes[m] + 1 # 0 /\ \A k \in Messages : k # m => pushes'[k] = pushes[k]
  BY <1>1, <1>5
<1>10. \A i \in DOMAIN inbox : Live(i)' => Live(i)
  BY <1>1, <1>3, <1>7 DEF Live
<1>11. ASSUME NEW i \in DOMAIN inbox', i \notin DOMAIN inbox, Live(i)', m \in FreeOnes'
       PROVE  Coming(m)
  <2>1. pushes[m] = 0
    <3>1. CASE adapter = "discord"
      BY <1>1, <1>5, <3>1 DEF Remembers
    <3>2. CASE adapter = "whatsapp" /\ 0 < pushes[m]
      <4>1. pushes[m] < MaxPushes
        BY <1>1, <3>2 DEF Remembers
      <4>2. m \in ToSet(seen) \/ m \in used.again \/ m \in used.lost \/ \E d \in ToSet(inbox) : d.m = m
        BY <3>2, <4>1 DEF ArrivalOrder, PushedIsKnown
      <4>3. inbox'[i].m = m /\ m \notin used.again
        BY <1>4, <1>8, <1>11
      <4>4. m \notin ToSet(seen) /\ \A k \in DOMAIN inbox' : k < i => inbox'[k].m # m
        BY <1>1, <1>3, <1>11, <3>2, <4>3 DEF Live
      <4>5. \A k \in DOMAIN inbox : inbox[k].m # m
        BY <1>7, <1>11, <4>4
      <4>6. QED
        BY <1>1, <4>2, <4>3, <4>4, <4>5 DEF ToSet
    <3>3. QED
      BY <1>3, <1>5, <3>1, <3>2
  <2>2. QED
    BY <1>1, <1>3, <2>1 DEF Coming
<1>12. ASSUME NEW y \in FreeOnes', Coming(y)'
       PROVE  Coming(y) /\ m < y
  <2>1. y \in Messages /\ y \in Nat /\ y > 0 /\ pushes'[y] = 0 /\ y \notin used.lost
    BY <1>1, <1>3, <1>4, <1>12 DEF Coming
  <2>2. y # m /\ pushes[y] = 0
    BY <1>9, <2>1
  <2>3. ~ (y < m)
    <3>1. y < m => y \in 1..(m - 1)
      BY <1>5, <2>1
    <3>2. QED
      BY <1>1, <2>1, <2>2, <3>1
  <2>4. m < y
    BY <1>5, <2>1, <2>2, <2>3
  <2>5. QED
    BY <1>1, <1>3, <2>1, <2>2, <2>4 DEF Coming
<1>13. \A y \in FreeOnes' : Waiting(y)' => Waiting(y)
  <2>1. TAKE y \in FreeOnes'
  <2>2. HAVE Waiting(y)'
  <2>3. CASE \E i \in DOMAIN inbox' : inbox'[i].m = y /\ Live(i)'
    <3>1. PICK i \in DOMAIN inbox' : inbox'[i].m = y /\ Live(i)'
      BY <2>3
    <3>2. CASE i \in DOMAIN inbox
      BY <1>7, <1>10, <3>1, <3>2 DEF Waiting
    <3>3. CASE i \notin DOMAIN inbox
      <4>1. y = m
        BY <1>8, <3>1, <3>3
      <4>2. QED
        BY <1>11, <3>1, <3>3, <4>1 DEF Waiting
    <3>4. QED
      BY <3>2, <3>3
  <2>4. CASE y \in ToSet(fetch'.list)
    BY <1>1, <2>4 DEF Waiting
  <2>5. CASE Coming(y)'
    BY <1>12, <2>5 DEF Waiting
  <2>6. QED
    BY <2>2, <2>3, <2>4, <2>5 DEF Waiting
<1>14. Resting
  BY <1>1, <1>3, <1>13 DEF Resting
<1>15. InboxNext /\ ListNext /\ InboxOrdered /\ ListOrdered /\ SearchIsAhead /\ PushedIsKnown
  BY DEF ArrivalOrder
<1>16. InboxNext'
  <2>1. SUFFICES ASSUME NEW i \in DOMAIN inbox', NEW y \in FreeOnes', Live(i)', inbox'[i].m \in FreeOnes', Coming(y)'
                 PROVE  inbox'[i].m < y
    BY DEF InboxNext
  <2>2. y \in FreeOnes /\ inbox'[i].m \in FreeOnes /\ Coming(y) /\ m < y
    BY <1>4, <1>12, <2>1
  <2>3. CASE i \in DOMAIN inbox
    BY <1>7, <1>10, <1>15, <2>1, <2>2, <2>3 DEF InboxNext
  <2>4. CASE i \notin DOMAIN inbox
    BY <1>8, <2>2, <2>4
  <2>5. QED
    BY <2>3, <2>4
<1>17. InboxOrdered'
  <2>1. SUFFICES ASSUME NEW i \in DOMAIN inbox', NEW j \in DOMAIN inbox', i < j, Live(i)', Live(j)',
                        inbox'[i].m \in FreeOnes', inbox'[j].m \in FreeOnes'
                 PROVE  inbox'[i].m < inbox'[j].m
    BY DEF InboxOrdered
  <2>2. inbox'[i].m \in FreeOnes /\ inbox'[j].m \in FreeOnes /\ i \in Nat /\ j \in Nat
    BY <1>4, <1>7, <2>1
  <2>3. CASE i \in DOMAIN inbox /\ j \in DOMAIN inbox
    BY <1>7, <1>10, <1>15, <2>1, <2>2, <2>3 DEF InboxOrdered
  <2>4. CASE i \in DOMAIN inbox /\ j \notin DOMAIN inbox
    <3>1. Coming(m) /\ inbox'[j].m = m
      BY <1>8, <1>11, <2>1, <2>4
    <3>2. QED
      BY <1>7, <1>10, <1>15, <2>1, <2>2, <2>4, <3>1 DEF InboxNext
  <2>5. CASE i \notin DOMAIN inbox
    <3>1. j \notin DOMAIN inbox
      BY <1>7, <2>1, <2>5
    <3>2. i - n = 1 /\ j - n = 1
      BY <1>8, <2>5, <3>1
    <3>3. QED
      BY <2>1, <2>2, <3>2
  <2>6. QED
    BY <2>3, <2>4, <2>5
<1>18. ListNext' /\ ListOrdered'
  BY <1>1, <1>4, <1>12, <1>15 DEF ListNext, ListOrdered
<1>19. SearchIsAhead'
  BY <1>1, <1>4, <1>12, <1>15 DEF SearchIsAhead
<1>20. PushedIsKnown'
  <2>1. SUFFICES ASSUME adapter = "whatsapp", NEW k \in Messages, 0 < pushes'[k], pushes'[k] < MaxPushes
                 PROVE  k \in ToSet(seen) \/ k \in used.again \/ k \in used.lost \/ \E d \in ToSet(inbox') : d.m = k
    BY <1>1, <1>3 DEF PushedIsKnown
  <2>2. ToSet(inbox') = ToSet(inbox) \cup ToSet(Events(m))
    BY <1>1, <1>5, DeliveriesJoined
  <2>3. CASE k = m
    <3>1. Events(m)[1] \in ToSet(Events(m)) /\ Events(m)[1].m = m
      BY <1>5 DEF ToSet
    <3>2. QED
      BY <2>2, <2>3, <3>1
  <2>4. CASE k # m
    BY <1>9, <1>15, <2>1, <2>2, <2>4 DEF PushedIsKnown
  <2>5. QED
    BY <2>3, <2>4
<1>21. QED
  BY <1>14, <1>16, <1>17, <1>18, <1>19, <1>20, RestingOrder

LEMMA RestartOrder ==
    ASSUME TakenInv, ArrivalOrder, adapter \in OneByOne, NEW s, Restarted(s)
    PROVE  ArrivalOrder'
<1>1. /\ conf' = conf /\ posted' = posted /\ pushes' = pushes /\ flagged' = flagged /\ bus' = bus
      /\ inbox' = <<>> /\ handlers' = {} /\ seen' = <<>> /\ flight' = {} /\ fetch' = NoFetch /\ held' = <<>>
      /\ used.again \subseteq used'.again /\ used'.late = used.late /\ used.lost \subseteq used'.lost
      /\ \A m \in 1..posted : ComesAgain(m, s) /\ (OnBus(m) \/ m \in ToSet(seen)) => m \in used'.again
      /\ \A m \in 1..posted : adapter \in Pushed /\ InHand(m) /\ ~OnBus(m) => m \in used'.lost
      /\ s \in Int /\ cursor' \in Nat
      /\ adapter = "telegram" => cursor' = posted
      /\ adapter = "weixin" /\ conf.resumes => cursor' = s
      /\ adapter \in {"matrix", "session"} => s <= cursor'
  BY DEF Restarted
<1>2. ReceiveTypes
  BY DEF TakenInv
<1>3. Excepts /\ adapter' = adapter
  BY <1>1 DEF Excepts, adapter
<1>4. FreeOnes' \subseteq FreeOnes /\ FreeOnes \subseteq Nat /\ \A m \in FreeOnes' : m \notin used'.again
  BY <1>3, FreeStays DEF FreeOnes, Messages
<1>5. /\ ToSet(inbox') = {} /\ ToSet(held') = {} /\ DOMAIN inbox' = {} /\ fetch'.on = "no"
      /\ ToSet(fetch'.list) = {} /\ DOMAIN fetch'.list = {} /\ ToSet(seen') = {}
  BY <1>1, NoIds, NoDeliveries DEF NoFetch
<1>6. BusOrdered(bus, FreeOnes) /\ BusFirst /\ PushedIsKnown
  BY DEF ArrivalOrder
<1>7. BusOrdered(bus, FreeOnes)'
  <2>1. BusOrdered(bus, FreeOnes')
    BY <1>4, <1>6, BusOrderedLess
  <2>2. QED
    BY <1>1, <2>1 DEF BusOrdered
<1>8. \A m : ~InHandlers(m)' /\ (Waiting(m)' => Coming(m)') /\ (OnBus(m)' <=> OnBus(m))
  BY <1>1, <1>5 DEF InHandlers, Waiting, OnBus
<1>9. ASSUME NEW x \in FreeOnes', NEW y \in FreeOnes', OnBus(x), Coming(y)'
      PROVE  x < y
  <2>1. x \in 1..posted /\ posted \in Nat /\ x \in Nat /\ y \in Nat /\ ToSet(seen) \subseteq 1..posted
    BY <1>2, <1>4, <1>9 DEF ReceiveTypes
  <2>2. ~ComesAgain(x, s)
    BY <1>1, <1>4, <1>9, <2>1
  <2>3. CASE adapter = "telegram"
    <3>1. y > cursor'
      BY <1>3, <1>9, <2>3 DEF Coming
    <3>2. QED
      BY <1>1, <2>1, <2>3, <3>1
  <2>4. CASE adapter = "weixin"
    <3>1. y > cursor'
      BY <1>3, <1>9, <2>4 DEF Coming
    <3>2. conf.resumes /\ ~ (x > s)
      BY <2>2, <2>4 DEF ComesAgain, Pushed
    <3>3. QED
      BY <1>1, <2>1, <2>4, <3>1, <3>2
  <2>5. CASE adapter = "matrix"
    <3>1. y > cursor'
      BY <1>3, <1>9, <2>5 DEF Coming
    <3>2. ~ (x > s)
      BY <2>2, <2>5 DEF ComesAgain, Pushed
    <3>3. QED
      BY <1>1, <2>1, <2>5, <3>1, <3>2
  <2>6. CASE adapter = "email"
    <3>1. y \notin flagged
      BY <1>1, <1>3, <1>9, <2>6 DEF Coming
    <3>2. ComesAgain(y, s)
      BY <2>6, <3>1 DEF ComesAgain, Pushed
    <3>3. y \notin ToSet(seen)
      BY <1>1, <1>4, <2>1, <3>2
    <3>4. Coming(y)
      BY <2>6, <3>1, <3>3 DEF Coming, Pushed
    <3>5. QED
      BY <1>4, <1>6, <1>9, <3>4 DEF BusFirst, Waiting
  <2>7. CASE adapter \in {"discord", "whatsapp"}
    <3>1. Coming(y)
      BY <1>1, <1>3, <1>9, <2>7 DEF Coming, Pushed
    <3>2. QED
      BY <1>4, <1>6, <1>9, <3>1 DEF BusFirst, Waiting
  <2>8. QED
    BY <2>3, <2>4, <2>5, <2>6, <2>7 DEF OneByOne
<1>10. BusFirst' /\ HandlerNext'
  BY <1>8, <1>9 DEF BusFirst, HandlerNext
<1>11. InboxNext' /\ InboxOrdered'
  BY <1>5 DEF InboxNext, InboxOrdered
<1>12. ListNext' /\ ListOrdered' /\ SearchIsAhead'
  BY <1>5 DEF ListNext, ListOrdered, SearchIsAhead
<1>13. PushedIsKnown'
  <2>1. SUFFICES ASSUME adapter = "whatsapp", NEW m \in Messages, 0 < pushes[m], pushes[m] < MaxPushes
                 PROVE  m \in used'.again \/ m \in used'.lost
    BY <1>1, <1>3 DEF PushedIsKnown
  <2>2. adapter \in Pushed /\ adapter \in Remembers
    BY <2>1 DEF Pushed, Remembers
  <2>3. ComesAgain(m, s)
    BY <2>1, <2>2 DEF ComesAgain
  <2>4. inbox \in Seq(Delivered) /\ (\A d \in ToSet(inbox) : d.m \in 1..posted) /\ ToSet(seen) \subseteq 1..posted
    BY <1>2 DEF ReceiveTypes
  <2>5. CASE \E d \in ToSet(inbox) : d.m = m
    <3>1. InHand(m) /\ m \in 1..posted
      BY <2>4, <2>5 DEF InHand, ToSet
    <3>2. QED
      BY <1>1, <2>2, <2>3, <3>1
  <2>6. CASE m \in ToSet(seen)
    BY <1>1, <2>3, <2>4, <2>6
  <2>7. QED
    BY <1>1, <1>6, <2>1, <2>5, <2>6 DEF PushedIsKnown
<1>14. (\A h, k \in handlers : h = k)' /\ (adapter = "telegram" => \A m \in ToSet(held) : conf.kind[m] = "album")'
  BY <1>1, <1>5
<1>15. QED
  BY <1>7, <1>10, <1>11, <1>12, <1>13, <1>14 DEF ArrivalOrder

\* The steps of a fetch: what comes, came before; so does what is put on the list.
LEMMA MailComing ==
    ASSUME TakenInv, MailMove
    PROVE  /\ Excepts /\ adapter' = adapter /\ adapter = "email" /\ DOMAIN inbox' = {} /\ ToSet(inbox') = {}
           /\ FreeOnes' \subseteq FreeOnes /\ \A m \in FreeOnes' : m \in Nat /\ m \notin used'.again
           /\ \A m : Coming(m) <=> m \notin flagged /\ m \notin ToSet(seen)
           /\ \A m \in FreeOnes' : Coming(m)' => Coming(m) /\ m \notin ToSet(seen')
           /\ \A m : m \in ToSet(fetch'.list) => m \in ToSet(fetch.list) \/ (m \in Messages /\ Listed1(m))
           /\ \A m : Listed1(m) => Coming(m)
<1>1. /\ adapter = "email" /\ inbox = <<>> /\ handlers = {} /\ held = <<>> /\ fetch.list \in Seq(Nat)
      /\ conf' = conf /\ pushes' = pushes /\ inbox' = inbox
      /\ flagged \subseteq flagged' /\ used.again \subseteq used'.again /\ used.late \subseteq used'.late
      /\ \A m \in ToSet(seen) : m \in ToSet(seen') \/ m \in used'.again \/ m \in flagged'
      /\ fetch'.list = fetch.list \/ fetch'.list = <<>> \/ \E m \in Messages : Listed1(m)
  BY DEF MailMove
<1>2. Excepts /\ adapter' = adapter
  BY <1>1 DEF Excepts, adapter
<1>3. FreeOnes' \subseteq FreeOnes /\ \A m \in FreeOnes' : m \in Nat /\ m \notin used'.again
  BY <1>2, FreeStays DEF Messages
<1>4. \A m : Coming(m) <=> m \notin flagged /\ m \notin ToSet(seen)
  BY <1>1 DEF Coming, Pushed
<1>5. \A m : Coming(m)' <=> m \notin flagged' /\ m \notin ToSet(seen')
  BY <1>1, <1>2 DEF Coming, Pushed
<1>6. \A m \in FreeOnes' : Coming(m)' => Coming(m) /\ m \notin ToSet(seen')
  BY <1>1, <1>3, <1>4, <1>5
<1>7. DOMAIN inbox' = {} /\ ToSet(inbox') = {}
  BY <1>1, NoDeliveries
<1>8. \A m : m \in ToSet(fetch'.list) => m \in ToSet(fetch.list) \/ (m \in Messages /\ Listed1(m))
  <2>1. CASE fetch'.list = fetch.list
    BY <2>1
  <2>2. CASE fetch'.list = <<>>
    BY <2>2, NoIds
  <2>3. CASE \E m \in Messages : Listed1(m)
    <3>1. PICK m \in Messages : Listed1(m)
      BY <2>3
    <3>2. m \in Nat
      BY <3>1, ReceiveAssumption DEF Messages
    <3>3. ToSet(fetch'.list) = ToSet(fetch.list) \cup {m}
      BY <1>1, <3>1, <3>2, IdAppended DEF Listed1
    <3>4. QED
      BY <3>1, <3>3
  <2>4. QED
    BY <1>1, <2>1, <2>2, <2>3
<1>9. \A m : Listed1(m) => Coming(m)
  BY <1>4 DEF Listed1
<1>10. QED
  BY <1>1, <1>2, <1>3, <1>4, <1>6, <1>7, <1>8, <1>9

LEMMA MailOrder ==
    ASSUME TakenInv, ArrivalOrder, MailMove, ListNext', ListOrdered', SearchIsAhead'
    PROVE  ArrivalOrder'
<1>1. /\ Excepts /\ adapter' = adapter /\ adapter = "email" /\ DOMAIN inbox' = {}
      /\ \A m \in FreeOnes' : Coming(m)' => Coming(m)
      /\ \A m : m \in ToSet(fetch'.list) => m \in ToSet(fetch.list) \/ (m \in Messages /\ Listed1(m))
      /\ \A m : Listed1(m) => Coming(m)
  BY MailComing
<1>2. bus' = bus /\ handlers' = handlers /\ held' = held
  BY DEF MailMove
<1>3. \A m \in FreeOnes' : Waiting(m)' => Waiting(m)
  BY <1>1 DEF Waiting
<1>4. Resting
  BY <1>1, <1>2, <1>3 DEF Resting
<1>5. InboxNext' /\ InboxOrdered'
  BY <1>1 DEF InboxNext, InboxOrdered
<1>6. PushedIsKnown'
  BY <1>1 DEF PushedIsKnown
<1>7. QED
  BY <1>4, <1>5, <1>6, RestingOrder

\* An empty list.
LEMMA EmptyListOrdered ==
    ASSUME fetch'.list = <<>>
    PROVE  ListNext' /\ ListOrdered'
<1>1. ToSet(fetch'.list) = {} /\ DOMAIN fetch'.list = {}
  BY NoIds
<1>2. QED
  BY <1>1 DEF ListNext, ListOrdered

\* The list as it was.
LEMMA SameListOrdered ==
    ASSUME TakenInv, ArrivalOrder, MailMove, fetch'.list = fetch.list
    PROVE  ListNext' /\ ListOrdered'
<1>1. FreeOnes' \subseteq FreeOnes /\ \A m \in FreeOnes' : Coming(m)' => Coming(m)
  BY MailComing
<1>2. ListNext /\ ListOrdered
  BY DEF ArrivalOrder
<1>3. QED
  BY <1>1, <1>2 DEF ListNext, ListOrdered

\* A search for all that is unread.
LEMMA UnreadIsAhead ==
    ASSUME TakenInv, MailMove, fetch'.todo = Unread
    PROVE  SearchIsAhead'
<1>1. posted \in Nat
  BY DEF TakenInv, ReceiveTypes
<1>2. ToSet(Unread) = ((1..posted) \cap Messages) \ flagged
  BY <1>1, UnreadRises
<1>3. ASSUME NEW m \in FreeOnes', Coming(m)'
      PROVE  m \in ToSet(Unread) \/ \A k \in ToSet(Unread) : k < m
  <2>1. m \in Nat /\ m \in Messages /\ m \notin flagged /\ m > 0
    BY <1>3, MailComing DEF FreeOnes, Messages
  <2>2. CASE m <= posted
    <3>1. m \in 1..posted
      BY <1>1, <2>1, <2>2
    <3>2. QED
      BY <1>2, <2>1, <3>1
  <2>3. CASE ~ (m <= posted)
    <3>1. \A k \in 1..posted : k < m
      BY <1>1, <2>1, <2>3
    <3>2. QED
      BY <1>2, <3>1
  <2>4. QED
    BY <2>2, <2>3
<1>4. QED
  BY <1>3 DEF SearchIsAhead

LEMMA SearchOrder ==
    ASSUME TakenInv, ArrivalOrder, EmailSearch
    PROVE  ArrivalOrder'
<1>1. MailMove /\ fetch'.todo = Unread /\ fetch'.list = <<>>
  BY SearchMoves
<1>2. QED
  BY <1>1, EmptyListOrdered, UnreadIsAhead, MailOrder

LEMMA GoesStaleOrder ==
    ASSUME TakenInv, SearchIsFresh, ArrivalOrder, EmailGoesStale
    PROVE  ArrivalOrder'
<1>1. MailMove /\ fetch'.todo = Unread /\ fetch'.list = fetch.list
  BY GoesStaleMoves
<1>2. QED
  BY <1>1, SameListOrdered, UnreadIsAhead, MailOrder

LEMMA BreaksOrder ==
    ASSUME TakenInv, ArrivalOrder, EmailBreaks
    PROVE  ArrivalOrder'
<1>1. MailMove /\ fetch'.on = "no" /\ fetch'.list = <<>>
  BY BreaksMoves
<1>2. SearchIsAhead'
  BY <1>1 DEF SearchIsAhead
<1>3. QED
  BY <1>1, <1>2, EmptyListOrdered, MailOrder

LEMMA MarkOrder ==
    ASSUME TakenInv, SearchIsFresh, ArrivalOrder, EmailMark
    PROVE  ArrivalOrder'
<1>1. MailMove /\ fetch'.todo = fetch.todo /\ fetch'.list = fetch.list /\ fetch'.on = fetch.on
  BY MarkMoves
<1>2. SearchIsAhead'
  BY <1>1, MailComing DEF SearchIsAhead, ArrivalOrder
<1>3. QED
  BY <1>1, <1>2, SameListOrdered, MailOrder

LEMMA SkipsOrder ==
    ASSUME TakenInv, SearchIsFresh, ArrivalOrder, EmailSkips
    PROVE  ArrivalOrder'
<1>1. PICK h, t : h = Head(fetch.todo) /\ t = Tail(fetch.todo)
  OBVIOUS
<1>2. MailMove /\ fetch'.todo = t /\ fetch.todo # <<>> /\ fetch'.list = fetch.list /\ h \in used'.late /\ fetch'.on = fetch.on
  BY <1>1, SkipsMoves
<1>3. ToSet(fetch.todo) = {h} \cup ToSet(t)
  BY <1>1, <1>2, InAFetch1, RisingTail DEF SearchIsFresh
<1>4. h \notin FreeOnes'
  BY <1>2 DEF FreeOnes, Free
<1>5. SearchIsAhead
  BY DEF ArrivalOrder
<1>6. SearchIsAhead'
  BY <1>2, <1>3, <1>4, <1>5, MailComing DEF SearchIsAhead
<1>7. QED
  BY <1>2, <1>6, SameListOrdered, MailOrder

LEMMA FetchOneOrder ==
    ASSUME TakenInv, SearchIsFresh, ArrivalOrder, EmailFetchOne
    PROVE  ArrivalOrder'
<1>1. PICK h, t : h = Head(fetch.todo) /\ t = Tail(fetch.todo)
  OBVIOUS
<1>2. /\ MailMove /\ fetch'.todo = t /\ fetch.todo # <<>> /\ fetch'.on = fetch.on
      /\ \/ fetch'.list = fetch.list /\ seen' = seen /\ (h \in ToSet(fetch.list) \/ h \in ToSet(seen))
         \/ Listed1(h)
  BY <1>1, FetchOneMoves
<1>3. fetch.on # "no" /\ fetch.list \in Seq(Nat) /\ ToSet(fetch.todo) = {h} \cup ToSet(t) /\ \A k \in ToSet(t) : h < k
  BY <1>1, <1>2, InAFetch1, RisingTail DEF SearchIsFresh
<1>4. /\ FreeOnes' \subseteq FreeOnes /\ \A m \in FreeOnes' : m \in Nat /\ m \notin used'.again
      /\ \A m \in FreeOnes' : Coming(m)' => Coming(m) /\ m \notin ToSet(seen')
      /\ \A m : Listed1(m) => Coming(m)
  BY <1>2, MailComing
<1>5. ListNext /\ ListOrdered /\ SearchIsAhead
  BY DEF ArrivalOrder
<1>6. ASSUME NEW y \in FreeOnes', Coming(y)'
      PROVE  y # h /\ (y \in ToSet(t) \/ h < y) /\ (y \in ToSet(t) \/ \A k \in ToSet(t) : k < y)
  <2>1. y # h
    <3>1. CASE Listed1(h)
      BY <1>4, <1>6, <3>1 DEF Listed1
    <3>2. CASE seen' = seen /\ (h \in ToSet(fetch.list) \/ h \in ToSet(seen)) /\ y = h
      <4>1. h \in ToSet(fetch.list) /\ Coming(h) /\ h \in FreeOnes /\ h \in Nat
        BY <1>4, <1>6, <3>2
      <4>2. h < h
        BY <1>5, <4>1 DEF ListNext
      <4>3. QED
        BY <4>1, <4>2
    <3>3. QED
      BY <1>2, <3>1, <3>2
  <2>2. y \in ToSet(fetch.todo) \/ \A k \in ToSet(fetch.todo) : k < y
    BY <1>3, <1>4, <1>5, <1>6 DEF SearchIsAhead
  <2>3. QED
    BY <1>3, <2>1, <2>2
<1>7. SearchIsAhead'
  BY <1>2, <1>6 DEF SearchIsAhead
<1>8. CASE fetch'.list = fetch.list
  BY <1>2, <1>7, <1>8, SameListOrdered, MailOrder
<1>9. CASE Listed1(h)
  <2>1. fetch'.list = Append(fetch.list, h) /\ h \in Messages /\ h \in Nat /\ Coming(h)
    <3>1. h \in Messages
      BY <1>9 DEF Listed1
    <3>2. QED
      BY <1>4, <1>9, <3>1, ReceiveAssumption DEF Listed1, Messages
  <2>2. ToSet(fetch'.list) = ToSet(fetch.list) \cup {h}
    BY <1>3, <2>1, IdAppended
  <2>3. ListNext'
    <3>1. SUFFICES ASSUME NEW x \in FreeOnes', NEW y \in FreeOnes', x \in ToSet(fetch'.list), Coming(y)'
                   PROVE  x < y
      BY DEF ListNext
    <3>2. CASE x \in ToSet(fetch.list)
      BY <1>4, <1>5, <3>1, <3>2 DEF ListNext
    <3>3. CASE x = h
      BY <1>3, <1>6, <3>1, <3>3
    <3>4. QED
      BY <2>2, <3>1, <3>2, <3>3
  <2>4. PICK n \in Nat : n = Len(fetch.list) /\ DOMAIN fetch.list = 1..n
    BY <1>3, IdsAre
  <2>5. PICK r : r = fetch'.list
    OBVIOUS
  <2>6. r \in Seq(Nat) /\ Len(r) = n + 1 /\ r[n + 1] = h /\ \A i \in 1..n : r[i] = fetch.list[i]
    BY <1>3, <2>1, <2>4, <2>5, AppendProperties
  <2>7. DOMAIN r = 1..(n + 1)
    BY <2>6, IdsAre
  <2>8. ASSUME NEW i \in 1..(n + 1), NEW j \in 1..(n + 1), i < j, r[i] \in FreeOnes', r[j] \in FreeOnes'
        PROVE  r[i] < r[j]
    <3>1. i \in 1..n /\ (j \in 1..n \/ j = n + 1)
      BY <2>4, <2>8
    <3>2. r[i] = fetch.list[i] /\ r[i] \in FreeOnes /\ r[j] \in FreeOnes /\ r[i] \in ToSet(fetch.list)
      BY <1>4, <2>4, <2>6, <2>8, <3>1 DEF ToSet
    <3>3. CASE j \in 1..n
      BY <1>5, <2>4, <2>6, <2>8, <3>1, <3>2, <3>3 DEF ListOrdered
    <3>4. CASE j = n + 1
      BY <1>5, <2>1, <2>6, <3>2, <3>4 DEF ListNext
    <3>5. QED
      BY <3>1, <3>3, <3>4
  <2>9. ListOrdered'
    BY <2>5, <2>7, <2>8 DEF ListOrdered
  <2>10. QED
    BY <1>2, <1>7, <2>3, <2>9, MailOrder
<1>10. QED
  BY <1>2, <1>8, <1>9

LEMMA HandedOverOrder ==
    ASSUME TakenInv, ArrivalOrder, HandedOver
    PROVE  ArrivalOrder'
<1>1. /\ adapter = "email" /\ fetch.list \in Seq(Nat)
      /\ conf' = conf /\ pushes' = pushes /\ handlers' = handlers /\ flagged' = flagged /\ seen' = seen /\ used' = used
      /\ held' = held /\ bus' = bus
      /\ fetch'.on = "no" /\ fetch'.list = <<>>
      /\ DOMAIN inbox' = DOMAIN fetch.list /\ \A i \in DOMAIN inbox' : inbox'[i].m = fetch.list[i]
  BY DEF HandedOver
<1>2. Excepts /\ adapter' = adapter
  BY <1>1 DEF Excepts, adapter
<1>3. FreeOnes' \subseteq FreeOnes
  BY <1>2, FreeStays
<1>4. \A m : Coming(m)' <=> Coming(m)
  BY <1>1, <1>2 DEF Coming, Pushed
<1>5. \A i \in DOMAIN inbox' : inbox'[i].m \in ToSet(fetch.list)
  BY <1>1 DEF ToSet
<1>6. ToSet(fetch'.list) = {}
  BY <1>1, NoIds
<1>7. \A m \in FreeOnes' : Waiting(m)' => Waiting(m)
  BY <1>4, <1>5, <1>6 DEF Waiting
<1>8. Resting
  BY <1>1, <1>2, <1>7 DEF Resting
<1>9. ListNext /\ ListOrdered
  BY DEF ArrivalOrder
<1>10. InboxNext'
  BY <1>3, <1>4, <1>5, <1>9 DEF InboxNext, ListNext
<1>11. InboxOrdered'
  BY <1>1, <1>3, <1>9 DEF InboxOrdered, ListOrdered
<1>12. SearchIsAhead' /\ PushedIsKnown'
  BY <1>1, <1>2 DEF SearchIsAhead, PushedIsKnown
<1>13. QED
  BY <1>1, <1>8, <1>10, <1>11, <1>12, EmptyListOrdered, RestingOrder

\* Taking the next delivery.
LEMMA BeginOrder ==
    ASSUME TakenInv, ArrivalOrder, adapter \in OneByOne, Begin
    PROVE  ArrivalOrder'
<1>1. PICK d : d = Head(inbox)
  OBVIOUS
<1>2. inbox # <<>> /\ inbox' = Tail(inbox) /\ Do(d, Steps, handlers) /\ Beside /\ handlers = {}
  BY <1>1 DEF Begin, Beside, server
<1>3. ReceiveTypes /\ PartsUsed
  BY DEF TakenInv
<1>4. /\ d \in Delivered /\ inbox' \in Seq(Delivered) /\ ToSet(inbox) = {d} \cup ToSet(inbox')
      /\ d.m \in Messages /\ d.m \in Nat /\ d \in ToSet(inbox) /\ inbox \in Seq(Delivered)
  BY <1>1, <1>2, <1>3, DeliveriesTail, Bounded DEF ReceiveTypes, Delivered
<1>5. /\ adapter \in Handled /\ fetch.on = "no" /\ fetch' = fetch /\ ToSet(fetch.list) = {} /\ DOMAIN fetch.list = {}
      /\ ToSet(seen) \subseteq Nat
  BY <1>2, <1>3, NoIds, IdsAre DEF PartsUsed, ReceiveTypes, Handled, Fetching, NoFetch, Beside
<1>6. FirstDone(d) /\ FirstMore(d)
  BY <1>2, <1>3, <1>4, <1>5, DoFirst, DoFirstMore
<1>7. /\ conf' = conf /\ adapter' = adapter /\ Excepts /\ held' = held
      /\ pushes' = pushes /\ flagged' = flagged /\ cursor' = cursor /\ used'.lost = used.lost
      /\ ToSet(seen) \subseteq ToSet(seen') \cup used'.again
      /\ adapter = "whatsapp" => d.m \in ToSet(seen')
  BY <1>2, <1>6 DEF Excepts, Beside, FirstMore, FirstDone, adapter, Remembers
<1>8. FreeOnes' \subseteq FreeOnes /\ \A m \in FreeOnes' : m \in Nat /\ m \notin used'.again
  BY <1>7, FreeStays DEF Messages
<1>9. /\ 1 \in DOMAIN inbox /\ inbox[1] = d /\ DOMAIN inbox \subseteq Nat /\ DOMAIN inbox' \subseteq Nat
      /\ \A i \in DOMAIN inbox' : i + 1 \in DOMAIN inbox /\ inbox'[i] = inbox[i + 1] /\ 1 < i + 1
      /\ \A i \in DOMAIN inbox : i = 1 \/ (i - 1 \in DOMAIN inbox' /\ (i - 1) + 1 = i)
  BY <1>1, <1>2, <1>4, TailAt
<1>10. ASSUME NEW i \in DOMAIN inbox', Live(i)', inbox'[i].m \in FreeOnes'
       PROVE  Live(i + 1)
  <2>1. SUFFICES ASSUME adapter = "whatsapp"
                 PROVE  inbox[i + 1].m \notin ToSet(seen) /\ \A k \in DOMAIN inbox : k < i + 1 => inbox[k].m # inbox[i + 1].m
    BY DEF Live
  <2>2. inbox'[i].m \notin ToSet(seen') /\ \A k \in DOMAIN inbox' : k < i => inbox'[k].m # inbox'[i].m
    BY <1>7, <1>10, <2>1 DEF Live
  <2>3. inbox[i + 1].m \notin ToSet(seen)
    BY <1>7, <1>8, <1>9, <1>10, <2>2
  <2>4. ASSUME NEW k \in DOMAIN inbox, k < i + 1
        PROVE  inbox[k].m # inbox[i + 1].m
    <3>1. CASE k = 1
      BY <1>7, <1>9, <2>1, <2>2, <3>1
    <3>2. CASE k # 1
      <4>1. k - 1 \in DOMAIN inbox' /\ (k - 1) + 1 = k /\ k \in Nat /\ i \in Nat
        BY <1>9, <3>2
      <4>2. k - 1 < i
        BY <2>4, <4>1
      <4>3. inbox'[k - 1] = inbox[k]
        BY <1>9, <4>1
      <4>4. QED
        BY <1>9, <2>2, <4>1, <4>2, <4>3
    <3>3. QED
      BY <3>1, <3>2
  <2>5. QED
    BY <2>3, <2>4
<1>11. ASSUME NEW y \in FreeOnes', Coming(y)'
       PROVE  Coming(y)
  <2>1. adapter = "email" => y \notin ToSet(seen)
    BY <1>7, <1>8, <1>11 DEF Coming
  <2>2. QED
    BY <1>7, <1>11, <2>1 DEF Coming, Pushed
<1>12. \A y \in FreeOnes' : Waiting(y)' => (\E i \in DOMAIN inbox : inbox[i].m = y /\ Live(i) /\ 1 < i) \/ Coming(y)
  <2>1. TAKE y \in FreeOnes'
  <2>2. HAVE Waiting(y)'
  <2>3. CASE \E i \in DOMAIN inbox' : inbox'[i].m = y /\ Live(i)'
    BY <1>9, <1>10, <2>3
  <2>4. CASE Coming(y)'
    BY <1>11, <2>4
  <2>5. QED
    BY <1>5, <2>2, <2>3, <2>4 DEF Waiting
<1>13. \A y \in FreeOnes' : Waiting(y)' => Waiting(y)
  BY <1>12 DEF Waiting
<1>14. BusOrdered(bus, FreeOnes) /\ BusFirst /\ HandlerNext /\ InboxNext /\ InboxOrdered /\ PushedIsKnown
  BY DEF ArrivalOrder
<1> DEFINE Goes == Counts(d) /\ (adapter \in Remembers \ {"email"} => d.m \notin ToSet(seen))
<1>15. Goes => Live(1)
  <2>1. \A k \in DOMAIN inbox : ~ (k < 1)
    BY <1>3, <1>9, DeliveriesAre DEF ReceiveTypes
  <2>2. Goes => (adapter = "whatsapp" => d.m \notin ToSet(seen))
    BY DEF Remembers
  <2>3. QED
    BY <1>9, <2>1, <2>2 DEF Live
<1>16. ASSUME Goes, d.m \in FreeOnes'
       PROVE  /\ \A y \in FreeOnes' : Waiting(y)' => d.m < y
              /\ \A x \in FreeOnes' : OnBus(x) => x < d.m
  <2>1. Live(1) /\ d.m \in FreeOnes
    BY <1>8, <1>15, <1>16
  <2>2. \A y \in FreeOnes' : Waiting(y)' => d.m < y
    BY <1>8, <1>9, <1>12, <1>14, <2>1 DEF InboxOrdered, InboxNext
  <2>3. Waiting(d.m)
    BY <1>9, <2>1 DEF Waiting
  <2>4. QED
    BY <1>8, <1>14, <2>1, <2>2, <2>3 DEF BusFirst
<1>17. InboxNext'
  <2>1. SUFFICES ASSUME NEW i \in DOMAIN inbox', NEW y \in FreeOnes', Live(i)', inbox'[i].m \in FreeOnes', Coming(y)'
                 PROVE  inbox'[i].m < y
    BY DEF InboxNext
  <2>2. Live(i + 1) /\ Coming(y) /\ i + 1 \in DOMAIN inbox /\ inbox'[i] = inbox[i + 1] /\ y \in FreeOnes /\ inbox'[i].m \in FreeOnes
    BY <1>8, <1>9, <1>10, <1>11, <2>1
  <2>3. QED
    BY <1>14, <2>2 DEF InboxNext
<1>18. InboxOrdered'
  <2>1. SUFFICES ASSUME NEW i \in DOMAIN inbox', NEW j \in DOMAIN inbox', i < j, Live(i)', Live(j)',
                        inbox'[i].m \in FreeOnes', inbox'[j].m \in FreeOnes'
                 PROVE  inbox'[i].m < inbox'[j].m
    BY DEF InboxOrdered
  <2>2. /\ Live(i + 1) /\ i + 1 \in DOMAIN inbox /\ inbox'[i] = inbox[i + 1] /\ inbox'[i].m \in FreeOnes
        /\ Live(j + 1) /\ j + 1 \in DOMAIN inbox /\ inbox'[j] = inbox[j + 1] /\ inbox'[j].m \in FreeOnes
        /\ i \in Nat /\ j \in Nat
    BY <1>8, <1>9, <1>10, <2>1
  <2>3. i + 1 < j + 1
    BY <2>1, <2>2
  <2>4. QED
    BY <1>14, <2>2, <2>3 DEF InboxOrdered
<1>19. ListNext' /\ ListOrdered' /\ SearchIsAhead'
  BY <1>5 DEF ListNext, ListOrdered, SearchIsAhead
<1>20. PushedIsKnown'
  <2>1. SUFFICES ASSUME adapter = "whatsapp", NEW m \in Messages, 0 < pushes[m], pushes[m] < MaxPushes
                 PROVE  m \in ToSet(seen') \/ m \in used'.again \/ m \in used'.lost \/ \E x \in ToSet(inbox') : x.m = m
    BY <1>7 DEF PushedIsKnown
  <2>2. m \in ToSet(seen) \/ m \in used.again \/ m \in used.lost \/ \E x \in ToSet(inbox) : x.m = m
    BY <1>14, <2>1 DEF PushedIsKnown
  <2>3. QED
    BY <1>4, <1>7, <2>1, <2>2 DEF Excepts
<1>21. (adapter = "telegram" => \A m \in ToSet(held) : conf.kind[m] = "album")'
  BY <1>7 DEF ArrivalOrder
<1>22. BusOrdered(bus, FreeOnes')
  BY <1>8, <1>14, BusOrderedLess
<1>23. bus \in Seq(Turns) /\ <<d.m>> \in Turns /\ ToSet(<<d.m>>) = {d.m} /\ <<d.m>> \in Seq(Nat) /\ Len(<<d.m>>) = 1
  BY <1>3, <1>4, OneId DEF ReceiveTypes
<1>24. CASE bus' = bus /\ handlers' = handlers
  <2>1. BusOrdered(bus, FreeOnes)'
    BY <1>22, <1>24 DEF BusOrdered
  <2>2. \A m : (OnBus(m)' <=> OnBus(m)) /\ ~InHandlers(m)'
    BY <1>2, <1>24 DEF OnBus, InHandlers
  <2>3. BusFirst' /\ HandlerNext'
    BY <1>8, <1>13, <1>14, <2>2 DEF BusFirst, HandlerNext
  <2>4. (\A h, k \in handlers : h = k)'
    BY <1>2, <1>24
  <2>5. QED
    BY <1>17, <1>18, <1>19, <1>20, <1>21, <2>1, <2>3, <2>4 DEF ArrivalOrder
<1>25. CASE Goes /\ bus' = Append(bus, <<d.m>>) /\ handlers' = handlers
  <2>1. \A x, y \in FreeOnes' : On(bus, x) /\ y \in ToSet(<<d.m>>) => x < y
    BY <1>16, <1>23, <1>25 DEF OnBus
  <2>2. \A x, y \in DOMAIN <<d.m>> : ~ (x < y)
    <3>1. DOMAIN <<d.m>> = 1..1 /\ \A x, y \in 1..1 : ~ (x < y)
      BY <1>23, IdsAre
    <3>2. QED
      BY <3>1
  <2>3. BusOrdered(Append(bus, <<d.m>>), FreeOnes')
    BY <1>22, <1>23, <2>1, <2>2, BusOrderedAppended
  <2>4. BusOrdered(bus, FreeOnes)'
    BY <1>25, <2>3 DEF BusOrdered
  <2>5. \A m : On(Append(bus, <<d.m>>), m) <=> On(bus, m) \/ m = d.m
    BY <1>23, TurnAppended
  <2>6. \A m : (OnBus(m)' <=> OnBus(m) \/ m = d.m) /\ ~InHandlers(m)'
    BY <1>2, <1>25, <2>5 DEF OnBus, InHandlers
  <2>7. BusFirst' /\ HandlerNext'
    BY <1>8, <1>13, <1>14, <1>16, <1>25, <2>6 DEF BusFirst, HandlerNext
  <2>8. (\A h, k \in handlers : h = k)'
    BY <1>2, <1>25
  <2>9. QED
    BY <1>17, <1>18, <1>19, <1>20, <1>21, <2>4, <2>7, <2>8 DEF ArrivalOrder
<1>26. CASE Goes /\ bus' = bus /\ Waits(d)
  <2>1. PICK h : h.d = d /\ handlers' = {h}
    <3>1. PICK r \in RestsOf : handlers' = handlers \cup {[d |-> d, rest |-> r]}
      BY <1>26 DEF Waits
    <3>2. QED
      BY <1>2, <3>1
  <2>2. BusOrdered(bus, FreeOnes)'
    BY <1>22, <1>26 DEF BusOrdered
  <2>3. \A m : (OnBus(m)' <=> OnBus(m)) /\ (InHandlers(m)' <=> m = d.m)
    BY <1>26, <2>1 DEF OnBus, InHandlers
  <2>4. BusFirst' /\ HandlerNext'
    BY <1>8, <1>13, <1>14, <1>16, <1>26, <2>3 DEF BusFirst, HandlerNext
  <2>5. (\A x, k \in handlers : x = k)'
    BY <2>1
  <2>6. QED
    BY <1>17, <1>18, <1>19, <1>20, <1>21, <2>2, <2>4, <2>5 DEF ArrivalOrder
<1>27. QED
  BY <1>6, <1>24, <1>25, <1>26 DEF FirstMore

\* A later step of the one handler, and a flush: what waits, waits on.
LEMMA WaitsOn ==
    ASSUME ArrivalOrder, Excepts, inbox' = inbox, Beside, seen' = seen, used'.lost = used.lost
    PROVE  /\ FreeOnes' \subseteq FreeOnes /\ adapter' = adapter /\ conf' = conf
           /\ \A m : Waiting(m)' <=> Waiting(m)
           /\ InboxNext' /\ ListNext' /\ InboxOrdered' /\ ListOrdered' /\ SearchIsAhead' /\ PushedIsKnown'
<1>1. /\ conf' = conf /\ pushes' = pushes /\ flagged' = flagged /\ cursor' = cursor /\ fetch' = fetch
      /\ used.again \subseteq used'.again
  BY DEF Beside, Excepts
<1>2. adapter' = adapter
  BY <1>1 DEF adapter
<1>3. FreeOnes' \subseteq FreeOnes
  BY FreeStays
<1>4. \A m : Coming(m)' <=> Coming(m)
  BY <1>1, <1>2 DEF Coming, Pushed
<1>5. \A i : Live(i)' <=> Live(i)
  BY <1>1, <1>2 DEF Live
<1>6. \A m : Waiting(m)' <=> Waiting(m)
  BY <1>1, <1>4, <1>5 DEF Waiting
<1>7. InboxNext /\ ListNext /\ InboxOrdered /\ ListOrdered /\ SearchIsAhead /\ PushedIsKnown
  BY DEF ArrivalOrder
<1>8. InboxNext' /\ ListNext'
  BY <1>1, <1>3, <1>4, <1>5, <1>7 DEF InboxNext, ListNext
<1>9. InboxOrdered' /\ ListOrdered'
  BY <1>1, <1>3, <1>5, <1>7 DEF InboxOrdered, ListOrdered
<1>10. SearchIsAhead'
  BY <1>1, <1>3, <1>4, <1>7 DEF SearchIsAhead
<1>11. PushedIsKnown'
  BY <1>1, <1>2, <1>7 DEF PushedIsKnown
<1>12. QED
  BY <1>1, <1>2, <1>3, <1>6, <1>8, <1>9, <1>10, <1>11

LEMMA StepOrder ==
    ASSUME TakenInv, ArrivalOrder, NEW h \in handlers, Step(h)
    PROVE  ArrivalOrder'
<1>1. Do(h.d, h.rest, handlers \ {h}) /\ Beside /\ inbox' = inbox
  BY DEF Step, Beside, server
<1>2. ReceiveTypes
  BY DEF TakenInv
<1>3. NextDone(h) /\ NextMore(h)
  BY <1>1, <1>2, DoNext, DoNextMore
<1>4. seen' = seen /\ used'.lost = used.lost /\ Excepts /\ handlers \ {h} = {} /\ (held' # held => conf.kind[h.d.m] = "album")
  <2>1. handlers \ {h} = {}
    BY DEF ArrivalOrder
  <2>2. QED
    BY <1>1, <1>3, <2>1 DEF Excepts, Beside, NextDone, NextMore
<1>5. /\ FreeOnes' \subseteq FreeOnes /\ adapter' = adapter /\ conf' = conf
      /\ \A m : Waiting(m)' <=> Waiting(m)
      /\ InboxNext' /\ ListNext' /\ InboxOrdered' /\ ListOrdered' /\ SearchIsAhead' /\ PushedIsKnown'
  BY <1>1, <1>4, WaitsOn
<1>6. /\ BusOrdered(bus, FreeOnes) /\ BusFirst /\ HandlerNext
      /\ adapter = "telegram" => \A m \in ToSet(held) : conf.kind[m] = "album"
  BY DEF ArrivalOrder
<1>7. PICK d : d = h.d /\ d.m \in Nat /\ InHandlers(d.m)
  BY <1>2 DEF ReceiveTypes, Delivered, InHandlers
<1>8. BusOrdered(bus, FreeOnes')
  BY <1>5, <1>6, BusOrderedLess
<1>9. bus \in Seq(Turns) /\ held \in Seq(Nat) /\ <<d.m>> \in Turns /\ ToSet(<<d.m>>) = {d.m} /\ <<d.m>> \in Seq(Nat) /\ Len(<<d.m>>) = 1
  BY <1>2, <1>7, OneId DEF ReceiveTypes
<1>10. (\A x, k \in handlers : x = k)' /\ \A m : InHandlers(m)' => InHandlers(m)
  <2>1. handlers' = {} \/ \E r \in RestsOf : handlers' = {[d |-> h.d, rest |-> r]}
    BY <1>3, <1>4 DEF NextDone
  <2>2. CASE handlers' = {}
    BY <2>2 DEF InHandlers
  <2>3. CASE \E r \in RestsOf : handlers' = {[d |-> h.d, rest |-> r]}
    <3>1. PICK x : x.d = d /\ handlers' = {x}
      BY <1>7, <2>3
    <3>2. QED
      BY <1>7, <3>1 DEF InHandlers
  <2>4. QED
    BY <2>1, <2>2, <2>3
<1>11. (adapter = "telegram" => \A m \in ToSet(held) : conf.kind[m] = "album")'
  <2>1. CASE held' = held
    BY <1>5, <1>6, <2>1
  <2>2. CASE held' # held
    <3>1. held' = Append(held, d.m) /\ conf.kind[d.m] = "album"
      BY <1>3, <1>4, <1>7, <2>2 DEF NextDone
    <3>2. ToSet(held') = ToSet(held) \cup {d.m}
      BY <1>7, <1>9, <3>1, IdAppended
    <3>3. QED
      BY <1>5, <1>6, <3>1, <3>2
  <2>3. QED
    BY <2>1, <2>2
<1>12. CASE bus' = bus
  <2>1. BusOrdered(bus, FreeOnes)'
    BY <1>8, <1>12 DEF BusOrdered
  <2>2. \A m : OnBus(m)' <=> OnBus(m)
    BY <1>12 DEF OnBus
  <2>3. BusFirst' /\ HandlerNext'
    BY <1>5, <1>6, <1>10, <2>2 DEF BusFirst, HandlerNext
  <2>4. QED
    BY <1>5, <1>10, <1>11, <2>1, <2>3 DEF ArrivalOrder
<1>13. CASE bus' = Append(bus, <<d.m>>) /\ handlers' = {}
  <2>1. \A x, y \in FreeOnes' : On(bus, x) /\ y \in ToSet(<<d.m>>) => x < y
    BY <1>5, <1>6, <1>7, <1>9 DEF OnBus, BusFirst
  <2>2. \A x, y \in DOMAIN <<d.m>> : ~ (x < y)
    <3>1. DOMAIN <<d.m>> = 1..1 /\ \A x, y \in 1..1 : ~ (x < y)
      BY <1>9, IdsAre
    <3>2. QED
      BY <3>1
  <2>3. BusOrdered(Append(bus, <<d.m>>), FreeOnes')
    BY <1>8, <1>9, <2>1, <2>2, BusOrderedAppended
  <2>4. BusOrdered(bus, FreeOnes)'
    BY <1>13, <2>3 DEF BusOrdered
  <2>5. \A m : On(Append(bus, <<d.m>>), m) <=> On(bus, m) \/ m = d.m
    BY <1>9, TurnAppended
  <2>6. \A m : (OnBus(m)' <=> OnBus(m) \/ m = d.m) /\ ~InHandlers(m)'
    BY <1>13, <2>5 DEF OnBus, InHandlers
  <2>7. BusFirst' /\ HandlerNext'
    BY <1>5, <1>6, <1>7, <2>6 DEF BusFirst, HandlerNext
  <2>8. QED
    BY <1>5, <1>10, <1>11, <2>4, <2>7 DEF ArrivalOrder
<1>14. QED
  BY <1>3, <1>4, <1>7, <1>12, <1>13 DEF NextDone

LEMMA FlushOrder ==
    ASSUME TakenInv, ArrivalOrder, adapter \in OneByOne, Flush
    PROVE  ArrivalOrder'
<1>1. /\ held # <<>> /\ bus' = Append(bus, held) /\ held' = <<>> /\ inbox' = inbox /\ handlers' = handlers /\ seen' = seen
      /\ used' = used /\ Beside
  BY DEF Flush, server, state, Beside
<1>2. ReceiveTypes /\ adapter = "telegram"
  BY <1>1 DEF TakenInv, PartsUsed, OneByOne
<1>3. Excepts
  BY <1>1 DEF Excepts, Beside
<1>4. /\ FreeOnes' \subseteq FreeOnes /\ adapter' = adapter /\ conf' = conf
      /\ \A m : Waiting(m)' <=> Waiting(m)
      /\ InboxNext' /\ ListNext' /\ InboxOrdered' /\ ListOrdered' /\ SearchIsAhead' /\ PushedIsKnown'
  BY <1>1, <1>3, WaitsOn
<1>5. /\ BusOrdered(bus, FreeOnes) /\ BusFirst /\ HandlerNext /\ (\A h, k \in handlers : h = k)
      /\ \A m \in ToSet(held) : conf.kind[m] = "album"
  BY <1>2 DEF ArrivalOrder
<1>6. \A m \in ToSet(held) : m \notin FreeOnes'
  BY <1>4, <1>5 DEF FreeOnes, Free
<1>7. bus \in Seq(Turns) /\ held \in Turns
  BY <1>1, <1>2 DEF ReceiveTypes, Turns
<1>8. BusOrdered(bus, FreeOnes')
  BY <1>4, <1>5, BusOrderedLess
<1>9. \A x, y \in FreeOnes' : On(bus, x) /\ y \in ToSet(held) => x < y
  BY <1>6
<1>10. \A x, y \in DOMAIN held : x < y /\ held[x] \in FreeOnes' /\ held[y] \in FreeOnes' => held[x] < held[y]
  BY <1>6 DEF ToSet
<1>11. BusOrdered(Append(bus, held), FreeOnes')
  BY <1>7, <1>8, <1>9, <1>10, BusOrderedAppended
<1>12. BusOrdered(bus, FreeOnes)'
  BY <1>1, <1>11 DEF BusOrdered
<1>13. \A m : On(Append(bus, held), m) <=> On(bus, m) \/ m \in ToSet(held)
  BY <1>7, TurnAppended
<1>14. /\ \A m \in FreeOnes' : OnBus(m)' => OnBus(m)
       /\ \A m : InHandlers(m)' <=> InHandlers(m)
  BY <1>1, <1>6, <1>13 DEF OnBus, InHandlers
<1>15. BusFirst' /\ HandlerNext'
  BY <1>4, <1>5, <1>14 DEF BusFirst, HandlerNext
<1>16. (\A h, k \in handlers : h = k)' /\ (adapter = "telegram" => \A m \in ToSet(held) : conf.kind[m] = "album")'
  BY <1>1, <1>5, NoIds
<1>17. QED
  BY <1>4, <1>12, <1>15, <1>16 DEF ArrivalOrder

\* Steps that leave the fetch alone.
LEMMA SameSearch ==
    ASSUME SearchIsFresh, fetch' = fetch, flagged' = flagged
    PROVE  SearchIsFresh'
BY DEF SearchIsFresh

LEMMA InitOnce ==
    ASSUME Init
    PROVE  OnceInv
<1>1. /\ pushes = [m \in Messages |-> 0]
      /\ inbox = <<>> /\ handlers = {} /\ fetch = NoFetch /\ held = <<>> /\ bus = <<>>
  BY DEF Init
<1>2. /\ DOMAIN inbox = {} /\ DOMAIN bus = {} /\ ToSet(inbox) = {} /\ ToSet(held) = {}
      /\ fetch.on = "no" /\ fetch.todo = <<>> /\ fetch.list = <<>> /\ fetch.mark = 0
      /\ ToSet(fetch.list) = {} /\ DOMAIN fetch.list = {}
  BY <1>1, NoIds, NoDeliveries DEF NoFetch
<1>3. \A m : ~OnBus(m) /\ ~InHandlers(m) /\ ~InInbox(m)
  BY <1>1, <1>2 DEF OnBus, On, InHandlers, InInbox
<1>4. Once
  BY <1>1, <1>2, <1>3 DEF Once, OnePlace, OneTurn, OneHandler, OneDelivery, Accepted
<1>5. SearchIsFresh
  BY <1>2, NothingRises DEF SearchIsFresh
<1>6. BusOrdered(bus, FreeOnes)
  BY <1>2 DEF BusOrdered
<1>7. BusFirst /\ HandlerNext /\ InboxNext /\ InboxOrdered
  BY <1>2, <1>3 DEF BusFirst, HandlerNext, InboxNext, InboxOrdered
<1>8. ListNext /\ ListOrdered /\ SearchIsAhead
  BY <1>2 DEF ListNext, ListOrdered, SearchIsAhead
<1>9. PushedIsKnown
  <2>1. \A m \in Messages : ~ (0 < pushes[m])
    BY <1>1
  <2>2. QED
    BY <2>1 DEF PushedIsKnown
<1>10. ArrivalOrder
  BY <1>1, <1>2, <1>6, <1>7, <1>8, <1>9 DEF ArrivalOrder
<1>11. QED
  BY <1>4, <1>5, <1>10 DEF OnceInv

\* Every step keeps OnceInv.
LEMMA NextOnce ==
    ASSUME TakenInv, OnceInv, [Next]_vars
    PROVE  OnceInv'
<1>1. Once /\ SearchIsFresh /\ (adapter \in OneByOne => ArrivalOrder)
  BY DEF OnceInv
<1>2. IsInjective(fetch.list)
  BY <1>1 DEF SearchIsFresh
<1>3. SUFFICES Once' /\ SearchIsFresh' /\ (adapter \in OneByOne => ArrivalOrder')
  <2>1. adapter' = adapter
    BY DEF Next, vars, server, state, adapter, Posts, LinkChanges, Push, Notify, Handles, Begin, Step, Flush,
           Asks, WeixinPoll, MatrixSync, MatrixStored, TelegramUpdates, EmailSearch, Answers,
           Fetches, EmailFetchOne, EmailMark, EmailHandsOver, EmailSkips, EmailGoesStale, EmailBreaks,
           SessionPayload, PanelPayload, SaveCursors, Restart
  <2>2. QED
    BY <2>1 DEF OnceInv, OneByOne
<1>4. CASE Posts \/ LinkChanges \/ MatrixStored \/ SaveCursors \/ UNCHANGED vars
  <2>1. Quiet
    BY <1>4, QuietSteps
  <2>2. fetch' = fetch /\ flagged' = flagged
    BY <2>1 DEF Quiet
  <2>3. QED
    BY <1>1, <2>1, <2>2, QuietOnce, SameSearch, CalmOrder DEF Quiet, Calm
<1>5. ASSUME NEW m \in Messages, Push(m)
      PROVE  Once' /\ SearchIsFresh' /\ (adapter \in OneByOne => ArrivalOrder')
  <2>1. fetch' = fetch /\ flagged' = flagged
    BY <1>5 DEF Push, state
  <2>2. QED
    BY <1>1, <1>5, <2>1, PushOnce, SameSearch, PushOrder
<1>6. ASSUME NEW m \in Messages, Notify(m)
      PROVE  Once' /\ SearchIsFresh' /\ (adapter \in OneByOne => ArrivalOrder')
  <2>1. fetch' = fetch /\ flagged' = flagged /\ adapter \notin OneByOne
    BY <1>6 DEF Notify, OneByOne
  <2>2. QED
    BY <1>1, <1>6, <2>1, NotifyOnce, SameSearch
<1>7. CASE Begin
  <2>1. fetch' = fetch /\ flagged' = flagged
    BY <1>7 DEF Begin, server
  <2>2. QED
    BY <1>1, <1>7, <2>1, BeginOnce, SameSearch, BeginOrder
<1>8. ASSUME NEW h \in handlers, Step(h)
      PROVE  Once' /\ SearchIsFresh' /\ (adapter \in OneByOne => ArrivalOrder')
  <2>1. fetch' = fetch /\ flagged' = flagged
    BY <1>8 DEF Step, server
  <2>2. QED
    BY <1>1, <1>8, <2>1, StepOnce, SameSearch, StepOrder
<1>9. CASE Flush
  <2>1. fetch' = fetch /\ flagged' = flagged
    BY <1>9 DEF Flush, server, state
  <2>2. QED
    BY <1>1, <1>9, <2>1, FlushOnce, SameSearch, FlushOrder
<1>10. CASE WeixinPoll \/ MatrixSync \/ TelegramUpdates
  <2>1. Polls
    BY <1>10, PollsAre DEF TakenInv
  <2>2. fetch' = fetch /\ flagged' = flagged
    BY <2>1 DEF Polls
  <2>3. QED
    BY <1>1, <2>1, <2>2, PollsOnce, SameSearch, PollsOrder
<1>11. CASE EmailSearch
  BY <1>1, <1>11, SearchMoves, MailOnce, SearchOrder
<1>12. CASE EmailFetchOne
  BY <1>1, <1>12, FetchOneMoves, MailOnce, FetchOneOrder
<1>13. CASE EmailMark
  BY <1>1, <1>13, MarkMoves, MailOnce, MarkOrder
<1>14. CASE EmailHandsOver
  BY <1>1, <1>2, <1>14, HandsOverIs, HandedOverOnce, HandedOverOrder
<1>15. CASE EmailSkips
  BY <1>1, <1>15, SkipsMoves, MailOnce, SkipsOrder
<1>16. CASE EmailGoesStale
  BY <1>1, <1>16, GoesStaleMoves, MailOnce, GoesStaleOrder
<1>17. CASE EmailBreaks
  BY <1>1, <1>17, BreaksMoves, MailOnce, BreaksOrder
<1>18. CASE Answers
  <2>1. Calm
    BY <1>18 DEF Answers, server, Calm
  <2>2. fetch' = fetch /\ flagged' = flagged
    BY <2>1 DEF Calm
  <2>3. QED
    BY <1>1, <1>18, <2>1, <2>2, AnswersOnce, SameSearch, CalmOrder
<1>19. ASSUME NEW p \in flight, SessionPayload(p) \/ PanelPayload(p)
       PROVE  Once' /\ SearchIsFresh' /\ (adapter \in OneByOne => ArrivalOrder')
  <2>1. fetch' = fetch /\ flagged' = flagged /\ adapter \notin OneByOne
    BY <1>19 DEF SessionPayload, PanelPayload, server, OneByOne
  <2>2. QED
    BY <1>1, <1>19, <2>1, SessionPayloadOnce, PanelPayloadOnce, SameSearch
<1>20. ASSUME NEW graceful \in BOOLEAN, Restart(graceful)
       PROVE  Once' /\ SearchIsFresh' /\ (adapter \in OneByOne => ArrivalOrder')
  <2>1. PICK s : Restarted(s)
    BY <1>20, RestartIs
  <2>2. fetch'.todo = <<>> /\ fetch'.list = <<>> /\ fetch'.mark = 0
    BY <2>1 DEF Restarted, NoFetch
  <2>3. SearchIsFresh'
    BY <2>2, NothingRises DEF SearchIsFresh
  <2>4. QED
    BY <1>1, <2>1, <2>3, RestartOnce, RestartOrder
<1>21. QED
  BY <1>4, <1>5, <1>6, <1>7, <1>8, <1>9, <1>10, <1>11, <1>12, <1>13, <1>14, <1>15, <1>16, <1>17, <1>18, <1>19, <1>20
     DEF Next, Handles, Asks, Fetches

\* No message makes two turns, and those of adapters that take one by one make turns in the
\* order in which they were written, but for those that a restart, a full memory or a mail that
\* was skipped may repeat or put late (channels/*.py).
THEOREM OnceInOrderAlways == Spec => []OnceInOrder
<1>1. Init => TakenInv /\ OnceInv
  BY InitTaken, InitOnce
<1>2. TakenInv /\ OnceInv /\ [Next]_vars => TakenInv' /\ OnceInv'
  BY NextTaken, NextOnce
<1>3. TakenInv /\ OnceInv => OnceInOrder
  BY OnceHolds
<1>4. QED
  BY <1>1, <1>2, <1>3, PTL DEF Spec

\* The same beside the other half of the model, which sends.
THEOREM OnceInOrderBesideSending == MCSpec => []OnceInOrder
<1>1. MCInit => TakenInv /\ OnceInv
  BY InitTaken, InitOnce DEF MCInit, ReceiveRests
<1>2. TakenInv /\ OnceInv /\ [MCNext]_mc => TakenInv' /\ OnceInv'
  <2>1. [MCNext]_mc => [Next]_vars
    BY DEF MCNext, Receive, Sends, mc
  <2>2. QED
    BY <2>1, NextTaken, NextOnce
<1>3. TakenInv /\ OnceInv => OnceInOrder
  BY OnceHolds
<1>4. QED
  BY <1>1, <1>2, <1>3, PTL DEF MCSpec

=============================================================================
