-------------------------- MODULE MobileChatProofs --------------------------
(***************************************************************************)
(* A chat screen of the mobile app shows one conversation of the server,   *)
(* for any number of prompts, conversations and calls in flight.  A turn   *)
(* is stored in one conversation, its home, decided when its prompt is     *)
(* sent; what is stored, answered, loaded or shown of it must agree.  From *)
(* that, and from what the composer and the calls of the screen hold (the  *)
(* last section), the state is of its type.                                *)
(***************************************************************************)
EXTENDS MobileChat, SequenceTheorems, FiniteSetTheorems, TLAPS

Ids == Turns \cup {Nobody}

\* What the states are made of, as far as the conversations go.
PageShape(p) ==
    /\ p = [at |-> p.at, items |-> p.items, refreshing |-> p.refreshing, asking |-> p.asking,
            chat |-> p.chat, turns |-> p.turns, hasty |-> p.hasty]
    /\ p.turns \in Nat /\ p.hasty \in BOOLEAN
ChatShape(c) ==
    /\ c = [initialId |-> c.initialId, conversationId |-> c.conversationId,
            messages |-> c.messages, typed |-> c.typed, attachments |-> c.attachments,
            uploading |-> c.uploading, streaming |-> c.streaming,
            selectedModel |-> c.selectedModel, picker |-> c.picker, began |-> c.began]
    /\ c.messages \in Seq(Row) /\ c.streaming \in BOOLEAN
    /\ c.initialId \in Ids /\ c.conversationId \in Ids
ServerShape(s) ==
    /\ s = [exists |-> s.exists, rows |-> s.rows, dropped |-> s.dropped]
    /\ s.rows \in [Turns -> Seq(Row)] /\ s.exists \subseteq Turns

Shapes == PageShape(page) /\ ChatShape(page.chat) /\ ServerShape(server) /\ DOMAIN net = Kinds

\* Rows of turns there were, at home in conversation k.
AtHome(home, rows, k, n) == \A r \in ToSet(rows) : r.turn <= n /\ home[r.turn] = k

\* A prompt on its way: to.conv names the conversation it was sent to.
PromptFits(home, c, n) ==
    /\ c.to = [turn |-> c.to.turn, conv |-> c.to.conv, mine |-> c.to.mine]
    /\ c.to.turn \in Turns /\ c.to.turn <= n /\ c.to.conv \in Ids /\ c.to.mine \in BOOLEAN
    /\ home[c.to.turn] = IF c.to.conv = Nobody THEN c.to.turn ELSE c.to.conv
    /\ \/ c.phase \in {"sent", "failed"} /\ c = [to |-> c.to, phase |-> c.phase]
       \/ /\ c.phase \in {"opened", "past"}
          /\ c = [to |-> c.to, phase |-> c.phase, conv |-> home[c.to.turn]]
       \/ /\ c.phase = "answered"
          /\ c = [to |-> c.to, phase |-> c.phase, ans |-> home[c.to.turn]]

LoadFits(home, c, n) ==
    \/ c.phase \in {"sent", "failed"} /\ c = [to |-> c.to, phase |-> c.phase]
    \/ /\ c.phase = "answered" /\ c = [to |-> c.to, phase |-> c.phase, ans |-> c.ans]
       /\ c.ans \in Seq(Row) /\ AtHome(home, c.ans, c.to, n)

\* What the server has and what is on its way: no screen is needed to say it.
Stores(home) ==
    /\ \A k \in Turns : AtHome(home, server.rows[k], k, page.turns)
    /\ \A c \in net["chat"] : PromptFits(home, c, page.turns)
    /\ \A c \in net["load"] : LoadFits(home, c, page.turns)

AtMostOne(calls) == \A c, d \in calls : c = d

\* A named conversation stays the one it is; one prompt of the screen is under way, and
\* then no balance is.
Screened ==
    /\ page.chat.initialId # Nobody => page.chat.conversationId = page.chat.initialId
    /\ \A c \in net["load"] : c.to = page.chat.initialId /\ c.to # Nobody
    /\ \A c \in net["chat"] : c.to.mine =>
          page.chat.streaming /\ c.to.conv = page.chat.conversationId /\ net["wallet"] = {}
    /\ \A c, d \in net["chat"] : c.to.mine /\ d.to.mine => c = d
    /\ AtMostOne(net["wallet"]) /\ (net["wallet"] # {} => page.chat.streaming)
    /\ page.at # "chat" => /\ net["load"] = {} /\ net["wallet"] = {}
                           /\ \A c \in net["chat"] : ~c.to.mine

\* The rows that are shown have their home here; or it is a first prompt, whose answer
\* will tell.
Shown(home) ==
    /\ \A r \in ToSet(page.chat.messages) : r.turn <= page.turns
    /\ ~page.hasty => \A r \in ToSet(page.chat.messages) :
          \/ home[r.turn] = page.chat.conversationId
          \/ /\ page.chat.conversationId = Nobody /\ r.who = "user"
             /\ \A c \in net["chat"] : c.to.mine => c.to.turn = r.turn

Holds(home) == Shapes /\ Stores(home) /\ Screened /\ Shown(home)

\* The inductive invariant.
ChatInv == \E home \in [Turns -> Turns] : Holds(home)

-----------------------------------------------------------------------------
(* Rows                                                                     *)

LEMMA ToSetAppend ==
    ASSUME NEW s \in Seq(Row), NEW e \in Row
    PROVE  Append(s, e) \in Seq(Row) /\ ToSet(Append(s, e)) = ToSet(s) \cup {e}
<1>1. Append(s, e) \in Seq(Row) /\ DOMAIN Append(s, e) = 1 .. Len(s) + 1 /\ DOMAIN s = 1 .. Len(s)
  OBVIOUS
<1>2. \A i \in 1 .. Len(s) : Append(s, e)[i] = s[i]
  OBVIOUS
<1>3. Append(s, e)[Len(s) + 1] = e
  OBVIOUS
<1>4. Len(s) \in Nat
  OBVIOUS
<1>5. 1 .. Len(s) + 1 = 1 .. Len(s) \cup {Len(s) + 1}
  BY <1>4
<1> QED  BY <1>1, <1>2, <1>3, <1>5 DEF ToSet

LEMMA ToSetEmpty == <<>> \in Seq(Row) /\ ToSet(<<>>) = {}
<1>1. DOMAIN <<>> = {}
  OBVIOUS
<1> QED  BY <1>1 DEF ToSet

LEMMA RowOf ==
    ASSUME NEW t \in Turns, NEW w \in {"user", "assistant"}
    PROVE  [turn |-> t, who |-> w] \in Row
BY DEF Row

LEMMA SeqRow ==
    ASSUME NEW s \in Seq(Row), NEW r \in ToSet(s)
    PROVE  r \in Row /\ r.turn \in Turns
<1>1. r \in Row
  BY DEF ToSet
<1> QED  BY <1>1 DEF Row

-----------------------------------------------------------------------------
(* Steps that are not about a conversation                                  *)

SameChat(c, d) ==
    /\ d.initialId = c.initialId /\ d.conversationId = c.conversationId
    /\ d.messages = c.messages /\ d.streaming = c.streaming
SamePage ==
    /\ PageShape(page') /\ page'.at = page.at /\ page'.turns = page.turns
    /\ page'.hasty = page.hasty
    /\ ChatShape(page'.chat) /\ SameChat(page.chat, page'.chat)

\* Calls of the other kinds come and go; what the balance tells is whether there is one.
SameCalls ==
    /\ DOMAIN net' = Kinds /\ net'["chat"] = net["chat"] /\ net'["load"] \subseteq net["load"]
    /\ net'["wallet"] = {} <=> net["wallet"] = {}
    /\ AtMostOne(net["wallet"]) => AtMostOne(net'["wallet"])

LEMMA Elsewhere ==
    ASSUME NEW home \in [Turns -> Turns], Holds(home), SamePage, SameCalls, UNCHANGED server
    PROVE  Holds(home)'
<1>1. Shapes'
  BY DEF Holds, Shapes, SamePage, SameCalls
<1>2. Stores(home)'
  BY DEF Holds, Stores, SamePage, SameCalls
<1>3. Screened'
  BY DEF Holds, Screened, SamePage, SameCalls, SameChat
<1>4. Shown(home)'
  BY DEF Holds, Shown, SamePage, SameChat, SameCalls
<1> QED  BY <1>1, <1>2, <1>3, <1>4 DEF Holds

Others == {"list", "delete", "models", "upload"}

LEMMA OtherCalls ==
    ASSUME DOMAIN net = Kinds, NEW k \in Others, NEW v, net' = [net EXCEPT ![k] = v]
    PROVE  SameCalls
BY DEF SameCalls, Kinds, ListKinds, ChatKinds, Others

LEMMA OtherMoves ==
    ASSUME DOMAIN net = Kinds, NEW k \in Others, NEW a,
           Ask(k, a) \/ (\E c : Take(k, c) \/ Refuse(k, c) \/ \E v : Answer(k, c, v))
    PROVE  SameCalls
BY OtherCalls DEF Ask, Asking, Take, Without, Refuse, Answer

LEMMA PageStays ==
    ASSUME Shapes, UNCHANGED page  PROVE SamePage
BY DEF Shapes, SamePage, SameChat

LEMMA NetStays ==
    ASSUME Shapes, UNCHANGED net  PROVE SameCalls
BY DEF Shapes, SameCalls

\* The list and its alert.
LEMMA ListStays ==
    ASSUME Shapes, NEW x, NEW y,
           \/ page' = [page EXCEPT !.refreshing = x, !.items = y]
           \/ page' = [page EXCEPT !.refreshing = x] \/ page' = [page EXCEPT !.asking = x]
    PROVE  SamePage
<1>1. PageShape(page) /\ ChatShape(page.chat)
  BY DEF Shapes
<1>2. PageShape(page') /\ page'.at = page.at /\ page'.turns = page.turns
      /\ page'.hasty = page.hasty /\ page'.chat = page.chat
  BY <1>1 DEF PageShape
<1> QED  BY <1>1, <1>2 DEF SamePage, SameChat

\* What surrounds the messages.
LEMMA ChatStays ==
    ASSUME Shapes, NEW d, ChatShape(d), SameChat(page.chat, d), page' = In(d)
    PROVE  SamePage
<1>1. page' = [at |-> page.at, items |-> page.items, refreshing |-> page.refreshing,
               asking |-> page.asking, chat |-> d, turns |-> page.turns, hasty |-> page.hasty]
  BY DEF Shapes, PageShape, In
<1> QED  BY <1>1 DEF Shapes, SamePage, PageShape

LEMMA Decorated ==
    ASSUME NEW c, ChatShape(c), NEW v, NEW d,
           \/ d = [c EXCEPT !.typed = v] \/ d = [c EXCEPT !.attachments = v]
           \/ d = [c EXCEPT !.uploading = v] \/ d = [c EXCEPT !.selectedModel = v]
           \/ d = [c EXCEPT !.picker = v] \/ d = [c EXCEPT !.began = v]
    PROVE  ChatShape(d) /\ SameChat(c, d)
BY DEF ChatShape, SameChat

LEMMA ListSteps ==
    ASSUME NEW home \in [Turns -> Turns], Holds(home),
           \/ DeliverItems \/ DeliverDelete \/ Reload \/ AnswerDelete
           \/ \E id \in Turns : LongPress(id)
    PROVE  Holds(home)'
<1>1. Shapes /\ DOMAIN net = Kinds /\ UNCHANGED server
  BY DEF Holds, Shapes, DeliverItems, DeliverDelete, Reload, AnswerDelete, LongPress, OnlyPage
<1>2. SamePage
  <2>1. CASE DeliverItems
    BY <1>1, <2>1, ListStays DEF DeliverItems
  <2>2. CASE DeliverDelete \/ Reload
    BY <1>1, <2>2, ListStays, PageStays DEF DeliverDelete, Reload
  <2>3. CASE AnswerDelete \/ \E id \in Turns : LongPress(id)
    BY <1>1, <2>3, ListStays DEF AnswerDelete, LongPress
  <2> QED  BY <2>1, <2>2, <2>3
<1>3. SameCalls
  <2>1. CASE DeliverItems \/ Reload
    BY <1>1, <2>1, OtherMoves DEF DeliverItems, Reload, Others
  <2>2. CASE AnswerDelete \/ \E id \in Turns : LongPress(id)
    BY <1>1, <2>2, OtherMoves, NetStays DEF AnswerDelete, LongPress, Others
  <2>3. CASE DeliverDelete
    <3>1. PICK c : \/ Take("delete", c)
                   \/ net' = Asking(Without(net, "delete", c), "list", Nobody)
      BY <2>3 DEF DeliverDelete
    <3>2. CASE net' = Asking(Without(net, "delete", c), "list", Nobody)
      BY <1>1, <3>2 DEF Asking, Without, SameCalls, Kinds, ListKinds, ChatKinds
    <3> QED  BY <1>1, <3>1, <3>2, OtherMoves DEF Others
  <2> QED  BY <2>1, <2>2, <2>3
<1> QED  BY <1>1, <1>2, <1>3, Elsewhere

LEMMA ComposerSteps ==
    ASSUME NEW home \in [Turns -> Turns], Holds(home),
           \/ DeliverModels \/ DeliverUpload \/ OpenPicker \/ ClosePicker
           \/ TypeText \/ PickImage \/ RemoveAttachment
    PROVE  Holds(home)'
<1>1. Shapes /\ DOMAIN net = Kinds /\ ChatShape(page.chat)
  BY DEF Holds, Shapes
<1>2. UNCHANGED server
  BY DEF DeliverModels, DeliverUpload, OpenPicker, ClosePicker, TypeText, PickImage,
         RemoveAttachment, OnlyPage
<1>3. SameCalls
  BY <1>1, OtherMoves, NetStays
     DEF DeliverModels, DeliverUpload, OpenPicker, ClosePicker, TypeText, PickImage,
         RemoveAttachment, Others
<1>4. SamePage
  <2>1. CASE DeliverModels
    BY <1>1, <2>1, Decorated, ChatStays, PageStays DEF DeliverModels
  <2>2. CASE OpenPicker \/ TypeText
    BY <1>1, <2>2, Decorated, ChatStays DEF OpenPicker, TypeText
  <2>3. CASE PickImage \/ RemoveAttachment
    BY <1>1, <2>3, Decorated, ChatStays DEF PickImage, RemoveAttachment
  <2>4. CASE ClosePicker
    <3>1. PICK m : page' = In([page.chat EXCEPT !.picker = FALSE, !.selectedModel = m])
      BY <2>4 DEF ClosePicker
    <3> DEFINE d == [page.chat EXCEPT !.picker = FALSE]
               e == [d EXCEPT !.selectedModel = m]
    <3>2. ChatShape(d) /\ SameChat(page.chat, d)
      BY <1>1, Decorated
    <3>3. ChatShape(e) /\ SameChat(d, e)
      <4> HIDE DEF d
      <4> QED  BY <3>2, Decorated
    <3> HIDE DEF d
    <3>4. page' = In(e)
      BY <3>1 DEF d
    <3> HIDE DEF e
    <3> QED  BY <1>1, <3>2, <3>3, <3>4, ChatStays DEF SameChat
  <2>5. CASE DeliverUpload
    <3>1. PICK a : page' = In([page.chat EXCEPT !.uploading = FALSE, !.attachments = a])
      BY <2>5 DEF DeliverUpload
    <3> DEFINE d == [page.chat EXCEPT !.uploading = FALSE]
               e == [d EXCEPT !.attachments = a]
    <3>2. ChatShape(d) /\ SameChat(page.chat, d)
      BY <1>1, Decorated
    <3>3. ChatShape(e) /\ SameChat(d, e)
      <4> HIDE DEF d
      <4> QED  BY <3>2, Decorated
    <3> HIDE DEF d
    <3>4. page' = In(e)
      BY <3>1 DEF d
    <3> HIDE DEF e
    <3> QED  BY <1>1, <3>2, <3>3, <3>4, ChatStays DEF SameChat
  <2> QED  BY <2>1, <2>2, <2>3, <2>4, <2>5
<1> QED  BY <1>2, <1>3, <1>4, Elsewhere

-----------------------------------------------------------------------------
(* The messages of a conversation                                           *)

LEMMA LoadMoves ==
    ASSUME NEW home \in [Turns -> Turns], Holds(home), UNCHANGED <<page, server>>,
           NEW c \in net["load"], NEW d, d.to = c.to, LoadFits(home, d, page.turns),
           net' = [net EXCEPT !["load"] = (@ \ {c}) \cup {d}]
    PROVE  Holds(home)'
<1>1. /\ DOMAIN net' = Kinds /\ net'["chat"] = net["chat"] /\ net'["wallet"] = net["wallet"]
      /\ net'["load"] = (net["load"] \ {c}) \cup {d}
  BY DEF Holds, Shapes, Kinds, ListKinds, ChatKinds
<1>2. Shapes'
  BY <1>1 DEF Holds, Shapes
<1>3. Stores(home)'
  BY <1>1 DEF Holds, Stores
<1>4. Screened'
  BY <1>1 DEF Holds, Screened
<1>5. Shown(home)'
  BY <1>1 DEF Holds, Shown
<1> QED  BY <1>2, <1>3, <1>4, <1>5 DEF Holds

LEMMA LoadServed ==
    ASSUME NEW home \in [Turns -> Turns], Holds(home), UNCHANGED <<page, server>>,
           NEW c \in net["load"], Answer("load", c, server.rows[c.to]) \/ Refuse("load", c)
    PROVE  Holds(home)'
<1>1. CASE Refuse("load", c)
  <2>1. PICK d : d = [to |-> c.to, phase |-> "failed"]
    OBVIOUS
  <2>2. d.to = c.to /\ LoadFits(home, d, page.turns)
    BY <2>1 DEF LoadFits
  <2>3. net' = [net EXCEPT !["load"] = (@ \ {c}) \cup {d}]
    BY <1>1, <2>1 DEF Refuse
  <2> QED  BY <2>2, <2>3, LoadMoves
<1>2. CASE Answer("load", c, server.rows[c.to])
  <2>1. PICK d : d = [to |-> c.to, phase |-> "answered", ans |-> server.rows[c.to]]
    OBVIOUS
  <2>2. c.to \in Turns
    BY DEF Holds, Screened, Shapes, ChatShape, Ids
  <2>3. server.rows[c.to] \in Seq(Row) /\ AtHome(home, server.rows[c.to], c.to, page.turns)
    BY <2>2 DEF Holds, Stores, Shapes, ServerShape
  <2>4. d.to = c.to /\ d.ans = server.rows[c.to] /\ d.phase = "answered"
        /\ d = [to |-> d.to, phase |-> d.phase, ans |-> d.ans]
    BY <2>1
  <2>5. LoadFits(home, d, page.turns)
    BY <2>3, <2>4 DEF LoadFits
  <2>6. net' = [net EXCEPT !["load"] = (@ \ {c}) \cup {d}]
    BY <1>2, <2>1 DEF Answer
  <2> QED  BY <2>4, <2>5, <2>6, LoadMoves
<1> QED  BY <1>1, <1>2

LEMMA MountedHolds ==
    ASSUME NEW home \in [Turns -> Turns], Holds(home), Mounted  PROVE Holds(home)'
<1>1. page.at = "chat" /\ page' = In([page.chat EXCEPT !.began = TRUE]) /\ UNCHANGED server
  BY DEF Mounted, OnlyPage
<1>2. SamePage
  BY <1>1, Decorated, ChatStays DEF Holds, Shapes
<1>3. /\ DOMAIN net' = Kinds /\ net'["chat"] = net["chat"] /\ net'["wallet"] = net["wallet"]
      /\ \/ net'["load"] = net["load"]
         \/ /\ page.chat.initialId # Nobody
            /\ net'["load"] = net["load"] \cup {Sent(page.chat.initialId)}
  BY DEF Mounted, Asking, Holds, Shapes, Kinds, ListKinds, ChatKinds
<1>4. CASE net'["load"] = net["load"]
  BY <1>1, <1>2, <1>3, <1>4, Elsewhere DEF SameCalls
<1>5. CASE /\ page.chat.initialId # Nobody
           /\ net'["load"] = net["load"] \cup {Sent(page.chat.initialId)}
  <2>1. PICK d : d = Sent(page.chat.initialId)
    OBVIOUS
  <2>2. d.to = page.chat.initialId /\ LoadFits(home, d, page.turns)
    BY <2>1 DEF Sent, LoadFits
  <2>3. Shapes'
    BY <1>1, <1>2, <1>3 DEF Holds, Shapes, SamePage
  <2>4. Stores(home)'
    BY <1>1, <1>2, <1>3, <1>5, <2>1, <2>2 DEF Holds, Stores, SamePage
  <2>5. Screened'
    BY <1>1, <1>2, <1>3, <1>5, <2>1, <2>2 DEF Holds, Screened, SamePage, SameChat
  <2>6. Shown(home)'
    BY <1>2, <1>3 DEF Holds, Shown, SamePage, SameChat
  <2> QED  BY <2>3, <2>4, <2>5, <2>6 DEF Holds
<1> QED  BY <1>3, <1>4, <1>5

\* A screen that shows other messages: the calls are those there were, but for some.
LEMMA Shows ==
    ASSUME NEW home \in [Turns -> Turns], Holds(home), UNCHANGED server,
           NEW ms \in Seq(Row), page' = In([page.chat EXCEPT !.messages = ms]),
           AtHome(home, ms, page.chat.conversationId, page.turns),
           DOMAIN net' = Kinds, net'["chat"] = net["chat"], net'["load"] \subseteq net["load"],
           net'["wallet"] = net["wallet"]
    PROVE  Holds(home)'
<1>1. PageShape(page) /\ ChatShape(page.chat) /\ ServerShape(server)
  BY DEF Holds, Shapes
<1>2. PICK d : d = [page.chat EXCEPT !.messages = ms]
  OBVIOUS
<1>3. /\ ChatShape(d) /\ d.messages = ms /\ d.initialId = page.chat.initialId
      /\ d.conversationId = page.chat.conversationId /\ d.streaming = page.chat.streaming
  BY <1>1, <1>2 DEF ChatShape
<1>4. page' = [page EXCEPT !.chat = d]
  BY <1>2 DEF In
<1>5. /\ PageShape(page') /\ page'.chat = d /\ page'.at = page.at /\ page'.turns = page.turns
      /\ page'.hasty = page.hasty
  BY <1>1, <1>4 DEF PageShape
<1>6. Shapes'
  BY <1>1, <1>3, <1>5 DEF Shapes
<1>7. Stores(home)'
  BY <1>5 DEF Holds, Stores
<1>8. Screened'
  BY <1>3, <1>5 DEF Holds, Screened
<1>9. Shown(home)'
  BY <1>3, <1>5 DEF Shown, AtHome
<1> QED  BY <1>6, <1>7, <1>8, <1>9 DEF Holds

LEMMA DeliverLoadHolds ==
    ASSUME NEW home \in [Turns -> Turns], Holds(home), DeliverLoad  PROVE Holds(home)'
<1>1. PICK c \in Came("load") :
        /\ net' = [net EXCEPT !["load"] = @ \ {c}]
        /\ page' = IF Ok(c) THEN In([page.chat EXCEPT !.messages = c.ans]) ELSE page
        /\ UNCHANGED server
  BY DEF DeliverLoad, Take, Without, OnlyPage
<1>2. /\ DOMAIN net' = Kinds /\ net'["chat"] = net["chat"] /\ net'["wallet"] = net["wallet"]
      /\ net'["load"] \subseteq net["load"]
  BY <1>1 DEF Holds, Shapes, Kinds, ListKinds, ChatKinds
<1>3. CASE ~Ok(c)
  BY <1>1, <1>2, <1>3, Elsewhere, PageStays DEF Holds, SameCalls
<1>4. CASE Ok(c)
  <2>1. c \in net["load"] /\ LoadFits(home, c, page.turns)
    BY DEF Came, Holds, Stores
  <2>2. c.to = page.chat.conversationId
    BY <2>1 DEF Holds, Screened
  <2>3. c.ans \in Seq(Row) /\ AtHome(home, c.ans, page.chat.conversationId, page.turns)
    BY <1>4, <2>1, <2>2 DEF LoadFits, Ok
  <2> QED  BY <1>1, <1>2, <1>4, <2>3, Shows
<1> QED  BY <1>3, <1>4

-----------------------------------------------------------------------------
(* The server                                                               *)

\* The page is as it was, and no prompt is on its way that was not.
LEMMA ServerSide ==
    ASSUME NEW home \in [Turns -> Turns], Holds(home), UNCHANGED page,
           ServerShape(server'),
           \A k \in Turns : AtHome(home, server'.rows[k], k, page.turns),
           DOMAIN net' = Kinds, net'["load"] = net["load"],
           net'["wallet"] = net["wallet"],
           \A d \in net'["chat"] : /\ PromptFits(home, d, page.turns)
                                   /\ \E c \in net["chat"] : c.to = d.to,
           \A c, d \in net'["chat"] : c.to.mine /\ d.to.mine => c = d
    PROVE  Holds(home)'
<1>1. Shapes'
  BY DEF Holds, Shapes
<1>2. Stores(home)'
  BY DEF Holds, Stores
<1>3. Screened'
  BY DEF Holds, Screened
<1>4. Shown(home)'
  BY DEF Holds, Shown
<1> QED  BY <1>1, <1>2, <1>3, <1>4 DEF Holds

LEMMA PromptMoves ==
    ASSUME NEW home \in [Turns -> Turns], Holds(home), UNCHANGED page,
           ServerShape(server'),
           \A k \in Turns : AtHome(home, server'.rows[k], k, page.turns),
           NEW c \in net["chat"], NEW d, d.to = c.to, PromptFits(home, d, page.turns),
           \/ net' = [net EXCEPT !["chat"] = @ \ {c}]
           \/ net' = [net EXCEPT !["chat"] = (@ \ {c}) \cup {d}]
    PROVE  Holds(home)'
<1>1. /\ DOMAIN net' = Kinds /\ net'["load"] = net["load"] /\ net'["wallet"] = net["wallet"]
      /\ net'["chat"] \subseteq (net["chat"] \ {c}) \cup {d}
  BY DEF Holds, Shapes, Kinds, ListKinds, ChatKinds
<1>2. ASSUME NEW e \in net'["chat"]
      PROVE  PromptFits(home, e, page.turns) /\ \E b \in net["chat"] : b.to = e.to
  BY <1>1 DEF Holds, Stores
<1>3. ASSUME NEW e \in net'["chat"], NEW f \in net'["chat"], e.to.mine, f.to.mine
      PROVE  e = f
  BY <1>1, <1>3 DEF Holds, Screened
<1> QED  BY <1>1, <1>2, <1>3, ServerSide

\* The server as it is meets what PromptMoves asks of it.
LEMMA ServerStays ==
    ASSUME NEW home \in [Turns -> Turns], Holds(home), UNCHANGED server
    PROVE  /\ ServerShape(server')
           /\ \A k \in Turns : AtHome(home, server'.rows[k], k, page.turns)
BY DEF Holds, Shapes, Stores

LEMMA ServerRecord ==
    ASSUME NEW x \in SUBSET Turns, NEW rs \in [Turns -> Seq(Row)], NEW d, NEW s,
           s = [exists |-> x, rows |-> rs, dropped |-> d]
    PROVE  ServerShape(s) /\ s.rows = rs
BY DEF ServerShape

LEMMA RowStored ==
    ASSUME NEW home \in [Turns -> Turns], Holds(home), NEW k \in Turns,
           NEW t \in Turns, t <= page.turns, home[t] = k, NEW w \in {"user", "assistant"},
           NEW x, x \subseteq Turns,
           server' = [server EXCEPT !.exists = x,
                                    !.rows[k] = Append(@, [turn |-> t, who |-> w])]
    PROVE  /\ ServerShape(server')
           /\ \A j \in Turns : AtHome(home, server'.rows[j], j, page.turns)
<1>1. ServerShape(server) /\ server.rows[k] \in Seq(Row)
      /\ \A j \in Turns : AtHome(home, server.rows[j], j, page.turns)
  BY DEF Holds, Shapes, Stores, ServerShape
<1>2. PICK e \in Row : e = [turn |-> t, who |-> w]
  BY RowOf
<1>3. PICK s : s = Append(server.rows[k], e)
  OBVIOUS
<1>4. s \in Seq(Row) /\ ToSet(s) = ToSet(server.rows[k]) \cup {e}
  BY <1>1, <1>2, <1>3, ToSetAppend
<1>5. PICK rs : rs = [server.rows EXCEPT ![k] = s]
  OBVIOUS
<1>6. server' = [exists |-> x, rows |-> rs, dropped |-> server.dropped]
  BY <1>1, <1>2, <1>3, <1>5 DEF ServerShape
<1>7. rs \in [Turns -> Seq(Row)] /\ \A j \in Turns : rs[j] = IF j = k THEN s ELSE server.rows[j]
  BY <1>1, <1>4, <1>5 DEF ServerShape
<1>8. ServerShape(server') /\ server'.rows = rs
  <2>1. PICK d : d = server.dropped
    OBVIOUS
  <2>2. PICK s1 : s1 = [exists |-> x, rows |-> rs, dropped |-> d]
    OBVIOUS
  <2>3. s1 = server'
    BY <1>6, <2>1, <2>2
  <2>4. x \in SUBSET Turns /\ rs \in [Turns -> Seq(Row)]
    BY <1>7
  <2>5. ServerShape(s1) /\ s1.rows = rs
    BY <2>2, <2>4, ServerRecord
  <2> QED  BY <2>3, <2>5
<1>9. AtHome(home, s, k, page.turns)
  BY <1>1, <1>2, <1>4 DEF AtHome
<1> QED  BY <1>1, <1>7, <1>8, <1>9

LEMMA ServeReadsHolds ==
    ASSUME NEW home \in [Turns -> Turns], Holds(home), ServeReads  PROVE Holds(home)'
<1>1. UNCHANGED <<page, server>> /\ Shapes /\ DOMAIN net = Kinds
  BY DEF ServeReads, OnlyNet, Holds, Shapes
<1>2. CASE \/ \E c \in Asked("list") : Answer("list", c, server.exists)
           \/ \E c \in Asked("models") : \E m \in Models : Answer("models", c, m)
           \/ \E c \in Asked("upload") : Answer("upload", c, TRUE) \/ Refuse("upload", c)
  <2>1. SameCalls
    BY <1>1, <1>2, OtherMoves DEF Others
  <2> QED  BY <1>1, <2>1, PageStays, Elsewhere
<1>3. CASE \E c \in Asked("wallet") : Answer("wallet", c, TRUE)
  <2>1. SameCalls
    BY ZenonT(30), <1>1, <1>3 DEF SameCalls, AtMostOne, Asked, Answer, Kinds, ListKinds, ChatKinds
  <2> QED  BY <1>1, <2>1, PageStays, Elsewhere
<1>4. CASE \E c \in Asked("load") : Answer("load", c, server.rows[c.to]) \/ Refuse("load", c)
  BY <1>1, <1>4, LoadServed DEF Asked
<1> QED  BY <1>2, <1>3, <1>4 DEF ServeReads

LEMMA ServeDeleteHolds ==
    ASSUME NEW home \in [Turns -> Turns], Holds(home), ServeDelete  PROVE Holds(home)'
<1>1. PICK c \in Asked("delete") :
        /\ Answer("delete", c, TRUE) /\ UNCHANGED page
        /\ server' = [server EXCEPT !.exists = @ \ {c.to}, !.rows[c.to] = <<>>]
  BY DEF ServeDelete
<1>2. DOMAIN net = Kinds /\ ServerShape(server)
      /\ \A k \in Turns : AtHome(home, server.rows[k], k, page.turns)
  BY DEF Holds, Shapes, Stores
<1>3. server' = [exists |-> server.exists \ {c.to},
                 rows |-> [server.rows EXCEPT ![c.to] = <<>>], dropped |-> server.dropped]
  BY <1>1, <1>2 DEF ServerShape
<1>4. server'.rows \in [Turns -> Seq(Row)] /\ server'.exists \subseteq Turns
      /\ \A k \in Turns : server'.rows[k] = server.rows[k] \/ server'.rows[k] = <<>>
  BY <1>2, <1>3, ToSetEmpty DEF ServerShape
<1>5. ServerShape(server')
  BY <1>3, <1>4 DEF ServerShape
<1>6. \A k \in Turns : AtHome(home, server'.rows[k], k, page.turns)
  BY <1>2, <1>4, ToSetEmpty DEF AtHome
<1>7. /\ DOMAIN net' = Kinds /\ net'["load"] = net["load"] /\ net'["wallet"] = net["wallet"]
      /\ net'["chat"] = net["chat"]
  BY <1>1, <1>2 DEF Answer, Kinds, ListKinds, ChatKinds
<1>8. \A d \in net["chat"] : PromptFits(home, d, page.turns)
  BY DEF Holds, Stores
<1>9. \A d, e \in net["chat"] : d.to.mine /\ e.to.mine => d = e
  BY DEF Holds, Screened
<1> QED  BY <1>1, <1>5, <1>6, <1>7, <1>8, <1>9, ServerSide

\* What becomes of a prompt on its way.
LEMMA PromptFacts ==
    ASSUME NEW home \in [Turns -> Turns], Holds(home), NEW c \in net["chat"]
    PROVE  /\ PromptFits(home, c, page.turns)
           /\ c.to.turn \in Turns /\ c.to.turn <= page.turns /\ home[c.to.turn] \in Turns
           /\ c.phase \in {"opened", "past"} => c.conv = home[c.to.turn]
<1>1. PromptFits(home, c, page.turns)
  BY DEF Holds, Stores
<1> QED  BY <1>1 DEF PromptFits

LEMMA PromptFails ==
    ASSUME NEW home \in [Turns -> Turns], NEW c, NEW n, PromptFits(home, c, n), NEW d,
           d = [to |-> c.to, phase |-> "failed"]
    PROVE  d.to = c.to /\ PromptFits(home, d, n)
<1>1. d.to = c.to /\ d.phase = "failed" /\ d = [to |-> d.to, phase |-> d.phase]
  OBVIOUS
<1> QED  BY <1>1 DEF PromptFits

LEMMA PromptPasses ==
    ASSUME NEW home \in [Turns -> Turns], NEW c, NEW n, PromptFits(home, c, n), NEW d,
           NEW p \in {"opened", "past"}, d = [to |-> c.to, phase |-> p, conv |-> home[c.to.turn]]
    PROVE  d.to = c.to /\ PromptFits(home, d, n)
<1>1. d.to = c.to /\ d.phase = p /\ d = [to |-> d.to, phase |-> d.phase, conv |-> home[d.to.turn]]
  OBVIOUS
<1> QED  BY <1>1 DEF PromptFits

LEMMA PromptAnswered ==
    ASSUME NEW home \in [Turns -> Turns], NEW c, NEW n, PromptFits(home, c, n), NEW d,
           d = [to |-> c.to, phase |-> "answered", ans |-> home[c.to.turn]]
    PROVE  d.to = c.to /\ PromptFits(home, d, n)
<1>1. d.to = c.to /\ d.phase = "answered"
      /\ d = [to |-> d.to, phase |-> d.phase, ans |-> home[d.to.turn]]
  OBVIOUS
<1> QED  BY <1>1 DEF PromptFits

LEMMA ServePromptHolds ==
    ASSUME NEW home \in [Turns -> Turns], Holds(home), ServePrompt  PROVE Holds(home)'
<1>1. PICK c \in Asked("chat") :
        \/ Refuse("chat", c) /\ OnlyNet
        \/ \E k : /\ k = IF c.to.conv = Nobody THEN c.to.turn ELSE c.to.conv
                  /\ server' = [server EXCEPT !.exists = @ \cup {k},
                        !.rows[k] = Append(@, [turn |-> c.to.turn, who |-> "user"])]
                  /\ net' = [net EXCEPT !["chat"] = (@ \ {c}) \cup
                        {[to |-> c.to, phase |-> "opened", conv |-> k]}]
                  /\ UNCHANGED page
  BY DEF ServePrompt
<1>2. c \in net["chat"] /\ c.phase = "sent"
  BY DEF Asked
<1>3. PromptFits(home, c, page.turns) /\ c.to.turn \in Turns /\ c.to.turn <= page.turns
      /\ home[c.to.turn] \in Turns
  BY <1>2, PromptFacts
<1>4. CASE Refuse("chat", c) /\ OnlyNet
  <2>1. PICK d : d = [to |-> c.to, phase |-> "failed"]
    OBVIOUS
  <2>2. d.to = c.to /\ PromptFits(home, d, page.turns)
    BY <1>3, <2>1, PromptFails
  <2>3. UNCHANGED <<page, server>> /\ net' = [net EXCEPT !["chat"] = (@ \ {c}) \cup {d}]
    BY <1>4, <2>1 DEF Refuse, OnlyNet
  <2> QED  BY <1>2, <2>2, <2>3, ServerStays, PromptMoves
<1>5. ASSUME NEW k, k = IF c.to.conv = Nobody THEN c.to.turn ELSE c.to.conv,
             server' = [server EXCEPT !.exists = @ \cup {k},
                        !.rows[k] = Append(@, [turn |-> c.to.turn, who |-> "user"])],
             net' = [net EXCEPT !["chat"] = (@ \ {c}) \cup
                        {[to |-> c.to, phase |-> "opened", conv |-> k]}],
             UNCHANGED page
      PROVE  Holds(home)'
  <2>1. k = home[c.to.turn] /\ k \in Turns
    BY <1>3, <1>5 DEF PromptFits
  <2>2. PICK x : x = server.exists \cup {k}
    OBVIOUS
  <2>3. x \subseteq Turns
    BY <2>1, <2>2 DEF Holds, Shapes, ServerShape
  <2>4. ServerShape(server') /\ \A j \in Turns : AtHome(home, server'.rows[j], j, page.turns)
    BY <1>3, <1>5, <2>1, <2>2, <2>3, RowStored
  <2>5. PICK d : d = [to |-> c.to, phase |-> "opened", conv |-> home[c.to.turn]]
    OBVIOUS
  <2>6. d.to = c.to /\ PromptFits(home, d, page.turns)
    BY <1>3, <2>5, PromptPasses
  <2>7. net' = [net EXCEPT !["chat"] = (@ \ {c}) \cup {d}]
    BY <1>5, <2>1, <2>5
  <2> QED  BY <1>2, <1>5, <2>4, <2>6, <2>7, PromptMoves
<1> QED  BY <1>1, <1>4, <1>5

LEMMA ServeReplyHolds ==
    ASSUME NEW home \in [Turns -> Turns], Holds(home), ServeReply  PROVE Holds(home)'
<1>1. PICK c \in net["chat"] :
        /\ c.phase \in {"opened", "past"} /\ UNCHANGED page
        /\ \/ Take("chat", c)
           \/ Refuse("chat", c)
           \/ net' = [net EXCEPT !["chat"] = (@ \ {c}) \cup {[c EXCEPT !.phase = "past"]}]
           \/ Answer("chat", c, c.conv)
        /\ \/ UNCHANGED server
           \/ server' = [server EXCEPT !.rows[c.conv] =
                            Append(@, [turn |-> c.to.turn, who |-> "assistant"])]
  BY DEF ServeReply
<1>2. PromptFits(home, c, page.turns) /\ c.to.turn \in Turns /\ c.to.turn <= page.turns
      /\ home[c.to.turn] \in Turns /\ c.conv = home[c.to.turn]
  BY <1>1, PromptFacts
<1>3. c = [to |-> c.to, phase |-> c.phase, conv |-> home[c.to.turn]]
  BY <1>1, <1>2 DEF PromptFits
<1>4. ServerShape(server') /\ \A j \in Turns : AtHome(home, server'.rows[j], j, page.turns)
  <2>1. CASE UNCHANGED server
    BY <2>1, ServerStays
  <2>2. CASE server' = [server EXCEPT !.rows[c.conv] =
                            Append(@, [turn |-> c.to.turn, who |-> "assistant"])]
    <3>1. ServerShape(server)
      BY DEF Holds, Shapes
    <3>2. PICK x : x = server.exists
      OBVIOUS
    <3>3. server' = [server EXCEPT !.exists = x,
              !.rows[c.conv] = Append(@, [turn |-> c.to.turn, who |-> "assistant"])]
      BY <2>2, <3>1, <3>2 DEF ServerShape
    <3> QED  BY <1>2, <3>1, <3>2, <3>3, RowStored DEF ServerShape
  <2> QED  BY <1>1, <2>1, <2>2
<1>5. CASE Take("chat", c)
  BY <1>1, <1>2, <1>4, <1>5, PromptMoves DEF Take, Without
<1>6. CASE Refuse("chat", c)
  <2>1. PICK d : d = [to |-> c.to, phase |-> "failed"]
    OBVIOUS
  <2>2. d.to = c.to /\ PromptFits(home, d, page.turns)
    BY <1>2, <2>1, PromptFails
  <2>3. net' = [net EXCEPT !["chat"] = (@ \ {c}) \cup {d}]
    BY <1>6, <2>1 DEF Refuse
  <2> QED  BY <1>1, <1>4, <2>2, <2>3, PromptMoves
<1>7. CASE net' = [net EXCEPT !["chat"] = (@ \ {c}) \cup {[c EXCEPT !.phase = "past"]}]
  <2>1. PICK d : d = [to |-> c.to, phase |-> "past", conv |-> home[c.to.turn]]
    OBVIOUS
  <2>2. d = [c EXCEPT !.phase = "past"]
    BY <1>3, <2>1
  <2>3. d.to = c.to /\ PromptFits(home, d, page.turns)
    BY <1>2, <2>1, PromptPasses
  <2>4. net' = [net EXCEPT !["chat"] = (@ \ {c}) \cup {d}]
    BY <1>7, <2>2
  <2> QED  BY <1>1, <1>4, <2>3, <2>4, PromptMoves
<1>8. CASE Answer("chat", c, c.conv)
  <2>1. PICK d : d = [to |-> c.to, phase |-> "answered", ans |-> home[c.to.turn]]
    OBVIOUS
  <2>2. d.to = c.to /\ PromptFits(home, d, page.turns)
    BY <1>2, <2>1, PromptAnswered
  <2>3. net' = [net EXCEPT !["chat"] = (@ \ {c}) \cup {d}]
    BY <1>2, <1>8, <2>1 DEF Answer
  <2> QED  BY <1>1, <1>4, <2>2, <2>3, PromptMoves
<1> QED  BY <1>1, <1>5, <1>6, <1>7, <1>8

LEMMA LoseHolds ==
    ASSUME NEW home \in [Turns -> Turns], Holds(home), Lose  PROVE Holds(home)'
<1>1. UNCHANGED <<page, server>> /\ Shapes /\ DOMAIN net = Kinds
  BY DEF Lose, Holds, Shapes
<1>2. ASSUME NEW c \in net["chat"],
             net' = [net EXCEPT !["chat"] = (@ \ {c}) \cup {[to |-> c.to, phase |-> "failed"]}]
      PROVE  Holds(home)'
  <2>1. PICK d : d = [to |-> c.to, phase |-> "failed"]
    OBVIOUS
  <2>2. d.to = c.to /\ PromptFits(home, d, page.turns)
    BY <2>1, PromptFacts, PromptFails
  <2>3. net' = [net EXCEPT !["chat"] = (@ \ {c}) \cup {d}]
    BY <1>2, <2>1
  <2> QED  BY <1>1, <2>2, <2>3, ServerStays, PromptMoves
<1>3. CASE \E c \in net["list"] : Refuse("list", c)
  <2>1. SameCalls
    BY <1>1, <1>3, OtherMoves DEF Others
  <2> QED  BY <1>1, <2>1, PageStays, Elsewhere
<1>4. CASE \E c \in net["wallet"] : Refuse("wallet", c)
  <2>1. SameCalls
    BY <1>1, <1>4 DEF SameCalls, AtMostOne, Refuse, Kinds, ListKinds, ChatKinds
  <2> QED  BY <1>1, <2>1, PageStays, Elsewhere
<1>5. CASE \E c \in net["load"] : Refuse("load", c)
  BY <1>1, <1>5, LoadServed
<1>6. CASE \E c \in net["chat"] : Refuse("chat", c)
  BY <1>2, <1>6 DEF Refuse
<1> QED  BY <1>2, <1>3, <1>4, <1>5, <1>6 DEF Lose, Lost

-----------------------------------------------------------------------------
(* The screen                                                               *)

LEMMA ScreenShape ==
    ASSUME Shapes, NEW d, ChatShape(d), page' = In(d)
    PROVE  /\ PageShape(page') /\ page'.chat = d /\ page'.at = page.at
           /\ page'.turns = page.turns /\ page'.hasty = page.hasty
<1>1. page' = [page EXCEPT !.chat = d]
  BY DEF In
<1> QED  BY <1>1 DEF Shapes, PageShape

\* The three forms of a call.
Carrying(k, to, p, h) == IF k = "conv" THEN [to |-> to, phase |-> p, conv |-> h]
                         ELSE IF k = "ans" THEN [to |-> to, phase |-> p, ans |-> h]
                         ELSE [to |-> to, phase |-> p]

Readdressing(c, d, t) == d = [c EXCEPT !.to = t]

LEMMA CarryingHas ==
    ASSUME NEW k, NEW t, NEW p, NEW h, NEW d, d = Carrying(k, t, p, h)
    PROVE  d.to = t /\ d.phase = p
<1>1. CASE k = "conv"
  BY <1>1 DEF Carrying
<1>2. CASE k = "ans"
  BY <1>2 DEF Carrying
<1>3. CASE k \notin {"conv", "ans"}
  BY <1>3 DEF Carrying
<1> QED  BY <1>1, <1>2, <1>3

LEMMA Readdressed ==
    ASSUME NEW x, NEW p, NEW h, NEW t, NEW c, NEW d, Readdressing(c, d, t),
           NEW k, c = Carrying(k, x, p, h)
    PROVE  d = Carrying(k, t, p, h)
<1>1. CASE k = "conv"
  BY <1>1 DEF Carrying, Readdressing
<1>2. CASE k = "ans"
  BY <1>2 DEF Carrying, Readdressing
<1>3. CASE k \notin {"conv", "ans"}
  BY <1>3 DEF Carrying, Readdressing
<1> QED  BY <1>1, <1>2, <1>3

LEMMA DisownedFits ==
    ASSUME NEW home \in [Turns -> Turns], NEW c, NEW n, PromptFits(home, c, n), NEW t,
           t = [turn |-> c.to.turn, conv |-> c.to.conv, mine |-> FALSE],
           NEW d, Readdressing(c, d, t)
    PROVE  PromptFits(home, d, n) /\ ~d.to.mine
<1>1. /\ t = [turn |-> t.turn, conv |-> t.conv, mine |-> t.mine] /\ t.mine = FALSE
      /\ t.turn = c.to.turn /\ t.conv = c.to.conv
  OBVIOUS
<1>2. PICK x, p, h : x = c.to /\ p = c.phase /\ h = home[c.to.turn]
  OBVIOUS
<1>3. PICK k \in {"conv", "ans", "none"} :
         /\ k = "conv" <=> p \in {"opened", "past"}
         /\ k = "ans" <=> p = "answered"
         /\ k = "none" <=> p \in {"sent", "failed"}
         /\ c = Carrying(k, x, p, h)
  BY <1>2 DEF PromptFits, Carrying
<1>4. d.to = t /\ d.phase = p /\ d = Carrying(k, t, p, h)
  <2>1. c = Carrying(k, x, p, h)
    BY <1>3
  <2>2. d = Carrying(k, t, p, h)
    BY <2>1, Readdressed
  <2> QED  BY <2>2, CarryingHas
<1>5. h = home[t.turn]
  BY <1>1, <1>2
<1>6. /\ t.turn \in Turns /\ t.turn <= n /\ t.conv \in Ids
      /\ h = IF t.conv = Nobody THEN t.turn ELSE t.conv
  BY <1>1, <1>2 DEF PromptFits
<1> QED  BY ZenonT(60), <1>1, <1>3, <1>4, <1>5, <1>6 DEF PromptFits, Carrying

LEMMA Disowning ==
    ASSUME NEW home \in [Turns -> Turns], NEW c, NEW n, PromptFits(home, c, n), NEW d,
           d = [c EXCEPT !.to.mine = FALSE]
    PROVE  PromptFits(home, d, n) /\ ~d.to.mine
<1>1. PICK t : t = [c.to EXCEPT !.mine = FALSE]
  OBVIOUS
<1>2. Readdressing(c, d, t)
  BY <1>1 DEF Readdressing
<1>3. t = [turn |-> c.to.turn, conv |-> c.to.conv, mine |-> FALSE]
  BY <1>1 DEF PromptFits
<1> QED  BY <1>2, <1>3, DisownedFits

LEMMA OpenChatHolds ==
    ASSUME NEW home \in [Turns -> Turns], Holds(home), NEW id \in Ids, OpenChat(id)
    PROVE  Holds(home)'
<1>1. /\ page.at = "list" /\ UNCHANGED <<net, server>>
      /\ page' = [page EXCEPT !.at = "chat", !.chat = ChatFirst(id)]
  BY DEF OpenChat, ListShown, OnlyPage
<1>2. PICK d : d = ChatFirst(id)
  OBVIOUS
<1>3. ChatShape(d) /\ d.messages = <<>> /\ d.initialId = id /\ d.conversationId = id
  BY <1>2, ToSetEmpty DEF ChatFirst, ChatShape
<1>4. page' = [page EXCEPT !.at = "chat", !.chat = d]
  BY <1>1, <1>2
<1>5. /\ PageShape(page') /\ page'.chat = d /\ page'.at = "chat" /\ page'.turns = page.turns
  BY <1>4 DEF Holds, Shapes, PageShape
<1>6. Shapes'
  BY <1>1, <1>3, <1>5 DEF Holds, Shapes
<1>7. Stores(home)'
  BY <1>1, <1>5 DEF Holds, Stores
<1>8. Screened'
  BY <1>1, <1>3, <1>5 DEF Holds, Screened
<1>9. Shown(home)'
  BY <1>3, <1>5, ToSetEmpty DEF Shown
<1> QED  BY <1>6, <1>7, <1>8, <1>9 DEF Holds

LEMMA GoBackHolds ==
    ASSUME NEW home \in [Turns -> Turns], Holds(home), GoBack  PROVE Holds(home)'
<1>1. /\ page' = [page EXCEPT !.at = "list", !.chat = ChatFirst(Nobody), !.refreshing = TRUE]
      /\ net' = Asking(Disowned(net), "list", Nobody) /\ UNCHANGED server
  BY DEF GoBack, OnlyPage
<1>2. PICK d : d = ChatFirst(Nobody)
  OBVIOUS
<1>3. ChatShape(d) /\ d.messages = <<>> /\ d.initialId = Nobody
  BY <1>2, ToSetEmpty DEF ChatFirst, ChatShape, Ids
<1>4. page' = [page EXCEPT !.at = "list", !.chat = d, !.refreshing = TRUE]
  BY <1>1, <1>2
<1>5. /\ PageShape(page') /\ page'.chat = d /\ page'.at = "list" /\ page'.turns = page.turns
  BY <1>4 DEF Holds, Shapes, PageShape
<1>6. /\ DOMAIN net' = Kinds /\ net'["load"] = {} /\ net'["wallet"] = {}
      /\ net'["chat"] = {[c EXCEPT !.to.mine = FALSE] : c \in net["chat"]}
  BY <1>1 DEF Asking, Disowned, Kinds, ListKinds, ChatKinds
<1>7. ASSUME NEW e \in net'["chat"]  PROVE PromptFits(home, e, page.turns) /\ ~e.to.mine
  <2>1. PICK c \in net["chat"] : e = [c EXCEPT !.to.mine = FALSE]
    BY <1>6
  <2> QED  BY <2>1, PromptFacts, Disowning
<1>8. Shapes'
  BY <1>1, <1>3, <1>5, <1>6 DEF Holds, Shapes
<1>9. Stores(home)'
  BY <1>1, <1>5, <1>6, <1>7 DEF Holds, Stores
<1>10. Screened'
  BY <1>3, <1>5, <1>6, <1>7 DEF Holds, Screened, AtMostOne
<1>11. Shown(home)'
  BY <1>3, <1>5, ToSetEmpty DEF Shown
<1> QED  BY <1>8, <1>9, <1>10, <1>11 DEF Holds

\* The composer is free, and no prompt of the screen is on its way any more.
LEMMA Frees ==
    ASSUME NEW home \in [Turns -> Turns], Holds(home), ServerShape(server'),
           server'.rows = server.rows,
           page' = In([page.chat EXCEPT !.streaming = FALSE]),
           DOMAIN net' = Kinds, net'["load"] = net["load"], net'["wallet"] = {},
           \A d \in net'["chat"] : PromptFits(home, d, page.turns) /\ ~d.to.mine
    PROVE  Holds(home)'
<1>1. PICK d : d = [page.chat EXCEPT !.streaming = FALSE]
  OBVIOUS
<1>2. /\ ChatShape(d) /\ d.messages = page.chat.messages /\ d.initialId = page.chat.initialId
      /\ d.conversationId = page.chat.conversationId
  BY <1>1 DEF Holds, Shapes, ChatShape
<1>3. /\ PageShape(page') /\ page'.chat = d /\ page'.at = page.at
      /\ page'.turns = page.turns /\ page'.hasty = page.hasty
  BY <1>1, <1>2, ScreenShape DEF Holds
<1>4. Shapes'
  BY <1>2, <1>3 DEF Shapes
<1>5. Stores(home)'
  BY <1>3 DEF Holds, Stores
<1>6. Screened'
  BY <1>2, <1>3 DEF Holds, Screened, AtMostOne
<1>7. Shown(home)'
  BY <1>2, <1>3 DEF Holds, Shown
<1> QED  BY <1>4, <1>5, <1>6, <1>7 DEF Holds

LEMMA DeliverWalletHolds ==
    ASSUME NEW home \in [Turns -> Turns], Holds(home), DeliverWallet  PROVE Holds(home)'
<1>1. PICK c \in net["wallet"] :
        /\ net' = [net EXCEPT !["wallet"] = @ \ {c}] /\ UNCHANGED server
        /\ page' = In([page.chat EXCEPT !.streaming = FALSE])
  BY DEF DeliverWallet, Came, Take, Without, OnlyPage
<1>2. DOMAIN net' = Kinds /\ net'["load"] = net["load"] /\ net'["chat"] = net["chat"]
      /\ net'["wallet"] = net["wallet"] \ {c}
  BY <1>1 DEF Holds, Shapes, Kinds, ListKinds, ChatKinds
<1>3. net'["wallet"] = {}
  BY <1>2 DEF Holds, Screened, AtMostOne
<1>4. \A d \in net'["chat"] : PromptFits(home, d, page.turns) /\ ~d.to.mine
  BY <1>2 DEF Holds, Stores, Screened
<1> QED  BY <1>1, <1>2, <1>3, <1>4, ServerStays, Frees

LEMMA StopHolds ==
    ASSUME NEW home \in [Turns -> Turns], Holds(home), Stop  PROVE Holds(home)'
<1>1. PICK c \in net["chat"] :
        /\ c.to.mine /\ page' = In([page.chat EXCEPT !.streaming = FALSE])
        /\ net' = [net EXCEPT !["chat"] = (@ \ {c}) \cup
              (IF c.phase \in {"answered", "failed"} THEN {} ELSE {[c EXCEPT !.to.mine = FALSE]})]
        /\ server' = [server EXCEPT !.dropped = @ \cup {c.to.turn}]
  BY DEF Stop
<1>2. ServerShape(server') /\ server'.rows = server.rows
  BY <1>1 DEF Holds, Shapes, ServerShape
<1>3. PICK d : d = [c EXCEPT !.to.mine = FALSE]
  OBVIOUS
<1>4. PromptFits(home, d, page.turns) /\ ~d.to.mine
  BY <1>3, PromptFacts, Disowning
<1>5. /\ DOMAIN net' = Kinds /\ net'["load"] = net["load"] /\ net'["wallet"] = net["wallet"]
      /\ net'["chat"] \subseteq (net["chat"] \ {c}) \cup {d}
  BY <1>1, <1>3 DEF Holds, Shapes, Kinds, ListKinds, ChatKinds
<1>6. net'["wallet"] = {}
  BY <1>1, <1>5 DEF Holds, Screened
<1>7. \A e \in net'["chat"] : PromptFits(home, e, page.turns) /\ ~e.to.mine
  BY <1>1, <1>4, <1>5 DEF Holds, Stores, Screened
<1> QED  BY <1>1, <1>2, <1>5, <1>6, <1>7, Frees

LEMMA DeliverChatHolds ==
    ASSUME NEW home \in [Turns -> Turns], Holds(home), DeliverChat  PROVE Holds(home)'
<1>1. PICK c \in net["chat"] :
        /\ UNCHANGED server
        /\ \/ /\ c.to.mine /\ Ok(c)
              /\ net' = Asking(Without(net, "chat", c), "wallet", Nobody)
              /\ page' = In([page.chat EXCEPT
                    !.conversationId = IF c.to.conv = Nobody THEN c.ans ELSE @,
                    !.messages = Append(@, [turn |-> c.to.turn, who |-> "assistant"])])
           \/ /\ net' = [net EXCEPT !["chat"] = @ \ {c}]
              /\ page' = IF c.to.mine THEN In([page.chat EXCEPT !.streaming = FALSE]) ELSE page
  BY DEF DeliverChat, Came, Take, Without, OnlyPage
<1>2. PromptFits(home, c, page.turns) /\ c.to.turn \in Turns /\ c.to.turn <= page.turns
      /\ home[c.to.turn] \in Turns
  BY PromptFacts
<1>3. CASE /\ net' = [net EXCEPT !["chat"] = @ \ {c}] /\ ~c.to.mine /\ UNCHANGED page
  BY <1>1, <1>2, <1>3, ServerStays, PromptMoves
<1>4. CASE /\ net' = [net EXCEPT !["chat"] = @ \ {c}] /\ c.to.mine
           /\ page' = In([page.chat EXCEPT !.streaming = FALSE])
  <2>1. /\ DOMAIN net' = Kinds /\ net'["load"] = net["load"] /\ net'["wallet"] = net["wallet"]
        /\ net'["chat"] = net["chat"] \ {c}
    BY <1>4 DEF Holds, Shapes, Kinds, ListKinds, ChatKinds
  <2>2. net'["wallet"] = {}
    BY <1>4, <2>1 DEF Holds, Screened
  <2>3. \A e \in net'["chat"] : PromptFits(home, e, page.turns) /\ ~e.to.mine
    BY <1>4, <2>1 DEF Holds, Stores, Screened
  <2> QED  BY <1>1, <1>4, <2>1, <2>2, <2>3, ServerStays, Frees
<1>5. CASE /\ c.to.mine /\ Ok(c)
           /\ net' = Asking(Without(net, "chat", c), "wallet", Nobody)
           /\ page' = In([page.chat EXCEPT
                    !.conversationId = IF c.to.conv = Nobody THEN c.ans ELSE @,
                    !.messages = Append(@, [turn |-> c.to.turn, who |-> "assistant"])])
  <2>1. PICK k : k = home[c.to.turn]
    OBVIOUS
  <2>2. c.ans = k
    BY <1>2, <1>5, <2>1 DEF PromptFits, Ok
  <2>3. c.to.conv = page.chat.conversationId /\ page.chat.streaming /\ net["wallet"] = {}
        /\ page.at = "chat"
    BY <1>5 DEF Holds, Screened
  <2>4. page.chat.conversationId \in {Nobody, k} /\ k \in Turns /\ k # Nobody
    BY <1>2, <2>1, <2>3 DEF PromptFits, Turns, Nobody
  <2>5. PICK e : e = [turn |-> c.to.turn, who |-> "assistant"]
    OBVIOUS
  <2>6. e \in Row /\ e.turn = c.to.turn
    BY <1>2, <2>5, RowOf
  <2>7. PICK ms : ms = Append(page.chat.messages, e)
    OBVIOUS
  <2>8. ChatShape(page.chat) /\ ms \in Seq(Row)
        /\ ToSet(ms) = ToSet(page.chat.messages) \cup {e}
    BY <2>6, <2>7, ToSetAppend DEF Holds, Shapes, ChatShape
  <2>9. PICK d : d = [page.chat EXCEPT !.conversationId = k, !.messages = ms]
    OBVIOUS
  <2>10. /\ ChatShape(d) /\ d.messages = ms /\ d.conversationId = k
         /\ d.initialId = page.chat.initialId /\ d.streaming = page.chat.streaming
    BY <2>4, <2>8, <2>9 DEF ChatShape, Ids
  <2>11. page' = In(d)
    <3>1. (IF c.to.conv = Nobody THEN c.ans ELSE page.chat.conversationId) = k
      BY <2>2, <2>3, <2>4
    <3> QED  BY <1>5, <2>5, <2>7, <2>9, <3>1 DEF In
  <2>12. /\ PageShape(page') /\ page'.chat = d /\ page'.at = page.at
         /\ page'.turns = page.turns /\ page'.hasty = page.hasty
    BY <2>10, <2>11, ScreenShape DEF Holds
  <2>13. /\ DOMAIN net' = Kinds /\ net'["load"] = net["load"]
         /\ net'["chat"] = net["chat"] \ {c} /\ net'["wallet"] = {Sent(Nobody)}
    BY <1>5, <2>3 DEF Asking, Without, Holds, Shapes, Kinds, ListKinds, ChatKinds
  <2>14. Shapes'
    BY <1>1, <2>10, <2>12, <2>13 DEF Holds, Shapes
  <2>15. Stores(home)'
    BY <1>1, <2>12, <2>13 DEF Holds, Stores
  <2>16. Screened'
    <3>1. \A b \in net'["chat"] : ~b.to.mine
      BY <1>5, <2>13 DEF Holds, Screened
    <3>2. page.chat.initialId # Nobody => k = page.chat.initialId
      BY <2>4 DEF Holds, Screened
    <3> QED  BY <2>3, <2>10, <2>12, <2>13, <3>1, <3>2 DEF Holds, Screened, AtMostOne
  <2>17. Shown(home)'
    <3>1. \A r \in ToSet(ms) : r.turn <= page.turns
      BY <1>2, <2>6, <2>8 DEF Holds, Shown
    <3>2. ~page.hasty => \A r \in ToSet(ms) : home[r.turn] = k
      <4>1. SUFFICES ASSUME ~page.hasty, NEW r \in ToSet(page.chat.messages)
                     PROVE  home[r.turn] = k
        BY <2>1, <2>6, <2>8
      <4>2. \/ home[r.turn] = page.chat.conversationId
            \/ r.turn = c.to.turn
        BY <1>5, <4>1 DEF Holds, Shown
      <4>3. home[r.turn] # Nobody
        <5>1. r.turn \in Turns
          BY <2>8, SeqRow DEF ChatShape
        <5> QED  BY <5>1 DEF Turns, Nobody
      <4> QED  BY <2>1, <2>4, <4>2, <4>3
    <3> QED  BY <2>10, <2>12, <3>1, <3>2 DEF Shown
  <2> QED  BY <2>14, <2>15, <2>16, <2>17 DEF Holds
<1> QED  BY <1>1, <1>3, <1>4, <1>5

-----------------------------------------------------------------------------
(* A new prompt: the next turn gets its home                                *)

\* home with another turn is home for the turns there were.
Widens(home, wide, n) == \A t \in Turns : t <= n => wide[t] = home[t]

LEMMA WideRows ==
    ASSUME NEW home, NEW wide, NEW n \in Nat, Widens(home, wide, n),
           NEW s \in Seq(Row), NEW k, AtHome(home, s, k, n)
    PROVE  AtHome(wide, s, k, n + 1)
<1>1. ASSUME NEW r \in ToSet(s)  PROVE r.turn <= n + 1 /\ wide[r.turn] = k
  <2>1. r.turn \in Turns /\ r.turn <= n /\ home[r.turn] = k
    BY SeqRow DEF AtHome
  <2> QED  BY <2>1 DEF Widens, Turns
<1> QED  BY <1>1 DEF AtHome

LEMMA WidePrompt ==
    ASSUME NEW home, NEW wide, NEW n \in Nat, Widens(home, wide, n),
           NEW c, PromptFits(home, c, n)
    PROVE  PromptFits(wide, c, n + 1)
<1>1. wide[c.to.turn] = home[c.to.turn] /\ c.to.turn <= n + 1
  BY DEF PromptFits, Widens, Turns
<1> QED  BY <1>1 DEF PromptFits

LEMMA WideLoad ==
    ASSUME NEW home, NEW wide, NEW n \in Nat, Widens(home, wide, n),
           NEW c, LoadFits(home, c, n)
    PROVE  LoadFits(wide, c, n + 1)
BY WideRows DEF LoadFits

LEMMA SendPromptHolds ==
    ASSUME NEW home \in [Turns -> Turns], Holds(home), SendPrompt
    PROVE  \E wide \in [Turns -> Turns] : Holds(wide)'
<1>1. PICK turn : turn = page.turns + 1
  OBVIOUS
<1>2. PICK n : n = page.turns
  OBVIOUS
<1>3. /\ page.at = "chat" /\ ~page.chat.streaming /\ turn <= MaxTurns /\ UNCHANGED server
      /\ net' = Asking(net, "chat",
                       [turn |-> turn, conv |-> page.chat.conversationId, mine |-> TRUE])
      /\ page' = [page EXCEPT
            !.turns = turn,
            !.hasty = @ \/ (page.chat.messages # <<>> /\ page.chat.conversationId = Nobody),
            !.chat = [page.chat EXCEPT !.typed = FALSE, !.attachments = 0, !.streaming = TRUE,
                !.messages = Append(page.chat.messages, [turn |-> turn, who |-> "user"])]]
  BY <1>1 DEF SendPrompt, CanSend, ChatShown, Ask, OnlyPage
<1>4. PageShape(page) /\ ChatShape(page.chat) /\ ServerShape(server) /\ DOMAIN net = Kinds
  BY DEF Holds, Shapes
<1>5. n \in Nat /\ turn = n + 1 /\ turn \in Turns
  BY <1>1, <1>2, <1>3, <1>4 DEF PageShape, Turns
<1>6. PICK k : k = IF page.chat.conversationId = Nobody THEN turn ELSE page.chat.conversationId
  OBVIOUS
<1>7. k \in Turns /\ page.chat.conversationId \in Ids
  BY <1>4, <1>5, <1>6 DEF ChatShape, Ids
<1>8. PICK wide : wide = [home EXCEPT ![turn] = k]
  OBVIOUS
<1>9. wide \in [Turns -> Turns] /\ wide[turn] = k /\ Widens(home, wide, n)
  BY <1>5, <1>7, <1>8 DEF Widens
\* What the page becomes.
<1>10. PICK e : e = [turn |-> turn, who |-> "user"]
  OBVIOUS
<1>11. e \in Row /\ e.turn = turn /\ e.who = "user"
  BY <1>5, <1>10, RowOf
<1>12. PICK ms : ms = Append(page.chat.messages, e)
  OBVIOUS
<1>13. ms \in Seq(Row) /\ ToSet(ms) = ToSet(page.chat.messages) \cup {e}
  BY <1>4, <1>11, <1>12, ToSetAppend DEF ChatShape
<1>14. PICK d : d = [page.chat EXCEPT !.typed = FALSE, !.attachments = 0, !.streaming = TRUE,
                                      !.messages = ms]
  OBVIOUS
<1>15. /\ ChatShape(d) /\ d.messages = ms /\ d.streaming = TRUE
       /\ d.initialId = page.chat.initialId /\ d.conversationId = page.chat.conversationId
  BY <1>4, <1>13, <1>14 DEF ChatShape
<1>16. PICK h : h = (page.hasty \/ (page.chat.messages # <<>> /\ page.chat.conversationId = Nobody))
  OBVIOUS
<1>17. page' = [page EXCEPT !.turns = turn, !.hasty = h, !.chat = d]
  BY <1>3, <1>10, <1>12, <1>14, <1>16
<1>18. PageShape(page') /\ page'.chat = d /\ page'.at = page.at /\ page'.turns = turn
       /\ page'.hasty = h
  <2>1. h \in BOOLEAN /\ turn \in Nat
    BY <1>4, <1>5, <1>16 DEF PageShape
  <2>2. page' = [at |-> page.at, items |-> page.items, refreshing |-> page.refreshing,
                 asking |-> page.asking, chat |-> d, turns |-> turn, hasty |-> h]
    BY <1>4, <1>17 DEF PageShape
  <2> QED  BY <2>1, <2>2 DEF PageShape
\* What is on its way.
<1>19. PICK to : to = [turn |-> turn, conv |-> page.chat.conversationId, mine |-> TRUE]
  OBVIOUS
<1>20. to.turn = turn /\ to.conv = page.chat.conversationId /\ to.mine = TRUE
       /\ to = [turn |-> to.turn, conv |-> to.conv, mine |-> to.mine]
  BY <1>19
<1>21. PICK c : c = Sent(to)
  OBVIOUS
<1>22. c.to = to /\ c.phase = "sent" /\ c = [to |-> c.to, phase |-> c.phase]
  BY <1>21 DEF Sent
<1>23. /\ DOMAIN net' = Kinds /\ net'["load"] = net["load"] /\ net'["wallet"] = net["wallet"]
       /\ net'["chat"] = net["chat"] \cup {c}
  BY <1>3, <1>4, <1>19, <1>21 DEF Asking, Kinds, ListKinds, ChatKinds
<1>24. PromptFits(wide, c, turn)
  <2>1. /\ c.to.turn = turn /\ c.to.conv = page.chat.conversationId /\ c.to.mine = TRUE
        /\ c.to = [turn |-> c.to.turn, conv |-> c.to.conv, mine |-> c.to.mine]
    BY <1>20, <1>22
  <2>2. turn \in Int /\ turn <= turn
    BY <1>5
  <2>3. wide[c.to.turn] = IF c.to.conv = Nobody THEN c.to.turn ELSE c.to.conv
    BY <1>6, <1>9, <2>1
  <2> QED  BY <1>5, <1>7, <1>22, <2>1, <2>2, <2>3 DEF PromptFits
<1>25. net["wallet"] = {} /\ \A b \in net["chat"] : ~b.to.mine
  BY <1>3 DEF Holds, Screened
<1>26. Shapes'
  BY <1>3, <1>4, <1>15, <1>18, <1>23 DEF Shapes
<1>27. Stores(wide)'
  <2>1. \A j \in Turns : AtHome(wide, server.rows[j], j, turn)
    BY <1>2, <1>4, <1>5, <1>9, WideRows DEF Holds, Stores, ServerShape
  <2>2. \A b \in net["chat"] : PromptFits(wide, b, turn)
    BY <1>2, <1>5, <1>9, WidePrompt DEF Holds, Stores
  <2>3. \A b \in net["load"] : LoadFits(wide, b, turn)
    BY <1>2, <1>5, <1>9, WideLoad DEF Holds, Stores
  <2> QED  BY <1>3, <1>18, <1>23, <1>24, <2>1, <2>2, <2>3 DEF Stores
<1>28. Screened'
  BY <1>3, <1>15, <1>18, <1>20, <1>22, <1>23, <1>25 DEF Holds, Screened, AtMostOne
<1>29. Shown(wide)'
  <2>1. \A r \in ToSet(page.chat.messages) : r.turn \in Turns /\ r.turn <= n
    BY <1>2, <1>4, SeqRow DEF Holds, Shown, ChatShape
  <2>2. \A r \in ToSet(ms) : r.turn <= turn
    BY <1>5, <1>11, <1>13, <2>1 DEF Turns
  <2>3. CASE page.chat.conversationId # Nobody
    <3>1. ~h => \A r \in ToSet(ms) : wide[r.turn] = page.chat.conversationId
      BY <1>6, <1>9, <1>11, <1>13, <1>16, <2>1, <2>3 DEF Holds, Shown, Widens
    <3> QED  BY <1>15, <1>18, <2>2, <3>1 DEF Shown
  <2>4. CASE page.chat.conversationId = Nobody
    <3>1. ~h => ToSet(ms) = {e}
      BY <1>13, <1>16, <2>4, ToSetEmpty
    <3>2. \A b \in net'["chat"] : b.to.mine => b.to.turn = e.turn
      BY <1>11, <1>20, <1>22, <1>23, <1>25
    <3> QED  BY <1>11, <1>15, <1>18, <2>2, <2>4, <3>1, <3>2 DEF Shown
  <2> QED  BY <2>3, <2>4
<1> QED  BY <1>9, <1>26, <1>27, <1>28, <1>29 DEF Holds

-----------------------------------------------------------------------------
(* The theorem                                                              *)

LEMMA ChatStarts ==
    ASSUME MaxTurns \in Nat, NEW n \in 0 .. MaxTurns, Stored = 1 .. n, MobileChatInit
    PROVE  ChatInv
<1>1. PICK b : b = Before
  OBVIOUS
<1>2. /\ page = [at |-> "list", items |-> {}, refreshing |-> TRUE, asking |-> Nobody,
                 chat |-> ChatFirst(Nobody), turns |-> Cardinality(b), hasty |-> FALSE]
      /\ server = [exists |-> b, dropped |-> {},
                   rows |-> [c \in Turns |->
                      IF c \in b
                      THEN <<[turn |-> c, who |-> "user"], [turn |-> c, who |-> "assistant"]>>
                      ELSE <<>>]]
      /\ net = [k \in Kinds |-> IF k = "list" THEN {Sent(Nobody)} ELSE {}]
  BY <1>1 DEF MobileChatInit
<1>3. PICK m \in 0 .. MaxTurns : b = 1 .. m
  <2>1. b = {} \/ b = 1 .. n
    BY <1>1 DEF Before
  <2>2. 1 .. 0 = {} /\ 0 \in 0 .. MaxTurns
    OBVIOUS
  <2> QED  BY <2>1, <2>2
<1>4. Cardinality(b) = m /\ m \in Nat
  <2>1. m \in Nat /\ 1 \in Int
    OBVIOUS
  <2>2. Cardinality(1 .. m) = IF 1 > m THEN 0 ELSE m - 1 + 1
    BY <2>1, FS_Interval
  <2> QED  BY <1>3, <2>1, <2>2
<1>5. \A c \in b : c \in Turns /\ c <= m
  BY <1>3 DEF Turns
<1>6. PICK home \in [Turns -> Turns] : home = [k \in Turns |-> k]
  OBVIOUS
<1>7. PICK rows : rows = server.rows
  OBVIOUS
<1>8. ASSUME NEW c \in Turns
      PROVE  rows[c] \in Seq(Row) /\ AtHome(home, rows[c], c, m)
  <2>1. CASE c \in b
    <3>1. PICK u \in Row : u = [turn |-> c, who |-> "user"]
      BY RowOf
    <3>2. PICK a \in Row : a = [turn |-> c, who |-> "assistant"]
      BY RowOf
    <3>3. rows[c] = <<u, a>>
      BY <1>2, <1>7, <2>1, <3>1, <3>2
    <3>4. <<u, a>> \in Seq(Row) /\ \A r \in ToSet(<<u, a>>) : r \in {u, a}
      BY DEF ToSet
    <3>5. u.turn = c /\ a.turn = c
      BY <3>1, <3>2
    <3> QED  BY <1>5, <1>6, <2>1, <3>3, <3>4, <3>5 DEF AtHome
  <2>2. CASE c \notin b
    <3>1. rows[c] = <<>>
      BY <1>2, <1>7, <2>2
    <3> QED  BY <3>1, ToSetEmpty DEF AtHome
  <2> QED  BY <2>1, <2>2
<1>9. rows \in [Turns -> Seq(Row)]
  <2>1. rows = [c \in Turns |-> rows[c]]
    BY <1>2, <1>7
  <2> QED  BY <1>8, <2>1
<1>10. PICK d : d = ChatFirst(Nobody)
  OBVIOUS
<1>11. ChatShape(d) /\ d.messages = <<>> /\ d.initialId = Nobody
  BY <1>10, ToSetEmpty DEF ChatFirst, ChatShape, Ids
<1>12. PageShape(page) /\ page.chat = d /\ page.at = "list" /\ page.turns = m
  BY <1>2, <1>4, <1>10 DEF PageShape
<1>13. ServerShape(server)
  <2>1. server = [exists |-> b, rows |-> rows, dropped |-> {}]
    BY <1>2, <1>7
  <2>2. b \in SUBSET Turns
    BY <1>5
  <2> QED  BY <1>9, <2>1, <2>2 DEF ServerShape
<1>14. DOMAIN net = Kinds /\ net["chat"] = {} /\ net["load"] = {} /\ net["wallet"] = {}
  BY <1>2 DEF Kinds, ListKinds, ChatKinds
<1>15. Shapes
  BY <1>11, <1>12, <1>13, <1>14 DEF Shapes
<1>16. Stores(home)
  BY <1>7, <1>8, <1>12, <1>14 DEF Stores
<1>17. Screened
  BY <1>11, <1>12, <1>14 DEF Screened, AtMostOne
<1>18. Shown(home)
  BY <1>11, <1>12, ToSetEmpty DEF Shown
<1> QED  BY <1>15, <1>16, <1>17, <1>18 DEF ChatInv, Holds

LEMMA ChatSteps ==
    ASSUME NEW home \in [Turns -> Turns], Holds(home), [MobileChatNext]_mobileChatVars
    PROVE  \E wide \in [Turns -> Turns] : Holds(wide)'
<1>1. CASE ServeReads \/ ServeDelete \/ ServePrompt \/ ServeReply \/ Lose
  BY <1>1, ServeReadsHolds, ServeDeleteHolds, ServePromptHolds, ServeReplyHolds, LoseHolds
<1>2. CASE \/ DeliverItems \/ DeliverDelete \/ Reload \/ AnswerDelete
           \/ \E id \in Turns : LongPress(id)
  BY <1>2, ListSteps
<1>3. CASE \/ DeliverModels \/ DeliverUpload \/ OpenPicker \/ ClosePicker
           \/ TypeText \/ PickImage \/ RemoveAttachment
  BY <1>3, ComposerSteps
<1>4. CASE DeliverLoad \/ Mounted
  BY <1>4, DeliverLoadHolds, MountedHolds
<1>5. CASE ChatHeard
  BY <1>5, DeliverChatHolds, DeliverWalletHolds DEF ChatHeard
<1>6. CASE GoBack \/ Stop
  BY <1>6, GoBackHolds, StopHolds
<1>7. CASE SendPrompt
  BY <1>7, SendPromptHolds
<1>8. CASE \E id \in {Nobody} \cup Turns : OpenChat(id)
  BY <1>8, OpenChatHolds DEF Ids
<1>9. CASE UNCHANGED mobileChatVars
  <2>1. UNCHANGED <<page, server, net>>
    BY <1>9 DEF mobileChatVars
  <2> QED  BY <2>1, PageStays, NetStays, Elsewhere DEF Holds
<1> QED  BY <1>1, <1>2, <1>3, <1>4, <1>5, <1>6, <1>7, <1>8, <1>9 DEF MobileChatNext

LEMMA ChatHolds ==
    ASSUME ChatInv  PROVE ScreenIsOneConversation
<1>1. PICK home \in [Turns -> Turns] : Holds(home)
  BY DEF ChatInv
<1>2. SUFFICES ASSUME ~page.hasty, NEW c \in server.exists,
                      NEW r \in ToSet(server.rows[c]) \cap ToSet(page.chat.messages)
               PROVE  \/ page.chat.conversationId = c
                      \/ page.chat.conversationId = Nobody /\ r.who = "user"
  BY DEF ScreenIsOneConversation
<1>3. c \in Turns /\ AtHome(home, server.rows[c], c, page.turns)
  BY <1>1 DEF Holds, Shapes, ServerShape, Stores
<1>4. home[r.turn] = c
  BY <1>3 DEF AtHome
<1> QED  BY <1>1, <1>2, <1>4 DEF Holds, Shown

\* A chat screen shows the messages of one conversation of the server, the one its next
\* prompt is sent to, or a first prompt that is not answered (ChatScreen.js and the
\* conversations of chat_routes.py): with any number of prompts, of calls on their way
\* and of failures, and whatever is done in whatever order.
THEOREM ScreenIsOneConversationInvariant ==
    MaxTurns \in Nat /\ (\E n \in 0 .. MaxTurns : Stored = 1 .. n)
        => (MobileChatSpec => []ScreenIsOneConversation)
<1> SUFFICES ASSUME MaxTurns \in Nat, \E n \in 0 .. MaxTurns : Stored = 1 .. n
             PROVE  MobileChatSpec => []ScreenIsOneConversation
  OBVIOUS
<1>1. MobileChatInit => ChatInv
  BY ChatStarts
<1>2. ChatInv /\ [MobileChatNext]_mobileChatVars => ChatInv'
  <2> SUFFICES ASSUME ChatInv, [MobileChatNext]_mobileChatVars  PROVE ChatInv'
    OBVIOUS
  <2>1. PICK home \in [Turns -> Turns] : Holds(home)
    BY DEF ChatInv
  <2>2. \E wide \in [Turns -> Turns] : Holds(wide)'
    BY <2>1, ChatSteps
  <2> QED  BY <2>2 DEF ChatInv
<1>3. ChatInv => ScreenIsOneConversation
  BY ChatHolds
<1> QED  BY <1>1, <1>2, <1>3, PTL DEF MobileChatSpec

-----------------------------------------------------------------------------
(* Types: the list, the composer, and the calls that come back to them      *)

ComposerTyped(c) ==
    /\ c.typed \in BOOLEAN /\ c.attachments \in Nat /\ c.uploading \in BOOLEAN
    /\ c.selectedModel \in Models \cup {"none"} /\ c.picker \in BOOLEAN /\ c.began \in BOOLEAN

ListTyped(p) ==
    /\ p.at \in {"list", "chat"} /\ p.items \in SUBSET Turns /\ p.refreshing \in BOOLEAN
    /\ p.asking \in Ids /\ p.turns <= MaxTurns

AnswersTyped(n) ==
    /\ \A c \in n["list"] : Ok(c) => c.ans \in SUBSET Turns
    /\ \A c \in n["models"] : Ok(c) => c.ans \in Models

\* Of a chat that was left nothing comes back to the screen.
LeftBehind(p, n) ==
    p.at = "list" => p.chat = ChatFirst(Nobody) /\ n["models"] = {} /\ n["upload"] = {}

\* A prompt whose connection was dropped is no screen's; one that is streamed is this one's.
DropsFit(p, d, n) ==
    /\ d \in SUBSET Turns /\ \A t \in d : t <= p.turns
    /\ \A c \in n["chat"] : c.to.turn \in d => ~c.to.mine
Busy(p, n) == p.chat.streaming => n["wallet"] # {} \/ \E c \in n["chat"] : c.to.mine

Typed ==
    /\ ListTyped(page) /\ ComposerTyped(page.chat) /\ AnswersTyped(net)
    /\ LeftBehind(page, net) /\ DropsFit(page, server.dropped, net) /\ Busy(page, net)

LEMMA KindsOfChat ==
    Kinds = {"list", "delete", "models", "load", "chat", "wallet", "upload"}
BY DEF Kinds, ListKinds, ChatKinds

LEMMA ChatOrList == \A k \in ChatKinds : k \in Kinds /\ k # "list" /\ k # "delete"
BY DEF Kinds, ListKinds, ChatKinds

LEMMA AskTyped ==
    ASSUME NEW n, DOMAIN n = Kinds, AnswersTyped(n), NEW k \in Kinds, NEW a, NEW m, m = Asking(n, k, a)
    PROVE  /\ DOMAIN m = Kinds /\ AnswersTyped(m)
           /\ m[k] = n[k] \cup {Sent(a)} /\ \A j \in Kinds \ {k} : m[j] = n[j]
<1>1. DOMAIN m = Kinds /\ \A j \in Kinds : m[j] = IF j = k THEN n[j] \cup {Sent(a)} ELSE n[j]
  BY DEF Asking
<1>2. ~Ok(Sent(a))
  BY DEF Ok, Sent
<1> QED  BY <1>1, <1>2, KindsOfChat DEF AnswersTyped

LEMMA TakeTyped ==
    ASSUME NEW n, DOMAIN n = Kinds, AnswersTyped(n), NEW k \in Kinds, NEW c, NEW m, m = Without(n, k, c)
    PROVE  /\ DOMAIN m = Kinds /\ AnswersTyped(m)
           /\ m[k] = n[k] \ {c} /\ \A j \in Kinds \ {k} : m[j] = n[j]
<1>1. DOMAIN m = Kinds /\ \A j \in Kinds : m[j] = IF j = k THEN n[j] \ {c} ELSE n[j]
  BY DEF Without
<1> QED  BY <1>1, KindsOfChat DEF AnswersTyped

\* A call goes on without the screen.
LEMMA GoesOn ==
    ASSUME Shapes, Typed, UNCHANGED page, server'.dropped = server.dropped,
           NEW k \in Kinds, NEW c \in net[k], NEW d, d.to = c.to,
           k = "list" /\ Ok(d) => d.ans \in SUBSET Turns, k = "models" /\ Ok(d) => d.ans \in Models,
           net' = [net EXCEPT ![k] = (@ \ {c}) \cup {d}]
    PROVE  Typed'
<1>1. \A j \in Kinds : net'[j] = IF j = k THEN (net[j] \ {c}) \cup {d} ELSE net[j]
  BY DEF Shapes
<1>2. AnswersTyped(net')
  BY <1>1, KindsOfChat DEF Typed, AnswersTyped
<1>3. LeftBehind(page, net')
  BY <1>1, KindsOfChat DEF Typed, LeftBehind
<1>4. DropsFit(page, server.dropped, net')
  BY <1>1, KindsOfChat DEF Typed, DropsFit
<1>5. Busy(page, net')
  <2>1. net["wallet"] # {} => net'["wallet"] # {}
    BY <1>1, KindsOfChat
  <2>2. \A b \in net["chat"] : \E e \in net'["chat"] : e.to = b.to
    BY <1>1, KindsOfChat
  <2> QED  BY <2>1, <2>2 DEF Typed, Busy
<1> QED  BY <1>2, <1>3, <1>4, <1>5 DEF Typed

LEMMA AnsweredTyped ==
    ASSUME Shapes, Typed, UNCHANGED page, server'.dropped = server.dropped,
           NEW k \in Kinds, NEW c \in net[k], NEW v, Answer(k, c, v),
           k = "list" => v \in SUBSET Turns, k = "models" => v \in Models
    PROVE  Typed'
<1>1. PICK d : d = [to |-> c.to, phase |-> "answered", ans |-> v]
  OBVIOUS
<1>2. d.to = c.to /\ d.ans = v
  BY <1>1
<1>3. net' = [net EXCEPT ![k] = (@ \ {c}) \cup {d}]
  BY <1>1 DEF Answer
<1> QED  BY <1>2, <1>3, GoesOn

LEMMA RefusedTyped ==
    ASSUME Shapes, Typed, UNCHANGED page, server'.dropped = server.dropped,
           NEW k \in Kinds, NEW c \in net[k], Refuse(k, c)
    PROVE  Typed'
<1>1. PICK d : d = [to |-> c.to, phase |-> "failed"]
  OBVIOUS
<1>2. d.to = c.to /\ ~Ok(d)
  BY <1>1 DEF Ok
<1>3. net' = [net EXCEPT ![k] = (@ \ {c}) \cup {d}]
  BY <1>1 DEF Refuse
<1> QED  BY <1>2, <1>3, GoesOn

\* The server keeps what was dropped.
LEMMA KeepsDropped ==
    ASSUME ServerShape(server), NEW x, NEW y,
           server' = [server EXCEPT !.exists = x, !.rows = y] \/ server' = [server EXCEPT !.rows = y]
    PROVE  server'.dropped = server.dropped
BY DEF ServerShape

\* A call of no screen comes to nothing.
LEMMA VanishesTyped ==
    ASSUME Shapes, Typed, UNCHANGED <<page, server>>, NEW c, ~c.to.mine, Take("chat", c)
    PROVE  Typed'
<1>1. DOMAIN net = Kinds /\ AnswersTyped(net)
  BY DEF Typed, Shapes
<1>2. PICK k \in Kinds : k = "chat" /\ net' = Without(net, k, c)
  BY KindsOfChat DEF Take
<1>3. AnswersTyped(net') /\ net'[k] = net[k] \ {c} /\ \A j \in Kinds \ {k} : net'[j] = net[j]
  BY <1>1, <1>2, TakeTyped
<1>4. LeftBehind(page, net') /\ DropsFit(page, server.dropped, net')
  BY <1>2, <1>3, KindsOfChat DEF Typed, LeftBehind, DropsFit
<1>5. Busy(page, net')
  BY <1>2, <1>3, KindsOfChat DEF Typed, Busy
<1> QED  BY <1>3, <1>4, <1>5 DEF Typed

LEMMA ServedTyped ==
    ASSUME Shapes, Typed, NEW home, Stores(home), ServeReads \/ ServeDelete \/ ServePrompt \/ ServeReply \/ Lose
    PROVE  Typed'
<1>1. CASE ServeReads
  <2>1. UNCHANGED page /\ server'.dropped = server.dropped /\ server.exists \in SUBSET Turns
    BY <1>1 DEF ServeReads, OnlyNet, Shapes, ServerShape
  <2>2. PICK k \in Kinds : \E c \in net[k] :
           \/ k = "list" /\ Answer(k, c, server.exists)
           \/ k \notin {"list", "models"} /\ \E v : Answer(k, c, v)
           \/ k = "models" /\ \E m \in Models : Answer(k, c, m)
           \/ Refuse(k, c)
    BY <1>1, KindsOfChat DEF ServeReads, Asked
  <2> QED  BY <2>1, <2>2, AnsweredTyped, RefusedTyped
<1>2. CASE ServeDelete
  <2>1. PICK c \in net["delete"] :
           /\ Answer("delete", c, TRUE) /\ UNCHANGED page
           /\ server' = [server EXCEPT !.exists = @ \ {c.to}, !.rows[c.to] = <<>>]
    BY <1>2 DEF ServeDelete, Asked
  <2>2. server'.dropped = server.dropped
    BY <2>1 DEF Shapes, ServerShape
  <2> QED  BY <2>1, <2>2, AnsweredTyped, KindsOfChat
<1>3. CASE ServePrompt
  <2>1. PICK c \in net["chat"] : \/ Refuse("chat", c) /\ OnlyNet
           \/ \E conv, e : /\ server' = [server EXCEPT !.exists = @ \cup {conv}, !.rows[conv] = Append(@, e)]
                        /\ net' = [net EXCEPT !["chat"] = (@ \ {c}) \cup
                              {[to |-> c.to, phase |-> "opened", conv |-> conv]}]
                        /\ UNCHANGED page
    BY ZenonT(60), <1>3 DEF ServePrompt, Asked
  <2>2. CASE Refuse("chat", c) /\ OnlyNet
    BY <2>2, RefusedTyped, KindsOfChat DEF OnlyNet
  <2>3. ASSUME NEW conv, NEW e, UNCHANGED page,
               server' = [server EXCEPT !.exists = @ \cup {conv}, !.rows[conv] = Append(@, e)],
               net' = [net EXCEPT !["chat"] = (@ \ {c}) \cup
                              {[to |-> c.to, phase |-> "opened", conv |-> conv]}]
        PROVE  Typed'
    <3>1. server'.dropped = server.dropped
      BY <2>3 DEF Shapes, ServerShape
    <3>2. PICK d : d = [to |-> c.to, phase |-> "opened", conv |-> conv]
      OBVIOUS
    <3>3. d.to = c.to
      BY <3>2
    <3>4. net' = [net EXCEPT !["chat"] = (@ \ {c}) \cup {d}]
      BY <2>3, <3>2
    <3>5. "chat" \in Kinds /\ "chat" # "list" /\ "chat" # "models"
      BY KindsOfChat
    <3> QED  BY <2>3, <3>1, <3>3, <3>4, <3>5, GoesOn
  <2> QED  BY <2>1, <2>2, <2>3
<1>4. CASE ServeReply
  <2>1. PICK c \in net["chat"] :
           /\ UNCHANGED page
           /\ c.phase \in {"opened", "past"}
           /\ UNCHANGED server \/ \E e : server' = [server EXCEPT !.rows[c.conv] = Append(@, e)]
           /\ \/ c.to.turn \in server.dropped /\ Take("chat", c) /\ UNCHANGED server
              \/ net' = [net EXCEPT !["chat"] = (@ \ {c}) \cup {[c EXCEPT !.phase = "past"]}]
              \/ Refuse("chat", c)
              \/ \E v : Answer("chat", c, v)
    BY <1>4 DEF ServeReply
  <2>2. server'.dropped = server.dropped
    BY <2>1 DEF Shapes, ServerShape
  <2>3. CASE Refuse("chat", c) \/ \E v : Answer("chat", c, v)
    BY <2>1, <2>2, <2>3, RefusedTyped, AnsweredTyped, KindsOfChat
  <2>4. CASE net' = [net EXCEPT !["chat"] = (@ \ {c}) \cup {[c EXCEPT !.phase = "past"]}]
    <3>1. PICK d : d = [c EXCEPT !.phase = "past"]
      OBVIOUS
    <3>2. PromptFits(home, c, page.turns)
      BY DEF Stores
    <3>3. d.to = c.to
      BY <2>1, <3>1, <3>2 DEF PromptFits
    <3>4. "chat" \in Kinds /\ "chat" # "list" /\ "chat" # "models"
      BY KindsOfChat
    <3> QED  BY <2>1, <2>2, <2>4, <3>1, <3>3, <3>4, GoesOn
  <2>5. CASE c.to.turn \in server.dropped /\ Take("chat", c) /\ UNCHANGED server
    <3>1. ~c.to.mine
      BY <2>5 DEF Typed, DropsFit
    <3> QED  BY <2>1, <2>5, <3>1, VanishesTyped
  <2> QED  BY <2>1, <2>3, <2>4, <2>5
<1>5. CASE Lose
  <2>1. UNCHANGED page /\ server'.dropped = server.dropped
    BY <1>5 DEF Lose
  <2>2. PICK k \in Kinds : \E c \in net[k] : Refuse(k, c)
    BY <1>5, KindsOfChat DEF Lose, Lost, Refuse
  <2> QED  BY <2>1, <2>2, RefusedTyped
<1> QED  BY <1>1, <1>2, <1>3, <1>4, <1>5

\* The chat of a page goes on, over calls that are typed.
LEMMA ScreenTyped ==
    ASSUME Shapes, Typed, UNCHANGED server, page.at = "chat", NEW d, page' = In(d),
           ComposerTyped(d), DOMAIN net' = Kinds, AnswersTyped(net'),
           \A c \in net'["chat"] : c \in net["chat"],
           d.streaming => net'["wallet"] # {} \/ \E c \in net'["chat"] : c.to.mine
    PROVE  Typed'
<1>1. /\ page'.at = page.at /\ page'.items = page.items /\ page'.refreshing = page.refreshing
      /\ page'.asking = page.asking /\ page'.turns = page.turns /\ page'.chat = d
  BY DEF Shapes, PageShape, In
<1>2. ListTyped(page') /\ ComposerTyped(page'.chat)
  BY <1>1 DEF Typed, ListTyped
<1>3. LeftBehind(page', net') /\ Busy(page', net')
  BY <1>1 DEF LeftBehind, Busy
<1>4. DropsFit(page', server'.dropped, net')
  BY <1>1 DEF Typed, DropsFit
<1> QED  BY <1>2, <1>3, <1>4 DEF Typed

\* The list under it does.
LEMMA BesideTyped ==
    ASSUME Shapes, Typed, UNCHANGED server, ListTyped(page'), page'.chat = page.chat,
           page'.at = page.at, page'.turns = page.turns,
           DOMAIN net' = Kinds, AnswersTyped(net'),
           \A k \in ChatKinds : net'[k] = net[k]
    PROVE  Typed'
BY DEF Typed, LeftBehind, DropsFit, Busy, ChatKinds

LEMMA ListStepsTyped ==
    ASSUME Shapes, Typed,
           \/ DeliverItems \/ DeliverDelete \/ Reload \/ AnswerDelete
           \/ \E id \in Turns : LongPress(id)
    PROVE  Typed'
<1>1. UNCHANGED server /\ DOMAIN net = Kinds /\ AnswersTyped(net) /\ ListTyped(page) /\ PageShape(page)
  BY DEF Typed, Shapes, DeliverItems, DeliverDelete, Reload, AnswerDelete, LongPress, OnlyPage
<1>2. PICK x, y, z : /\ page' = [page EXCEPT !.refreshing = x, !.items = y, !.asking = z]
                     /\ x \in BOOLEAN /\ y \in SUBSET Turns /\ z \in Ids
  <2>0. /\ page = [page EXCEPT !.refreshing = page.refreshing, !.items = page.items, !.asking = page.asking]
        /\ page.refreshing \in BOOLEAN /\ page.items \in SUBSET Turns /\ page.asking \in Ids
    BY <1>1 DEF PageShape, ListTyped
  <2>1. CASE DeliverItems
    <3>1. PICK y : page' = [page EXCEPT !.refreshing = FALSE, !.items = y] /\ y \in SUBSET Turns
      BY <1>1, <2>0, <2>1 DEF DeliverItems, AnswersTyped, Came
    <3>2. page' = [page EXCEPT !.refreshing = FALSE, !.items = y, !.asking = page.asking]
      BY <1>1, <3>1 DEF PageShape
    <3> QED  BY <2>0, <3>1, <3>2
  <2>2. CASE DeliverDelete \/ Reload
    <3>1. UNCHANGED page \/ page' = [page EXCEPT !.refreshing = TRUE]
      BY <2>2 DEF DeliverDelete, Reload
    <3>2. page' = [page EXCEPT !.refreshing = TRUE]
             => page' = [page EXCEPT !.refreshing = TRUE, !.items = page.items, !.asking = page.asking]
      BY <1>1 DEF PageShape
    <3> QED  BY <2>0, <3>1, <3>2
  <2>3. CASE AnswerDelete \/ \E id \in Turns : LongPress(id)
    <3>1. PICK z \in Ids : page' = [page EXCEPT !.asking = z]
      BY <2>3 DEF AnswerDelete, LongPress, Ids
    <3>2. page' = [page EXCEPT !.refreshing = page.refreshing, !.items = page.items, !.asking = z]
      BY <1>1, <3>1 DEF PageShape
    <3> QED  BY <2>0, <3>2
  <2> QED  BY <2>1, <2>2, <2>3
<1>3. ListTyped(page') /\ page'.chat = page.chat /\ page'.at = page.at /\ page'.turns = page.turns
  BY <1>1, <1>2 DEF PageShape, ListTyped
<1>4. DOMAIN net' = Kinds /\ AnswersTyped(net') /\ \A k \in ChatKinds : net'[k] = net[k]
  <2>1. CASE DeliverItems
    <3>0. DOMAIN net = Kinds /\ AnswersTyped(net)
      BY <1>1
    <3>1. PICK c : net' = Without(net, "list", c)
      BY <2>1 DEF DeliverItems, Take
    <3>2. /\ DOMAIN net' = Kinds /\ AnswersTyped(net')
          /\ net'["list"] = net["list"] \ {c} /\ \A j \in Kinds \ {"list"} : net'[j] = net[j]
      BY <3>0, <3>1, TakeTyped, KindsOfChat
    <3> QED  BY <3>2, ChatOrList
  <2>2. CASE Reload \/ AnswerDelete \/ \E id \in Turns : LongPress(id)
    <3>1. CASE UNCHANGED net
      BY <1>1, <3>1
    <3>2. ASSUME NEW k \in ListKinds, NEW a, net' = Asking(net, k, a)
          PROVE  DOMAIN net' = Kinds /\ AnswersTyped(net') /\ \A j \in ChatKinds : net'[j] = net[j]
      <4>1. /\ DOMAIN net' = Kinds /\ AnswersTyped(net')
            /\ net'[k] = net[k] \cup {Sent(a)} /\ \A j \in Kinds \ {k} : net'[j] = net[j]
        BY <1>1, <3>2, AskTyped DEF Kinds
      <4> QED  BY <4>1, ChatOrList DEF ListKinds
    <3>3. UNCHANGED net \/ \E k \in ListKinds : \E a : net' = Asking(net, k, a)
      BY <2>2 DEF Reload, AnswerDelete, LongPress, Ask, ListKinds
    <3> QED  BY <3>1, <3>2, <3>3
  <2>3. CASE DeliverDelete
    <3>1. PICK c, n : n = Without(net, "delete", c) /\ (net' = n \/ net' = Asking(n, "list", Nobody))
      BY <2>3 DEF DeliverDelete, Take
    <3>2. /\ DOMAIN n = Kinds /\ AnswersTyped(n)
          /\ n["delete"] = net["delete"] \ {c} /\ \A j \in Kinds \ {"delete"} : n[j] = net[j]
      BY <1>1, <3>1, TakeTyped, KindsOfChat
    <3>3. CASE net' = Asking(n, "list", Nobody)
      <4>1. PICK k \in Kinds : k = "list" /\ net' = Asking(n, k, Nobody)
        BY <3>3, KindsOfChat
      <4>2. DOMAIN net' = Kinds /\ AnswersTyped(net') /\ \A j \in Kinds \ {k} : net'[j] = n[j]
        BY <3>2, <4>1, AskTyped
      <4> QED  BY <3>2, <4>1, <4>2, ChatOrList
    <3> QED  BY <3>1, <3>2, <3>3, ChatOrList
  <2> QED  BY <2>1, <2>2, <2>3
<1> QED  BY <1>1, <1>3, <1>4, BesideTyped

LEMMA FirstTyped ==
    ASSUME NEW id, NEW d, d = ChatFirst(id)
    PROVE  ComposerTyped(d) /\ ~d.streaming /\ ~d.began /\ ~d.picker /\ d.attachments = 0
BY DEF ChatFirst, ComposerTyped

LEMMA DecoratedTyped ==
    ASSUME NEW c, ChatShape(c), ComposerTyped(c), NEW v, NEW d,
           \/ d = [c EXCEPT !.typed = v] /\ v \in BOOLEAN
           \/ d = [c EXCEPT !.attachments = v] /\ v \in Nat
           \/ d = [c EXCEPT !.uploading = v] /\ v \in BOOLEAN
           \/ d = [c EXCEPT !.selectedModel = v] /\ v \in Models \cup {"none"}
           \/ d = [c EXCEPT !.picker = v] /\ v \in BOOLEAN
           \/ d = [c EXCEPT !.began = v] /\ v \in BOOLEAN
    PROVE  ComposerTyped(d) /\ d.streaming = c.streaming
<1> USE DEF ChatShape, ComposerTyped
<1>1. CASE d = [c EXCEPT !.typed = v] /\ v \in BOOLEAN
  BY <1>1
<1>2. CASE d = [c EXCEPT !.attachments = v] /\ v \in Nat
  BY <1>2
<1>3. CASE d = [c EXCEPT !.uploading = v] /\ v \in BOOLEAN
  BY <1>3
<1>4. CASE d = [c EXCEPT !.selectedModel = v] /\ v \in Models \cup {"none"}
  BY <1>4
<1>5. CASE d = [c EXCEPT !.picker = v] /\ v \in BOOLEAN
  BY <1>5
<1>6. CASE d = [c EXCEPT !.began = v] /\ v \in BOOLEAN
  BY <1>6
<1> QED  BY <1>1, <1>2, <1>3, <1>4, <1>5, <1>6

LEMMA ComposerStepsTyped ==
    ASSUME Shapes, Typed,
           \/ DeliverModels \/ DeliverUpload \/ OpenPicker \/ ClosePicker
           \/ TypeText \/ PickImage \/ RemoveAttachment
    PROVE  Typed'
<1>1. /\ UNCHANGED server /\ DOMAIN net = Kinds /\ AnswersTyped(net)
      /\ ComposerTyped(page.chat) /\ ChatShape(page.chat) /\ Busy(page, net) /\ LeftBehind(page, net)
  BY DEF Typed, Shapes, DeliverModels, DeliverUpload, OpenPicker, ClosePicker, TypeText, PickImage,
         RemoveAttachment, OnlyPage
<1>2. page.at \in {"list", "chat"}
  BY DEF Typed, ListTyped
<1>3. page.at = "chat"
  <2>1. OpenPicker \/ TypeText \/ PickImage => page.at = "chat"
    BY DEF OpenPicker, TypeText, PickImage, CanOpenPicker, CanAttach, ChatShown
  <2>2. ClosePicker \/ RemoveAttachment => page.chat # ChatFirst(Nobody)
    <3>1. page.chat = ChatFirst(Nobody) => ~page.chat.picker /\ page.chat.attachments = 0
      BY DEF ChatFirst
    <3>2. ClosePicker \/ RemoveAttachment => page.chat.picker \/ page.chat.attachments > 0
      BY DEF ClosePicker, RemoveAttachment
    <3> QED  BY <3>1, <3>2
  <2>3. DeliverModels \/ DeliverUpload => net["models"] # {} \/ net["upload"] # {}
    BY DEF DeliverModels, DeliverUpload, Came
  <2> QED  BY <1>1, <1>2, <2>1, <2>2, <2>3 DEF LeftBehind
<1>4. /\ DOMAIN net' = Kinds /\ AnswersTyped(net') /\ net'["chat"] = net["chat"]
      /\ net'["wallet"] = net["wallet"]
  <2>1. \/ UNCHANGED net \/ \E a : net' = Asking(net, "upload", a)
        \/ \E k \in {"models", "upload"} : \E c : net' = Without(net, k, c)
    BY DEF DeliverModels, DeliverUpload, OpenPicker, ClosePicker, TypeText, PickImage,
           RemoveAttachment, Ask, Take
  <2>2. CASE UNCHANGED net
    BY <1>1, <2>2
  <2>3. CASE \E a : net' = Asking(net, "upload", a)
    <3>1. PICK k \in Kinds : \E a : k = "upload" /\ net' = Asking(net, k, a)
      BY <2>3, KindsOfChat
    <3>2. DOMAIN net' = Kinds /\ AnswersTyped(net') /\ \A j \in Kinds \ {k} : net'[j] = net[j]
      BY <1>1, <3>1, AskTyped
    <3> QED  BY <3>1, <3>2, KindsOfChat
  <2>4. CASE \E k \in {"models", "upload"} : \E c : net' = Without(net, k, c)
    <3>1. PICK k \in {"models", "upload"} : \E c : net' = Without(net, k, c)
      BY <2>4
    <3>2. k \in Kinds
      BY KindsOfChat
    <3>3. DOMAIN net' = Kinds /\ AnswersTyped(net') /\ \A j \in Kinds \ {k} : net'[j] = net[j]
      BY <1>1, <3>1, <3>2, TakeTyped
    <3> QED  BY <3>3, KindsOfChat
  <2> QED  BY <2>1, <2>2, <2>3, <2>4
<1>5. ASSUME NEW d, page' = In(d), ComposerTyped(d), d.streaming = page.chat.streaming
      PROVE  Typed'
  BY <1>1, <1>3, <1>4, <1>5, ScreenTyped DEF Busy
<1>6. CASE DeliverModels
  <2>1. PICK m \in Models \cup {"none"} : page' = In([page.chat EXCEPT !.selectedModel = m]) \/ page' = page
    BY <1>1, <1>6 DEF DeliverModels, AnswersTyped, Came
  <2>2. page = In(page.chat)
    BY DEF In, Shapes, PageShape
  <2>3. PICK d : d = [page.chat EXCEPT !.selectedModel = m]
    OBVIOUS
  <2>4. ComposerTyped(d) /\ d.streaming = page.chat.streaming
    BY <1>1, <2>3 DEF ComposerTyped, ChatShape
  <2> QED  BY <1>1, <1>5, <2>1, <2>2, <2>3, <2>4
<1>7. CASE OpenPicker \/ TypeText \/ PickImage \/ RemoveAttachment
  <2>1. PICK d, v :
           /\ page' = In(d)
           /\ \/ v = TRUE /\ d = [page.chat EXCEPT !.picker = v]
              \/ v = TRUE /\ d = [page.chat EXCEPT !.typed = v]
              \/ v = TRUE /\ d = [page.chat EXCEPT !.uploading = v]
              \/ /\ d = [page.chat EXCEPT !.attachments = v]
                 /\ v = page.chat.attachments - 1 /\ page.chat.attachments > 0
    BY <1>7 DEF OpenPicker, TypeText, PickImage, RemoveAttachment
  <2>2. page.chat.attachments \in Nat
    BY <1>1 DEF ComposerTyped
  <2>3. ComposerTyped(d) /\ d.streaming = page.chat.streaming
    <3>1. CASE /\ v \in BOOLEAN
               /\ \/ d = [page.chat EXCEPT !.picker = v]
                  \/ d = [page.chat EXCEPT !.typed = v]
                  \/ d = [page.chat EXCEPT !.uploading = v]
      BY <1>1, <3>1, DecoratedTyped
    <3>2. CASE v \in Nat /\ d = [page.chat EXCEPT !.attachments = v]
      BY <1>1, <3>2, DecoratedTyped
    <3>3. CASE /\ v = TRUE
               /\ \/ d = [page.chat EXCEPT !.picker = v]
                  \/ d = [page.chat EXCEPT !.typed = v]
                  \/ d = [page.chat EXCEPT !.uploading = v]
      <4>1. v \in BOOLEAN
        BY <3>3
      <4> QED  BY <3>1, <3>3, <4>1
    <3>4. CASE v = page.chat.attachments - 1 /\ page.chat.attachments > 0
               /\ d = [page.chat EXCEPT !.attachments = v]
      <4>1. v \in Nat
        BY <2>2, <3>4
      <4> QED  BY <3>2, <3>4, <4>1
    <3> QED  BY <2>1, <3>3, <3>4
  <2> QED  BY <1>5, <2>1, <2>3
<1>8. CASE ClosePicker
  <2>1. PICK m \in Models \cup {page.chat.selectedModel} :
           page' = In([page.chat EXCEPT !.picker = FALSE, !.selectedModel = m])
    BY <1>8 DEF ClosePicker
  <2>2. PICK e : e = [page.chat EXCEPT !.picker = FALSE]
    OBVIOUS
  <2>3. PICK d : d = [e EXCEPT !.selectedModel = m]
    OBVIOUS
  <2>4. ComposerTyped(e) /\ ChatShape(e) /\ e.streaming = page.chat.streaming
    BY <1>1, <2>2, Decorated, DecoratedTyped
  <2>5. m \in Models \cup {"none"}
    BY <1>1, <2>1 DEF ComposerTyped
  <2>6. ComposerTyped(d) /\ d.streaming = page.chat.streaming
    BY <2>3, <2>4, <2>5, DecoratedTyped
  <2>7. page' = In(d)
    BY <2>1, <2>2, <2>3
  <2> QED  BY <1>5, <2>6, <2>7
<1>9. CASE DeliverUpload
  <2>1. PICK a \in Nat : page' = In([page.chat EXCEPT !.uploading = FALSE, !.attachments = a])
    <3>1. PICK c : page' = In([page.chat EXCEPT !.uploading = FALSE,
                                !.attachments = IF Ok(c) THEN @ + 1 ELSE @])
      BY <1>9 DEF DeliverUpload
    <3>2. (IF Ok(c) THEN page.chat.attachments + 1 ELSE page.chat.attachments) \in Nat
      BY <1>1 DEF ComposerTyped
    <3> QED  BY <3>1, <3>2
  <2>2. PICK e : e = [page.chat EXCEPT !.uploading = FALSE]
    OBVIOUS
  <2>3. PICK d : d = [e EXCEPT !.attachments = a]
    OBVIOUS
  <2>4. ComposerTyped(e) /\ ChatShape(e) /\ e.streaming = page.chat.streaming
    BY <1>1, <2>2, Decorated, DecoratedTyped
  <2>5. ComposerTyped(d) /\ d.streaming = page.chat.streaming
    BY <2>3, <2>4, DecoratedTyped
  <2>6. page' = In(d)
    BY <2>1, <2>2, <2>3
  <2> QED  BY <1>5, <2>5, <2>6
<1> QED  BY <1>6, <1>7, <1>8, <1>9

-----------------------------------------------------------------------------

LEMMA OpenChatTyped ==
    ASSUME Shapes, Typed, Screened, NEW id \in Ids, OpenChat(id)
    PROVE  Typed'
<1>1. PICK d : d = ChatFirst(id)
  OBVIOUS
<1>2. ComposerTyped(d) /\ ~d.streaming
  BY <1>1, FirstTyped
<1>3. page.at = "list" /\ UNCHANGED <<net, server>> /\ page' = [page EXCEPT !.at = "chat", !.chat = d]
  BY <1>1 DEF OpenChat, ListShown, OnlyPage
<1>4. /\ page'.at = "chat" /\ page'.items = page.items /\ page'.refreshing = page.refreshing
      /\ page'.asking = page.asking /\ page'.turns = page.turns /\ page'.chat = d
  BY <1>3 DEF Shapes, PageShape
<1>5. ListTyped(page') /\ ComposerTyped(page'.chat)
  BY <1>2, <1>4 DEF Typed, ListTyped
<1>6. LeftBehind(page', net) /\ Busy(page', net) /\ DropsFit(page', server.dropped, net)
  BY <1>2, <1>4 DEF Typed, LeftBehind, Busy, DropsFit
<1> QED  BY <1>3, <1>5, <1>6 DEF Typed

LEMMA GoBackTyped ==
    ASSUME Shapes, Typed, NEW home, Stores(home), GoBack
    PROVE  Typed'
<1>1. PICK n : n = Disowned(net)
  OBVIOUS
<1>2. /\ DOMAIN n = Kinds /\ n["list"] = net["list"] /\ n["models"] = {} /\ n["upload"] = {}
      /\ n["chat"] = {[c EXCEPT !.to.mine = FALSE] : c \in net["chat"]}
  BY <1>1 DEF Shapes, Disowned, Kinds, ListKinds, ChatKinds
<1>3. AnswersTyped(n)
  BY <1>2 DEF Typed, AnswersTyped
<1>4. \A c \in n["chat"] : ~c.to.mine
  BY ZenonT(60), <1>2 DEF Stores, PromptFits
<1>5. net' = Asking(n, "list", Nobody) /\ UNCHANGED server
      /\ page' = [page EXCEPT !.at = "list", !.chat = ChatFirst(Nobody), !.refreshing = TRUE]
  BY <1>1 DEF GoBack, OnlyPage
<1>6. PICK k \in Kinds : k = "list" /\ net' = Asking(n, k, Nobody)
  BY <1>5, KindsOfChat
<1>7. AnswersTyped(net') /\ \A j \in Kinds \ {k} : net'[j] = n[j]
  BY <1>2, <1>3, <1>6, AskTyped
<1>8. net'["models"] = {} /\ net'["upload"] = {} /\ net'["chat"] = n["chat"]
  BY <1>2, <1>6, <1>7, KindsOfChat
<1>9. /\ page'.at = "list" /\ page'.items = page.items /\ page'.refreshing = TRUE
      /\ page'.asking = page.asking /\ page'.turns = page.turns /\ page'.chat = ChatFirst(Nobody)
  BY <1>5 DEF Shapes, PageShape
<1>10. ComposerTyped(page'.chat) /\ ~page'.chat.streaming
  BY <1>9, FirstTyped
<1>11. ListTyped(page')
  BY <1>9 DEF Typed, ListTyped
<1>12. LeftBehind(page', net') /\ Busy(page', net')
  BY <1>8, <1>9, <1>10 DEF LeftBehind, Busy
<1>13. DropsFit(page', server.dropped, net')
  BY <1>4, <1>8, <1>9 DEF Typed, DropsFit
<1> QED  BY <1>5, <1>7, <1>10, <1>11, <1>12, <1>13 DEF Typed

LEMMA MountedTyped ==
    ASSUME Shapes, Typed, Mounted
    PROVE  Typed'
<1>1. PICK d : d = [page.chat EXCEPT !.began = TRUE]
  OBVIOUS
<1>2. ComposerTyped(d) /\ d.streaming = page.chat.streaming
  BY <1>1, DecoratedTyped DEF Typed, Shapes
<1>3. page.at = "chat" /\ UNCHANGED server /\ page' = In(d)
  BY <1>1 DEF Mounted, OnlyPage
<1>4. PICK n : n = IF "models" \in does THEN Asking(net, "models", Nobody) ELSE net
  OBVIOUS
<1>5. net' = n \/ net' = Asking(n, "load", page.chat.initialId)
  BY <1>4 DEF Mounted
<1>6. DOMAIN net = Kinds /\ AnswersTyped(net)
  BY DEF Shapes, Typed
<1>7. DOMAIN n = Kinds /\ AnswersTyped(n) /\ n["chat"] = net["chat"] /\ n["wallet"] = net["wallet"]
  <2>1. CASE n = net
    BY <1>6, <2>1
  <2>2. CASE n = Asking(net, "models", Nobody)
    <3>1. PICK k \in Kinds : k = "models" /\ n = Asking(net, k, Nobody)
      BY <2>2, KindsOfChat
    <3>2. n = Asking(net, k, Nobody)
      BY <3>1
    <3>3. DOMAIN n = Kinds /\ AnswersTyped(n) /\ \A j \in Kinds \ {k} : n[j] = net[j]
      BY <1>6, <3>2, AskTyped
    <3> QED  BY <3>1, <3>3, KindsOfChat
  <2> QED  BY <1>4, <2>1, <2>2
<1>8. /\ DOMAIN net' = Kinds /\ AnswersTyped(net')
      /\ net'["chat"] = net["chat"] /\ net'["wallet"] = net["wallet"]
  <2>1. CASE net' = n
    BY <1>7, <2>1
  <2>2. CASE net' = Asking(n, "load", page.chat.initialId)
    <3>1. PICK k \in Kinds : k = "load" /\ net' = Asking(n, k, page.chat.initialId)
      BY <2>2, KindsOfChat
    <3>2. DOMAIN net' = Kinds /\ AnswersTyped(net') /\ \A j \in Kinds \ {k} : net'[j] = n[j]
      BY <1>7, <3>1, AskTyped
    <3> QED  BY <1>7, <3>1, <3>2, KindsOfChat
  <2> QED  BY <1>5, <2>1, <2>2
<1>9. Busy(page, net)
  BY DEF Typed
<1> QED  BY <1>2, <1>3, <1>8, <1>9, ScreenTyped DEF Busy

\* The conversation and what is shown of it are of their types in any case (Shapes).
LEMMA ShownTyped ==
    ASSUME NEW c, ChatShape(c), ComposerTyped(c), NEW i, NEW m, NEW s, NEW d,
           d = [c EXCEPT !.messages = m] \/ d = [c EXCEPT !.streaming = s]
              \/ d = [c EXCEPT !.conversationId = i, !.messages = m]
    PROVE  ComposerTyped(d)
BY DEF ChatShape, ComposerTyped

\* A call of the screen is answered: it is there.
LEMMA ScreenIsThere ==
    ASSUME Screened, Typed, net["load"] # {} \/ net["wallet"] # {} \/ \E c \in net["chat"] : c.to.mine
    PROVE  page.at = "chat"
BY DEF Screened

LEMMA ChatDelivered ==
    ASSUME Shapes, Typed, Screened, DeliverLoad \/ DeliverWallet
    PROVE  Typed'
<1>0. /\ UNCHANGED server /\ page.at = "chat" /\ DOMAIN net = Kinds /\ AnswersTyped(net)
      /\ ComposerTyped(page.chat) /\ ChatShape(page.chat) /\ Busy(page, net)
  BY ScreenIsThere DEF Typed, Shapes, DeliverLoad, DeliverWallet, Came, OnlyPage
<1>1. PICK k \in {"load", "wallet"} : \E c : net' = Without(net, k, c)
                /\ (k = "load" <=> DeliverLoad)
  <2>1. DeliverLoad => \E c : net' = Without(net, "load", c)
    BY DEF DeliverLoad, Take
  <2>2. DeliverWallet => \E c : net' = Without(net, "wallet", c)
    BY DEF DeliverWallet, Take
  <2> QED  BY <2>1, <2>2
<1>2. DOMAIN net' = Kinds /\ AnswersTyped(net') /\ \A j \in Kinds \ {k} : net'[j] = net[j]
  BY <1>0, <1>1, TakeTyped, KindsOfChat
<1>3. net'["chat"] = net["chat"] /\ (k = "load" => net'["wallet"] = net["wallet"])
  BY <1>1, <1>2, KindsOfChat
<1>4. CASE DeliverLoad
  <2>1. PICK d, m : page' = In(d) /\ (d = page.chat \/ d = [page.chat EXCEPT !.messages = m])
    <3>1. page = In(page.chat)
      BY DEF In, Shapes, PageShape
    <3> QED  BY <1>4, <3>1 DEF DeliverLoad
  <2>2. ComposerTyped(d)
    BY <1>0, <2>1, ShownTyped
  <2>3. d.streaming = page.chat.streaming
    BY <1>0, <2>1 DEF ChatShape
  <2> QED  BY <1>0, <1>1, <1>2, <1>3, <1>4, <2>1, <2>2, <2>3, ScreenTyped DEF Busy
<1>5. CASE DeliverWallet
  <2>1. PICK d : d = [page.chat EXCEPT !.streaming = FALSE]
    OBVIOUS
  <2>2. ComposerTyped(d) /\ ~d.streaming
    BY <1>0, <2>1, ShownTyped DEF ChatShape
  <2>3. page' = In(d)
    BY <1>5, <2>1 DEF DeliverWallet
  <2> QED  BY <1>0, <1>2, <1>3, <2>2, <2>3, ScreenTyped
<1> QED  BY <1>4, <1>5

LEMMA DeliverChatTyped ==
    ASSUME Shapes, Typed, Screened, DeliverChat
    PROVE  Typed'
<1>1. PICK c \in net["chat"] :
        \/ /\ c.to.mine /\ net' = Asking(Without(net, "chat", c), "wallet", Nobody)
           /\ \E i, m : page' = In([page.chat EXCEPT !.conversationId = i, !.messages = m])
        \/ /\ Take("chat", c)
           /\ page' = IF c.to.mine THEN In([page.chat EXCEPT !.streaming = FALSE]) ELSE page
  BY DEF DeliverChat, Came
<1>2. /\ UNCHANGED server /\ DOMAIN net = Kinds /\ AnswersTyped(net)
      /\ ComposerTyped(page.chat) /\ ChatShape(page.chat)
  BY DEF Typed, Shapes, DeliverChat, OnlyPage
<1>3. PICK k \in Kinds : k = "chat"
  BY KindsOfChat
<1>4. PICK n : n = Without(net, k, c)
  OBVIOUS
<1>5. DOMAIN n = Kinds /\ AnswersTyped(n) /\ n[k] = net[k] \ {c}
  BY <1>2, <1>4, TakeTyped
<1>6. CASE c.to.mine /\ net' = Asking(n, "wallet", Nobody)
           /\ \E i, m : page' = In([page.chat EXCEPT !.conversationId = i, !.messages = m])
  <2>1. PICK w \in Kinds : w = "wallet" /\ net' = Asking(n, w, Nobody)
    BY <1>6, KindsOfChat
  <2>2. /\ DOMAIN net' = Kinds /\ AnswersTyped(net') /\ net'[w] = n[w] \cup {Sent(Nobody)}
        /\ \A j \in Kinds \ {w} : net'[j] = n[j]
    BY <1>5, <2>1, AskTyped
  <2>3. net'["wallet"] # {} /\ \A b \in net'["chat"] : b \in net["chat"]
    BY <1>3, <1>5, <2>1, <2>2, KindsOfChat
  <2>4. PICK d, i, m : d = [page.chat EXCEPT !.conversationId = i, !.messages = m] /\ page' = In(d)
    BY <1>6
  <2>5. ComposerTyped(d)
    BY <1>2, <2>4, ShownTyped
  <2>6. page.at = "chat"
    BY <1>6, ScreenIsThere
  <2> QED  BY <1>2, <2>2, <2>3, <2>4, <2>5, <2>6, ScreenTyped
<1>7. CASE c.to.mine /\ net' = n /\ page' = In([page.chat EXCEPT !.streaming = FALSE])
  <2>1. PICK d : d = [page.chat EXCEPT !.streaming = FALSE]
    OBVIOUS
  <2>2. ComposerTyped(d) /\ ~d.streaming
    BY <1>2, <2>1, ShownTyped DEF ChatShape
  <2>3. page.at = "chat" /\ \A b \in net'["chat"] : b \in net["chat"]
    BY <1>3, <1>5, <1>7, ScreenIsThere
  <2> QED  BY <1>2, <1>5, <1>7, <2>1, <2>2, <2>3, ScreenTyped
<1>8. CASE ~c.to.mine /\ Take("chat", c) /\ page' = page
  BY <1>2, <1>8, VanishesTyped
<1>9. Take("chat", c) => net' = n
  BY <1>3, <1>4 DEF Take
<1>10. Asking(Without(net, "chat", c), "wallet", Nobody) = Asking(n, "wallet", Nobody)
  BY <1>3, <1>4
<1> QED  BY <1>1, <1>6, <1>7, <1>8, <1>9, <1>10

LEMMA StopTyped ==
    ASSUME Shapes, Typed, Screened, NEW home \in [Turns -> Turns], Stores(home), Stop
    PROVE  Typed'
<1>1. PICK c \in net["chat"] :
        /\ c.to.mine /\ page' = In([page.chat EXCEPT !.streaming = FALSE])
        /\ net' = [net EXCEPT !["chat"] = (@ \ {c}) \cup
              (IF c.phase \in {"answered", "failed"} THEN {} ELSE {[c EXCEPT !.to.mine = FALSE]})]
        /\ server' = [server EXCEPT !.dropped = @ \cup {c.to.turn}]
  BY DEF Stop
<1>2. server'.dropped = server.dropped \cup {c.to.turn}
  BY <1>1 DEF Shapes, ServerShape
<1>3. PICK b : b = [c EXCEPT !.to.mine = FALSE]
  OBVIOUS
<1>4. PromptFits(home, c, page.turns)
  BY DEF Stores
<1>5. ~b.to.mine /\ c.to.turn \in Turns /\ c.to.turn <= page.turns
  BY <1>3, <1>4, Disowning DEF PromptFits
<1>6. /\ net'["list"] = net["list"] /\ net'["models"] = net["models"]
      /\ net'["upload"] = net["upload"] /\ net'["chat"] \subseteq (net["chat"] \ {c}) \cup {b}
  BY <1>1, <1>3 DEF Shapes, Kinds, ListKinds, ChatKinds
<1>7. \A e \in net'["chat"] : ~e.to.mine
  BY <1>1, <1>5, <1>6 DEF Screened
<1>8. PICK d : d = [page.chat EXCEPT !.streaming = FALSE]
  OBVIOUS
<1>9. ComposerTyped(d) /\ ~d.streaming
  BY <1>8, ShownTyped DEF Typed, Shapes, ChatShape
<1>10. page' = In(d) /\ page.at = "chat"
  BY <1>1, <1>8, ScreenIsThere
<1>11. /\ page'.at = page.at /\ page'.items = page.items /\ page'.refreshing = page.refreshing
       /\ page'.asking = page.asking /\ page'.turns = page.turns /\ page'.chat = d
  BY <1>10 DEF Shapes, PageShape, In
<1>12. ListTyped(page') /\ ComposerTyped(page'.chat) /\ AnswersTyped(net')
  BY <1>6, <1>9, <1>11 DEF Typed, ListTyped, AnswersTyped
<1>13. LeftBehind(page', net') /\ Busy(page', net')
  BY <1>9, <1>10, <1>11 DEF LeftBehind, Busy
<1>14. DropsFit(page', server'.dropped, net')
  BY <1>2, <1>5, <1>7, <1>11 DEF Typed, DropsFit
<1> QED  BY <1>12, <1>13, <1>14 DEF Typed

LEMMA SendPromptTyped ==
    ASSUME Shapes, Typed, Screened, NEW home \in [Turns -> Turns], Stores(home), SendPrompt
    PROVE  Typed'
<1>1. PICK turn : turn = page.turns + 1
  OBVIOUS
<1>2. PICK h, ms, to :
        /\ h = (page.hasty \/ (page.chat.messages # <<>> /\ page.chat.conversationId = Nobody))
        /\ ms = Append(page.chat.messages, [turn |-> turn, who |-> "user"])
        /\ to = [turn |-> turn, conv |-> page.chat.conversationId, mine |-> TRUE]
  OBVIOUS
<1>20. page.at = "chat" /\ turn <= MaxTurns /\ UNCHANGED server /\ to.mine = TRUE /\ to.turn = turn
  BY <1>1, <1>2 DEF SendPrompt, CanSend, ChatShown, OnlyPage
<1>21. net' = Asking(net, "chat", to)
  BY <1>1, <1>2 DEF SendPrompt, Ask
<1>22. page' = [page EXCEPT !.turns = turn, !.hasty = h,
              !.chat = [page.chat EXCEPT !.typed = FALSE, !.attachments = 0, !.streaming = TRUE,
                  !.messages = ms]]
  BY <1>1, <1>2 DEF SendPrompt
<1>3. PageShape(page) /\ ChatShape(page.chat) /\ DOMAIN net = Kinds /\ AnswersTyped(net)
  BY DEF Shapes, Typed
<1>4. PICK d : d = [page.chat EXCEPT !.typed = FALSE, !.attachments = 0, !.streaming = TRUE,
                                     !.messages = ms]
  OBVIOUS
<1>5. d.typed = FALSE /\ d.attachments = 0 /\ d.uploading = page.chat.uploading
      /\ d.selectedModel = page.chat.selectedModel /\ d.picker = page.chat.picker
      /\ d.began = page.chat.began
  BY <1>3, <1>4 DEF ChatShape
<1>6. ComposerTyped(d)
  <2>1. ComposerTyped(page.chat)
    BY DEF Typed
  <2>2. FALSE \in BOOLEAN /\ 0 \in Nat
    OBVIOUS
  <2> QED  BY <1>5, <2>1, <2>2 DEF ComposerTyped
<1>7. page' = [page EXCEPT !.turns = turn, !.hasty = h, !.chat = d]
  BY <1>4, <1>22
<1>8. /\ page'.at = page.at /\ page'.items = page.items /\ page'.refreshing = page.refreshing
      /\ page'.asking = page.asking /\ page'.turns = turn /\ page'.chat = d
  BY <1>3, <1>7 DEF PageShape
<1>9. PICK k \in Kinds : k = "chat" /\ net' = Asking(net, k, to)
  BY <1>21, KindsOfChat
<1>10. AnswersTyped(net') /\ net'[k] = net[k] \cup {Sent(to)}
  BY <1>3, <1>9, AskTyped
<1>11. Sent(to).to = to /\ Sent(to) \in net'["chat"]
       /\ \A b \in net'["chat"] : b \in net["chat"] \/ b = Sent(to)
  BY <1>9, <1>10 DEF Sent
<1>12. ListTyped(page')
  BY <1>8, <1>20 DEF Typed, ListTyped
<1>13. LeftBehind(page', net') /\ Busy(page', net')
  BY <1>8, <1>11, <1>20 DEF LeftBehind, Busy
<1>14. DropsFit(page', server'.dropped, net')
  <2>1. page.turns \in Nat /\ Turns \subseteq Nat
    BY <1>3 DEF PageShape, Turns
  <2>2. server.dropped \in SUBSET Turns /\ \A t \in server.dropped : t <= page.turns
    BY DEF Typed, DropsFit
  <2>3. \A t \in server.dropped : t <= turn /\ t # turn
    <3> SUFFICES ASSUME NEW t \in server.dropped
                 PROVE  t <= turn /\ t # turn
      OBVIOUS
    <3>1. t \in Nat /\ t <= page.turns
      BY <2>1, <2>2
    <3>2. turn = page.turns + 1
      BY <1>1
    <3> QED  BY <2>1, <3>1, <3>2
  <2>4. \A b \in net["chat"] : b.to.turn \in server.dropped => ~b.to.mine
    BY DEF Typed, DropsFit
  <2> QED  BY <1>8, <1>11, <1>20, <2>2, <2>3, <2>4 DEF DropsFit
<1> QED  BY <1>6, <1>8, <1>10, <1>12, <1>13, <1>14 DEF Typed

-----------------------------------------------------------------------------

LEMMA TypedStarts ==
    ASSUME MaxTurns \in Nat, NEW n \in 0 .. MaxTurns, Stored = 1 .. n, MobileChatInit
    PROVE  Typed
<1>1. PICK b : b = Before
  OBVIOUS
<1>2. PICK d : d = ChatFirst(Nobody)
  OBVIOUS
<1>3. /\ page = [at |-> "list", items |-> {}, refreshing |-> TRUE, asking |-> Nobody,
                 chat |-> d, turns |-> Cardinality(b), hasty |-> FALSE]
      /\ net = [k \in Kinds |-> IF k = "list" THEN {Sent(Nobody)} ELSE {}]
      /\ server.dropped = {}
  BY <1>1, <1>2 DEF MobileChatInit
<1>4. PICK m \in 0 .. MaxTurns : b = 1 .. m
  <2>1. b = {} \/ b = 1 .. n
    BY <1>1 DEF Before
  <2>2. 1 .. 0 = {} /\ 0 \in 0 .. MaxTurns
    OBVIOUS
  <2> QED  BY <2>1, <2>2
<1>5. Cardinality(b) = m /\ m <= MaxTurns
  <2>1. m \in Nat /\ 1 \in Int /\ m <= MaxTurns
    OBVIOUS
  <2>2. Cardinality(1 .. m) = IF 1 > m THEN 0 ELSE m - 1 + 1
    BY <2>1, FS_Interval
  <2> QED  BY <1>4, <2>1, <2>2
<1>6. ComposerTyped(d) /\ ~d.streaming
  BY <1>2, FirstTyped
<1>7. ListTyped(page) /\ ComposerTyped(page.chat)
  BY <1>3, <1>5, <1>6 DEF ListTyped, Ids
<1>8. /\ net["models"] = {} /\ net["upload"] = {} /\ net["chat"] = {}
      /\ net["list"] = {Sent(Nobody)}
  BY <1>3, KindsOfChat
<1>9. AnswersTyped(net)
  BY <1>8 DEF AnswersTyped, Sent, Ok
<1>10. LeftBehind(page, net) /\ Busy(page, net) /\ DropsFit(page, server.dropped, net)
  BY <1>2, <1>3, <1>6, <1>8 DEF LeftBehind, Busy, DropsFit
<1> QED  BY <1>7, <1>9, <1>10 DEF Typed

LEMMA TypedSteps ==
    ASSUME ChatInv, Typed, [MobileChatNext]_mobileChatVars
    PROVE  Typed'
<1>1. PICK home \in [Turns -> Turns] : Shapes /\ Stores(home) /\ Screened
  BY DEF ChatInv, Holds
<1>2. CASE ServeReads \/ ServeDelete \/ ServePrompt \/ ServeReply \/ Lose
  BY <1>1, <1>2, ServedTyped
<1>3. CASE \/ DeliverItems \/ DeliverDelete \/ Reload \/ AnswerDelete
           \/ \E id \in Turns : LongPress(id)
  BY <1>1, <1>3, ListStepsTyped
<1>4. CASE \/ DeliverModels \/ DeliverUpload \/ OpenPicker \/ ClosePicker
           \/ TypeText \/ PickImage \/ RemoveAttachment
  BY <1>1, <1>4, ComposerStepsTyped
<1>5. CASE DeliverLoad \/ Mounted
  BY <1>1, <1>5, ChatDelivered, MountedTyped
<1>6. CASE ChatHeard
  BY <1>1, <1>6, ChatDelivered, DeliverChatTyped DEF ChatHeard
<1>7. CASE GoBack \/ Stop \/ SendPrompt
  BY <1>1, <1>7, GoBackTyped, StopTyped, SendPromptTyped
<1>8. CASE \E id \in {Nobody} \cup Turns : OpenChat(id)
  BY <1>1, <1>8, OpenChatTyped DEF Ids
<1>9. CASE UNCHANGED mobileChatVars
  BY <1>9 DEF mobileChatVars, Typed, ListTyped, ComposerTyped, AnswersTyped, LeftBehind, DropsFit, Busy
<1> QED  BY <1>2, <1>3, <1>4, <1>5, <1>6, <1>7, <1>8, <1>9 DEF MobileChatNext

LEMMA ChatLosses ==
    ASSUME MaxLost \in Nat, does \in Workloads, lost \in 0 .. MaxLost, [MobileChatNext]_mobileChatVars
    PROVE  (does \in Workloads)' /\ (lost \in 0 .. MaxLost)'
<1>1. CASE UNCHANGED <<lost, does>>
  BY <1>1
<1>2. CASE Lose
  BY <1>2 DEF Lose, Lost
<1>3. CASE ServeReads \/ ServeDelete \/ ServePrompt \/ ServeReply
  BY <1>3 DEF ServeReads, ServeDelete, ServePrompt, ServeReply, OnlyNet
<1>4. CASE \/ DeliverItems \/ DeliverDelete \/ Reload \/ AnswerDelete \/ Mounted \/ GoBack
           \/ (\E id \in Turns : LongPress(id)) \/ (\E id \in {Nobody} \cup Turns : OpenChat(id))
  BY <1>4 DEF DeliverItems, DeliverDelete, Reload, AnswerDelete, Mounted, GoBack, LongPress,
              OpenChat, OnlyPage
<1>5. CASE \/ DeliverModels \/ DeliverUpload \/ OpenPicker \/ ClosePicker
           \/ TypeText \/ PickImage \/ RemoveAttachment
  BY <1>5 DEF DeliverModels, DeliverUpload, OpenPicker, ClosePicker, TypeText, PickImage,
              RemoveAttachment, OnlyPage
<1>6. CASE DeliverLoad \/ ChatHeard \/ SendPrompt \/ Stop
  BY <1>6 DEF DeliverLoad, ChatHeard, DeliverChat, DeliverWallet, SendPrompt, Stop, OnlyPage
<1>7. CASE UNCHANGED mobileChatVars
  BY <1>7 DEF mobileChatVars
<1> QED  BY <1>1, <1>2, <1>3, <1>4, <1>5, <1>6, <1>7 DEF MobileChatNext


LEMMA TypedIsTypeOK ==
    ASSUME MaxTurns \in Nat, ChatInv, Typed, does \in Workloads, lost \in 0 .. MaxLost
    PROVE  MobileChatTypeOK
<1>1. Shapes
  BY DEF ChatInv, Holds
<1>2. page.chat \in ChatState
  BY <1>1 DEF Shapes, Typed, ChatShape, ComposerTyped, ChatState, Ids
<1>3. page.turns \in 0 .. MaxTurns
  BY <1>1 DEF Shapes, PageShape, Typed, ListTyped
<1>4. page \in Page
  BY <1>1, <1>2, <1>3 DEF Shapes, PageShape, Typed, ListTyped, Page, Ids
<1>5. server \in Server
  BY <1>1 DEF Shapes, ServerShape, Typed, DropsFit, Server
<1> QED  BY <1>1, <1>4, <1>5 DEF Shapes, Typed, LeftBehind, Busy, InFlight, MobileChatTypeOK

\* ConversationsScreen.js and ChatScreen.js: the list and the chat over it are of their
\* types, a chat that was left is forgotten and nothing comes back to it, and a composer
\* that waits has its prompt or the balance on its way, whatever is stopped or lost.
THEOREM MobileChatTypeInvariant ==
    MaxLost \in Nat /\ MaxTurns \in Nat /\ (\E n \in 0 .. MaxTurns : Stored = 1 .. n)
        => (MobileChatSpec => []MobileChatTypeOK)
<1> DEFINE Inv == ChatInv /\ Typed /\ does \in Workloads /\ lost \in 0 .. MaxLost
<1> SUFFICES ASSUME MaxLost \in Nat, MaxTurns \in Nat, \E n \in 0 .. MaxTurns : Stored = 1 .. n
             PROVE  MobileChatSpec => []MobileChatTypeOK
  OBVIOUS
<1>1. MobileChatInit => Inv
  <2>1. MobileChatInit => ChatInv /\ Typed
    BY ChatStarts, TypedStarts
  <2>2. MobileChatInit => does \in Workloads /\ lost \in 0 .. MaxLost
    BY DEF MobileChatInit
  <2> QED  BY <2>1, <2>2
<1>2. Inv /\ [MobileChatNext]_mobileChatVars => Inv'
  <2> SUFFICES ASSUME Inv, [MobileChatNext]_mobileChatVars  PROVE Inv'
    OBVIOUS
  <2>1. PICK home \in [Turns -> Turns] : Holds(home)
    BY DEF ChatInv
  <2>2. ChatInv'
    BY <2>1, ChatSteps DEF ChatInv
  <2> QED  BY <2>2, TypedSteps, ChatLosses
<1>3. Inv => MobileChatTypeOK
  BY TypedIsTypeOK
<1> HIDE DEF Inv
<1> QED  BY <1>1, <1>2, <1>3, PTL DEF MobileChatSpec
=============================================================================
