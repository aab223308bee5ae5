---------------------------- MODULE WebChatProofs ----------------------------
(***************************************************************************)
(* Proofs about WebChat: one thread call at a time for a user who waits,   *)
(* and what the page then shows is what the server keeps.                  *)
(***************************************************************************)
EXTENDS WebChat, FiniteSetTheorems, SequenceTheorems, TLAPS

-----------------------------------------------------------------------------
(* The calls about the thread *)

\* A set any two members of which are equal has at most one.
LEMMA AtMostOneCall == ASSUME NEW S, \A c, d \in S : c = d  PROVE Cardinality(S) <= 1
<1>1. CASE S = {}
  BY <1>1, FS_EmptySet
<1>2. CASE S # {}
  <2>1. PICK x : S = {x}
    BY <1>2
  <2>2. Cardinality({x}) = 1
    BY FS_Singleton
  <2> QED  BY <2>1, <2>2
<1> QED  BY <1>1, <1>2


\* While the user waits for each call about the thread, there is one at most; and the
\* popup of the mentions stands on an entry of its list.
OneThreadCall == \A j, k \in Threads : \A c \in net[j], d \in net[k] : j = k /\ c = d

PopupFits ==
    /\ {"crossed", "mention", "mentionIdx"} \subseteq DOMAIN page
    /\ page.mention \in Nat /\ page.mentionIdx \in Nat
    /\ page.mention > 0 => page.mentionIdx < page.mention

ChatInv == PopupFits /\ DOMAIN net = Kinds /\ (page.crossed \/ OneThreadCall)

LEMMA ChatKinds ==
    /\ Kinds = {"list", "models", "open", "truncate", "delete", "pin", "flag", "flagged",
                     "stream", "upload", "connectors"}
    /\ Threads = {"open", "truncate", "delete", "stream"}
BY DEF Kinds, Threads

SameThread ==
    /\ DOMAIN page' = DOMAIN page /\ page'.crossed = page.crossed
    /\ page'.mention = page.mention /\ page'.mentionIdx = page.mentionIdx

LEMMA ThreadKept ==
    ASSUME ChatInv, SameThread, DOMAIN net' = Kinds,
           \A k \in Threads : net'[k] \subseteq net[k]
    PROVE  ChatInv'
<1>1. PopupFits'
  BY DEF ChatInv, PopupFits, SameThread
<1>2. OneThreadCall => OneThreadCall'
  BY DEF OneThreadCall
<1> QED  BY <1>1, <1>2 DEF ChatInv, SameThread

LEMMA CrossingOf ==
    ASSUME PopupFits, NEW p, p = Crossing(page)
    PROVE  /\ DOMAIN p = DOMAIN page /\ p.mention = page.mention /\ p.mentionIdx = page.mentionIdx
           /\ p.crossed \/ (~page.crossed /\ \A k \in Threads : net[k] = {})
<1>1. PICK b : b = (page.crossed \/ ~Quiet(Threads))
  OBVIOUS
<1>2. p = [page EXCEPT !.crossed = b]
  BY <1>1 DEF Crossing
<1>3. DOMAIN p = DOMAIN page /\ p.mention = page.mention /\ p.mentionIdx = page.mentionIdx /\ p.crossed = b
  BY <1>2 DEF PopupFits
<1>4. b \/ (~page.crossed /\ \A k \in Threads : net[k] = {})
  BY <1>1 DEF Quiet
<1> QED  BY <1>3, <1>4

LEMMA ShowingOf ==
    ASSUME NEW p, {"crossed", "mention", "mentionIdx"} \subseteq DOMAIN p, NEW messages,
           NEW q, q = Showing(p, messages)
    PROVE  /\ DOMAIN q = DOMAIN p /\ q.mention = p.mention /\ q.mentionIdx = p.mentionIdx
           /\ q.crossed = p.crossed
<1>1. PICK e : q = [p EXCEPT !.messages = messages, !.editing = e]
  BY Zenon DEF Showing
<1> QED  BY <1>1

\* A handler takes its answer, and some ask for a list again.
LEMMA ChatTaken ==
    ASSUME ChatInv, SameThread, NEW k, NEW c,
           \/ net' = Without(net, k, c)
           \/ \E j \in {"list", "flagged"} : net' = Asking(Without(net, k, c), j, Nobody)
           \/ net' = Asking(Asking(Without(net, k, c), "list", Nobody), "flagged", Nobody)
    PROVE  ChatInv'
<1>0. DOMAIN net = Kinds
  BY DEF ChatInv
<1>1. PICK n : n = Without(net, k, c)
  OBVIOUS
<1>2. DOMAIN n = Kinds /\ \A j \in Kinds : n[j] \subseteq net[j]
  BY <1>0, <1>1 DEF Without
<1>3. PICK m : m = Asking(n, "list", Nobody)
  OBVIOUS
<1>4. DOMAIN m = Kinds /\ \A j \in Threads : m[j] = n[j]
  BY <1>2, <1>3, ChatKinds DEF Asking
<1>5. CASE net' = n
  BY <1>2, <1>5, ThreadKept, ChatKinds
<1>6. ASSUME NEW j \in {"list", "flagged"}, net' = Asking(n, j, Nobody)  PROVE ChatInv'
  <2>1. DOMAIN net' = Kinds /\ \A i \in Threads : net'[i] = n[i]
    BY <1>2, <1>6, ChatKinds DEF Asking
  <2> QED  BY <1>2, <2>1, ThreadKept, ChatKinds
<1>7. CASE net' = Asking(m, "flagged", Nobody)
  <2>1. DOMAIN net' = Kinds /\ \A i \in Threads : net'[i] = m[i]
    BY <1>4, <1>7, ChatKinds DEF Asking
  <2> QED  BY <1>2, <1>4, <2>1, ThreadKept, ChatKinds
<1> QED  BY <1>1, <1>3, <1>5, <1>6, <1>7

LEMMA ChatListsCome ==
    ASSUME ChatInv,
           \/ DeliverList \/ DeliverModels \/ DeliverFlagged \/ DeliverConnectors
           \/ DeliverOpen \/ DeliverDelete \/ DeliverPin \/ DeliverFlag
           \/ DeliverUpload
    PROVE  ChatInv'
<1>0. {"crossed", "mention", "mentionIdx"} \subseteq DOMAIN page
  BY DEF ChatInv, PopupFits
<1>1. ASSUME UNCHANGED page  PROVE SameThread
  BY <1>1 DEF SameThread
<1>2. ASSUME NEW k, NEW c \in net[k], Take(k, c), SameThread  PROVE ChatInv'
  BY <1>2, ChatTaken DEF Take
<1>3. CASE DeliverList
  <2>1. PICK c \in net["list"] : Take("list", c) /\ page' \in {page, [page EXCEPT !.conversations = c.ans]}
    BY <1>3 DEF DeliverList, Came
  <2> QED  BY <1>0, <1>2, <2>1 DEF SameThread
<1>4. CASE DeliverModels
  <2>1. PICK c \in net["models"] :
           Take("models", c) /\ \E m : page' \in {page, [page EXCEPT !.model = m]}
    BY <1>4 DEF DeliverModels, Came
  <2> QED  BY <1>0, <1>2, <2>1 DEF SameThread
<1>5. CASE DeliverFlagged
  <2>1. PICK c \in net["flagged"] : Take("flagged", c) /\ page' \in {page, [page EXCEPT !.flagged = c.ans]}
    BY <1>5 DEF DeliverFlagged, Came
  <2> QED  BY <1>0, <1>2, <2>1 DEF SameThread
<1>6. CASE DeliverConnectors
  <2>1. PICK c \in net["connectors"] :
           Take("connectors", c) /\ page' \in {page, [page EXCEPT !.connectors = c.ans]}
    BY <1>6 DEF DeliverConnectors, Came
  <2> QED  BY <1>0, <1>2, <2>1 DEF SameThread
<1>7. CASE DeliverOpen
  <2>1. PICK c \in net["open"] :
           Take("open", c) /\ page' \in {page, Showing(page, FromRows(c.ans))}
    BY <1>7 DEF DeliverOpen, Came
  <2> QED  BY <1>0, <1>2, <2>1, ShowingOf DEF SameThread
<1>8. CASE DeliverDelete
  <2>1. PICK c \in net["delete"] :
           \/ Take("delete", c) /\ UNCHANGED page
           \/ /\ net' = Asking(Asking(Without(net, "delete", c), "list", Nobody),
                                    "flagged", Nobody)
              /\ page' \in {page, Showing([page EXCEPT !.activeId = Nobody], <<>>)}
    BY <1>8 DEF DeliverDelete, Came
  <2>2. PICK p : p = [page EXCEPT !.activeId = Nobody]
    OBVIOUS
  <2>3. DOMAIN p = DOMAIN page /\ p.mention = page.mention /\ p.mentionIdx = page.mentionIdx
        /\ p.crossed = page.crossed
    BY <1>0, <2>2
  <2>4. page' = Showing(p, <<>>) => SameThread
    BY <1>0, <2>3, ShowingOf DEF SameThread
  <2> QED  BY <1>1, <1>2, <2>1, <2>2, <2>4, ChatTaken
<1>9. CASE DeliverPin
  <2>1. PICK c : \/ net' = Without(net, "pin", c)
                 \/ net' = Asking(Without(net, "pin", c), "list", Nobody)
    BY <1>9 DEF DeliverPin, Take
  <2>2. SameThread
    BY <1>1, <1>9 DEF DeliverPin
  <2> QED  BY <2>1, <2>2, ChatTaken
<1>10. CASE DeliverFlag
  <2>1. PICK c : \/ net' = Without(net, "flag", c)
                 \/ net' = Asking(Without(net, "flag", c), "flagged", Nobody)
    BY <1>10 DEF DeliverFlag, Take
  <2>2. SameThread
    BY <1>1, <1>10 DEF DeliverFlag
  <2> QED  BY <2>1, <2>2, ChatTaken
<1>11. CASE DeliverUpload
  <2>1. PICK c \in net["upload"] :
           Take("upload", c) /\ \E a : page' = [page EXCEPT !.uploading = FALSE, !.attachments = a]
    BY <1>11, Zenon DEF DeliverUpload, Came
  <2> QED  BY <1>0, <1>2, <2>1 DEF SameThread
<1> QED  BY <1>3, <1>4, <1>5, <1>6, <1>7, <1>8, <1>9, <1>10, <1>11

LEMMA ChatButtons ==
    ASSUME ChatInv,
           \/ \E m \in Models : PickModel(m)
           \/ Focus \/ NewChat
           \/ \E id \in Turns : TogglePin(id)
           \/ \E m \in ToSet(page.messages) : ToggleFlag(m) \/ StartEdit(m)
           \/ StopEdit \/ RemoveAttachment \/ \E n \in 1 .. 2 : PickFiles(n)
    PROVE  ChatInv'
<1>0. {"crossed", "mention", "mentionIdx"} \subseteq DOMAIN page /\ DOMAIN net = Kinds
  BY DEF ChatInv, PopupFits
<1>1. ASSUME SameThread, UNCHANGED net  PROVE ChatInv'
  BY <1>0, <1>1, ThreadKept
<1>2. ASSUME SameThread, NEW k \in {"connectors", "pin", "flag", "upload"}, NEW a, Ask(k, a)
      PROVE  ChatInv'
  <2>1. DOMAIN net' = Kinds /\ \A j \in Threads : net'[j] = net[j]
    BY <1>0, <1>2, ChatKinds DEF Ask, Asking
  <2> QED  BY <1>2, <2>1, ThreadKept
<1>3. UNCHANGED page => SameThread
  BY DEF SameThread
<1>4. ASSUME NEW m \in Models, PickModel(m)  PROVE ChatInv'
  BY <1>0, <1>1, <1>4 DEF PickModel, SameThread
<1>5. CASE Focus
  BY <1>2, <1>3, <1>5 DEF Focus
<1>6. CASE NewChat
  <2>1. PICK p : p = Crossing(page)
    OBVIOUS
  <2>2. PICK q : q = [p EXCEPT !.activeId = Nobody]
    OBVIOUS
  <2>3. page' = Showing(q, <<>>) /\ UNCHANGED net
    BY <1>6, <2>1, <2>2 DEF NewChat
  <2>4. /\ DOMAIN p = DOMAIN page /\ p.mention = page.mention /\ p.mentionIdx = page.mentionIdx
        /\ p.crossed \/ (~page.crossed /\ \A k \in Threads : net[k] = {})
    BY <2>1, CrossingOf DEF ChatInv
  <2>5. DOMAIN q = DOMAIN page /\ q.mention = page.mention /\ q.mentionIdx = page.mentionIdx
        /\ q.crossed = p.crossed
    BY <1>0, <2>2, <2>4
  <2>6. DOMAIN page' = DOMAIN page /\ page'.mention = page.mention /\ page'.mentionIdx = page.mentionIdx
        /\ page'.crossed = p.crossed
    BY <1>0, <2>3, <2>5, ShowingOf
  <2>7. PopupFits'
    BY <2>6 DEF ChatInv, PopupFits
  <2>8. page'.crossed \/ OneThreadCall'
    BY <2>3, <2>4, <2>6 DEF OneThreadCall
  <2> QED  BY <1>0, <2>3, <2>7, <2>8 DEF ChatInv
<1>7. ASSUME NEW id \in Turns, TogglePin(id)  PROVE ChatInv'
  BY <1>2, <1>3, <1>7 DEF TogglePin
<1>8. ASSUME NEW m \in ToSet(page.messages), ToggleFlag(m)  PROVE ChatInv'
  BY <1>2, <1>3, <1>8 DEF ToggleFlag
<1>9. ASSUME NEW m \in ToSet(page.messages), StartEdit(m)  PROVE ChatInv'
  BY <1>0, <1>1, <1>9 DEF StartEdit, SameThread
<1>10. CASE StopEdit
  BY <1>0, <1>1, <1>10 DEF StopEdit, SameThread
<1>11. CASE RemoveAttachment
  BY <1>0, <1>1, <1>11 DEF RemoveAttachment, SameThread
<1>12. ASSUME NEW n \in 1 .. 2, PickFiles(n)  PROVE ChatInv'
  <2>1. SameThread
    BY <1>0, <1>12 DEF PickFiles, SameThread
  <2> QED  BY <1>2, <1>12, <2>1 DEF PickFiles
<1> QED  BY <1>4, <1>5, <1>6, <1>7, <1>8, <1>9, <1>10, <1>11, <1>12

\* The arrows stay in the list, and what opens it starts at its first entry.
LEMMA ChatMentions ==
    ASSUME ChatInv,
           \/ TypeText \/ UseTemplate \/ EscapeMention
           \/ \E n \in 0 .. Cardinality(Connectors) : TypeMention(n)
           \/ \E up \in BOOLEAN : MoveMention(up)
           \/ \E c \in Connectors : PickMention(c) \/ RemoveMention(c)
    PROVE  ChatInv'
<1>0. /\ {"crossed", "mention", "mentionIdx"} \subseteq DOMAIN page /\ DOMAIN net = Kinds
      /\ page.mention \in Nat /\ page.mentionIdx \in Nat
      /\ page.mention > 0 => page.mentionIdx < page.mention
  BY DEF ChatInv, PopupFits
<1>1. ASSUME DOMAIN page' = DOMAIN page, page'.crossed = page.crossed, UNCHANGED net,
             page'.mention \in Nat, page'.mentionIdx \in Nat,
             page'.mention > 0 => page'.mentionIdx < page'.mention
      PROVE  ChatInv'
  <2>1. PopupFits'
    BY <1>0, <1>1 DEF PopupFits
  <2> QED  BY <1>1, <2>1 DEF ChatInv, OneThreadCall
<1>2. CASE TypeText
  BY <1>0, <1>1, <1>2 DEF TypeText
<1>3. CASE UseTemplate
  BY <1>0, <1>1, <1>3 DEF UseTemplate
<1>4. CASE EscapeMention
  BY <1>0, <1>1, <1>4 DEF EscapeMention
<1>5. ASSUME NEW n \in 0 .. Cardinality(Connectors), TypeMention(n)  PROVE ChatInv'
  <2>1. page' = [page EXCEPT !.typed = TRUE, !.mention = n, !.mentionIdx = 0] /\ UNCHANGED net
    BY <1>5, Zenon DEF TypeMention
  <2>2. n \in Nat
    OBVIOUS
  <2>3. /\ DOMAIN page' = DOMAIN page /\ page'.crossed = page.crossed
        /\ page'.mention = n /\ page'.mentionIdx = 0
    BY <1>0, <2>1
  <2> QED  BY <1>1, <2>1, <2>2, <2>3
<1>6. ASSUME NEW up \in BOOLEAN, MoveMention(up)  PROVE ChatInv'
  <2>1. PICK i : /\ i = (IF up THEN page.mentionIdx + page.mention - 1 ELSE page.mentionIdx + 1) % page.mention
                 /\ page' = [page EXCEPT !.mentionIdx = i] /\ UNCHANGED net
    BY <1>6 DEF MoveMention
  <2>2. page.mention > 0
    BY <1>6 DEF MoveMention, PopupShown
  <2>3. i \in 0 .. page.mention - 1
    BY <1>0, <2>1, <2>2
  <2>4. /\ DOMAIN page' = DOMAIN page /\ page'.crossed = page.crossed
        /\ page'.mention = page.mention /\ page'.mentionIdx = i
    BY <1>0, <2>1
  <2> QED  BY <1>0, <1>1, <2>1, <2>3, <2>4
<1>7. ASSUME NEW c \in Connectors, PickMention(c)  PROVE ChatInv'
  <2>1. PICK s : page' = [page EXCEPT !.typed = TRUE, !.mention = 0, !.mentioned = s] /\ UNCHANGED net
    BY <1>7, Zenon DEF PickMention
  <2> QED  BY <1>0, <1>1, <2>1
<1>8. ASSUME NEW c \in Connectors, RemoveMention(c)  PROVE ChatInv'
  <2>1. PICK r, s : page' = [page EXCEPT !.typed = r, !.mentioned = s] /\ UNCHANGED net
    BY <1>8, Zenon DEF RemoveMention
  <2> QED  BY <1>0, <1>1, <2>1
<1> QED  BY <1>2, <1>3, <1>4, <1>5, <1>6, <1>7, <1>8

\* What the user asks of the thread is alone, or the user went on.
LEMMA ThreadAsked ==
    ASSUME ChatInv, NEW k \in Threads, NEW a, net' = Asking(net, k, a),
           NEW p, p = Crossing(page), DOMAIN page' = DOMAIN p, page'.crossed = p.crossed,
           page'.mention = p.mention, page'.mentionIdx = p.mentionIdx
    PROVE  ChatInv'
<1>1. /\ DOMAIN p = DOMAIN page /\ p.mention = page.mention /\ p.mentionIdx = page.mentionIdx
      /\ p.crossed \/ (~page.crossed /\ \A j \in Threads : net[j] = {})
  BY CrossingOf DEF ChatInv
<1>2. PopupFits'
  BY <1>1 DEF ChatInv, PopupFits
<1>3. /\ DOMAIN net' = Kinds
      /\ \A j \in Kinds : net'[j] = IF j = k THEN net[j] \cup {Sent(a)} ELSE net[j]
  BY ChatKinds DEF ChatInv, Asking
<1>4. page'.crossed \/ OneThreadCall'
  <2>1. CASE p.crossed
    BY <2>1
  <2>2. CASE \A j \in Threads : net[j] = {}
    <3>1. \A j \in Threads : net'[j] = IF j = k THEN {Sent(a)} ELSE {}
      BY <1>3, <2>2, ChatKinds
    <3> QED  BY <3>1 DEF OneThreadCall
  <2> QED  BY <1>1, <2>1, <2>2
<1> QED  BY <1>2, <1>3, <1>4 DEF ChatInv

LEMMA ChatMoved ==
    ASSUME ChatInv, SameThread, NEW k \in Kinds, NEW c \in net[k], NEW q,
           net' = [net EXCEPT ![k] = (@ \ {c}) \cup {q}]
    PROVE  ChatInv'
<1>1. PopupFits'
  BY DEF ChatInv, PopupFits, SameThread
<1>2. /\ DOMAIN net' = Kinds
      /\ \A j \in Kinds : net'[j] = IF j = k THEN (net[k] \ {c}) \cup {q} ELSE net[j]
  BY DEF ChatInv
<1>3. ASSUME OneThreadCall  PROVE OneThreadCall'
  <2>1. SUFFICES ASSUME NEW i \in Threads, NEW j \in Threads, NEW d \in net'[i], NEW e \in net'[j]
                 PROVE  i = j /\ d = e
    BY DEF OneThreadCall
  <2>2. {i, j} \subseteq Kinds
    BY ChatKinds
  <2>3. CASE i = k /\ j = k
    BY <1>2, <1>3, <2>2, <2>3 DEF OneThreadCall
  <2>4. CASE i = k /\ j # k
    BY <1>2, <1>3, <2>2, <2>4 DEF OneThreadCall
  <2>5. CASE i # k /\ j = k
    BY <1>2, <1>3, <2>2, <2>5 DEF OneThreadCall
  <2>6. CASE i # k /\ j # k
    BY <1>2, <1>3, <2>2, <2>6 DEF OneThreadCall
  <2> QED  BY <2>3, <2>4, <2>5, <2>6
<1> QED  BY <1>1, <1>2, <1>3 DEF ChatInv, SameThread

LEMMA ChatThreads ==
    ASSUME ChatInv,
           \/ \E id \in Turns : OpenConv(id) \/ DeleteConv(id)
           \/ \E f \in Flag : OpenFlagged(f)
           \/ SaveEdit \/ HandleSend
    PROVE  ChatInv'
<1>1. PICK p : p = Crossing(page)
  OBVIOUS
<1>2. {"crossed", "mention", "mentionIdx"} \subseteq DOMAIN p
  BY <1>1, CrossingOf DEF ChatInv, PopupFits
<1>k. {"open", "delete", "truncate", "stream"} \subseteq Threads
  BY ChatKinds
<1>3. ASSUME NEW id, Ask("open", id), page' = [p EXCEPT !.activeId = id]  PROVE ChatInv'
  <2>1. /\ DOMAIN page' = DOMAIN p /\ page'.crossed = p.crossed
        /\ page'.mention = p.mention /\ page'.mentionIdx = p.mentionIdx
    BY <1>2, <1>3
  <2> QED  BY <1>1, <1>3, <1>k, <2>1, ThreadAsked DEF Ask
<1>4. ASSUME NEW id \in Turns, OpenConv(id)  PROVE ChatInv'
  BY <1>1, <1>3, <1>4 DEF OpenConv
<1>5. ASSUME NEW f \in Flag, OpenFlagged(f)  PROVE ChatInv'
  BY <1>1, <1>3, <1>5 DEF OpenFlagged
<1>6. ASSUME NEW id \in Turns, DeleteConv(id)  PROVE ChatInv'
  <2>1. page' = p /\ \E a : Ask("delete", a)
    BY <1>1, <1>6 DEF DeleteConv
  <2> QED  BY <1>1, <1>k, <2>1, ThreadAsked DEF Ask
<1>7. CASE SaveEdit
  <2>1. page' = [p EXCEPT !.editing = Nobody] /\ \E a : Ask("truncate", a)
    BY <1>1, <1>7 DEF SaveEdit
  <2>2. /\ DOMAIN page' = DOMAIN p /\ page'.crossed = p.crossed
        /\ page'.mention = p.mention /\ page'.mentionIdx = p.mentionIdx
    BY <1>2, <2>1
  <2> QED  BY <1>1, <1>k, <2>1, <2>2, ThreadAsked DEF Ask
<1>8. CASE HandleSend
  <2>1. PICK q : q = [p EXCEPT !.typed = FALSE, !.attachments = 0, !.mentioned = {}]
    OBVIOUS
  <2>2. Posting(q, net, page.activeId)
    BY <1>1, <1>8, <2>1 DEF HandleSend
  <2>3. PICK t, m, a : /\ page' = [q EXCEPT !.streaming = TRUE, !.turns = t, !.messages = m]
                       /\ net' = Asking(net, "stream", a)
    BY <2>2, Zenon DEF Posting
  <2>4. DOMAIN q = DOMAIN p /\ q.crossed = p.crossed /\ q.mention = p.mention /\ q.mentionIdx = p.mentionIdx
    BY <1>2, <2>1
  <2>5. /\ DOMAIN page' = DOMAIN p /\ page'.crossed = p.crossed
        /\ page'.mention = p.mention /\ page'.mentionIdx = p.mentionIdx
    BY <1>2, <2>3, <2>4
  <2> QED  BY <1>1, <1>k, <2>3, <2>5, ThreadAsked
<1> QED  BY <1>4, <1>5, <1>6, <1>7, <1>8

\* An edit goes on where its truncation came back: alone as that was.
LEMMA ChatStreams ==
    ASSUME ChatInv,
           DeliverTruncate \/ HearConversation \/ StreamEnds \/ StreamFails
    PROVE  ChatInv'
<1>0. {"crossed", "mention", "mentionIdx"} \subseteq DOMAIN page /\ DOMAIN net = Kinds
  BY DEF ChatInv, PopupFits
<1>1. CASE DeliverTruncate
  <2>1. PICK c \in net["truncate"] :
           \/ Take("truncate", c) /\ UNCHANGED page
           \/ \E left : Posting(Showing(page, left),
                            Asking(Without(net, "truncate", c), "flagged", Nobody), c.to.conv)
    BY <1>1 DEF DeliverTruncate, Came
  <2>2. CASE Take("truncate", c) /\ UNCHANGED page
    BY <2>2, ChatTaken DEF Take, SameThread
  <2>3. ASSUME NEW left,
               Posting(Showing(page, left),
                   Asking(Without(net, "truncate", c), "flagged", Nobody), c.to.conv)
        PROVE  ChatInv'
    <3>1. PICK q : q = Showing(page, left)
      OBVIOUS
    <3>2. PICK n : n = Without(net, "truncate", c)
      OBVIOUS
    <3>3. PICK m : m = Asking(n, "flagged", Nobody)
      OBVIOUS
    <3>4. PICK t, s, a : /\ page' = [q EXCEPT !.streaming = TRUE, !.turns = t, !.messages = s]
                         /\ net' = Asking(m, "stream", a)
      BY <2>3, <3>1, <3>2, <3>3, Zenon DEF Posting
    <3>5. DOMAIN q = DOMAIN page /\ q.crossed = page.crossed /\ q.mention = page.mention
          /\ q.mentionIdx = page.mentionIdx
      BY <1>0, <3>1, ShowingOf
    <3>6. SameThread
      BY <1>0, <3>4, <3>5 DEF SameThread
    <3>7. DOMAIN n = Kinds /\ n["truncate"] = net["truncate"] \ {c}
          /\ \A j \in Kinds \ {"truncate"} : n[j] = net[j]
      BY <1>0, <3>2, ChatKinds DEF Without
    <3>8. DOMAIN m = Kinds /\ \A j \in Threads : m[j] = n[j]
      BY <3>3, <3>7, ChatKinds DEF Asking
    <3>9. DOMAIN net' = Kinds /\ net'["stream"] = m["stream"] \cup {Sent(a)}
          /\ \A j \in Threads \ {"stream"} : net'[j] = m[j]
      BY <3>4, <3>8, ChatKinds DEF Asking
    <3>10. PopupFits'
      BY <3>6 DEF ChatInv, PopupFits, SameThread
    <3>11. ASSUME OneThreadCall  PROVE OneThreadCall'
      <4>1. net["truncate"] = {c} /\ \A j \in Threads \ {"truncate"} : net[j] = {}
        BY <3>11, ChatKinds DEF OneThreadCall
      <4>2. net'["stream"] = {Sent(a)} /\ \A j \in Threads \ {"stream"} : net'[j] = {}
        BY <3>7, <3>8, <3>9, <4>1, ChatKinds
      <4> QED  BY <4>2 DEF OneThreadCall
    <3> QED  BY <3>6, <3>9, <3>10, <3>11 DEF ChatInv, SameThread
  <2> QED  BY <2>1, <2>2, <2>3
<1>2. CASE HearConversation
  <2>1. PICK c \in net["stream"] : \E q : net' = [net EXCEPT !["stream"] = (@ \ {c}) \cup {q}]
    BY <1>2, Zenon DEF HearConversation
  <2>2. PICK a, m : page' = [page EXCEPT !.activeId = a, !.messages = m]
    BY <1>2, Zenon DEF HearConversation
  <2>3. SameThread
    BY <1>0, <2>2 DEF SameThread
  <2> QED  BY <2>1, <2>3, ChatMoved, ChatKinds
<1>3. CASE StreamEnds
  <2>1. PICK c : net' = Asking(Without(net, "stream", c), "list", Nobody)
    BY <1>3, Zenon DEF StreamEnds
  <2>2. PICK m : page' = [page EXCEPT !.streaming = FALSE, !.messages = m]
    BY <1>3, Zenon DEF StreamEnds
  <2>3. SameThread
    BY <1>0, <2>2 DEF SameThread
  <2> QED  BY <2>1, <2>3, ChatTaken
<1>4. CASE StreamFails
  <2>1. PICK c : net' = Without(net, "stream", c)
    BY <1>4 DEF StreamFails, Take
  <2>2. SameThread
    BY <1>0, <1>4 DEF StreamFails, SameThread
  <2> QED  BY <2>1, <2>2, ChatTaken
<1> QED  BY <1>1, <1>2, <1>3, <1>4

LEMMA ChatServer ==
    ASSUME ChatInv, ServeChat \/ Lose
    PROVE  ChatInv'
<1>0. DOMAIN net = Kinds
  BY DEF ChatInv
<1>1. UNCHANGED page => SameThread
  BY DEF SameThread
<1>2. ASSUME NEW k \in Kinds, NEW c \in net[k], UNCHANGED page,
             (\E v : Answer(k, c, v)) \/ Refuse(k, c)
      PROVE  ChatInv'
  BY <1>1, <1>2, ChatMoved DEF Answer, Refuse
<1>3. CASE ServeReads
  <2>1. \E k \in {"list", "models", "connectors", "flagged", "pin", "open", "upload"} :
          \E c \in net[k] : UNCHANGED page /\ ((\E v : Answer(k, c, v)) \/ Refuse(k, c))
    BY <1>3 DEF ServeReads, OnlyNet, Asked
  <2> QED  BY <1>2, <2>1, ChatKinds
<1>4. CASE ServeFlag
  <2>1. \E c \in net["flag"] : UNCHANGED page /\ ((\E v : Answer("flag", c, v)) \/ Refuse("flag", c))
    BY <1>4 DEF ServeFlag, OnlyNet, Asked
  <2> QED  BY <1>2, <2>1, ChatKinds
<1>5. CASE ServeDelete
  <2>1. \E c \in net["delete"] : UNCHANGED page /\ Answer("delete", c, TRUE)
    BY <1>5 DEF ServeDelete, Asked
  <2> QED  BY <1>2, <2>1, ChatKinds
<1>6. CASE ServeTruncate
  <2>1. \E c \in net["truncate"] :
          UNCHANGED page /\ ((\E v : Answer("truncate", c, v)) \/ Refuse("truncate", c))
    BY <1>6 DEF ServeTruncate, OnlyNet, Asked
  <2> QED  BY <1>2, <2>1, ChatKinds
<1>7. CASE ServeStream
  <2>1. \E c \in net["stream"] :
          /\ UNCHANGED page
          /\ \/ Refuse("stream", c)
             \/ \E q : net' = [net EXCEPT !["stream"] = (@ \ {c}) \cup {q}]
    BY <1>7 DEF ServeStream, OnlyNet, Asked
  <2> QED  BY <1>1, <1>2, <2>1, ChatMoved, ChatKinds
<1>8. CASE ServeReply
  <2>1. \E c \in net["stream"] :
          UNCHANGED page /\ \E q : net' = [net EXCEPT !["stream"] = (@ \ {c}) \cup {q}]
    BY <1>8 DEF ServeReply
  <2> QED  BY <1>1, <2>1, ChatMoved, ChatKinds
<1>9. CASE Lose
  <2>1. UNCHANGED page /\ \E k \in Threads : \E c \in net[k] :
          Refuse(k, c) \/ \E q : net' = [net EXCEPT ![k] = (@ \ {c}) \cup {q}]
    BY <1>9, ChatKinds DEF Lose, Lost
  <2>2. PICK k \in Threads : \E c \in net[k] :
          Refuse(k, c) \/ \E q : net' = [net EXCEPT ![k] = (@ \ {c}) \cup {q}]
    BY <2>1
  <2>3. PICK c \in net[k] : Refuse(k, c) \/ \E q : net' = [net EXCEPT ![k] = (@ \ {c}) \cup {q}]
    BY <2>2
  <2>4. k \in Kinds /\ SameThread
    BY <1>1, <2>1, ChatKinds
  <2> QED  BY <1>2, <2>1, <2>3, <2>4, ChatMoved
<1> QED  BY <1>3, <1>4, <1>5, <1>6, <1>7, <1>8, <1>9 DEF ServeChat

LEMMA InitChat == ChatInit => ChatInv
<1> SUFFICES ASSUME ChatInit  PROVE ChatInv
  OBVIOUS
<1>1. PopupFits
  BY DEF ChatInit, Opened, PopupFits
<1>2. DOMAIN net = Kinds /\ \A k \in Threads : net[k] = {}
  BY ChatKinds DEF ChatInit
<1> QED  BY <1>1, <1>2 DEF ChatInv, OneThreadCall

LEMMA NextChat == ChatInv /\ [ChatNext]_<<page, server, net, lost, does>> => ChatInv'
<1> SUFFICES ASSUME ChatInv, [ChatNext]_<<page, server, net, lost, does>>  PROVE ChatInv'
  OBVIOUS
<1>1. CASE UNCHANGED <<page, server, net, lost, does>>
  BY <1>1 DEF ChatInv, PopupFits, OneThreadCall
<1>2. CASE ChatNext
  BY <1>2, ChatListsCome, ChatButtons, ChatMentions, ChatThreads, ChatStreams, ChatServer
     DEF ChatNext, DeliverChat
<1> QED  BY <1>1, <1>2

LEMMA ChatKeeps == ChatInv => OneStream /\ MentionIndexIsValid
<1> SUFFICES ASSUME ChatInv  PROVE OneStream /\ MentionIndexIsValid
  OBVIOUS
<1>1. ASSUME ~page.crossed  PROVE Cardinality(net["stream"]) <= 1
  <2>1. \A c, d \in net["stream"] : c = d
    BY <1>1, ChatKinds DEF ChatInv, OneThreadCall
  <2> QED  BY <2>1, AtMostOneCall
<1> QED  BY <1>1 DEF ChatInv, PopupFits, OneStream, MentionIndexIsValid, PopupShown

-----------------------------------------------------------------------------
(* Messages and rows *)

\* Each row is the message at its place, in order, and each saved message is a row's.
Pairs(f, m, r) ==
    /\ f \in [1 .. Len(r) -> 1 .. Len(m)]
    /\ \A i, j \in 1 .. Len(r) : i < j => f[i] < f[j]
    /\ \A j \in 1 .. Len(r) : m[f[j]] = FromRow(r[j])
    /\ \A i \in 1 .. Len(m) : m[i].saved => \E j \in 1 .. Len(r) : f[j] = i
Matches(m, r) == \E f : Pairs(f, m, r)

LEMMA RowOf == \A r \in Row : FromRow(r) \in Message /\ FromRow(r).saved = TRUE
BY DEF Row, Message, FromRow

LEMMA NoneMatch == Matches(<<>>, <<>>)
<1> DEFINE f == [j \in 1 .. 0 |-> j]
<1>1. Len(<<>>) = 0 /\ 1 .. 0 = {}
  OBVIOUS
<1>2. Pairs(f, <<>>, <<>>)
  BY <1>1 DEF Pairs
<1> QED  BY <1>2 DEF Matches

LEMMA RowsMatch ==
    ASSUME NEW r \in Seq(Row)
    PROVE  /\ FromRows(r) \in Seq(Message) /\ Len(FromRows(r)) = Len(r)
           /\ \A i \in 1 .. Len(r) : FromRows(r)[i] = FromRow(r[i])
           /\ Matches(FromRows(r), r)
<1>1. Len(r) \in Nat /\ \A i \in 1 .. Len(r) : FromRow(r[i]) \in Message
  <2>1. \A i \in 1 .. Len(r) : r[i] \in Row
    OBVIOUS
  <2> QED  BY <2>1, RowOf
<1>2. FromRows(r) \in [1 .. Len(r) -> Message] /\ \A i \in 1 .. Len(r) : FromRows(r)[i] = FromRow(r[i])
  BY <1>1 DEF FromRows
<1>3. FromRows(r) \in Seq(Message) /\ Len(FromRows(r)) = Len(r)
  BY <1>1, <1>2 DEF FromRows
<1>4. PICK f : f = [j \in 1 .. Len(r) |-> j]
  OBVIOUS
<1>5. Pairs(f, FromRows(r), r)
  BY <1>1, <1>2, <1>3, <1>4 DEF Pairs
<1> QED  BY <1>2, <1>3, <1>5 DEF Matches

\* A message the server has no row of joins.
LEMMA UnsavedMatch ==
    ASSUME NEW m \in Seq(Message), NEW r \in Seq(Row), Matches(m, r), NEW x \in Message, ~x.saved
    PROVE  Matches(Append(m, x), r)
<1>1. PICK f : Pairs(f, m, r)
  BY DEF Matches
<1>2. /\ Len(Append(m, x)) = Len(m) + 1 /\ Append(m, x)[Len(m) + 1] = x
      /\ \A i \in 1 .. Len(m) : Append(m, x)[i] = m[i]
      /\ Len(m) \in Nat /\ Len(r) \in Nat
  OBVIOUS
<1>3. Pairs(f, Append(m, x), r)
  BY <1>1, <1>2 DEF Pairs
<1> QED  BY <1>3 DEF Matches

\* A message joins with its row.
LEMMA SavedMatch ==
    ASSUME NEW m \in Seq(Message), NEW r \in Seq(Row), Matches(m, r), NEW x \in Row,
           NEW n, Len(n) = Len(m) + 1, n[Len(m) + 1] = FromRow(x),
           \A i \in 1 .. Len(m) : n[i] = m[i]
    PROVE  Matches(n, Append(r, x))
<1>1. PICK f : Pairs(f, m, r)
  BY DEF Matches
<1>2. PICK g : g = [j \in 1 .. Len(r) + 1 |-> IF j = Len(r) + 1 THEN Len(m) + 1 ELSE f[j]]
  OBVIOUS
<1>3. /\ Len(Append(r, x)) = Len(r) + 1 /\ Append(r, x)[Len(r) + 1] = x
      /\ \A i \in 1 .. Len(r) : Append(r, x)[i] = r[i]
      /\ Len(m) \in Nat /\ Len(r) \in Nat
  OBVIOUS
<1>4. \A j \in 1 .. Len(r) : f[j] \in 1 .. Len(m) /\ g[j] = f[j]
  <2>1. \A j \in 1 .. Len(r) : f[j] \in 1 .. Len(m)
    BY <1>1 DEF Pairs
  <2> QED  BY <1>2, <1>3, <2>1
<1>5. g \in [1 .. Len(r) + 1 -> 1 .. Len(m) + 1] /\ g[Len(r) + 1] = Len(m) + 1
  <2>1. DOMAIN g = 1 .. Len(r) + 1 /\ g = [j \in 1 .. Len(r) + 1 |-> g[j]] /\ g[Len(r) + 1] = Len(m) + 1
    BY <1>2, <1>3
  <2>2. \A j \in 1 .. Len(r) + 1 : g[j] \in 1 .. Len(m) + 1
    <3>1. SUFFICES ASSUME NEW j \in 1 .. Len(r) + 1  PROVE g[j] \in 1 .. Len(m) + 1
      OBVIOUS
    <3>2. CASE j = Len(r) + 1
      BY <1>3, <2>1, <3>2
    <3>3. CASE j \in 1 .. Len(r)
      BY <1>3, <1>4, <3>3
    <3> QED  BY <1>3, <3>2, <3>3
  <2> QED  BY <2>1, <2>2
<1>6. \A i, j \in 1 .. Len(r) + 1 : i < j => g[i] < g[j]
  <2>1. SUFFICES ASSUME NEW i \in 1 .. Len(r) + 1, NEW j \in 1 .. Len(r) + 1, i < j  PROVE g[i] < g[j]
    OBVIOUS
  <2>2. i \in 1 .. Len(r)
    BY <1>3, <2>1
  <2>3. CASE j = Len(r) + 1
    BY <1>3, <1>4, <1>5, <2>2, <2>3
  <2>4. CASE j \in 1 .. Len(r)
    BY <1>1, <1>4, <2>1, <2>2, <2>4 DEF Pairs
  <2> QED  BY <1>3, <2>3, <2>4
<1>7. \A j \in 1 .. Len(r) + 1 : n[g[j]] = FromRow(Append(r, x)[j])
  <2>1. SUFFICES ASSUME NEW j \in 1 .. Len(r) + 1  PROVE n[g[j]] = FromRow(Append(r, x)[j])
    OBVIOUS
  <2>2. CASE j = Len(r) + 1
    <3>1. Append(r, x)[j] = x
      BY <1>3, <2>2
    <3> QED  BY <1>5, <2>2, <3>1
  <2>3. CASE j \in 1 .. Len(r)
    <3>1. Append(r, x)[j] = r[j] /\ n[f[j]] = m[f[j]] /\ m[f[j]] = FromRow(r[j])
      <4>1. Append(r, x)[j] = r[j]
        BY <2>3
      <4>2. f[j] \in 1 .. Len(m)
        BY <1>4, <2>3
      <4>3. m[f[j]] = FromRow(r[j])
        BY <1>1, <2>3 DEF Pairs
      <4> QED  BY <4>1, <4>2, <4>3
    <3> QED  BY <1>4, <2>3, <3>1
  <2> QED  BY <1>3, <2>2, <2>3
<1>8. \A i \in 1 .. Len(m) + 1 : n[i].saved => \E j \in 1 .. Len(r) + 1 : g[j] = i
  <2>1. SUFFICES ASSUME NEW i \in 1 .. Len(m) + 1, n[i].saved  PROVE \E j \in 1 .. Len(r) + 1 : g[j] = i
    OBVIOUS
  <2>2. CASE i = Len(m) + 1
    BY <1>3, <1>5, <2>2
  <2>3. CASE i \in 1 .. Len(m)
    <3>1. m[i].saved
      BY <2>1, <2>3
    <3>2. PICK j \in 1 .. Len(r) : f[j] = i
      BY <1>1, <2>3, <3>1 DEF Pairs
    <3> QED  BY <1>3, <1>4, <3>2
  <2> QED  BY <1>3, <2>2, <2>3
<1>9. Pairs(g, n, Append(r, x))
  BY <1>3, <1>5, <1>6, <1>7, <1>8 DEF Pairs
<1> QED  BY <1>9 DEF Matches

\* The last message gets its row.
LEMMA MarkedMatch ==
    ASSUME NEW m \in Seq(Message), NEW r \in Seq(Row), Matches(m, r), NEW x \in Row,
           Len(m) > 0, ~m[Len(m)].saved,
           NEW n, Len(n) = Len(m), n[Len(m)] = FromRow(x),
           \A i \in 1 .. Len(m) - 1 : n[i] = m[i]
    PROVE  Matches(n, Append(r, x))
<1>1. PICK f : Pairs(f, m, r)
  BY DEF Matches
<1>2. Len(m) \in Nat /\ Len(r) \in Nat /\ Len(m) - 1 \in Nat
  OBVIOUS
<1>3. PICK s : s = SubSeq(m, 1, Len(m) - 1)
  OBVIOUS
<1>4. s \in Seq(Message) /\ Len(s) = Len(m) - 1 /\ \A i \in 1 .. Len(m) - 1 : s[i] = m[i]
  BY <1>2, <1>3
<1>5. \A j \in 1 .. Len(r) : f[j] \in 1 .. Len(m) - 1
  <2>1. SUFFICES ASSUME NEW j \in 1 .. Len(r)  PROVE f[j] \in 1 .. Len(m) - 1
    OBVIOUS
  <2>2. f[j] \in 1 .. Len(m) /\ m[f[j]] = FromRow(r[j]) /\ r[j] \in Row
    <3>1. f[j] \in 1 .. Len(m) /\ m[f[j]] = FromRow(r[j])
      BY <1>1, <2>1 DEF Pairs
    <3> QED  BY <2>1, <3>1
  <2>3. m[f[j]].saved
    BY <2>2, RowOf
  <2> QED  BY <1>2, <2>2, <2>3
<1>6. Pairs(f, s, r)
  BY <1>1, <1>2, <1>4, <1>5 DEF Pairs
<1>7. Matches(s, r)
  BY <1>6 DEF Matches
<1>8. Len(n) = Len(s) + 1 /\ n[Len(s) + 1] = FromRow(x) /\ \A i \in 1 .. Len(s) : n[i] = s[i]
  BY <1>2, <1>4
<1> QED  BY <1>4, <1>7, <1>8, SavedMatch

\* Both are cut before a message that is saved and its row.
LEMMA CutMatch ==
    ASSUME NEW m \in Seq(Message), NEW r \in Seq(Row), Matches(m, r),
           NEW k \in 1 .. Len(m), m[k].saved
    PROVE  \E i \in 1 .. Len(r) : /\ m[k] = FromRow(r[i])
                                  /\ Matches(SubSeq(m, 1, k - 1), SubSeq(r, 1, i - 1))
<1>1. PICK f : Pairs(f, m, r)
  BY DEF Matches
<1>2. PICK i \in 1 .. Len(r) : f[i] = k
  BY <1>1 DEF Pairs
<1>3. m[k] = FromRow(r[i])
  BY <1>1, <1>2 DEF Pairs
<1>4. Len(m) \in Nat /\ Len(r) \in Nat
  OBVIOUS
<1>5. PICK s, q : s = SubSeq(m, 1, k - 1) /\ q = SubSeq(r, 1, i - 1)
  OBVIOUS
<1>6. /\ Len(s) = k - 1 /\ \A j \in 1 .. k - 1 : s[j] = m[j]
      /\ Len(q) = i - 1 /\ \A j \in 1 .. i - 1 : q[j] = r[j]
  BY <1>4, <1>5
<1>7. PICK g : g = [j \in 1 .. i - 1 |-> f[j]]
  OBVIOUS
<1>8. \A j \in 1 .. i - 1 : f[j] \in 1 .. k - 1 /\ g[j] = f[j] /\ j \in 1 .. Len(r)
  <2>1. SUFFICES ASSUME NEW j \in 1 .. i - 1
                 PROVE  f[j] \in 1 .. k - 1 /\ g[j] = f[j] /\ j \in 1 .. Len(r)
    OBVIOUS
  <2>2. j \in 1 .. Len(r) /\ j < i /\ g[j] = f[j]
    BY <1>4, <1>7
  <2>3. f[j] \in 1 .. Len(m) /\ f[j] < f[i]
    BY <1>1, <2>2 DEF Pairs
  <2> QED  BY <1>2, <1>4, <2>2, <2>3
<1>9. \A j \in 1 .. k - 1 : s[j].saved => \E l \in 1 .. i - 1 : g[l] = j
  <2>1. SUFFICES ASSUME NEW j \in 1 .. k - 1, s[j].saved  PROVE \E l \in 1 .. i - 1 : g[l] = j
    OBVIOUS
  <2>2. m[j].saved /\ j \in 1 .. Len(m)
    BY <1>4, <1>6, <2>1
  <2>3. PICK l \in 1 .. Len(r) : f[l] = j
    BY <1>1, <2>2 DEF Pairs
  <2>4. l < i
    <3>1. ~(i < l) /\ l # i
      BY <1>1, <1>2, <2>1, <2>3 DEF Pairs
    <3> QED  BY <1>4, <3>1
  <2> QED  BY <1>4, <1>8, <2>3, <2>4
<1>10. g \in [1 .. i - 1 -> 1 .. k - 1]
  BY <1>7, <1>8
<1>11. \A j \in 1 .. i - 1 : s[g[j]] = FromRow(q[j])
  <2>1. SUFFICES ASSUME NEW j \in 1 .. i - 1  PROVE s[g[j]] = FromRow(q[j])
    OBVIOUS
  <2>2. m[f[j]] = FromRow(r[j])
    BY <1>1, <1>8 DEF Pairs
  <2> QED  BY <1>6, <1>8, <2>2
<1>12. \A j, l \in 1 .. i - 1 : j < l => g[j] < g[l]
  BY <1>1, <1>8 DEF Pairs
<1>13. Pairs(g, s, q)
  BY <1>6, <1>9, <1>10, <1>11, <1>12 DEF Pairs
<1> QED  BY <1>3, <1>5, <1>13 DEF Matches

\* The first n rows have n messages.
FirstOf(f, n) == {f[j] : j \in 1 .. n}

LEMMA PlacesCount ==
    ASSUME NEW m, NEW r \in Seq(Row), NEW f, Pairs(f, m, r), NEW n \in 0 .. Len(r)
    PROVE  Cardinality(FirstOf(f, n)) = n
<1>1. PICK g : g = [j \in 1 .. n |-> f[j]]
  OBVIOUS
<1>2. PICK s : s = FirstOf(f, n)
  OBVIOUS
<1>3. Len(r) \in Nat /\ n \in Nat /\ \A j \in 1 .. n : j \in 1 .. Len(r)
  OBVIOUS
<1>4. \A i, j \in 1 .. n : i < j => f[i] < f[j]
  BY <1>3 DEF Pairs
<1>5. \A j \in 1 .. n : f[j] \in Int
  BY <1>3 DEF Pairs
<1>6. \A i, j \in 1 .. n : g[i] = g[j] => i = j
  BY <1>1, <1>3, <1>4, <1>5
<1>7. g \in [1 .. n -> s] /\ \A t \in s : \E j \in 1 .. n : g[j] = t
  BY <1>1, <1>2 DEF FirstOf
<1>8. ExistsBijection(1 .. n, s)
  BY <1>6, <1>7 DEF ExistsBijection, Bijection, Injection, Surjection, IsInjective
<1> QED  BY <1>2, <1>3, <1>8, FS_CountingElements

\* The relation says what the property does.
LEMMA MatchesSaved ==
    ASSUME NEW m \in Seq(Message), NEW r \in Seq(Row), Matches(m, r)
    PROVE  SavedAre(m, r)
<1>1. PICK f : Pairs(f, m, r)
  BY DEF Matches
<1>2. PICK kept : kept = {i \in 1 .. Len(m) : m[i].saved}
  OBVIOUS
<1>3. Len(m) \in Nat /\ Len(r) \in Nat
  OBVIOUS
<1>4. \A j \in 1 .. Len(r) : f[j] \in kept /\ m[f[j]] = FromRow(r[j])
  <2>1. SUFFICES ASSUME NEW j \in 1 .. Len(r)  PROVE f[j] \in kept /\ m[f[j]] = FromRow(r[j])
    OBVIOUS
  <2>2. f[j] \in 1 .. Len(m) /\ m[f[j]] = FromRow(r[j]) /\ r[j] \in Row
    <3>1. f[j] \in 1 .. Len(m) /\ m[f[j]] = FromRow(r[j])
      BY <1>1, <2>1 DEF Pairs
    <3> QED  BY <2>1, <3>1
  <2>3. m[f[j]].saved
    BY <2>2, RowOf
  <2> QED  BY <1>2, <2>2, <2>3
<1>5. \A i \in kept : \E j \in 1 .. Len(r) : f[j] = i
  BY <1>1, <1>2 DEF Pairs
<1>6. kept = FirstOf(f, Len(r))
  BY <1>4, <1>5 DEF FirstOf
<1>7. Cardinality(kept) = Len(r)
  BY <1>1, <1>3, <1>6, PlacesCount
<1>8. ASSUME NEW i \in kept  PROVE m[i] = FromRow(r[Cardinality({j \in kept : j <= i})])
  <2>1. PICK l \in 1 .. Len(r) : f[l] = i
    BY <1>5
  <2>2. {j \in kept : j <= i} = FirstOf(f, l)
    <3>1. ASSUME NEW j \in 1 .. l  PROVE f[j] \in kept /\ f[j] <= i
      <4>1. j \in 1 .. Len(r) /\ (j = l \/ j < l)
        BY <1>3
      <4>2. f[j] \in Int /\ f[l] \in Int /\ (j = l \/ f[j] < f[l])
        BY <1>1, <4>1 DEF Pairs
      <4> QED  BY <1>4, <2>1, <4>1, <4>2
    <3>2. ASSUME NEW j \in kept, j <= i  PROVE \E x \in 1 .. l : f[x] = j
      <4>1. PICK x \in 1 .. Len(r) : f[x] = j
        BY <1>5
      <4>2. l < x => f[l] < f[x]
        BY <1>1 DEF Pairs
      <4>3. f[x] \in Int /\ f[l] \in Int
        <5>1. f[x] \in 1 .. Len(m) /\ f[l] \in 1 .. Len(m)
          BY <1>1, <2>1, <4>1 DEF Pairs
        <5> QED  BY <5>1
      <4>4. x <= l
        BY <1>3, <2>1, <3>2, <4>1, <4>2, <4>3
      <4> QED  BY <1>3, <4>1, <4>4
    <3> QED  BY <3>1, <3>2 DEF FirstOf
  <2>3. Cardinality(FirstOf(f, l)) = l
    BY <1>1, <1>3, PlacesCount
  <2>4. Cardinality({j \in kept : j <= i}) = l
    BY <2>2, <2>3
  <2> QED  BY <1>4, <2>1, <2>4
<1> QED  BY <1>2, <1>7, <1>8 DEF SavedAre

-----------------------------------------------------------------------------
(* Prompts and turns *)

\* A prompt is there once, and the turns of what is there are not ahead.
OnceEach(s) == \A i, j \in 1 .. Len(s) :
    s[i].who = "user" /\ s[j].who = "user" /\ s[i].turn = s[j].turn => i = j
UpTo(s, n) == \A i \in 1 .. Len(s) : s[i].turn \in 1 .. n

LEMMA JoinsOnce ==
    ASSUME NEW T, NEW s \in Seq(T), NEW y \in T, NEW n \in Nat, NEW k \in Nat, n <= k,
           OnceEach(s), UpTo(s, n), y.turn \in 1 .. k,
           y.who = "user" => \A i \in 1 .. Len(s) : s[i].turn # y.turn
    PROVE  OnceEach(Append(s, y)) /\ UpTo(Append(s, y), k)
<1>1. PICK q : q = Append(s, y)
  OBVIOUS
<1>2. /\ Len(q) = Len(s) + 1 /\ q[Len(s) + 1] = y /\ Len(s) \in Nat
      /\ \A i \in 1 .. Len(s) : q[i] = s[i]
  BY <1>1
<1>3. ASSUME NEW i \in 1 .. Len(s) + 1, NEW j \in 1 .. Len(s) + 1,
             q[i].who = "user", q[j].who = "user", q[i].turn = q[j].turn
      PROVE  i = j
  <2>1. CASE i = Len(s) + 1 /\ j \in 1 .. Len(s)
    BY <1>2, <1>3, <2>1
  <2>2. CASE j = Len(s) + 1 /\ i \in 1 .. Len(s)
    BY <1>2, <1>3, <2>2
  <2>3. CASE i \in 1 .. Len(s) /\ j \in 1 .. Len(s)
    BY <1>2, <1>3, <2>3 DEF OnceEach
  <2> QED  BY <1>2, <2>1, <2>2, <2>3
<1>4. ASSUME NEW i \in 1 .. Len(s) + 1  PROVE q[i].turn \in 1 .. k
  <2>1. CASE i = Len(s) + 1
    BY <1>2, <2>1
  <2>2. CASE i \in 1 .. Len(s)
    <3>1. s[i].turn \in 1 .. n
      BY <2>2 DEF UpTo
    <3> QED  BY <1>2, <2>2, <3>1
  <2> QED  BY <1>2, <2>1, <2>2
<1>5. OnceEach(q)
  BY <1>2, <1>3 DEF OnceEach
<1>6. UpTo(q, k)
  BY <1>2, <1>4 DEF UpTo
<1> QED  BY <1>1, <1>5, <1>6

LEMMA CutOnce ==
    ASSUME NEW T, NEW s \in Seq(T), NEW n, OnceEach(s), UpTo(s, n), NEW k \in 0 .. Len(s)
    PROVE  /\ SubSeq(s, 1, k) \in Seq(T) /\ Len(SubSeq(s, 1, k)) = k
           /\ \A i \in 1 .. k : SubSeq(s, 1, k)[i] = s[i]
           /\ OnceEach(SubSeq(s, 1, k)) /\ UpTo(SubSeq(s, 1, k), n)
<1>1. Len(s) \in Nat /\ \A i \in 1 .. k : i \in 1 .. Len(s) /\ s[i] \in T
  OBVIOUS
<1>2. PICK q : q = SubSeq(s, 1, k)
  OBVIOUS
<1>3. q \in Seq(T) /\ Len(q) = k /\ \A i \in 1 .. k : q[i] = s[i]
  BY <1>1, <1>2, SubSeqProperties
<1>4. OnceEach(q) /\ UpTo(q, n)
  BY <1>1, <1>3 DEF OnceEach, UpTo
<1> QED  BY <1>2, <1>3, <1>4

LEMMA RowsOnce ==
    ASSUME NEW r \in Seq(Row), NEW n, OnceEach(r), UpTo(r, n)
    PROVE  OnceEach(FromRows(r)) /\ UpTo(FromRows(r), n)
<1>1. PICK q : q = FromRows(r)
  OBVIOUS
<1>2. Len(q) = Len(r) /\ \A i \in 1 .. Len(r) : q[i] = FromRow(r[i])
  BY <1>1, RowsMatch
<1>3. ASSUME NEW i \in 1 .. Len(r)  PROVE q[i].turn = r[i].turn /\ q[i].who = r[i].who
  <2>1. q[i] = FromRow(r[i])
    BY <1>2
  <2> QED  BY <2>1 DEF FromRow
<1>4. OnceEach(q) /\ UpTo(q, n)
  BY <1>2, <1>3 DEF OnceEach, UpTo
<1> QED  BY <1>1, <1>4

LEMMA PromptIndex ==
    ASSUME NEW s, OnceEach(s), NEW i \in 1 .. Len(s), s[i].who = "user"
    PROVE  IndexOf(s, s[i].turn) = i
<1>1. PICK k : k = IndexOf(s, s[i].turn)
  OBVIOUS
<1>2. k \in 1 .. Len(s) /\ s[k].turn = s[i].turn /\ s[k].who = "user"
  BY <1>1 DEF IndexOf
<1> QED  BY <1>1, <1>2 DEF OnceEach

-----------------------------------------------------------------------------
(* What the page shows, while calls are in flight *)

Prompt(turn, saved) == [turn |-> turn, who |-> "user", saved |-> saved]

\* A conversation there is has rows of turns there were, and no other has any.
StoredFits(s, n) ==
    /\ s.exists \subseteq 1 .. n /\ s.rows \in [Turns -> Seq(Row)]
    /\ \A t \in Turns : /\ OnceEach(s.rows[t]) /\ UpTo(s.rows[t], n)
                        /\ t \notin s.exists => s.rows[t] = <<>>

\* The draft is of a saved prompt.
PageFits(p) ==
    /\ p.turns \in 0 .. MaxTurns /\ p.activeId \in Turns \cup {Nobody}
    /\ p.messages \in Seq(Message) /\ OnceEach(p.messages) /\ UpTo(p.messages, p.turns)
    /\ p.editing # Nobody => \E i \in 1 .. Len(p.messages) : p.messages[i] = Prompt(p.editing, TRUE)

\* A conversation that is to begin has no rows yet.
RowsOf(s, a) == IF a \in s.exists THEN s.rows[a] ELSE <<>>
Agrees(p, s) ==
    p.activeId \in s.exists \cup {Nobody} => Matches(p.messages, RowsOf(s, p.activeId))

\* No answer is under way that the page has yet to follow.
Settled(n) ==
    /\ n["open"] = {}
    /\ \A c \in n["truncate"] : c.phase # "answered"
    /\ \A c \in n["stream"] : c.phase \in {"sent", "failed"}

OpenFits(c, p, s) ==
    /\ p.activeId = c.to /\ c.to \in Turns
    /\ c.phase = "answered" => c.to \in s.exists /\ c.ans = s.rows[c.to]
    /\ c.phase = "failed" => c.to \notin s.exists

\* What is to be cut begins with a saved prompt; the server may have cut already.
EditFits(c, p, s) ==
    /\ p.activeId = c.to.conv /\ c.to.idx \in 1 .. Len(p.messages)
    /\ p.messages[c.to.idx] = Prompt(c.to.turn, TRUE)
    /\ c.phase = "answered" => /\ c.to.conv \in s.exists
                               /\ Matches(SubSeq(p.messages, 1, c.to.idx - 1), s.rows[c.to.conv])

PromptIsLast(c, p) ==
    Len(p.messages) > 0 /\ p.messages[Len(p.messages)] = Prompt(c.to.turn, FALSE)

\* The rows are r with the answer, once it is stored.
Replied(c, r) ==
    IF c.done = "reply" THEN Append(r, [turn |-> c.to.turn, who |-> "assistant"]) ELSE r

\* The server is ahead of the page by what it has not told yet.
Ahead(c, p, s, r) ==
    /\ r \in Seq(Row) /\ Matches(p.messages, r)
    /\ s.rows[c.conv] = IF c.phase = "told" THEN Replied(c, r)
                        ELSE Replied(c, Append(r, [turn |-> c.to.turn, who |-> "user"]))

StreamFits(c, p, s) ==
    /\ c.to.turn = p.turns /\ p.turns # 0 /\ c.phase \in {"sent", "failed", "opened", "told"}
    /\ c.phase \in {"sent", "opened"} => PromptIsLast(c, p) /\ c.to.conv = p.activeId
    /\ c.phase = "sent" => StoredFits(s, p.turns - 1)
    /\ c.phase \in {"opened", "told"} =>
         /\ c = [to |-> c.to, phase |-> c.phase, conv |-> c.conv, done |-> c.done]
         /\ c.conv \in s.exists
         /\ \E r : Ahead(c, p, s, r)
    /\ c.phase = "opened" => c.conv = IF c.to.conv = Nobody THEN c.to.turn ELSE c.to.conv
    /\ c.phase = "told" => c.conv = p.activeId

Fits(p, s, n) ==
    /\ StoredFits(s, p.turns) /\ PageFits(p)
    /\ Settled(n) => Agrees(p, s)
    /\ \A c \in n["open"] : OpenFits(c, p, s)
    /\ \A c \in n["truncate"] : EditFits(c, p, s)
    /\ \A c \in n["stream"] : StreamFits(c, p, s)

ThreadFields == {"activeId", "messages", "editing", "turns", "crossed", "streaming"}

ShownInv ==
    /\ ThreadFields \subseteq DOMAIN page /\ {"exists", "rows"} \subseteq DOMAIN server
    /\ lost \in Nat
    /\ page.crossed \/ lost # 0 \/ Fits(page, server, net)

\* The page settles where nobody has gone on, and nothing was lost.
LEMMA ShownSettles ==
    ASSUME ChatInv, ShownInv  PROVE ShownIsStored
<1> SUFFICES ASSUME ThreadQuiet, ~page.crossed, lost = 0, page.activeId \in server.exists
             PROVE  SavedAre(page.messages, server.rows[page.activeId])
  BY DEF ShownIsStored
<1>1. Fits(page, server, net)
  BY DEF ShownInv
<1>2. net["open"] = {} /\ net["truncate"] = {} /\ net["stream"] = {}
  BY ChatKinds DEF ThreadQuiet, Quiet
<1>3. Settled(net)
  BY <1>2 DEF Settled
<1>4. Matches(page.messages, server.rows[page.activeId])
  BY <1>1, <1>3 DEF Fits, Agrees, RowsOf
<1>5. page.messages \in Seq(Message) /\ server.rows[page.activeId] \in Seq(Row)
  <2>1. PageFits(page) /\ StoredFits(server, page.turns)
    BY <1>1 DEF Fits
  <2>2. page.activeId \in Turns
    <3>1. page.activeId \in 1 .. page.turns /\ page.activeId \in Turns \cup {Nobody}
      BY <2>1 DEF PageFits, StoredFits
    <3> QED  BY <3>1 DEF Nobody
  <2> QED  BY <2>1, <2>2 DEF PageFits, StoredFits
<1> QED  BY <1>4, <1>5, MatchesSaved

-----------------------------------------------------------------------------
(* Calls and what they leave *)

NoThread(n) == \A k \in Threads : n[k] = {}
Alone(n, k, c) == n[k] = {c} /\ \A j \in Threads \ {k} : n[j] = {}

LEMMA IsAlone ==
    ASSUME ChatInv, ~page.crossed, NEW k \in Threads, NEW c \in net[k]  PROVE Alone(net, k, c)
<1>1. OneThreadCall
  BY DEF ChatInv
<1> QED  BY <1>1 DEF OneThreadCall, Alone

LEMMA AloneMoved ==
    ASSUME NEW n, DOMAIN n = Kinds, NEW k \in Threads, NEW c, Alone(n, k, c), NEW q,
           NEW m, m = [n EXCEPT ![k] = (@ \ {c}) \cup {q}]
    PROVE  Alone(m, k, q)
BY ChatKinds DEF Alone

LEMMA AloneAsked ==
    ASSUME NEW n, DOMAIN n = Kinds, NoThread(n), NEW k \in Threads, NEW a, NEW m, m = Asking(n, k, a)
    PROVE  Alone(m, k, Sent(a))
BY ChatKinds DEF Alone, NoThread, Asking

LEMMA AloneTaken ==
    ASSUME NEW n, DOMAIN n = Kinds, NEW k \in Threads, NEW c, Alone(n, k, c),
           NEW m, m = Without(n, k, c)
    PROVE  DOMAIN m = Kinds /\ NoThread(m)
BY ChatKinds DEF Alone, NoThread, Without

LEMMA ListAsked ==
    ASSUME NEW n, DOMAIN n = Kinds, NEW j \in {"list", "flagged"}, NEW m, m = Asking(n, j, Nobody)
    PROVE  DOMAIN m = Kinds /\ (NoThread(n) => NoThread(m))
BY ChatKinds DEF NoThread, Asking

LEMMA FitsRest ==
    ASSUME NEW p, NEW s, NEW n, NoThread(n), StoredFits(s, p.turns), PageFits(p), Agrees(p, s)
    PROVE  Fits(p, s, n)
BY ChatKinds DEF Fits, NoThread

\* The calls after which the page is as it was.
Follows(k, c) ==
    \/ k = "delete"
    \/ k = "truncate" /\ c.phase # "answered"
    \/ k = "stream" /\ c.phase \in {"sent", "failed"}

LEMMA FitsAlone ==
    ASSUME NEW p, NEW s, NEW n, NEW k \in Threads, NEW c, Alone(n, k, c),
           StoredFits(s, p.turns), PageFits(p), Follows(k, c) => Agrees(p, s),
           k = "open" => OpenFits(c, p, s), k = "truncate" => EditFits(c, p, s),
           k = "stream" => StreamFits(c, p, s)
    PROVE  Fits(p, s, n)
<1>1. Settled(n) => Follows(k, c)
  BY ChatKinds DEF Settled, Follows, Alone
<1> QED  BY <1>1, ChatKinds DEF Fits, Alone

LEMMA AgreesAlone ==
    ASSUME NEW p, NEW s, NEW n, Fits(p, s, n), NEW k \in Threads, NEW c, Alone(n, k, c)
    PROVE  /\ StoredFits(s, p.turns) /\ PageFits(p)
           /\ Follows(k, c) => Agrees(p, s)
           /\ k = "open" => OpenFits(c, p, s)
           /\ k = "truncate" => EditFits(c, p, s)
           /\ k = "stream" => StreamFits(c, p, s)
<1>1. Follows(k, c) => Settled(n)
  BY ChatKinds DEF Settled, Follows, Alone
<1> QED  BY <1>1, ChatKinds DEF Fits, Alone

LEMMA AgreesRest ==
    ASSUME NEW p, NEW s, NEW n, Fits(p, s, n), NoThread(n)
    PROVE  StoredFits(s, p.turns) /\ PageFits(p) /\ Agrees(p, s)
<1>1. Settled(n)
  BY ChatKinds DEF Settled, NoThread
<1> QED  BY <1>1 DEF Fits

\* What is not about the thread keeps it as it fits.
LEMMA FitsKept ==
    ASSUME NEW p, NEW s, NEW n, Fits(p, s, n), NEW q, NEW t, NEW m,
           q.turns = p.turns, q.activeId = p.activeId, q.messages = p.messages, PageFits(q),
           t.exists = s.exists, t.rows = s.rows,
           \A k \in Threads : m[k] = n[k]
    PROVE  Fits(q, t, m)
<1>1. m["open"] = n["open"] /\ m["truncate"] = n["truncate"] /\ m["stream"] = n["stream"]
  BY ChatKinds
<1>2. StoredFits(t, q.turns)
  BY DEF Fits, StoredFits
<1>3. Settled(m) => Agrees(q, t)
  BY <1>1 DEF Fits, Settled, Agrees, RowsOf
<1>4. \A c \in m["open"] : OpenFits(c, q, t)
  BY <1>1 DEF Fits, OpenFits
<1>5. \A c \in m["truncate"] : EditFits(c, q, t)
  BY <1>1 DEF Fits, EditFits
<1>6. \A c \in m["stream"] : StreamFits(c, q, t)
  <2>1. SUFFICES ASSUME NEW c \in m["stream"]  PROVE StreamFits(c, q, t)
    OBVIOUS
  <2>2. StreamFits(c, p, s)
    BY <1>1 DEF Fits
  <2>3. c.phase = "sent" => StoredFits(t, q.turns - 1)
    BY <2>2 DEF StreamFits, StoredFits
  <2>4. \A r : Ahead(c, p, s, r) => Ahead(c, q, t, r)
    BY DEF Ahead
  <2> QED  BY <2>2, <2>3, <2>4 DEF StreamFits, PromptIsLast
<1> QED  BY <1>2, <1>3, <1>4, <1>5, <1>6 DEF Fits

\* Only what happens while the user waits, and nothing is lost, needs a look.
LEMMA ShownKept ==
    ASSUME ShownInv, ThreadFields \subseteq DOMAIN page', {"exists", "rows"} \subseteq DOMAIN server',
           lost' = lost, ~page'.crossed => ~page.crossed,
           Fits(page, server, net) /\ ~page.crossed /\ ~page'.crossed /\ lost = 0 =>
               Fits(page', server', net')
    PROVE  ShownInv'
<1>1. (Fits(page, server, net))' <=> Fits(page', server', net')
  BY DEF Fits, StoredFits, PageFits, Settled, Agrees, RowsOf, OpenFits, EditFits, StreamFits, PromptIsLast, Ahead, Replied
<1> QED  BY <1>1 DEF ShownInv

-----------------------------------------------------------------------------
(* What is not about the thread *)

SamePage ==
    /\ DOMAIN page' = DOMAIN page /\ page'.crossed = page.crossed
    /\ page'.turns = page.turns /\ page'.activeId = page.activeId
    /\ page'.messages = page.messages /\ page'.editing \in {page.editing, Nobody}
SameServer ==
    DOMAIN server' = DOMAIN server /\ server'.exists = server.exists /\ server'.rows = server.rows
SameCalls == \A k \in Threads : net'[k] = net[k]

LEMMA QuietShown ==
    ASSUME ShownInv, SamePage, SameServer, SameCalls, lost' = lost
    PROVE  ShownInv'
<1>1. ASSUME Fits(page, server, net)  PROVE Fits(page', server', net')
  <2>1. PageFits(page)
    BY <1>1 DEF Fits
  <2>2. PageFits(page')
    BY <2>1 DEF PageFits, SamePage
  <2> QED  BY <1>1, <2>2, FitsKept DEF SamePage, SameServer, SameCalls
<1> QED  BY <1>1, ShownKept DEF ShownInv, SamePage, SameServer

LEMMA CallsSame ==
    ASSUME DOMAIN net = Kinds, NEW k \in Kinds \ Threads, NEW c,
           \/ net' = Without(net, k, c)
           \/ \E j \in {"list", "flagged"} : net' = Asking(Without(net, k, c), j, Nobody)
           \/ Ask(k, c)
           \/ \E q : net' = [net EXCEPT ![k] = (@ \ {c}) \cup {q}]
           \/ UNCHANGED net
    PROVE  SameCalls
<1>1. CASE net' = Without(net, k, c)
  BY <1>1, ChatKinds DEF SameCalls, Without
<1>2. ASSUME NEW j \in {"list", "flagged"}, net' = Asking(Without(net, k, c), j, Nobody)  PROVE SameCalls
  <2>1. PICK n : n = Without(net, k, c)
    OBVIOUS
  <2>2. DOMAIN n = Kinds /\ \A i \in Threads : n[i] = net[i]
    BY <2>1, ChatKinds DEF Without
  <2>3. net' = Asking(n, j, Nobody)
    BY <1>2, <2>1
  <2> QED  BY <2>2, <2>3, ChatKinds DEF SameCalls, Asking
<1>3. CASE Ask(k, c)
  BY <1>3, ChatKinds DEF SameCalls, Ask, Asking
<1>4. ASSUME NEW q, net' = [net EXCEPT ![k] = (@ \ {c}) \cup {q}]  PROVE SameCalls
  BY <1>4, ChatKinds DEF SameCalls
<1>5. CASE UNCHANGED net
  BY <1>5 DEF SameCalls
<1> QED  BY <1>1, <1>2, <1>3, <1>4, <1>5

LEMMA ListsShown ==
    ASSUME ChatInv, ShownInv,
           \/ DeliverList \/ DeliverModels \/ DeliverFlagged \/ DeliverConnectors
           \/ DeliverPin \/ DeliverFlag \/ DeliverUpload
           \/ \E m \in Models : PickModel(m)
           \/ Focus \/ StopEdit \/ RemoveAttachment
           \/ \E id \in Turns : TogglePin(id)
           \/ \E m \in ToSet(page.messages) : ToggleFlag(m)
           \/ \E n \in 1 .. 2 : PickFiles(n)
    PROVE  ShownInv'
<1>0. ThreadFields \subseteq DOMAIN page /\ DOMAIN net = Kinds
  BY DEF ShownInv, ChatInv
<1>1. ASSUME NEW k \in Kinds \ Threads, NEW c, OnlyPage, SamePage,
             \/ Take(k, c)
             \/ \E j \in {"list", "flagged"} : net' = Asking(Without(net, k, c), j, Nobody)
             \/ Ask(k, c)
             \/ UNCHANGED net
      PROVE  ShownInv'
  <2>1. SameCalls
    BY <1>0, <1>1, CallsSame DEF Take
  <2> QED  BY <1>1, <2>1, QuietShown DEF OnlyPage, SameServer
<1>2. UNCHANGED page => SamePage
  BY DEF SamePage
<1>k. {"list", "models", "flagged", "connectors", "pin", "flag", "upload"} \subseteq Kinds \ Threads
  BY ChatKinds
<1>3. CASE DeliverList
  <2>1. PICK c \in net["list"] : Take("list", c) /\ page' \in {page, [page EXCEPT !.conversations = c.ans]}
                                 /\ OnlyPage
    BY <1>3 DEF DeliverList, Came
  <2>2. SamePage
    BY <1>0, <2>1 DEF SamePage, ThreadFields
  <2> QED  BY <1>1, <1>k, <2>1, <2>2
<1>4. CASE DeliverModels
  <2>1. PICK c \in net["models"] :
           Take("models", c) /\ OnlyPage /\ \E m : page' \in {page, [page EXCEPT !.model = m]}
    BY <1>4 DEF DeliverModels, Came
  <2>2. SamePage
    BY <1>0, <2>1 DEF SamePage, ThreadFields
  <2> QED  BY <1>1, <1>k, <2>1, <2>2
<1>5. CASE DeliverFlagged
  <2>1. PICK c \in net["flagged"] : Take("flagged", c) /\ page' \in {page, [page EXCEPT !.flagged = c.ans]}
                                    /\ OnlyPage
    BY <1>5 DEF DeliverFlagged, Came
  <2>2. SamePage
    BY <1>0, <2>1 DEF SamePage, ThreadFields
  <2> QED  BY <1>1, <1>k, <2>1, <2>2
<1>6. CASE DeliverConnectors
  <2>1. PICK c \in net["connectors"] :
           Take("connectors", c) /\ page' \in {page, [page EXCEPT !.connectors = c.ans]} /\ OnlyPage
    BY <1>6 DEF DeliverConnectors, Came
  <2>2. SamePage
    BY <1>0, <2>1 DEF SamePage, ThreadFields
  <2> QED  BY <1>1, <1>k, <2>1, <2>2
<1>7. CASE DeliverPin
  <2>1. PICK c : \/ Take("pin", c)
                 \/ net' = Asking(Without(net, "pin", c), "list", Nobody)
    BY <1>7 DEF DeliverPin
  <2>2. SamePage /\ OnlyPage
    BY <1>2, <1>7 DEF DeliverPin
  <2> QED  BY <1>1, <1>k, <2>1, <2>2
<1>8. CASE DeliverFlag
  <2>1. PICK c : \/ Take("flag", c)
                 \/ net' = Asking(Without(net, "flag", c), "flagged", Nobody)
    BY <1>8 DEF DeliverFlag
  <2>2. SamePage /\ OnlyPage
    BY <1>2, <1>8 DEF DeliverFlag
  <2> QED  BY <1>1, <1>k, <2>1, <2>2
<1>9. CASE DeliverUpload
  <2>1. PICK c \in net["upload"] :
           Take("upload", c) /\ OnlyPage /\ \E a : page' = [page EXCEPT !.uploading = FALSE, !.attachments = a]
    BY <1>9, Zenon DEF DeliverUpload, Came
  <2>2. SamePage
    BY <1>0, <2>1 DEF SamePage, ThreadFields
  <2> QED  BY <1>1, <1>k, <2>1, <2>2
<1>10. ASSUME NEW m \in Models, PickModel(m)  PROVE ShownInv'
  <2>1. SamePage /\ UNCHANGED net /\ OnlyPage
    BY <1>0, <1>10 DEF PickModel, SamePage, ThreadFields
  <2> QED  BY <1>1, <1>k, <2>1
<1>11. CASE Focus
  BY <1>1, <1>2, <1>k, <1>11 DEF Focus
<1>12. CASE StopEdit
  <2>1. SamePage /\ UNCHANGED net /\ OnlyPage
    BY <1>0, <1>12 DEF StopEdit, SamePage, ThreadFields
  <2> QED  BY <1>1, <1>k, <2>1
<1>13. CASE RemoveAttachment
  <2>1. SamePage /\ UNCHANGED net /\ OnlyPage
    BY <1>0, <1>13 DEF RemoveAttachment, SamePage, ThreadFields
  <2> QED  BY <1>1, <1>k, <2>1
<1>14. ASSUME NEW id \in Turns, TogglePin(id)  PROVE ShownInv'
  BY <1>1, <1>2, <1>k, <1>14 DEF TogglePin
<1>15. ASSUME NEW m \in ToSet(page.messages), ToggleFlag(m)  PROVE ShownInv'
  BY <1>1, <1>2, <1>k, <1>15 DEF ToggleFlag
<1>16. ASSUME NEW n \in 1 .. 2, PickFiles(n)  PROVE ShownInv'
  <2>1. SamePage /\ OnlyPage /\ Ask("upload", n)
    BY <1>0, <1>16 DEF PickFiles, SamePage, ThreadFields
  <2> QED  BY <1>1, <1>k, <2>1
<1> QED  BY <1>3, <1>4, <1>5, <1>6, <1>7, <1>8, <1>9, <1>10, <1>11, <1>12, <1>13, <1>14, <1>15, <1>16

LEMMA MentionsShown ==
    ASSUME ChatInv, ShownInv,
           \/ TypeText \/ UseTemplate \/ EscapeMention
           \/ \E n \in 0 .. Cardinality(Connectors) : TypeMention(n)
           \/ \E up \in BOOLEAN : MoveMention(up)
           \/ \E c \in Connectors : PickMention(c) \/ RemoveMention(c)
    PROVE  ShownInv'
<1>0. ThreadFields \subseteq DOMAIN page
  BY DEF ShownInv
<1>1. ASSUME SamePage, UNCHANGED net, OnlyPage  PROVE ShownInv'
  BY <1>1, QuietShown DEF OnlyPage, SameServer, SameCalls
<1>2. CASE TypeText
  BY <1>0, <1>1, <1>2 DEF TypeText, SamePage, ThreadFields
<1>3. CASE UseTemplate
  BY <1>0, <1>1, <1>3 DEF UseTemplate, SamePage, ThreadFields
<1>4. CASE EscapeMention
  BY <1>0, <1>1, <1>4 DEF EscapeMention, SamePage, ThreadFields
<1>5. ASSUME NEW n \in 0 .. Cardinality(Connectors), TypeMention(n)  PROVE ShownInv'
  <2>1. page' = [page EXCEPT !.typed = TRUE, !.mention = n, !.mentionIdx = 0] /\ UNCHANGED net /\ OnlyPage
    BY <1>5, Zenon DEF TypeMention
  <2> QED  BY <1>0, <1>1, <2>1 DEF SamePage, ThreadFields
<1>6. ASSUME NEW up \in BOOLEAN, MoveMention(up)  PROVE ShownInv'
  <2>1. PICK i : page' = [page EXCEPT !.mentionIdx = i] /\ UNCHANGED net /\ OnlyPage
    BY <1>6 DEF MoveMention
  <2> QED  BY <1>0, <1>1, <2>1 DEF SamePage, ThreadFields
<1>7. ASSUME NEW c \in Connectors, PickMention(c)  PROVE ShownInv'
  <2>1. PICK s : /\ page' = [page EXCEPT !.typed = TRUE, !.mention = 0, !.mentioned = s]
                 /\ UNCHANGED net /\ OnlyPage
    BY <1>7, Zenon DEF PickMention
  <2> QED  BY <1>0, <1>1, <2>1 DEF SamePage, ThreadFields
<1>8. ASSUME NEW c \in Connectors, RemoveMention(c)  PROVE ShownInv'
  <2>1. PICK r, s : page' = [page EXCEPT !.typed = r, !.mentioned = s] /\ UNCHANGED net /\ OnlyPage
    BY <1>8, Zenon DEF RemoveMention
  <2> QED  BY <1>0, <1>1, <2>1 DEF SamePage, ThreadFields
<1> QED  BY <1>2, <1>3, <1>4, <1>5, <1>6, <1>7, <1>8

-----------------------------------------------------------------------------
(* The user's steps *)

LEMMA CrossingShown ==
    ASSUME ChatInv, ShownInv, NEW p, p = Crossing(page)
    PROVE  /\ DOMAIN p = DOMAIN page /\ p.messages = page.messages /\ p.activeId = page.activeId
           /\ p.turns = page.turns /\ p.editing = page.editing
           /\ p.crossed \/ (~page.crossed /\ NoThread(net))
<1>1. PICK b : b = (page.crossed \/ ~Quiet(Threads))
  OBVIOUS
<1>2. p = [page EXCEPT !.crossed = b]
  BY <1>1 DEF Crossing
<1>3. /\ DOMAIN p = DOMAIN page /\ p.messages = page.messages /\ p.activeId = page.activeId
      /\ p.turns = page.turns /\ p.editing = page.editing /\ p.crossed = b
  BY <1>2 DEF ShownInv, ThreadFields
<1>4. b \/ (~page.crossed /\ NoThread(net))
  BY <1>1 DEF Quiet, NoThread
<1> QED  BY <1>3, <1>4

LEMMA ShowingShown ==
    ASSUME NEW p, ThreadFields \subseteq DOMAIN p, NEW m, NEW q, q = Showing(p, m)
    PROVE  /\ DOMAIN q = DOMAIN p /\ q.crossed = p.crossed /\ q.messages = m
           /\ q.activeId = p.activeId /\ q.turns = p.turns
           /\ q.editing # Nobody => q.editing = p.editing /\ Shows(m, p.editing)
<1>1. PICK e : e = IF Shows(m, p.editing) THEN p.editing ELSE Nobody
  OBVIOUS
<1>2. q = [p EXCEPT !.messages = m, !.editing = e]
  BY <1>1, Zenon DEF Showing
<1>3. /\ DOMAIN q = DOMAIN p /\ q.crossed = p.crossed /\ q.messages = m
      /\ q.activeId = p.activeId /\ q.turns = p.turns /\ q.editing = e
  BY <1>2 DEF ThreadFields
<1> QED  BY <1>1, <1>3

LEMMA NothingShown ==
    ASSUME NEW p, NEW s, PageFits(p), StoredFits(s, p.turns),
           NEW q, q.activeId = Nobody, q.messages = <<>>, q.turns = p.turns,
           q.editing # Nobody => Shows(<<>>, p.editing)
    PROVE  PageFits(q) /\ Agrees(q, s)
<1>1. <<>> \in Seq(Message) /\ Len(<<>>) = 0 /\ ToSet(<<>>) = {}
  BY DEF ToSet
<1>2. OnceEach(<<>>) /\ UpTo(<<>>, q.turns)
  BY <1>1 DEF OnceEach, UpTo
<1>3. q.editing = Nobody
  BY <1>1 DEF Shows
<1>4. PageFits(q)
  BY <1>1, <1>2, <1>3 DEF PageFits
<1>5. Nobody \notin s.exists
  BY DEF StoredFits, Nobody
<1> QED  BY <1>4, <1>5, NoneMatch DEF Agrees, RowsOf

LEMMA NewChatShown == ASSUME ChatInv, ShownInv, NewChat  PROVE ShownInv'
<1>0. ThreadFields \subseteq DOMAIN page
  BY DEF ShownInv
<1>1. PICK p, q : p = Crossing(page) /\ q = [p EXCEPT !.activeId = Nobody]
  OBVIOUS
<1>2. page' = Showing(q, <<>>) /\ UNCHANGED <<net, server, lost>>
  BY <1>1 DEF NewChat, OnlyPage
<1>3. /\ DOMAIN p = DOMAIN page /\ p.turns = page.turns /\ p.editing = page.editing
      /\ p.crossed \/ (~page.crossed /\ NoThread(net))
  BY <1>1, CrossingShown
<1>4. /\ DOMAIN q = DOMAIN page /\ q.activeId = Nobody /\ q.turns = page.turns
      /\ q.editing = page.editing /\ q.crossed = p.crossed
  BY <1>0, <1>1, <1>3 DEF ThreadFields
<1>5. /\ DOMAIN page' = DOMAIN page /\ page'.messages = <<>> /\ page'.activeId = Nobody
      /\ page'.turns = page.turns /\ page'.crossed = p.crossed
      /\ page'.editing # Nobody => Shows(<<>>, page.editing)
  BY <1>0, <1>2, <1>4, ShowingShown
<1>6. ASSUME Fits(page, server, net), ~page'.crossed  PROVE Fits(page', server', net')
  <2>1. NoThread(net)
    BY <1>3, <1>5, <1>6
  <2>2. StoredFits(server, page.turns) /\ PageFits(page)
    BY <1>6, <2>1, AgreesRest
  <2>3. PageFits(page') /\ Agrees(page', server)
    BY <1>5, <2>2, NothingShown
  <2> QED  BY <1>2, <1>5, <2>1, <2>2, <2>3, FitsRest
<1> QED  BY <1>0, <1>2, <1>3, <1>5, <1>6, ShownKept DEF ShownInv

\* A call about the thread goes out, and the page changes which conversation it shows or
\* closes its editor.
LEMMA AskedShown ==
    ASSUME ChatInv, ShownInv, NEW k \in {"open", "truncate", "delete"}, NEW a, Ask(k, a),
           NEW p, p = Crossing(page), OnlyPage, DOMAIN page' = DOMAIN p, page'.messages = p.messages,
           page'.turns = p.turns, page'.crossed = p.crossed, page'.editing \in {p.editing, Nobody},
           page'.activeId = IF k = "open" THEN a ELSE p.activeId,
           k = "open" => a \in Turns,
           PageFits(page) /\ k = "truncate" => EditFits(Sent(a), page, server)
    PROVE  ShownInv'
<1>0. ThreadFields \subseteq DOMAIN page /\ DOMAIN net = Kinds /\ k \in Threads
  BY ChatKinds DEF ShownInv, ChatInv
<1>1. /\ DOMAIN p = DOMAIN page /\ p.messages = page.messages /\ p.turns = page.turns
      /\ p.activeId = page.activeId /\ p.editing = page.editing
      /\ p.crossed \/ (~page.crossed /\ NoThread(net))
  BY CrossingShown
<1>2. /\ DOMAIN page' = DOMAIN page /\ page'.messages = page.messages /\ page'.turns = page.turns
      /\ page'.activeId = (IF k = "open" THEN a ELSE page.activeId)
      /\ page'.editing \in {page.editing, Nobody} /\ page'.crossed = p.crossed
  BY <1>1
<1>3. ASSUME Fits(page, server, net), ~page'.crossed  PROVE Fits(page', server', net')
  <2>1. NoThread(net)
    BY <1>1, <1>2, <1>3
  <2>2. StoredFits(server, page.turns) /\ PageFits(page) /\ Agrees(page, server)
    BY <1>3, <2>1, AgreesRest
  <2>3. Alone(net', k, Sent(a))
    BY <1>0, <2>1, AloneAsked DEF Ask
  <2>4. PageFits(page')
    BY <1>2, <2>2 DEF PageFits
  <2>5. Sent(a).phase = "sent" /\ Sent(a).to = a
    BY DEF Sent
  <2>6. k = "open" => OpenFits(Sent(a), page', server)
    BY <1>2, <2>2, <2>5 DEF OpenFits
  <2>7. k = "truncate" => EditFits(Sent(a), page', server)
    BY <1>2, <2>2, <2>5 DEF EditFits
  <2>8. Follows(k, Sent(a)) => Agrees(page', server)
    BY <1>2, <2>2 DEF Follows, Agrees
  <2> QED  BY <1>0, <1>2, <2>2, <2>3, <2>4, <2>6, <2>7, <2>8, FitsAlone, ChatKinds DEF OnlyPage
<1> QED  BY <1>0, <1>1, <1>2, <1>3, ShownKept DEF ShownInv, OnlyPage

LEMMA StartEditShown ==
    ASSUME ChatInv, ShownInv, NEW m \in ToSet(page.messages), StartEdit(m)
    PROVE  ShownInv'
<1>0. ThreadFields \subseteq DOMAIN page
  BY DEF ShownInv
<1>1. page' = [page EXCEPT !.editing = m.turn] /\ m.who = "user" /\ m.saved /\ UNCHANGED <<net, server, lost>>
  BY DEF StartEdit, CanEdit, HasRow, OnlyPage
<1>2. /\ DOMAIN page' = DOMAIN page /\ page'.messages = page.messages /\ page'.turns = page.turns
      /\ page'.activeId = page.activeId /\ page'.editing = m.turn /\ page'.crossed = page.crossed
  BY <1>0, <1>1 DEF ThreadFields
<1>3. ASSUME Fits(page, server, net)  PROVE Fits(page', server', net')
  <2>1. PageFits(page)
    BY <1>3 DEF Fits
  <2>2. page.messages \in Seq(Message)
    BY <2>1 DEF PageFits
  <2>3. PICK i \in 1 .. Len(page.messages) : m = page.messages[i]
    BY <2>2 DEF ToSet
  <2>4. m \in Message
    BY <2>2, <2>3
  <2>5. m = Prompt(m.turn, TRUE)
    BY <1>1, <2>4 DEF Message, Prompt
  <2>6. PageFits(page')
    BY <1>2, <2>1, <2>3, <2>5 DEF PageFits
  <2> QED  BY <1>1, <1>2, <1>3, <2>6, FitsKept
<1> QED  BY <1>0, <1>1, <1>2, <1>3, ShownKept DEF ShownInv

LEMMA ThreadsShown ==
    ASSUME ChatInv, ShownInv,
           \/ \E id \in Turns : OpenConv(id) \/ DeleteConv(id)
           \/ \E f \in Flag : OpenFlagged(f)
           \/ SaveEdit
    PROVE  ShownInv'
<1>0. ThreadFields \subseteq DOMAIN page
  BY DEF ShownInv
<1>1. PICK p : p = Crossing(page)
  OBVIOUS
<1>2. /\ DOMAIN p = DOMAIN page /\ p.messages = page.messages /\ p.turns = page.turns
      /\ p.activeId = page.activeId /\ p.editing = page.editing
  BY <1>1, CrossingShown
<1>3. ASSUME NEW id \in Turns, Ask("open", id), page' = [p EXCEPT !.activeId = id], OnlyPage  PROVE ShownInv'
  <2>1. /\ DOMAIN page' = DOMAIN p /\ page'.messages = p.messages /\ page'.turns = p.turns
        /\ page'.crossed = p.crossed /\ page'.editing = p.editing /\ page'.activeId = id
    BY <1>0, <1>2, <1>3 DEF ThreadFields
  <2> QED  BY <1>1, <1>3, <2>1, AskedShown
<1>4. ASSUME NEW id \in Turns, OpenConv(id)  PROVE ShownInv'
  BY <1>1, <1>3, <1>4 DEF OpenConv
<1>5. ASSUME NEW f \in Flag, OpenFlagged(f)  PROVE ShownInv'
  <2>1. f.conv \in Turns
    BY DEF Flag
  <2> QED  BY <1>1, <1>3, <1>5, <2>1 DEF OpenFlagged
<1>6. ASSUME NEW id \in Turns, DeleteConv(id)  PROVE ShownInv'
  <2>1. PICK a : Ask("delete", a)
    BY <1>6 DEF DeleteConv
  <2>2. page' = p /\ OnlyPage
    BY <1>1, <1>6 DEF DeleteConv
  <2> QED  BY <1>1, <2>1, <2>2, AskedShown
<1>7. CASE SaveEdit
  <2>1. PICK a : a = [turn |-> page.editing, conv |-> page.activeId,
                      idx |-> IndexOf(page.messages, page.editing)]
    OBVIOUS
  <2>2. /\ Ask("truncate", a) /\ page' = [p EXCEPT !.editing = Nobody] /\ OnlyPage
        /\ page.editing # Nobody
    BY <1>1, <1>7, <2>1 DEF SaveEdit
  <2>3. /\ DOMAIN page' = DOMAIN p /\ page'.messages = p.messages /\ page'.turns = p.turns
        /\ page'.crossed = p.crossed /\ page'.editing = Nobody /\ page'.activeId = p.activeId
    BY <1>0, <1>2, <2>2 DEF ThreadFields
  <2>4. ASSUME PageFits(page)  PROVE EditFits(Sent(a), page, server)
    <3>1. PICK i \in 1 .. Len(page.messages) : page.messages[i] = Prompt(page.editing, TRUE)
      BY <2>2, <2>4 DEF PageFits
    <3>2. page.messages[i].who = "user" /\ page.messages[i].turn = page.editing
      BY <3>1 DEF Prompt
    <3>3. IndexOf(page.messages, page.editing) = i
      BY <2>4, <3>1, <3>2, PromptIndex DEF PageFits
    <3>4. a.turn = page.editing /\ a.conv = page.activeId /\ a.idx = i
      BY <2>1, <3>3
    <3> QED  BY <3>1, <3>4 DEF EditFits, Sent
  <2> QED  BY <1>1, <2>2, <2>3, <2>4, AskedShown
<1> QED  BY <1>4, <1>5, <1>6, <1>7

-----------------------------------------------------------------------------
(* A prompt goes out *)

LEMMA RowsFit ==
    ASSUME NEW s, NEW n, StoredFits(s, n), NEW a \in Turns \cup {Nobody}
    PROVE  RowsOf(s, a) \in Seq(Row) /\ OnceEach(RowsOf(s, a)) /\ UpTo(RowsOf(s, a), n)
<1>1. CASE a \in s.exists
  <2>1. a \in Turns
    BY <1>1 DEF StoredFits, Nobody
  <2> QED  BY <1>1, <2>1 DEF StoredFits, RowsOf
<1>2. CASE a \notin s.exists
  <2>1. RowsOf(s, a) = <<>> /\ <<>> \in Seq(Row) /\ Len(<<>>) = 0
    BY <1>2 DEF RowsOf
  <2> QED  BY <2>1 DEF OnceEach, UpTo
<1> QED  BY <1>1, <1>2

\* The longer list shows what the shorter one did.
LEMMA StoredMore ==
    ASSUME NEW s, NEW n \in Nat, NEW k \in Nat, n <= k, StoredFits(s, n)
    PROVE  StoredFits(s, k)
<1>1. \A i : i \in 1 .. n => i \in 1 .. k
  OBVIOUS
<1>2. \A t \in Turns : UpTo(s.rows[t], k)
  BY <1>1 DEF StoredFits, UpTo
<1> QED  BY <1>1, <1>2 DEF StoredFits

LEMMA PostingShown ==
    ASSUME NEW q, NEW m, NEW a, Posting(q, m, a),
           ThreadFields \subseteq DOMAIN q, q.turns = page.turns, q.activeId = a, PageFits(q),
           StoredFits(server, page.turns), Agrees(q, server), DOMAIN m = Kinds, NoThread(m)
    PROVE  DOMAIN page' = DOMAIN q /\ page'.crossed = q.crossed /\ Fits(page', server', net')
<1>1. PICK t, x : t = page.turns + 1 /\ x = Prompt(t, FALSE)
  OBVIOUS
<1>2. /\ t <= MaxTurns
      /\ page' = [q EXCEPT !.streaming = TRUE, !.turns = t, !.messages = Append(@, x)]
      /\ net' = Asking(m, "stream", [turn |-> t, conv |-> a])
      /\ UNCHANGED server
  BY <1>1, Zenon DEF Posting, Prompt, OnlyPage
<1>3. /\ DOMAIN page' = DOMAIN q /\ page'.crossed = q.crossed /\ page'.turns = t
      /\ page'.messages = Append(q.messages, x) /\ page'.activeId = a /\ page'.editing = q.editing
  BY <1>2 DEF ThreadFields
<1>4. /\ page.turns \in Nat /\ page.turns \in 0 .. MaxTurns /\ t \in Nat /\ t \in Turns /\ t \in 0 .. MaxTurns
      /\ q.messages \in Seq(Message) /\ OnceEach(q.messages) /\ UpTo(q.messages, page.turns)
      /\ a \in Turns \cup {Nobody}
  <2>1. /\ page.turns \in 0 .. MaxTurns /\ q.messages \in Seq(Message) /\ OnceEach(q.messages)
        /\ UpTo(q.messages, page.turns) /\ a \in Turns \cup {Nobody}
    BY DEF PageFits
  <2> QED  BY <1>1, <1>2, <2>1 DEF Turns
<1>5. x \in Message /\ x.turn = t /\ x.who = "user" /\ ~x.saved
  BY <1>1, <1>4 DEF Message, Prompt
<1>6. OnceEach(page'.messages) /\ UpTo(page'.messages, t)
  <2>1. \A i \in 1 .. Len(q.messages) : q.messages[i].turn # t
    <3>1. \A i \in 1 .. Len(q.messages) : q.messages[i].turn \in 1 .. page.turns
      BY <1>4 DEF UpTo
    <3> QED  BY <1>1, <1>4, <3>1
  <2>2. page.turns <= t /\ t \in 1 .. t
    BY <1>1, <1>4
  <2> QED  BY <1>3, <1>4, <1>5, <2>1, <2>2, JoinsOnce
<1>7. /\ page'.messages \in Seq(Message) /\ Len(page'.messages) = Len(q.messages) + 1
      /\ page'.messages[Len(page'.messages)] = x
      /\ \A i \in 1 .. Len(q.messages) : page'.messages[i] = q.messages[i]
  BY <1>3, <1>4, <1>5
<1>8. PageFits(page')
  <2>1. page'.editing # Nobody => \E i \in 1 .. Len(q.messages) : q.messages[i] = Prompt(page'.editing, TRUE)
    BY <1>3 DEF PageFits
  <2>2. page'.editing # Nobody =>
          \E i \in 1 .. Len(page'.messages) : page'.messages[i] = Prompt(page'.editing, TRUE)
    <3>1. \A i \in 1 .. Len(q.messages) : i \in 1 .. Len(page'.messages)
      BY <1>4, <1>7
    <3> QED  BY <1>7, <2>1, <3>1
  <2> QED  BY <1>3, <1>4, <1>6, <1>7, <2>2 DEF PageFits
<1>9. StoredFits(server, t)
  BY <1>1, <1>4, StoredMore
<1>10. Agrees(page', server)
  <2>1. SUFFICES ASSUME a \in server.exists \cup {Nobody}
                 PROVE  Matches(page'.messages, RowsOf(server, a))
    BY <1>3 DEF Agrees
  <2>2. Matches(q.messages, RowsOf(server, a))
    BY <2>1 DEF Agrees
  <2>3. RowsOf(server, a) \in Seq(Row)
    BY <1>4, RowsFit
  <2> QED  BY <1>3, <1>4, <1>5, <2>2, <2>3, UnsavedMatch
<1>11. PICK c : c = Sent([turn |-> t, conv |-> a])
  OBVIOUS
<1>12. c.phase = "sent" /\ c.to.turn = t /\ c.to.conv = a
  BY <1>11 DEF Sent
<1>13. StreamFits(c, page', server)
  <2>1. PromptIsLast(c, page')
    BY <1>1, <1>4, <1>7, <1>12 DEF PromptIsLast
  <2>2. t - 1 = page.turns /\ t # 0
    BY <1>1, <1>4
  <2> QED  BY <1>3, <1>12, <2>1, <2>2 DEF StreamFits
<1>14. Alone(net', "stream", c)
  BY <1>2, <1>11, AloneAsked, ChatKinds
<1> QED  BY <1>2, <1>3, <1>8, <1>9, <1>10, <1>13, <1>14, FitsAlone, ChatKinds

LEMMA SendShown == ASSUME ChatInv, ShownInv, HandleSend  PROVE ShownInv'
<1>0. ThreadFields \subseteq DOMAIN page /\ DOMAIN net = Kinds
  BY DEF ShownInv, ChatInv
<1>1. PICK p, q : p = Crossing(page) /\ q = [p EXCEPT !.typed = FALSE, !.attachments = 0, !.mentioned = {}]
  OBVIOUS
<1>2. Posting(q, net, page.activeId)
  BY <1>1 DEF HandleSend
<1>3. /\ DOMAIN p = DOMAIN page /\ p.messages = page.messages /\ p.activeId = page.activeId
      /\ p.turns = page.turns /\ p.editing = page.editing
      /\ p.crossed \/ (~page.crossed /\ NoThread(net))
  BY <1>1, CrossingShown
<1>4. /\ DOMAIN q = DOMAIN page /\ q.messages = page.messages /\ q.activeId = page.activeId
      /\ q.turns = page.turns /\ q.editing = page.editing /\ q.crossed = p.crossed
  BY <1>0, <1>1, <1>3 DEF ThreadFields
<1>5. DOMAIN page' = DOMAIN q /\ page'.crossed = q.crossed /\ UNCHANGED <<server, lost>>
  <2>1. PICK t, m : page' = [q EXCEPT !.streaming = TRUE, !.turns = t, !.messages = m]
    BY <1>2, Zenon DEF Posting
  <2>2. DOMAIN page' = DOMAIN q /\ page'.crossed = q.crossed
    BY <1>0, <1>4, <2>1 DEF ThreadFields
  <2> QED  BY <1>2, <2>2 DEF Posting, OnlyPage
<1>6. ASSUME Fits(page, server, net), ~page'.crossed  PROVE Fits(page', server', net')
  <2>1. NoThread(net)
    BY <1>3, <1>4, <1>5, <1>6
  <2>2. StoredFits(server, page.turns) /\ PageFits(page) /\ Agrees(page, server)
    BY <1>6, <2>1, AgreesRest
  <2>3. PageFits(q) /\ Agrees(q, server)
    BY <1>4, <2>2 DEF PageFits, Agrees
  <2> QED  BY <1>0, <1>2, <1>4, <2>1, <2>2, <2>3, PostingShown
<1> QED  BY <1>0, <1>3, <1>4, <1>5, <1>6, ShownKept DEF ShownInv

-----------------------------------------------------------------------------
(* Answers come *)

\* The one call about the thread came back, and the page is as it was.
LEMMA FollowedShown ==
    ASSUME ChatInv, ShownInv, NEW k \in Threads, NEW c \in net[k], Follows(k, c), SamePage,
           UNCHANGED <<server, lost>>,
           \/ net' = Without(net, k, c)
           \/ net' = Asking(Asking(Without(net, k, c), "list", Nobody), "flagged", Nobody)
    PROVE  ShownInv'
<1>0. DOMAIN net = Kinds
  BY DEF ChatInv
<1>1. ASSUME Fits(page, server, net), ~page.crossed  PROVE Fits(page', server', net')
  <2>1. Alone(net, k, c)
    BY <1>1, IsAlone
  <2>2. PICK n, m : n = Without(net, k, c) /\ m = Asking(n, "list", Nobody)
    OBVIOUS
  <2>3. DOMAIN n = Kinds /\ NoThread(n)
    BY <1>0, <2>1, <2>2, AloneTaken
  <2>4. DOMAIN m = Kinds /\ NoThread(m)
    BY <2>2, <2>3, ListAsked
  <2>5. NoThread(net')
    <3>1. CASE net' = n
      BY <2>3, <3>1
    <3>2. CASE net' = Asking(m, "flagged", Nobody)
      BY <2>4, <3>2, ListAsked
    <3> QED  BY <2>2, <3>1, <3>2
  <2>6. StoredFits(server, page.turns) /\ PageFits(page) /\ Agrees(page, server)
    BY <1>1, <2>1, AgreesAlone
  <2>7. PageFits(page') /\ Agrees(page', server)
    BY <2>6 DEF SamePage, PageFits, Agrees
  <2> QED  BY <2>5, <2>6, <2>7, FitsRest DEF SamePage
<1> QED  BY <1>1, ShownKept DEF ShownInv, SamePage

LEMMA OpenShown == ASSUME ChatInv, ShownInv, DeliverOpen  PROVE ShownInv'
<1>0. ThreadFields \subseteq DOMAIN page /\ DOMAIN net = Kinds /\ "open" \in Threads
  BY ChatKinds DEF ShownInv, ChatInv
<1>1. PICK c \in net["open"] : /\ c.phase \in {"answered", "failed"} /\ Take("open", c) /\ OnlyPage
                               /\ page' = IF Ok(c) THEN Showing(page, FromRows(c.ans)) ELSE page
  BY DEF DeliverOpen, Came
<1>2. DOMAIN page' = DOMAIN page /\ page'.crossed = page.crossed
  BY <1>0, <1>1, ShowingShown
<1>3. ASSUME Fits(page, server, net), ~page.crossed  PROVE Fits(page', server', net')
  <2>1. Alone(net, "open", c)
    BY <1>0, <1>1, <1>3, IsAlone
  <2>2. StoredFits(server, page.turns) /\ PageFits(page) /\ OpenFits(c, page, server)
    BY <1>0, <1>3, <2>1, AgreesAlone
  <2>3. NoThread(net')
    BY <1>0, <1>1, <2>1, AloneTaken DEF Take
  <2>4. CASE c.phase = "failed"
    <3>1. page' = page /\ page.activeId \notin server.exists \cup {Nobody}
      BY <1>1, <2>2, <2>4 DEF Ok, OpenFits, Turns, Nobody
    <3> QED  BY <1>1, <2>2, <2>3, <3>1, FitsRest DEF OnlyPage, Agrees
  <2>5. CASE c.phase = "answered"
    <3>1. PICK r : r = server.rows[c.to]
      OBVIOUS
    <3>2. c.ans = r /\ c.to \in server.exists /\ c.to = page.activeId /\ c.to \in Turns
      BY <2>2, <2>5, <3>1 DEF OpenFits
    <3>3. r \in Seq(Row) /\ OnceEach(r) /\ UpTo(r, page.turns)
      BY <2>2, <3>1, <3>2 DEF StoredFits
    <3>4. PICK m : m = FromRows(r)
      OBVIOUS
    <3>5. /\ m \in Seq(Message) /\ Len(m) = Len(r) /\ \A i \in 1 .. Len(r) : m[i] = FromRow(r[i])
          /\ Matches(m, r) /\ OnceEach(m) /\ UpTo(m, page.turns)
      BY <3>3, <3>4, RowsMatch, RowsOnce
    <3>6. /\ page'.messages = m /\ page'.activeId = page.activeId /\ page'.turns = page.turns
          /\ page'.editing # Nobody => page'.editing = page.editing /\ Shows(m, page.editing)
      BY <1>0, <1>1, <2>5, <3>2, <3>4, ShowingShown DEF Ok
    <3>7. ASSUME page'.editing # Nobody
          PROVE  \E i \in 1 .. Len(m) : m[i] = Prompt(page'.editing, TRUE)
      <4>1. PICK i \in 1 .. Len(m) : m[i].turn = page'.editing /\ m[i].who = "user"
        BY <3>5, <3>6, <3>7 DEF Shows, ToSet
      <4>2. m[i] = FromRow(r[i])
        BY <3>5
      <4>3. m[i].turn = r[i].turn /\ m[i].who = r[i].who
        BY <4>2 DEF FromRow
      <4>4. m[i] = Prompt(page'.editing, TRUE)
        BY <4>1, <4>2, <4>3 DEF FromRow, Prompt
      <4> QED  BY <4>4
    <3>8. PageFits(page')
      BY <2>2, <3>5, <3>6, <3>7 DEF PageFits
    <3>9. Agrees(page', server)
      BY <3>1, <3>2, <3>5, <3>6 DEF Agrees, RowsOf
    <3> QED  BY <1>1, <2>2, <2>3, <3>6, <3>8, <3>9, FitsRest DEF OnlyPage
  <2> QED  BY <1>1, <2>4, <2>5
<1> QED  BY <1>0, <1>1, <1>2, <1>3, ShownKept DEF ShownInv, OnlyPage

LEMMA DeleteShown == ASSUME ChatInv, ShownInv, DeliverDelete  PROVE ShownInv'
<1>0. ThreadFields \subseteq DOMAIN page /\ DOMAIN net = Kinds /\ "delete" \in Threads
  BY ChatKinds DEF ShownInv, ChatInv
<1>1. PICK q : q = [page EXCEPT !.activeId = Nobody]
  OBVIOUS
<1>2. PICK c \in net["delete"] :
        /\ OnlyPage
        /\ \/ net' = Without(net, "delete", c) /\ UNCHANGED page
           \/ /\ net' = Asking(Asking(Without(net, "delete", c), "list", Nobody), "flagged", Nobody)
              /\ page' \in {page, Showing(q, <<>>)}
  BY <1>1 DEF DeliverDelete, Came, Take
<1>3. CASE UNCHANGED page
  <2>1. SamePage /\ Follows("delete", c)
    BY <1>3 DEF SamePage, Follows
  <2> QED  BY <1>0, <1>2, <2>1, FollowedShown DEF OnlyPage
<1>4. CASE /\ net' = Asking(Asking(Without(net, "delete", c), "list", Nobody), "flagged", Nobody)
           /\ page' = Showing(q, <<>>)
  <2>1. /\ DOMAIN q = DOMAIN page /\ q.activeId = Nobody /\ q.turns = page.turns
        /\ q.editing = page.editing /\ q.crossed = page.crossed
    BY <1>0, <1>1 DEF ThreadFields
  <2>2. /\ DOMAIN page' = DOMAIN page /\ page'.messages = <<>> /\ page'.activeId = Nobody
        /\ page'.turns = page.turns /\ page'.crossed = page.crossed
        /\ page'.editing # Nobody => Shows(<<>>, page.editing)
    BY <1>0, <1>4, <2>1, ShowingShown
  <2>3. ASSUME Fits(page, server, net), ~page.crossed  PROVE Fits(page', server', net')
    <3>1. Alone(net, "delete", c)
      BY <1>0, <2>3, IsAlone
    <3>2. StoredFits(server, page.turns) /\ PageFits(page)
      BY <1>0, <2>3, <3>1, AgreesAlone
    <3>3. PageFits(page') /\ Agrees(page', server)
      BY <2>2, <3>2, NothingShown
    <3>4. PICK n, m : n = Without(net, "delete", c) /\ m = Asking(n, "list", Nobody)
      OBVIOUS
    <3>5. DOMAIN n = Kinds /\ NoThread(n)
      BY <1>0, <3>1, <3>4, AloneTaken
    <3>6. DOMAIN m = Kinds /\ NoThread(m)
      BY <3>4, <3>5, ListAsked
    <3>7. NoThread(net')
      BY <1>4, <3>4, <3>6, ListAsked
    <3> QED  BY <1>2, <2>2, <3>2, <3>3, <3>7, FitsRest DEF OnlyPage
  <2> QED  BY <1>0, <1>2, <2>2, <2>3, ShownKept DEF ShownInv, OnlyPage
<1> QED  BY <1>2, <1>3, <1>4

LEMMA TruncateShown == ASSUME ChatInv, ShownInv, DeliverTruncate  PROVE ShownInv'
<1>0. ThreadFields \subseteq DOMAIN page /\ DOMAIN net = Kinds /\ "truncate" \in Threads
  BY ChatKinds DEF ShownInv, ChatInv
<1>1. PICK c \in net["truncate"] :
        \/ c.phase # "answered" /\ Take("truncate", c) /\ UNCHANGED page /\ OnlyPage
        \/ /\ c.phase = "answered"
           /\ Posting(Showing(page, SubSeq(page.messages, 1,
                                 IF c.to.idx - 1 < Len(page.messages) THEN c.to.idx - 1
                                 ELSE Len(page.messages))),
                      Asking(Without(net, "truncate", c), "flagged", Nobody), c.to.conv)
  BY DEF DeliverTruncate, Came, Ok
<1>2. CASE c.phase # "answered" /\ Take("truncate", c) /\ UNCHANGED page /\ OnlyPage
  <2>1. SamePage /\ Follows("truncate", c)
    BY <1>2 DEF SamePage, Follows
  <2> QED  BY <1>0, <1>2, <2>1, FollowedShown DEF OnlyPage, Take
<1>3. ASSUME c.phase = "answered", NEW l,
             l = SubSeq(page.messages, 1, IF c.to.idx - 1 < Len(page.messages) THEN c.to.idx - 1
                                          ELSE Len(page.messages)),
             NEW q, q = Showing(page, l), NEW n, n = Without(net, "truncate", c),
             NEW m, m = Asking(n, "flagged", Nobody), Posting(q, m, c.to.conv)
      PROVE  ShownInv'
  <2>1. /\ DOMAIN q = DOMAIN page /\ q.crossed = page.crossed /\ q.messages = l
        /\ q.activeId = page.activeId /\ q.turns = page.turns
        /\ q.editing # Nobody => q.editing = page.editing /\ Shows(l, page.editing)
    <3>1. q = Showing(page, l)
      BY <1>3
    <3> QED  BY <1>0, <3>1, ShowingShown
  <2>2. DOMAIN page' = DOMAIN q /\ page'.crossed = q.crossed /\ UNCHANGED <<server, lost>>
    <3>1. PICK t, s : page' = [q EXCEPT !.streaming = TRUE, !.turns = t, !.messages = s]
      BY <1>3, Zenon DEF Posting
    <3>2. DOMAIN page' = DOMAIN q /\ page'.crossed = q.crossed
      BY <1>0, <2>1, <3>1 DEF ThreadFields
    <3> QED  BY <1>3, <3>2 DEF Posting, OnlyPage
  <2>3. ASSUME Fits(page, server, net), ~page.crossed  PROVE Fits(page', server', net')
    <3>1. Alone(net, "truncate", c)
      BY <1>0, <2>3, IsAlone
    <3>2. StoredFits(server, page.turns) /\ PageFits(page) /\ EditFits(c, page, server)
      BY <1>0, <2>3, <3>1, AgreesAlone
    <3>3. /\ c.to.idx \in 1 .. Len(page.messages) /\ page.activeId = c.to.conv
          /\ c.to.conv \in server.exists
          /\ Matches(SubSeq(page.messages, 1, c.to.idx - 1), server.rows[c.to.conv])
      BY <1>3, <3>2 DEF EditFits
    <3>4. page.messages \in Seq(Message) /\ OnceEach(page.messages) /\ UpTo(page.messages, page.turns)
      BY <3>2 DEF PageFits
    <3>5. PICK k : k = c.to.idx - 1
      OBVIOUS
    <3>6. Len(page.messages) \in Nat /\ k \in 0 .. Len(page.messages) /\ k < Len(page.messages)
      BY <3>3, <3>4, <3>5
    <3>7. l = SubSeq(page.messages, 1, k)
      BY <1>3, <3>5, <3>6
    <3>8. /\ l \in Seq(Message) /\ Len(l) = k /\ \A i \in 1 .. k : l[i] = page.messages[i]
          /\ OnceEach(l) /\ UpTo(l, page.turns)
      BY <3>4, <3>6, <3>7, CutOnce
    <3>9. ASSUME q.editing # Nobody  PROVE \E i \in 1 .. Len(l) : l[i] = Prompt(q.editing, TRUE)
      <4>1. PICK i \in 1 .. k : l[i].turn = q.editing /\ l[i].who = "user"
        BY <2>1, <3>8, <3>9 DEF Shows, ToSet
      <4>2. PICK j \in 1 .. Len(page.messages) : page.messages[j] = Prompt(q.editing, TRUE)
        BY <2>1, <3>2, <3>9 DEF PageFits
      <4>3. page.messages[j].turn = q.editing /\ page.messages[j].who = "user"
        BY <4>2 DEF Prompt
      <4>4. i \in 1 .. Len(page.messages) /\ l[i] = page.messages[i]
        BY <3>6, <3>8
      <4>5. i = j
        BY <3>4, <4>1, <4>3, <4>4 DEF OnceEach
      <4> QED  BY <3>8, <4>2, <4>4, <4>5
    <3>10. PageFits(q)
      BY <2>1, <3>2, <3>8, <3>9 DEF PageFits
    <3>11. Agrees(q, server)
      BY <2>1, <3>3, <3>5, <3>7 DEF Agrees, RowsOf
    <3>12. DOMAIN n = Kinds /\ NoThread(n)
      BY <1>0, <1>3, <3>1, AloneTaken
    <3>13. DOMAIN m = Kinds /\ NoThread(m)
      BY <1>3, <3>12, ListAsked
    <3>14. ThreadFields \subseteq DOMAIN q /\ q.activeId = c.to.conv
      BY <1>0, <2>1, <3>3
    <3> QED  BY <1>3, <2>1, <3>2, <3>10, <3>11, <3>13, <3>14, PostingShown
  <2> QED  BY <1>0, <2>1, <2>2, <2>3, ShownKept DEF ShownInv
<1> QED  BY <1>1, <1>2, <1>3

-----------------------------------------------------------------------------
(* A streamed answer *)

LEMMA HearShown == ASSUME ChatInv, ShownInv, HearConversation  PROVE ShownInv'
<1>0. ThreadFields \subseteq DOMAIN page /\ DOMAIN net = Kinds /\ "stream" \in Threads
  BY ChatKinds DEF ShownInv, ChatInv
<1>1. PICK c \in net["stream"] :
        /\ c.phase = "opened"
        /\ net' = [net EXCEPT !["stream"] = (@ \ {c}) \cup {[c EXCEPT !.phase = "told"]}]
        /\ page' = [page EXCEPT
              !.activeId = IF c.to.conv = Nobody THEN c.conv ELSE @,
              !.messages = [i \in 1 .. Len(@) |->
                  IF @[i].turn = c.to.turn /\ @[i].who = "user" THEN [@[i] EXCEPT !.saved = TRUE] ELSE @[i]]]
        /\ OnlyPage
  BY DEF HearConversation
<1>2. PICK a, m : /\ a = IF c.to.conv = Nobody THEN c.conv ELSE page.activeId
                  /\ m = [i \in 1 .. Len(page.messages) |->
                            IF page.messages[i].turn = c.to.turn /\ page.messages[i].who = "user"
                            THEN [page.messages[i] EXCEPT !.saved = TRUE] ELSE page.messages[i]]
  OBVIOUS
<1>3. page' = [page EXCEPT !.activeId = a, !.messages = m]
  BY <1>1, <1>2, Zenon
<1>4. /\ DOMAIN page' = DOMAIN page /\ page'.crossed = page.crossed /\ page'.turns = page.turns
      /\ page'.editing = page.editing /\ page'.activeId = a /\ page'.messages = m
  BY <1>0, <1>3 DEF ThreadFields
<1>5. ASSUME Fits(page, server, net), ~page.crossed  PROVE Fits(page', server', net')
  <2>1. Alone(net, "stream", c)
    BY <1>0, <1>1, <1>5, IsAlone
  <2>2. StoredFits(server, page.turns) /\ PageFits(page) /\ StreamFits(c, page, server)
    BY <1>0, <1>5, <2>1, AgreesAlone
  <2>3. /\ c.to.turn = page.turns /\ page.turns # 0 /\ PromptIsLast(c, page) /\ c.to.conv = page.activeId
        /\ c = [to |-> c.to, phase |-> c.phase, conv |-> c.conv, done |-> c.done]
        /\ c.conv \in server.exists
        /\ c.conv = IF c.to.conv = Nobody THEN c.to.turn ELSE c.to.conv
    BY <1>1, <2>2 DEF StreamFits
  <2>4. PICK r : Ahead(c, page, server, r)
    BY <1>1, <2>2 DEF StreamFits
  <2>5. PICK x : x = [turn |-> c.to.turn, who |-> "user"]
    OBVIOUS
  <2>6. r \in Seq(Row) /\ Matches(page.messages, r) /\ server.rows[c.conv] = Replied(c, Append(r, x))
    BY <1>1, <2>4, <2>5 DEF Ahead
  <2>7. /\ page.turns \in 0 .. MaxTurns /\ page.messages \in Seq(Message)
        /\ OnceEach(page.messages) /\ UpTo(page.messages, page.turns)
        /\ page.activeId \in Turns \cup {Nobody}
    BY <2>2 DEF PageFits
  <2>8. PICK k : k = Len(page.messages)
    OBVIOUS
  <2>9. k \in Nat /\ k > 0 /\ k \in 1 .. Len(page.messages) /\ page.messages[k] = Prompt(c.to.turn, FALSE)
    <3>1. Len(page.messages) \in Nat
      BY <2>7
    <3>2. Len(page.messages) > 0 /\ page.messages[k] = Prompt(c.to.turn, FALSE)
      BY <2>3, <2>8 DEF PromptIsLast
    <3> QED  BY <2>8, <3>1, <3>2
  <2>10. /\ page.messages[k].turn = c.to.turn /\ page.messages[k].who = "user" /\ ~page.messages[k].saved
         /\ [page.messages[k] EXCEPT !.saved = TRUE] = Prompt(c.to.turn, TRUE)
    <3>1. PICK z : z = page.messages[k]
      OBVIOUS
    <3>2. z = [turn |-> c.to.turn, who |-> "user", saved |-> FALSE]
      BY <2>9, <3>1 DEF Prompt
    <3>3. z.turn = c.to.turn /\ z.who = "user" /\ ~z.saved
      BY <3>2
    <3>4. PICK q : q = [z EXCEPT !.saved = TRUE]
      OBVIOUS
    <3>5. q = [turn |-> c.to.turn, who |-> "user", saved |-> TRUE]
      BY <3>2, <3>4
    <3> QED  BY <3>1, <3>3, <3>4, <3>5 DEF Prompt
  <2>11. \A i \in 1 .. k - 1 : ~(page.messages[i].turn = c.to.turn /\ page.messages[i].who = "user")
    <3>1. SUFFICES ASSUME NEW i \in 1 .. k - 1, page.messages[i].turn = c.to.turn,
                          page.messages[i].who = "user"
                   PROVE  FALSE
      OBVIOUS
    <3>2. i \in 1 .. Len(page.messages) /\ i # k
      BY <2>8, <2>9
    <3> QED  BY <2>7, <2>9, <2>10, <3>1, <3>2 DEF OnceEach
  <2>12. DOMAIN m = 1 .. k /\ m[k] = Prompt(c.to.turn, TRUE)
    BY <1>2, <2>8, <2>9, <2>10
  <2>13. \A i \in 1 .. k - 1 : m[i] = page.messages[i]
    BY <1>2, <2>8, <2>9, <2>11
  <2>14. x \in Row /\ FromRow(x) = Prompt(c.to.turn, TRUE)
    <3>1. c.to.turn \in Turns
      BY <2>3, <2>7 DEF Turns
    <3> QED  BY <2>5, <3>1 DEF Row, FromRow, Prompt
  <2>15. m \in Seq(Message) /\ Len(m) = k
    <3>1. m[k] \in Message
      BY <2>12, <2>14, RowOf
    <3>2. \A i \in 1 .. k : m[i] \in Message
      <4>1. SUFFICES ASSUME NEW i \in 1 .. k  PROVE m[i] \in Message
        OBVIOUS
      <4>2. CASE i = k
        BY <3>1, <4>2
      <4>3. CASE i \in 1 .. k - 1
        BY <2>7, <2>8, <2>13, <4>3
      <4> QED  BY <2>9, <4>2, <4>3
    <3>3. m = [i \in 1 .. k |-> m[i]]
      BY <1>2, <2>8
    <3> QED  BY <2>9, <3>2, <3>3
  <2>16. \A i \in 1 .. k : m[i].turn = page.messages[i].turn /\ m[i].who = page.messages[i].who
    <3>1. SUFFICES ASSUME NEW i \in 1 .. k
                   PROVE  m[i].turn = page.messages[i].turn /\ m[i].who = page.messages[i].who
      OBVIOUS
    <3>2. CASE i = k
      BY <2>9, <2>12, <3>2 DEF Prompt
    <3>3. CASE i \in 1 .. k - 1
      BY <2>13, <3>3
    <3> QED  BY <2>9, <3>2, <3>3
  <2>17. OnceEach(m) /\ UpTo(m, page.turns)
    BY <2>7, <2>8, <2>15, <2>16 DEF OnceEach, UpTo
  <2>18. a = c.conv /\ a \in Turns
    <3>1. a = c.conv
      BY <1>2, <2>3
    <3>2. c.to.turn \in Turns
      BY <2>3, <2>7 DEF Turns
    <3> QED  BY <2>3, <2>7, <3>1, <3>2
  <2>19. ASSUME page.editing # Nobody  PROVE \E i \in 1 .. Len(m) : m[i] = Prompt(page.editing, TRUE)
    <3>1. PICK i \in 1 .. Len(page.messages) : page.messages[i] = Prompt(page.editing, TRUE)
      BY <2>2, <2>19 DEF PageFits
    <3>2. i # k
      BY <2>10, <3>1 DEF Prompt
    <3>3. i \in 1 .. k - 1 /\ i \in 1 .. Len(m)
      BY <2>8, <2>9, <2>15, <3>2
    <3> QED  BY <2>13, <3>1, <3>3
  <2>20. PageFits(page')
    BY <1>4, <2>7, <2>15, <2>17, <2>18, <2>19 DEF PageFits
  <2>21. PICK q : q = [c EXCEPT !.phase = "told"]
    OBVIOUS
  <2>22. /\ q.to = c.to /\ q.phase = "told" /\ q.conv = c.conv /\ q.done = c.done
         /\ q = [to |-> q.to, phase |-> q.phase, conv |-> q.conv, done |-> q.done]
    BY <2>3, <2>21
  <2>23. Alone(net', "stream", q)
    BY <1>0, <1>1, <2>1, <2>21, AloneMoved
  <2>24. Matches(m, Append(r, x)) /\ Append(r, x) \in Seq(Row)
    <3>1. r \in Seq(Row) /\ x \in Row /\ page.messages \in Seq(Message) /\ Matches(page.messages, r)
      BY <2>6, <2>7, <2>14
    <3>2. Len(page.messages) > 0 /\ ~page.messages[Len(page.messages)].saved /\ Len(m) = Len(page.messages)
      BY <2>8, <2>9, <2>10, <2>15
    <3>3. /\ m[Len(page.messages)] = FromRow(x)
          /\ \A i \in 1 .. Len(page.messages) - 1 : m[i] = page.messages[i]
      BY <2>8, <2>12, <2>13, <2>14
    <3>4. Append(r, x) \in Seq(Row)
      BY <3>1
    <3> QED  BY <3>1, <3>2, <3>3, <3>4, MarkedMatch
  <2>25. Ahead(q, page', server, Append(r, x))
    BY <1>4, <2>6, <2>22, <2>24 DEF Ahead, Replied
  <2>26. StreamFits(q, page', server)
    BY <1>4, <2>3, <2>18, <2>22, <2>25 DEF StreamFits
  <2>27. ~Follows("stream", q)
    BY <2>22 DEF Follows
  <2> QED  BY <1>0, <1>1, <1>4, <2>2, <2>20, <2>23, <2>26, <2>27, FitsAlone DEF OnlyPage
<1> QED  BY <1>0, <1>1, <1>4, <1>5, ShownKept DEF ShownInv, OnlyPage

LEMMA StreamFailsShown == ASSUME ChatInv, ShownInv, StreamFails  PROVE ShownInv'
<1>0. ThreadFields \subseteq DOMAIN page /\ DOMAIN net = Kinds /\ "stream" \in Threads
  BY ChatKinds DEF ShownInv, ChatInv
<1>1. PICK c \in net["stream"] : /\ c.phase \in {"answered", "failed"} /\ Take("stream", c) /\ OnlyPage
                                 /\ page' = [page EXCEPT !.streaming = FALSE]
  BY DEF StreamFails, Came
<1>2. SamePage
  BY <1>0, <1>1 DEF SamePage, ThreadFields
<1>3. CASE c.phase = "failed"
  <2>1. Follows("stream", c)
    BY <1>3 DEF Follows
  <2> QED  BY <1>0, <1>1, <1>2, <2>1, FollowedShown DEF OnlyPage, Take
<1>4. CASE c.phase = "answered"
  <2>1. ~Fits(page, server, net)
    BY <1>4 DEF Fits, StreamFits
  <2> QED  BY <1>0, <1>1, <1>2, <2>1, ShownKept DEF ShownInv, OnlyPage, SamePage
<1> QED  BY <1>1, <1>3, <1>4

LEMMA StreamEndsShown == ASSUME ChatInv, ShownInv, StreamEnds  PROVE ShownInv'
<1>0. ThreadFields \subseteq DOMAIN page /\ DOMAIN net = Kinds /\ "stream" \in Threads
  BY ChatKinds DEF ShownInv, ChatInv
<1>1. PICK c \in net["stream"] :
        /\ c.phase = "told" /\ c.done # "no" /\ OnlyPage
        /\ net' = Asking(Without(net, "stream", c), "list", Nobody)
        /\ page' = [page EXCEPT !.streaming = FALSE,
              !.messages = IF c.done = "none" THEN @
                           ELSE Append(@, [turn |-> c.to.turn, who |-> "assistant",
                                           saved |-> c.done = "reply"])]
  BY DEF StreamEnds
<1>2. PICK y, m : /\ y = [turn |-> c.to.turn, who |-> "assistant", saved |-> c.done = "reply"]
                  /\ m = IF c.done = "none" THEN page.messages ELSE Append(page.messages, y)
  OBVIOUS
<1>3. page' = [page EXCEPT !.streaming = FALSE, !.messages = m]
  BY <1>1, <1>2, Zenon
<1>4. /\ DOMAIN page' = DOMAIN page /\ page'.crossed = page.crossed /\ page'.turns = page.turns
      /\ page'.editing = page.editing /\ page'.activeId = page.activeId /\ page'.messages = m
  BY <1>0, <1>3 DEF ThreadFields
<1>5. ASSUME Fits(page, server, net), ~page.crossed  PROVE Fits(page', server', net')
  <2>1. Alone(net, "stream", c)
    BY <1>0, <1>1, <1>5, IsAlone
  <2>2. StoredFits(server, page.turns) /\ PageFits(page) /\ StreamFits(c, page, server)
    BY <1>0, <1>5, <2>1, AgreesAlone
  <2>3. c.to.turn = page.turns /\ page.turns # 0 /\ c.conv \in server.exists /\ c.conv = page.activeId
    BY <1>1, <2>2 DEF StreamFits
  <2>4. PICK r : Ahead(c, page, server, r)
    BY <1>1, <2>2 DEF StreamFits
  <2>5. r \in Seq(Row) /\ Matches(page.messages, r) /\ server.rows[c.conv] = Replied(c, r)
    BY <1>1, <2>4 DEF Ahead
  <2>6. /\ page.turns \in 0 .. MaxTurns /\ page.messages \in Seq(Message)
        /\ OnceEach(page.messages) /\ UpTo(page.messages, page.turns)
    BY <2>2 DEF PageFits
  <2>7. NoThread(net')
    <3>1. PICK n : n = Without(net, "stream", c)
      OBVIOUS
    <3>2. DOMAIN n = Kinds /\ NoThread(n)
      BY <1>0, <2>1, <3>1, AloneTaken
    <3> QED  BY <1>1, <3>1, <3>2, ListAsked
  <2>8. CASE c.done = "none"
    <3>1. m = page.messages /\ server.rows[c.conv] = r
      BY <1>2, <2>5, <2>8 DEF Replied
    <3>2. PageFits(page') /\ Agrees(page', server)
      BY <1>4, <2>2, <2>3, <2>5, <3>1 DEF PageFits, Agrees, RowsOf
    <3> QED  BY <1>1, <1>4, <2>2, <2>7, <3>2, FitsRest DEF OnlyPage
  <2>9. CASE c.done # "none"
    <3>1. m = Append(page.messages, y)
      BY <1>2, <2>9
    <3>2. page.turns \in Turns /\ page.turns \in Nat /\ page.turns \in 1 .. page.turns
      BY <2>3, <2>6 DEF Turns
    <3>3. y \in Message /\ y.turn = page.turns /\ y.who = "assistant" /\ (y.saved <=> c.done = "reply")
      BY <1>2, <2>3, <3>2 DEF Message
    <3>4. OnceEach(m) /\ UpTo(m, page.turns)
      BY <2>6, <3>1, <3>2, <3>3, JoinsOnce
    <3>5. /\ m \in Seq(Message) /\ Len(m) = Len(page.messages) + 1 /\ m[Len(page.messages) + 1] = y
          /\ \A i \in 1 .. Len(page.messages) : m[i] = page.messages[i] /\ i \in 1 .. Len(m)
      BY <2>6, <3>1, <3>3
    <3>6. page.editing # Nobody => \E i \in 1 .. Len(m) : m[i] = Prompt(page.editing, TRUE)
      BY <2>2, <3>5 DEF PageFits
    <3>7. PageFits(page')
      BY <1>4, <2>2, <3>4, <3>5, <3>6 DEF PageFits
    <3>8. Matches(m, server.rows[c.conv])
      <4>1. CASE c.done = "reply"
        <5>1. PICK x : x = [turn |-> c.to.turn, who |-> "assistant"]
          OBVIOUS
        <5>2. x \in Row /\ FromRow(x) = y
          BY <1>2, <2>3, <3>2, <4>1, <5>1 DEF Row, FromRow
        <5>3. server.rows[c.conv] = Append(r, x)
          BY <2>5, <4>1, <5>1 DEF Replied
        <5>4. Matches(m, Append(r, x))
          <6>1. m[Len(page.messages) + 1] = FromRow(x)
            BY <3>5, <5>2
          <6> QED  BY <2>5, <2>6, <3>5, <5>2, <6>1, SavedMatch
        <5> QED  BY <5>3, <5>4
      <4>2. CASE c.done # "reply"
        <5>1. server.rows[c.conv] = r /\ ~y.saved
          BY <2>5, <3>3, <4>2 DEF Replied
        <5> QED  BY <2>5, <2>6, <3>1, <3>3, <5>1, UnsavedMatch
      <4> QED  BY <4>1, <4>2
    <3>9. Agrees(page', server)
      BY <1>4, <2>3, <3>8 DEF Agrees, RowsOf
    <3> QED  BY <1>1, <1>4, <2>2, <2>7, <3>7, <3>9, FitsRest DEF OnlyPage
  <2> QED  BY <2>8, <2>9
<1> QED  BY <1>0, <1>1, <1>4, <1>5, ShownKept DEF ShownInv, OnlyPage

-----------------------------------------------------------------------------
(* The server's steps *)

\* The one call about the thread goes further, and the server's rows with it.
LEMMA ServedShown ==
    ASSUME ChatInv, ShownInv, UNCHANGED <<page, lost>>, NEW k \in Threads, NEW c \in net[k], NEW q,
           net' = [net EXCEPT ![k] = (@ \ {c}) \cup {q}], {"exists", "rows"} \subseteq DOMAIN server',
           StoredFits(server, page.turns) /\ PageFits(page) /\ (Follows(k, c) => Agrees(page, server))
           /\ (k = "open" => OpenFits(c, page, server)) /\ (k = "truncate" => EditFits(c, page, server))
           /\ (k = "stream" => StreamFits(c, page, server))
           => /\ StoredFits(server', page.turns)
              /\ Follows(k, q) => Agrees(page, server')
              /\ k = "open" => OpenFits(q, page, server')
              /\ k = "truncate" => EditFits(q, page, server')
              /\ k = "stream" => StreamFits(q, page, server')
    PROVE  ShownInv'
<1>0. DOMAIN net = Kinds
  BY DEF ChatInv
<1>1. ASSUME Fits(page, server, net), ~page.crossed  PROVE Fits(page', server', net')
  <2>1. Alone(net, k, c)
    BY <1>1, IsAlone
  <2>2. Alone(net', k, q)
    BY <1>0, <2>1, AloneMoved
  <2>3. /\ StoredFits(server, page.turns) /\ PageFits(page) /\ (Follows(k, c) => Agrees(page, server))
        /\ (k = "open" => OpenFits(c, page, server)) /\ (k = "truncate" => EditFits(c, page, server))
        /\ (k = "stream" => StreamFits(c, page, server))
    BY <1>1, <2>1, AgreesAlone
  <2> QED  BY <2>2, <2>3, FitsAlone
<1> QED  BY <1>1, ShownKept DEF ShownInv

LEMMA ReadsShown == ASSUME ChatInv, ShownInv, ServeReads \/ ServeFlag  PROVE ShownInv'
<1>0. DOMAIN net = Kinds /\ {"exists", "rows"} \subseteq DOMAIN server
  BY DEF ChatInv, ShownInv
<1>1. ASSUME NEW k \in Kinds \ Threads, NEW c \in net[k], UNCHANGED <<page, lost>>, SameServer,
             (\E v : Answer(k, c, v)) \/ Refuse(k, c)
      PROVE  ShownInv'
  <2>1. \E q : net' = [net EXCEPT ![k] = (@ \ {c}) \cup {q}]
    BY <1>1 DEF Answer, Refuse
  <2>2. SameCalls
    BY <1>0, <2>1, CallsSame
  <2>3. SamePage
    BY <1>1 DEF SamePage
  <2> QED  BY <1>1, <2>2, <2>3, QuietShown
<1>2. UNCHANGED server => SameServer
  BY DEF SameServer
<1>3. ASSUME NEW c \in Asked("open"), OnlyNet,
             IF c.to \in server.exists THEN Answer("open", c, server.rows[c.to]) ELSE Refuse("open", c)
      PROVE  ShownInv'
  <2>1. c \in net["open"] /\ "open" \in Threads
    BY ChatKinds DEF Asked
  <2>2. CASE c.to \in server.exists
    <3>1. PICK q : q = [to |-> c.to, phase |-> "answered", ans |-> server.rows[c.to]]
      OBVIOUS
    <3>2. net' = [net EXCEPT !["open"] = (@ \ {c}) \cup {q}]
      BY <1>3, <2>2, <3>1 DEF Answer
    <3>3. OpenFits(c, page, server) => OpenFits(q, page, server)
      BY <2>2, <3>1 DEF OpenFits
    <3>4. ~Follows("open", q)
      BY DEF Follows
    <3> QED  BY <1>0, <1>3, <2>1, <3>2, <3>3, <3>4, ServedShown DEF OnlyNet
  <2>3. CASE c.to \notin server.exists
    <3>1. PICK q : q = [to |-> c.to, phase |-> "failed"]
      OBVIOUS
    <3>2. net' = [net EXCEPT !["open"] = (@ \ {c}) \cup {q}]
      BY <1>3, <2>3, <3>1 DEF Refuse
    <3>3. OpenFits(c, page, server) => OpenFits(q, page, server)
      BY <2>3, <3>1 DEF OpenFits
    <3>4. ~Follows("open", q)
      BY DEF Follows
    <3> QED  BY <1>0, <1>3, <2>1, <3>2, <3>3, <3>4, ServedShown DEF OnlyNet
  <2> QED  BY <2>2, <2>3
<1>4. CASE ServeReads
  <2>1. \/ \E k \in {"list", "models", "connectors", "flagged", "pin", "upload"} :
             \E c \in net[k] : OnlyNet /\ ((\E v : Answer(k, c, v)) \/ Refuse(k, c))
        \/ \E c \in Asked("open") :
             /\ OnlyNet
             /\ IF c.to \in server.exists THEN Answer("open", c, server.rows[c.to]) ELSE Refuse("open", c)
    BY <1>4 DEF ServeReads, Asked
  <2> QED  BY <1>1, <1>2, <1>3, <2>1, ChatKinds DEF OnlyNet
<1>5. CASE ServeFlag
  <2>1. PICK c \in net["flag"] :
          /\ UNCHANGED <<page, lost>> /\ ((\E v : Answer("flag", c, v)) \/ Refuse("flag", c))
          /\ UNCHANGED server \/ \E f : server' = [server EXCEPT !.flags = f]
    BY <1>5 DEF ServeFlag, OnlyNet, Asked
  <2>2. SameServer
    BY <1>0, <2>1 DEF SameServer
  <2> QED  BY <1>1, <2>1, <2>2, ChatKinds
<1> QED  BY <1>4, <1>5

LEMMA ServeDeleteShown == ASSUME ChatInv, ShownInv, ServeDelete  PROVE ShownInv'
<1>0. {"exists", "rows"} \subseteq DOMAIN server /\ "delete" \in Threads
  BY ChatKinds DEF ShownInv
<1>1. PICK c \in net["delete"] :
        /\ Answer("delete", c, TRUE) /\ UNCHANGED <<page, lost>>
        /\ server' = [server EXCEPT !.exists = @ \ {c.to.id}, !.rows[c.to.id] = <<>>,
                                    !.flags = {f \in @ : f.conv # c.to.id}]
  BY DEF ServeDelete, Asked
<1>2. PICK q : q = [to |-> c.to, phase |-> "answered", ans |-> TRUE]
  OBVIOUS
<1>3. net' = [net EXCEPT !["delete"] = (@ \ {c}) \cup {q}]
  BY <1>1, <1>2 DEF Answer
<1>4. PICK r, f : /\ r = [server.rows EXCEPT ![c.to.id] = <<>>]
                  /\ server' = [server EXCEPT !.exists = @ \ {c.to.id}, !.rows = r, !.flags = f]
  BY <1>1
<1>5. server'.exists = server.exists \ {c.to.id} /\ server'.rows = r /\ DOMAIN server' = DOMAIN server
  BY <1>0, <1>4
<1>6. ASSUME StoredFits(server, page.turns)  PROVE StoredFits(server', page.turns)
  <2>1. server.rows \in [Turns -> Seq(Row)] /\ <<>> \in Seq(Row) /\ Len(<<>>) = 0
    BY <1>6 DEF StoredFits
  <2>2. r \in [Turns -> Seq(Row)] /\ \A t \in Turns : r[t] = IF t = c.to.id THEN <<>> ELSE server.rows[t]
    BY <1>4, <2>1
  <2>3. OnceEach(<<>>) /\ UpTo(<<>>, page.turns)
    BY <2>1 DEF OnceEach, UpTo
  <2> QED  BY <1>5, <1>6, <2>2, <2>3 DEF StoredFits
<1>7. ASSUME StoredFits(server, page.turns), PageFits(page), Agrees(page, server)
      PROVE  Agrees(page, server')
  <2>1. CASE page.activeId \in server'.exists
    <3>1. page.activeId \in server.exists /\ page.activeId # c.to.id
      BY <1>5, <2>1
    <3>2. server'.rows[page.activeId] = server.rows[page.activeId]
      <4>1. page.activeId \in Turns
        BY <1>7, <3>1 DEF StoredFits, PageFits, Nobody
      <4> QED  BY <1>4, <1>5, <1>7, <3>1, <4>1 DEF StoredFits
    <3> QED  BY <1>7, <2>1, <3>1, <3>2 DEF Agrees, RowsOf
  <2>2. CASE page.activeId = Nobody
    <3>1. Nobody \notin server.exists /\ Nobody \notin server'.exists
      BY <1>5, <1>7 DEF StoredFits, Nobody
    <3> QED  BY <1>7, <2>2, <3>1 DEF Agrees, RowsOf
  <2> QED  BY <2>1, <2>2 DEF Agrees
<1>8. Follows("delete", c)
  BY DEF Follows
<1> QED  BY <1>0, <1>1, <1>3, <1>5, <1>6, <1>7, <1>8, ServedShown

LEMMA ServeTruncateShown == ASSUME ChatInv, ShownInv, ServeTruncate  PROVE ShownInv'
<1>0. {"exists", "rows"} \subseteq DOMAIN server /\ "truncate" \in Threads
  BY ChatKinds DEF ShownInv
<1>1. PICK c \in net["truncate"] :
        /\ c.phase = "sent"
        /\ \/ Refuse("truncate", c) /\ OnlyNet
           \/ /\ c.to.conv \in server.exists /\ Answer("truncate", c, TRUE) /\ UNCHANGED <<page, lost>>
              /\ \E f : server' = [server EXCEPT
                   !.rows[c.to.conv] = SubSeq(@, 1, IndexOf(server.rows[c.to.conv], c.to.turn) - 1), !.flags = f]
  BY DEF ServeTruncate, Asked
<1>2. CASE Refuse("truncate", c) /\ OnlyNet
  <2>1. PICK q : q = [to |-> c.to, phase |-> "failed"]
    OBVIOUS
  <2>2. net' = [net EXCEPT !["truncate"] = (@ \ {c}) \cup {q}]
    BY <1>2, <2>1 DEF Refuse
  <2>3. EditFits(c, page, server) => EditFits(q, page, server)
    BY <2>1 DEF EditFits
  <2>4. Follows("truncate", c)
    BY <1>1 DEF Follows
  <2> QED  BY <1>0, <1>1, <1>2, <2>2, <2>3, <2>4, ServedShown DEF OnlyNet
<1>3. ASSUME c.to.conv \in server.exists, Answer("truncate", c, TRUE), UNCHANGED <<page, lost>>,
             NEW i, i = IndexOf(server.rows[c.to.conv], c.to.turn), NEW f,
             server' = [server EXCEPT !.rows[c.to.conv] = SubSeq(@, 1, i - 1), !.flags = f]
      PROVE  ShownInv'
  <2>1. PICK q : q = [to |-> c.to, phase |-> "answered", ans |-> TRUE]
    OBVIOUS
  <2>2. net' = [net EXCEPT !["truncate"] = (@ \ {c}) \cup {q}]
    BY <1>3, <2>1 DEF Answer
  <2>3. PICK s, r : /\ s = server.rows[c.to.conv]
                    /\ r = [server.rows EXCEPT ![c.to.conv] = SubSeq(@, 1, i - 1)]
    OBVIOUS
  <2>4. server' = [server EXCEPT !.rows = r, !.flags = f]
    BY <1>3, <2>3
  <2>5. server'.exists = server.exists /\ server'.rows = r /\ DOMAIN server' = DOMAIN server
    BY <1>0, <2>4
  <2>6. ASSUME StoredFits(server, page.turns), PageFits(page), Agrees(page, server), EditFits(c, page, server)
        PROVE  StoredFits(server', page.turns) /\ EditFits(q, page, server')
    <3>1. /\ page.activeId = c.to.conv /\ c.to.idx \in 1 .. Len(page.messages)
          /\ page.messages[c.to.idx] = Prompt(c.to.turn, TRUE)
      BY <2>6 DEF EditFits
    <3>2. c.to.conv \in Turns
      BY <1>3, <2>6, <3>1 DEF StoredFits, PageFits, Nobody
    <3>3. server.rows \in [Turns -> Seq(Row)] /\ s \in Seq(Row) /\ OnceEach(s) /\ UpTo(s, page.turns)
      BY <2>3, <2>6, <3>2 DEF StoredFits
    <3>4. page.messages \in Seq(Message) /\ Matches(page.messages, s)
      BY <1>3, <2>3, <2>6, <3>1 DEF PageFits, Agrees, RowsOf
    <3>5. page.messages[c.to.idx].saved
      BY <3>1 DEF Prompt
    <3>6. PICK j \in 1 .. Len(s) :
            /\ page.messages[c.to.idx] = FromRow(s[j])
            /\ Matches(SubSeq(page.messages, 1, c.to.idx - 1), SubSeq(s, 1, j - 1))
      BY <3>1, <3>3, <3>4, <3>5, CutMatch
    <3>7. s[j].turn = c.to.turn /\ s[j].who = "user"
      BY <3>1, <3>6 DEF Prompt, FromRow
    <3>8. i = j
      BY <1>3, <2>3, <3>3, <3>7, PromptIndex
    <3>9. j - 1 \in 0 .. Len(s)
      BY <3>3
    <3>10. /\ SubSeq(s, 1, j - 1) \in Seq(Row) /\ OnceEach(SubSeq(s, 1, j - 1))
           /\ UpTo(SubSeq(s, 1, j - 1), page.turns)
      BY <3>3, <3>9, CutOnce
    <3>11. /\ r \in [Turns -> Seq(Row)]
           /\ \A t \in Turns : r[t] = IF t = c.to.conv THEN SubSeq(s, 1, j - 1) ELSE server.rows[t]
      BY <2>3, <3>2, <3>3, <3>8, <3>10
    <3>12. StoredFits(server', page.turns)
      BY <1>3, <2>5, <2>6, <3>10, <3>11 DEF StoredFits
    <3>13. EditFits(q, page, server')
      BY <1>3, <2>1, <2>5, <3>1, <3>2, <3>6, <3>11 DEF EditFits
    <3> QED  BY <3>12, <3>13
  <2>7. Follows("truncate", c) /\ ~Follows("truncate", q)
    BY <1>1, <2>1 DEF Follows
  <2> QED  BY <1>0, <1>1, <1>3, <2>2, <2>5, <2>6, <2>7, ServedShown
<1> QED  BY <1>1, <1>2, <1>3

\* Both rows join the ones of a conversation.
JoinsRow(s, t, a, x) ==
    t.rows = [s.rows EXCEPT ![a] = Append(@, x)] /\ t.exists = s.exists \cup {a}

LEMMA RowJoins ==
    ASSUME NEW s, NEW n \in Nat, NEW k \in Nat, n <= k, StoredFits(s, n), NEW a \in Turns, a \in 1 .. k,
           NEW x \in Row, x.turn = k, x.who = "assistant" \/ n < k,
           NEW t, JoinsRow(s, t, a, x)
    PROVE  StoredFits(t, k) /\ t.rows[a] = Append(s.rows[a], x)
<1> DEFINE r == t.rows
<1>0. r = [s.rows EXCEPT ![a] = Append(@, x)] /\ t.exists = s.exists \cup {a}
  BY DEF JoinsRow
<1>1. /\ s.rows \in [Turns -> Seq(Row)] /\ s.rows[a] \in Seq(Row)
      /\ OnceEach(s.rows[a]) /\ UpTo(s.rows[a], n)
  BY DEF StoredFits
<1>2. /\ r \in [Turns -> Seq(Row)]
      /\ \A b \in Turns : r[b] = IF b = a THEN Append(s.rows[a], x) ELSE s.rows[b]
  BY <1>0, <1>1
<1> HIDE DEF r
<1>3. k \in 1 .. k /\ (x.who = "user" => \A i \in 1 .. Len(s.rows[a]) : s.rows[a][i].turn # k)
  <2>1. \A i \in 1 .. Len(s.rows[a]) : s.rows[a][i].turn \in 1 .. n
    BY <1>1 DEF UpTo
  <2> QED  BY <2>1
<1>4. OnceEach(Append(s.rows[a], x)) /\ UpTo(Append(s.rows[a], x), k)
  BY <1>1, <1>3, JoinsOnce
<1>5. StoredFits(s, k)
  BY StoredMore
<1>6. \A b \in Turns : OnceEach(r[b]) /\ UpTo(r[b], k) /\ (b \notin t.exists => r[b] = <<>>)
  BY <1>0, <1>2, <1>4, <1>5 DEF StoredFits
<1>7. t.exists \subseteq 1 .. k
  BY <1>0, <1>5 DEF StoredFits
<1> QED  BY <1>2, <1>6, <1>7 DEF StoredFits, r

LEMMA ServeStreamShown == ASSUME ChatInv, ShownInv, ServeStream  PROVE ShownInv'
<1>0. {"exists", "rows"} \subseteq DOMAIN server /\ "stream" \in Threads
  BY ChatKinds DEF ShownInv
<1>1. PICK c \in net["stream"] :
        /\ c.phase = "sent"
        /\ \/ Refuse("stream", c) /\ OnlyNet
           \/ \E conv : /\ conv = IF c.to.conv = Nobody THEN c.to.turn ELSE c.to.conv
                        /\ c.to.conv \in {Nobody} \cup server.exists
                        /\ server' = [server EXCEPT !.exists = @ \cup {conv},
                              !.rows[conv] = Append(@, [turn |-> c.to.turn, who |-> "user"])]
                        /\ net' = [net EXCEPT !["stream"] = (@ \ {c}) \cup
                              {[to |-> c.to, phase |-> "opened", conv |-> conv, done |-> "no"]}]
                        /\ UNCHANGED <<page, lost>>
  BY DEF ServeStream, Asked
<1>2. Follows("stream", c)
  BY <1>1 DEF Follows
<1>3. CASE Refuse("stream", c) /\ OnlyNet
  <2>1. PICK q : q = [to |-> c.to, phase |-> "failed"]
    OBVIOUS
  <2>2. net' = [net EXCEPT !["stream"] = (@ \ {c}) \cup {q}]
    BY <1>3, <2>1 DEF Refuse
  <2>3. StreamFits(c, page, server) => StreamFits(q, page, server)
    BY <2>1 DEF StreamFits
  <2> QED  BY <1>0, <1>2, <1>3, <2>2, <2>3, ServedShown DEF OnlyNet
<1>4. ASSUME NEW conv, conv = IF c.to.conv = Nobody THEN c.to.turn ELSE c.to.conv,
             c.to.conv \in {Nobody} \cup server.exists, NEW x, x = [turn |-> c.to.turn, who |-> "user"],
             server' = [server EXCEPT !.exists = @ \cup {conv}, !.rows[conv] = Append(@, x)],
             NEW q, q = [to |-> c.to, phase |-> "opened", conv |-> conv, done |-> "no"],
             net' = [net EXCEPT !["stream"] = (@ \ {c}) \cup {q}], UNCHANGED <<page, lost>>
      PROVE  ShownInv'
  <2>1. PICK r : r = [server.rows EXCEPT ![conv] = Append(@, x)]
    OBVIOUS
  <2>2. server' = [server EXCEPT !.exists = @ \cup {conv}, !.rows = r]
    BY <1>4, <2>1
  <2>3. server'.exists = server.exists \cup {conv} /\ server'.rows = r /\ DOMAIN server' = DOMAIN server
    BY <1>0, <2>2
  <2>4. ASSUME PageFits(page), Agrees(page, server), StreamFits(c, page, server)
        PROVE  StoredFits(server', page.turns) /\ StreamFits(q, page, server')
    <3>1. /\ c.to.turn = page.turns /\ page.turns # 0 /\ PromptIsLast(c, page)
          /\ c.to.conv = page.activeId /\ StoredFits(server, page.turns - 1)
      BY <1>1, <2>4 DEF StreamFits
    <3>2. PICK n : n = page.turns - 1
      OBVIOUS
    <3>3. /\ page.turns \in 0 .. MaxTurns /\ page.activeId \in Turns \cup {Nobody}
          /\ page.turns \in Nat /\ n \in Nat /\ n < page.turns /\ n <= page.turns
          /\ page.turns \in Turns /\ page.turns \in 1 .. page.turns
      BY <2>4, <3>1, <3>2 DEF PageFits, Turns
    <3>4. Nobody \notin server.exists
      BY <3>1 DEF StoredFits, Nobody
    <3>5. conv \in Turns /\ conv \in 1 .. page.turns
      <4>1. CASE c.to.conv = Nobody
        BY <1>4, <3>1, <3>3, <4>1
      <4>2. CASE c.to.conv # Nobody
        <5>1. conv \in 1 .. n
          BY <1>4, <3>1, <3>2, <4>2 DEF StoredFits
        <5>2. conv \in 1 .. page.turns
          BY <3>3, <5>1
        <5> QED  BY <1>4, <3>1, <3>3, <4>2, <5>2
      <4> QED  BY <4>1, <4>2
    <3>6. RowsOf(server, page.activeId) = server.rows[conv]
      <4>1. CASE c.to.conv = Nobody
        <5>1. conv = page.turns /\ conv \notin server.exists
          <6>1. conv = page.turns /\ ~(conv \in 1 .. n)
            BY <1>4, <3>1, <3>3, <4>1
          <6> QED  BY <3>1, <3>2, <6>1 DEF StoredFits
        <5>2. server.rows[conv] = <<>>
          BY <3>1, <3>5, <5>1 DEF StoredFits
        <5> QED  BY <3>1, <3>4, <4>1, <5>2 DEF RowsOf
      <4>2. CASE c.to.conv # Nobody
        BY <1>4, <3>1, <4>2 DEF RowsOf
      <4> QED  BY <4>1, <4>2
    <3>7. Matches(page.messages, server.rows[conv])
      BY <1>4, <2>4, <3>1, <3>6 DEF Agrees
    <3>8. server.rows[conv] \in Seq(Row)
      BY <3>1, <3>5 DEF StoredFits
    <3>9. x \in Row /\ x.turn = page.turns
      BY <1>4, <3>1, <3>3 DEF Row
    <3>10. StoredFits(server', page.turns) /\ r[conv] = Append(server.rows[conv], x)
      <4>1. JoinsRow(server, server', conv, x)
        BY <2>1, <2>3, <3>1 DEF JoinsRow
      <4>2. n \in Nat /\ page.turns \in Nat /\ n <= page.turns /\ (x.who = "assistant" \/ n < page.turns)
        BY <1>4, <3>1, <3>2, <3>3
      <4>3. StoredFits(server, n) /\ conv \in Turns /\ conv \in 1 .. page.turns
        BY <3>1, <3>2, <3>5
      <4>4. StoredFits(server', page.turns) /\ server'.rows[conv] = Append(server.rows[conv], x)
        BY <3>9, <4>1, <4>2, <4>3, RowJoins
      <4> QED  BY <2>3, <4>4
    <3>11. /\ q.to = c.to /\ q.phase = "opened" /\ q.conv = conv /\ q.done = "no"
           /\ q = [to |-> q.to, phase |-> q.phase, conv |-> q.conv, done |-> q.done]
      BY <1>4
    <3>12. Ahead(q, page, server', server.rows[conv])
      BY <1>4, <2>3, <3>7, <3>8, <3>10, <3>11 DEF Ahead, Replied
    <3>13. StreamFits(q, page, server')
      BY <1>4, <2>3, <3>1, <3>11, <3>12 DEF StreamFits, PromptIsLast
    <3> QED  BY <3>10, <3>13
  <2>5. ~Follows("stream", q)
    BY <1>4 DEF Follows
  <2> QED  BY <1>0, <1>2, <1>4, <2>3, <2>4, <2>5, ServedShown
<1> QED  BY <1>1, <1>3, <1>4

LEMMA ServeReplyShown == ASSUME ChatInv, ShownInv, ServeReply  PROVE ShownInv'
<1>0. {"exists", "rows"} \subseteq DOMAIN server /\ "stream" \in Threads
  BY ChatKinds DEF ShownInv
<1>1. PICK c \in net["stream"] :
        /\ c.phase \in {"opened", "told"} /\ c.done = "no" /\ UNCHANGED <<page, lost>>
        /\ \E d : /\ net' = [net EXCEPT !["stream"] = (@ \ {c}) \cup {[c EXCEPT !.done = d]}]
                  /\ server' = IF d = "reply"
                               THEN [server EXCEPT !.rows[c.conv] =
                                        Append(@, [turn |-> c.to.turn, who |-> "assistant"])]
                               ELSE server
  BY Zenon DEF ServeReply
<1>2. ASSUME NEW d, NEW q, q = [c EXCEPT !.done = d], NEW y, y = [turn |-> c.to.turn, who |-> "assistant"],
             net' = [net EXCEPT !["stream"] = (@ \ {c}) \cup {q}],
             server' = IF d = "reply" THEN [server EXCEPT !.rows[c.conv] = Append(@, y)] ELSE server
      PROVE  ShownInv'
  <2>1. PICK r : r = [server.rows EXCEPT ![c.conv] = Append(@, y)]
    OBVIOUS
  <2>2. d = "reply" => server' = [server EXCEPT !.rows = r]
    BY <1>2, <2>1
  <2>3. /\ server'.exists = server.exists /\ DOMAIN server' = DOMAIN server
        /\ server'.rows = IF d = "reply" THEN r ELSE server.rows
    BY <1>0, <1>2, <2>2
  <2>4. ASSUME StoredFits(server, page.turns), PageFits(page), StreamFits(c, page, server)
        PROVE  /\ StoredFits(server', page.turns) /\ StreamFits(q, page, server')
               /\ ~Follows("stream", q)
    <3>1. /\ c.to.turn = page.turns /\ page.turns # 0 /\ c.conv \in server.exists
          /\ c = [to |-> c.to, phase |-> c.phase, conv |-> c.conv, done |-> c.done]
      BY <1>1, <2>4 DEF StreamFits
    <3>2. /\ q.to = c.to /\ q.phase = c.phase /\ q.conv = c.conv /\ q.done = d
          /\ q = [to |-> q.to, phase |-> q.phase, conv |-> q.conv, done |-> q.done]
      BY <1>2, <3>1
    <3>3. page.turns \in Nat /\ page.turns \in Turns /\ page.turns <= page.turns
      <4>1. page.turns \in 0 .. MaxTurns
        BY <2>4 DEF PageFits
      <4> QED  BY <3>1, <4>1 DEF Turns
    <3>4. y \in Row /\ y.turn = page.turns /\ y.who = "assistant"
      BY <1>2, <3>1, <3>3 DEF Row
    <3>5. c.conv \in 1 .. page.turns /\ c.conv \in Turns
      <4>1. c.conv \in 1 .. page.turns
        BY <2>4, <3>1 DEF StoredFits
      <4>2. page.activeId \in Turns \cup {Nobody}
        BY <2>4 DEF PageFits
      <4>3. \/ c.conv = page.turns \/ c.conv = page.activeId
        BY <1>1, <2>4, <3>1 DEF StreamFits
      <4> QED  BY <3>3, <4>1, <4>2, <4>3 DEF Nobody
    <3>6. PICK z : Ahead(c, page, server, z)
      BY <1>1, <2>4 DEF StreamFits
    <3>7. /\ z \in Seq(Row) /\ Matches(page.messages, z)
          /\ server.rows[c.conv] = IF c.phase = "told" THEN z
                                   ELSE Append(z, [turn |-> c.to.turn, who |-> "user"])
      BY <1>1, <3>6 DEF Ahead, Replied
    <3>8. /\ StoredFits(server', page.turns)
          /\ server'.rows[c.conv] = IF d = "reply" THEN Append(server.rows[c.conv], y) ELSE server.rows[c.conv]
      <4>1. CASE d = "reply"
        <5>1. server'.exists = server.exists \cup {c.conv} /\ server'.rows = r
          BY <2>3, <3>1, <4>1
        <5>2. StoredFits(server', page.turns) /\ r[c.conv] = Append(server.rows[c.conv], y)
          <6>1. JoinsRow(server, server', c.conv, y)
            BY <2>1, <5>1 DEF JoinsRow
          <6>2. StoredFits(server, page.turns)
            BY <2>4
          <6>3. StoredFits(server', page.turns) /\ server'.rows[c.conv] = Append(server.rows[c.conv], y)
            BY <3>3, <3>4, <3>5, <6>1, <6>2, RowJoins
          <6> QED  BY <5>1, <6>3
        <5> QED  BY <4>1, <5>1, <5>2
      <4>2. CASE d # "reply"
        BY <2>3, <2>4, <4>2 DEF StoredFits
      <4> QED  BY <4>1, <4>2
    <3>9. Ahead(q, page, server', z)
      BY <1>2, <3>2, <3>7, <3>8 DEF Ahead, Replied
    <3>10. StreamFits(q, page, server')
      BY <1>1, <2>3, <2>4, <3>1, <3>2, <3>9 DEF StreamFits, PromptIsLast
    <3>11. ~Follows("stream", q)
      BY <1>1, <3>2 DEF Follows
    <3> QED  BY <3>8, <3>10, <3>11
  <2> QED  BY <1>0, <1>1, <1>2, <2>3, <2>4, ServedShown
<1> QED  BY <1>1, <1>2

LEMMA LoseShown == ASSUME ChatInv, ShownInv, Lose  PROVE ShownInv'
<1>1. lost' = lost + 1 /\ UNCHANGED <<page, server>>
  BY DEF Lose, Lost
<1>2. lost' \in Nat /\ lost' # 0
  BY <1>1 DEF ShownInv
<1> QED  BY <1>1, <1>2 DEF ShownInv

-----------------------------------------------------------------------------
(* The theorem *)

\* The conversations there are already are the first turns.
Assumptions == MaxTurns \in Nat /\ \E n \in 0 .. MaxTurns : Stored = 1 .. n

LEMMA InitShown == ASSUME Assumptions, ChatInit  PROVE ShownInv
<1>1. PICK n \in 0 .. MaxTurns : Stored = 1 .. n
  BY DEF Assumptions
<1>2. n \in Nat /\ Cardinality(Stored) = n
  <2>1. n \in Nat /\ n \in Int /\ 1 \in Int
    OBVIOUS
  <2>2. Cardinality(1 .. n) = n
    BY <2>1, FS_Interval
  <2> QED  BY <1>1, <2>1, <2>2
<1>3. page = Opened /\ lost = 0
  BY DEF ChatInit
<1>4. /\ page.activeId = Nobody /\ page.messages = <<>> /\ page.editing = Nobody /\ page.turns = n
      /\ ThreadFields \subseteq DOMAIN page
  BY <1>2, <1>3 DEF Opened, ThreadFields
<1>5. /\ server.exists = Stored /\ {"exists", "rows"} \subseteq DOMAIN server
      /\ server.rows = [c \in Turns |->
            IF c \in Stored THEN <<[turn |-> c, who |-> "user"], [turn |-> c, who |-> "assistant"]>> ELSE <<>>]
  BY DEF ChatInit
<1>6. NoThread(net)
  BY ChatKinds DEF ChatInit, NoThread
<1>7. \A c \in Turns : /\ server.rows[c] \in Seq(Row) /\ OnceEach(server.rows[c]) /\ UpTo(server.rows[c], n)
                       /\ c \notin Stored => server.rows[c] = <<>>
  <2>1. SUFFICES ASSUME NEW c \in Turns
                 PROVE  /\ server.rows[c] \in Seq(Row) /\ OnceEach(server.rows[c]) /\ UpTo(server.rows[c], n)
                        /\ c \notin Stored => server.rows[c] = <<>>
    OBVIOUS
  <2>2. CASE c \notin Stored
    <3>1. server.rows[c] = <<>> /\ <<>> \in Seq(Row) /\ Len(<<>>) = 0
      BY <1>5, <2>2
    <3> QED  BY <3>1 DEF OnceEach, UpTo
  <2>3. CASE c \in Stored
    <3>1. PICK x, y, s : /\ x = [turn |-> c, who |-> "user"] /\ y = [turn |-> c, who |-> "assistant"]
                         /\ s = <<x, y>>
      OBVIOUS
    <3>2. server.rows[c] = s
      BY <1>5, <2>3, <3>1
    <3>3. x \in Row /\ y \in Row /\ x.who = "user" /\ y.who = "assistant" /\ x.turn = c /\ y.turn = c
      BY <3>1 DEF Row
    <3>4. s \in Seq(Row) /\ Len(s) = 2 /\ s[1] = x /\ s[2] = y
      BY <3>1, <3>3
    <3>5. \A i \in 1 .. 2 : i = 1 \/ i = 2
      OBVIOUS
    <3>6. c \in 1 .. n
      BY <1>1, <2>3
    <3>7. OnceEach(s)
      BY <3>3, <3>4, <3>5 DEF OnceEach
    <3>8. UpTo(s, n)
      BY <3>3, <3>4, <3>5, <3>6 DEF UpTo
    <3> QED  BY <2>3, <3>2, <3>4, <3>7, <3>8
  <2> QED  BY <2>2, <2>3
<1>8. StoredFits(server, n)
  <2>1. server.rows \in [Turns -> Seq(Row)]
    BY <1>5, <1>7
  <2> QED  BY <1>1, <1>5, <1>7, <2>1 DEF StoredFits
<1>9. PageFits(page)
  <2>1. <<>> \in Seq(Message) /\ Len(<<>>) = 0
    OBVIOUS
  <2>2. OnceEach(<<>>) /\ UpTo(<<>>, n)
    BY <2>1 DEF OnceEach, UpTo
  <2> QED  BY <1>4, <2>1, <2>2 DEF PageFits
<1>10. Agrees(page, server)
  <2>1. Nobody \notin server.exists
    BY <1>1, <1>5 DEF Nobody
  <2> QED  BY <1>4, <2>1, NoneMatch DEF Agrees, RowsOf
<1>11. Fits(page, server, net)
  BY <1>4, <1>6, <1>8, <1>9, <1>10, FitsRest
<1> QED  BY <1>3, <1>4, <1>5, <1>11 DEF ShownInv

LEMMA NextShown == ChatInv /\ ShownInv /\ [ChatNext]_chatVars => ShownInv'
<1> SUFFICES ASSUME ChatInv, ShownInv, [ChatNext]_chatVars  PROVE ShownInv'
  OBVIOUS
<1>1. CASE UNCHANGED chatVars
  <2>1. SamePage /\ SameServer /\ SameCalls /\ lost' = lost
    BY <1>1 DEF chatVars, SamePage, SameServer, SameCalls
  <2> QED  BY <2>1, QuietShown
<1>2. CASE DeliverChat
  BY <1>2, ListsShown, OpenShown, DeleteShown, TruncateShown, HearShown, StreamEndsShown, StreamFailsShown
     DEF DeliverChat
<1>3. CASE ServeChat \/ Lose
  BY <1>3, ReadsShown, ServeDeleteShown, ServeTruncateShown, ServeStreamShown, ServeReplyShown, LoseShown
     DEF ServeChat
<1>4. CASE ChatNext
  BY <1>2, <1>3, <1>4, ListsShown, MentionsShown, NewChatShown, SendShown, ThreadsShown, StartEditShown
     DEF ChatNext
<1> QED  BY <1>1, <1>4

\* One answer is streamed at a time for a user who waits, however the page retries and
\* the network loses (pages/Chat.jsx, handleSend and saveEdit).
THEOREM OneStreamInvariant == ChatSpec => []OneStream
BY InitChat, NextChat, ChatKeeps, PTL DEF ChatSpec, chatVars

\* The connector the keyboard picks from the popup of the mentions is a listed one
\* (pages/Chat.jsx, the composer's onKeyDown).
THEOREM MentionIndexIsValidInvariant == ChatSpec => []MentionIndexIsValid
BY InitChat, NextChat, ChatKeeps, PTL DEF ChatSpec, chatVars

\* However the user sends, edits, deletes and opens, and whichever way the server
\* answers: when each call came back before the next, and none was lost, the saved
\* messages on the page are the rows of the conversation it shows, in their order
\* (pages/Chat.jsx, handleSend, saveEdit, openConv and the delete, over chat_routes.py).
THEOREM ShownIsStoredInvariant == ASSUME Assumptions  PROVE ChatSpec => []ShownIsStored
<1>1. ChatInit => ChatInv /\ ShownInv
  BY InitChat, InitShown
<1>2. ChatInv /\ ShownInv /\ [ChatNext]_chatVars => (ChatInv /\ ShownInv)'
  BY NextChat, NextShown DEF chatVars
<1>3. ChatInv /\ ShownInv => ShownIsStored
  BY ShownSettles
<1> QED  BY <1>1, <1>2, <1>3, PTL DEF ChatSpec
=============================================================================
