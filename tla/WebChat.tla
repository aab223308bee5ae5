------------------------------- MODULE WebChat -------------------------------
(***************************************************************************)
(* The chat page of the web client, pages/Chat.jsx with                    *)
(* components/MentionPicker.jsx, over the conversations the server keeps.  *)
(*                                                                         *)
(* A prompt and its answer are one turn, a number; a conversation is named *)
(* by the turn that began it.  page is the React state of the page; the    *)
(* text, the timeline of a run and the layout are left out.                *)
(***************************************************************************)
EXTENDS ClientCalls, Sequences, SequencesExt

CONSTANTS
    Stored,      \* conversations there are already, one turn each: 1 .. n
    MaxTurns,    \* bound: prompts, those of Stored among them
    Connectors,  \* connectors one may mention
    Models, Locked,   \* the models, and those the plan does not include
    Workloads

VARIABLES page, server, does

chatVars == <<page, server, net, lost, does>>

Turns == 1 .. MaxTurns
Nobody == 0
Kinds == {"list", "models", "open", "truncate", "delete", "pin", "flag", "flagged",
          "stream", "upload", "connectors"}
\* What decides which conversation is shown, and which messages.
Threads == {"open", "truncate", "delete", "stream"}

Row == [turn: Turns, who: {"user", "assistant"}]
\* A message on the page: saved is FALSE for one the server has no row of.
Message == [turn: Turns, who: {"user", "assistant"}, saved: BOOLEAN]
FromRow(r) == [turn |-> r.turn, who |-> r.who, saved |-> TRUE]
FromRows(rows) == [i \in 1 .. Len(rows) |-> FromRow(rows[i])]
\* The messages that are saved are the rows, in their order.
SavedAre(messages, rows) ==
    LET kept == {i \in 1 .. Len(messages) : messages[i].saved}
        Place(i) == Cardinality({j \in kept : j <= i})
    IN  /\ Len(rows) = Cardinality(kept)
        /\ \A i \in kept : messages[i] = FromRow(rows[Place(i)])

\* A flagged prompt, and the conversation it came from.
Flag == [turn: Turns, conv: Turns]

Page == [conversations: SUBSET Turns, activeId: Turns \cup {Nobody},
         messages: Seq(Message), flagged: SUBSET Flag,
         typed: BOOLEAN, attachments: Nat, uploading: BOOLEAN,
         mention: 0 .. Cardinality(Connectors),   \* connectors the open "@..." matches
         mentionIdx: Nat, mentioned: SUBSET Connectors, connectors: SUBSET Connectors,
         model: Models \cup {"none"}, streaming: BOOLEAN,
         editing: Turns \cup {Nobody},    \* the prompt whose draft is open
         turns: Turns,        \* prompts there were
         crossed: BOOLEAN]   \* history: the user went on before the last thread call came back

Opened == [conversations |-> {}, activeId |-> Nobody, messages |-> <<>>, flagged |-> {},
           typed |-> FALSE, attachments |-> 0, uploading |-> FALSE,
           mention |-> 0, mentionIdx |-> 0, mentioned |-> {}, connectors |-> {},
           model |-> "none", streaming |-> FALSE, editing |-> Nobody,
           turns |-> Cardinality(Stored), crossed |-> FALSE]

\* The server's conversations, their rows, and the flags.
Server == [exists: SUBSET Turns, rows: [Turns -> Seq(Row)], flags: SUBSET Flag]

ChatTypeOK ==
    /\ page \in Page /\ server \in Server /\ does \in Workloads /\ lost \in 0 .. MaxLost
    /\ DOMAIN net = Kinds
    /\ page.attachments <= 2
    /\ \A m \in ToSet(page.messages) : m.who = "user" => m.turn <= page.turns

\* Opening the page asks for the conversations, the models, the flags and the
\* connectors; the lists this user does nothing with are left out.
ChatInit ==
    /\ does \in Workloads /\ lost = 0
    /\ page = Opened
    /\ server = [exists |-> Stored, flags |-> {},
                 rows |-> [c \in Turns |->
                    IF c \in Stored THEN <<[turn |-> c, who |-> "user"], [turn |-> c, who |-> "assistant"]>>
                    ELSE <<>>]]
    /\ net = [k \in Kinds |->
                IF k \in {"list"} \cup (IF "models" \in does THEN {"models"} ELSE {})
                                \cup (IF "mention" \in does THEN {"connectors"} ELSE {})
                                \cup (IF "flag" \in does THEN {"flagged"} ELSE {})
                THEN {Sent(Nobody)} ELSE {}]

-----------------------------------------------------------------------------
(* What the page shows                                                      *)

OnlyPage == UNCHANGED <<server, lost, does>>

PopupShown == page.mention > 0
CanAttach == ~page.uploading /\ ~page.streaming
CanSend == (page.typed \/ page.attachments > 0) /\ ~page.streaming
\* Edit and Flag appear on a prompt once it has its row.
HasRow(m) == m.saved
CanEdit(m) == m.who = "user" /\ HasRow(m) /\ ~page.streaming
CanFlag(m) == m.who = "user" /\ HasRow(m)
CanPick(m) == m \in Models \ Locked

Shows(messages, turn) == \E m \in ToSet(messages) : m.turn = turn /\ m.who = "user"
\* The draft of a prompt that is not on the page any more is gone.
Showing(p, messages) ==
    [p EXCEPT !.messages = messages, !.editing = IF Shows(messages, @) THEN @ ELSE Nobody]

\* The user does something to the thread; another call may not have come back.
Crossing(p) == [p EXCEPT !.crossed = @ \/ ~Quiet(Threads)]

-----------------------------------------------------------------------------
(* Lists                                                                    *)

DeliverList ==
    \E c \in Came("list") :
        /\ Take("list", c)
        /\ page' = IF Ok(c) THEN [page EXCEPT !.conversations = c.ans] ELSE page
        /\ OnlyPage

\* Never lands on a locked model.
DeliverModels ==
    \E c \in Came("models") :
        /\ Take("models", c)
        /\ page' = IF Ok(c) /\ Models \ Locked # {}
                   THEN [page EXCEPT !.model = CHOOSE m \in Models \ Locked : TRUE] ELSE page
        /\ OnlyPage

PickModel(m) ==
    /\ "models" \in does /\ CanPick(m) /\ page.model # "none"
    /\ page' = [page EXCEPT !.model = m]
    /\ UNCHANGED net /\ OnlyPage

DeliverFlagged ==
    \E c \in Came("flagged") :
        /\ Take("flagged", c)
        /\ page' = IF Ok(c) THEN [page EXCEPT !.flagged = c.ans] ELSE page
        /\ OnlyPage

\* The window is focused again: a connector may just have been connected elsewhere.
Focus ==
    /\ "mention" \in does /\ Ask("connectors", Nobody)
    /\ UNCHANGED page /\ OnlyPage

DeliverConnectors ==
    \E c \in Came("connectors") :
        /\ Take("connectors", c)
        /\ page' = IF Ok(c) THEN [page EXCEPT !.connectors = c.ans] ELSE page
        /\ OnlyPage

-----------------------------------------------------------------------------
(* Conversations                                                            *)

\* "New chat", and /chat?new=1 of the sidebar.
NewChat ==
    /\ "new" \in does /\ page.activeId # Nobody
    /\ page' = Showing([Crossing(page) EXCEPT !.activeId = Nobody], <<>>)
    /\ UNCHANGED net /\ OnlyPage

\* The messages of the other one stay until the answer comes.
OpenConv(id) ==
    /\ "open" \in does /\ id \in page.conversations
    /\ Ask("open", id)
    /\ page' = [Crossing(page) EXCEPT !.activeId = id]
    /\ OnlyPage

\* A flagged prompt opens the conversation it came from.
OpenFlagged(f) ==
    /\ f \in page.flagged
    /\ Ask("open", f.conv)
    /\ page' = [Crossing(page) EXCEPT !.activeId = f.conv]
    /\ OnlyPage

DeliverOpen ==
    \E c \in Came("open") :
        /\ Take("open", c)
        /\ page' = IF Ok(c) THEN Showing(page, FromRows(c.ans)) ELSE page
        /\ OnlyPage

DeleteConv(id) ==
    /\ "delete" \in does /\ id \in page.conversations
    /\ Ask("delete", [id |-> id, active |-> page.activeId])
    /\ page' = Crossing(page) /\ OnlyPage

\* Which conversation was open is what the handler closed over.
DeliverDelete ==
    \E c \in Came("delete") :
        /\ \/ ~Ok(c) /\ Take("delete", c) /\ UNCHANGED page
           \/ /\ Ok(c)
              /\ net' = Asking(Asking(Without(net, "delete", c), "list", Nobody), "flagged", Nobody)
              /\ page' = IF c.to.active = c.to.id
                         THEN Showing([page EXCEPT !.activeId = Nobody], <<>>) ELSE page
        /\ OnlyPage

TogglePin(id) ==
    /\ "pin" \in does /\ id \in page.conversations
    /\ Ask("pin", id)
    /\ UNCHANGED page /\ OnlyPage

DeliverPin ==
    \E c \in Came("pin") :
        /\ \/ ~Ok(c) /\ Take("pin", c)
           \/ Ok(c) /\ net' = Asking(Without(net, "pin", c), "list", Nobody)
        /\ UNCHANGED page /\ OnlyPage

ToggleFlag(m) ==
    /\ "flag" \in does /\ CanFlag(m)
    /\ Ask("flag", m.turn)
    /\ UNCHANGED page /\ OnlyPage

DeliverFlag ==
    \E c \in Came("flag") :
        /\ \/ ~Ok(c) /\ Take("flag", c)
           \/ Ok(c) /\ net' = Asking(Without(net, "flag", c), "flagged", Nobody)
        /\ UNCHANGED page /\ OnlyPage

-----------------------------------------------------------------------------
(* The composer                                                             *)

\* Typing: a change of the text closes or opens the popup and starts it at its
\* first entry.
TypeText ==
    /\ "send" \in does /\ ~page.typed
    /\ page' = [page EXCEPT !.typed = TRUE, !.mention = 0, !.mentionIdx = 0]
    /\ UNCHANGED net /\ OnlyPage

\* A suggested prompt replaces the text, under a popup that stays as it is.
UseTemplate ==
    /\ "send" \in does /\ (~page.typed \/ PopupShown)
    /\ page' = [page EXCEPT !.typed = TRUE, !.mentioned = {}]
    /\ UNCHANGED net /\ OnlyPage

\* n connectors match what follows the "@".
TypeMention(n) ==
    /\ "mention" \in does /\ n <= Cardinality(page.connectors)
    /\ page' = [page EXCEPT !.typed = TRUE, !.mention = n, !.mentionIdx = 0]
    /\ UNCHANGED net /\ OnlyPage

\* The arrows, and the mouse over an entry.
MoveMention(up) ==
    /\ PopupShown
    /\ page' = [page EXCEPT !.mentionIdx =
                  (IF up THEN @ + page.mention - 1 ELSE @ + 1) % page.mention]
    /\ UNCHANGED net /\ OnlyPage

\* Enter, Tab or a click puts the connector into the text; Escape closes the popup.
PickMention(c) ==
    /\ PopupShown /\ c \in page.connectors
    /\ page' = [page EXCEPT !.typed = TRUE, !.mention = 0, !.mentioned = @ \cup {c}]
    /\ UNCHANGED net /\ OnlyPage

EscapeMention ==
    /\ PopupShown
    /\ page' = [page EXCEPT !.mention = 0]
    /\ UNCHANGED net /\ OnlyPage

\* The chip of a mention takes it out of the text, which may have been all of it.
RemoveMention(c) ==
    /\ c \in page.mentioned
    /\ \E rest \in (IF page.mentioned = {c} THEN BOOLEAN ELSE {TRUE}) :
          page' = [page EXCEPT !.typed = rest, !.mentioned = @ \ {c}]
    /\ UNCHANGED net /\ OnlyPage

\* One file after the other; the ones that are no images or too large are skipped.
PickFiles(n) ==
    /\ "attach" \in does /\ CanAttach /\ page.attachments + n <= 2
    /\ Ask("upload", n)
    /\ page' = [page EXCEPT !.uploading = TRUE]
    /\ OnlyPage

\* One that fails takes those before it along.
DeliverUpload ==
    \E c \in Came("upload") :
        /\ Take("upload", c)
        /\ page' = [page EXCEPT !.uploading = FALSE,
                                !.attachments = IF Ok(c) THEN @ + c.ans ELSE @]
        /\ OnlyPage

RemoveAttachment ==
    /\ page.attachments > 0
    /\ page' = [page EXCEPT !.attachments = @ - 1]
    /\ UNCHANGED net /\ OnlyPage

-----------------------------------------------------------------------------
(* Sending                                                                  *)

\* handleSend from where it goes on: the prompt is on the page before the server
\* has it, and the POST names the conversation the handler closed over.
Posting(p, n, active) ==
    LET turn == page.turns + 1 IN
    /\ turn <= MaxTurns
    /\ page' = [p EXCEPT !.streaming = TRUE, !.turns = turn,
                         !.messages = Append(@, [turn |-> turn, who |-> "user", saved |-> FALSE])]
    /\ net' = Asking(n, "stream", [turn |-> turn, conv |-> active])
    /\ OnlyPage

\* The button, also under an open popup, or Enter without one.  Images alone are
\* refused with a toast.
HandleSend ==
    /\ CanSend /\ page.typed
    /\ Cardinality(AllCalls) < MaxInFlight
    /\ Posting([Crossing(page) EXCEPT !.typed = FALSE, !.attachments = 0, !.mentioned = {}],
               net, page.activeId)

\* The server took the prompt: its row, and the conversation if it is a new one.
HearConversation ==
    \E c \in net["stream"] :
        /\ c.phase = "opened"
        /\ net' = [net EXCEPT !["stream"] = (@ \ {c}) \cup {[c EXCEPT !.phase = "told"]}]
        /\ page' = [page EXCEPT
              !.activeId = IF c.to.conv = Nobody THEN c.conv ELSE @,
              !.messages = [i \in 1 .. Len(@) |->
                  IF @[i].turn = c.to.turn /\ @[i].who = "user" THEN [@[i] EXCEPT !.saved = TRUE] ELSE @[i]]]
        /\ OnlyPage

\* The answer joins the messages that are shown; a run that ended without one
\* gets a line the server does not have.
StreamEnds ==
    \E c \in net["stream"] :
        /\ c.phase = "told" /\ c.done # "no"
        /\ net' = Asking(Without(net, "stream", c), "list", Nobody)
        /\ page' = [page EXCEPT !.streaming = FALSE,
              !.messages = IF c.done = "none" THEN @
                           ELSE Append(@, [turn |-> c.to.turn, who |-> "assistant",
                                           saved |-> c.done = "reply"])]
        /\ OnlyPage

\* Refused, or broken on the way: the prompt stays on the page.
StreamFails ==
    \E c \in Came("stream") :
        /\ Take("stream", c)
        /\ page' = [page EXCEPT !.streaming = FALSE]
        /\ OnlyPage

-----------------------------------------------------------------------------
(* Editing a prompt                                                         *)

StartEdit(m) ==
    /\ "edit" \in does /\ CanEdit(m) /\ page.editing = Nobody
    /\ page' = [page EXCEPT !.editing = m.turn]
    /\ UNCHANGED net /\ OnlyPage

\* Cancel, Escape, or a draft that says the same.
StopEdit ==
    /\ page.editing # Nobody
    /\ page' = [page EXCEPT !.editing = Nobody]
    /\ UNCHANGED net /\ OnlyPage

IndexOf(messages, turn) ==
    CHOOSE i \in 1 .. Len(messages) : messages[i].turn = turn /\ messages[i].who = "user"

\* Nothing is sent while an answer streams: the page has no editor then.  streaming
\* stays as it was until the server has truncated.
SaveEdit ==
    /\ page.editing # Nobody /\ ~page.streaming /\ page.turns < MaxTurns
    /\ Ask("truncate", [turn |-> page.editing, conv |-> page.activeId,
                        idx |-> IndexOf(page.messages, page.editing)])
    /\ page' = [Crossing(page) EXCEPT !.editing = Nobody]
    /\ OnlyPage

\* Mutant: the prompt that was edited stays.
DeliverTruncate_KeepsPrompt ==
    \E c \in Came("truncate") :
        \/ ~Ok(c) /\ Take("truncate", c) /\ UNCHANGED page /\ OnlyPage
        \/ /\ Ok(c)
           /\ LET left == SubSeq(page.messages, 1,
                                 IF c.to.idx < Len(page.messages) THEN c.to.idx
                                 ELSE Len(page.messages))
              IN  Posting(Showing(page, left),
                          Asking(Without(net, "truncate", c), "flagged", Nobody), c.to.conv)

\* The page is cut where the list the handler closed over was to be cut, and the
\* new text is sent to the conversation it closed over.
DeliverTruncate ==
    \E c \in Came("truncate") :
        \/ ~Ok(c) /\ Take("truncate", c) /\ UNCHANGED page /\ OnlyPage
        \/ /\ Ok(c)
           /\ LET left == SubSeq(page.messages, 1,
                                 IF c.to.idx - 1 < Len(page.messages) THEN c.to.idx - 1
                                 ELSE Len(page.messages))
              IN  Posting(Showing(page, left),
                          Asking(Without(net, "truncate", c), "flagged", Nobody), c.to.conv)

-----------------------------------------------------------------------------
(* The server                                                               *)

OnlyNet == UNCHANGED <<page, server, lost, does>>

\* Reads and the pin change nothing that is modelled.
ServeReads ==
    \/ \E c \in Asked("list") : Answer("list", c, server.exists) /\ OnlyNet
    \/ \E c \in Asked("models") : Answer("models", c, TRUE) /\ OnlyNet
    \/ \E c \in Asked("connectors") : Answer("connectors", c, Connectors) /\ OnlyNet
    \/ \E c \in Asked("flagged") : Answer("flagged", c, server.flags) /\ OnlyNet
    \/ \E c \in Asked("pin") : Answer("pin", c, TRUE) /\ OnlyNet
    \/ \E c \in Asked("open") :
          /\ IF c.to \in server.exists THEN Answer("open", c, server.rows[c.to]) ELSE Refuse("open", c)
          /\ OnlyNet
    \/ \E c \in Asked("upload") :
          /\ \/ \E n \in 0 .. c.to : Answer("upload", c, n)
             \/ Refuse("upload", c)
          /\ OnlyNet

ServeFlag ==
    \E c \in Asked("flag") :
        LET of == {f \in Flag : f.turn = c.to /\ f.conv \in server.exists
                                /\ Shows(server.rows[f.conv], c.to)}
        IN  IF of = {} THEN Refuse("flag", c) /\ OnlyNet
            ELSE /\ Answer("flag", c, TRUE)
                 /\ server' = [server EXCEPT !.flags = (@ \ of) \cup (of \ @)]
                 /\ UNCHANGED <<page, lost, does>>

ServeDelete ==
    \E c \in Asked("delete") :
        /\ Answer("delete", c, TRUE)
        /\ server' = [server EXCEPT !.exists = @ \ {c.to.id}, !.rows[c.to.id] = <<>>,
              !.flags = {f \in @ : f.conv # c.to.id}]
        /\ UNCHANGED <<page, lost, does>>

\* The prompt and all that followed it, if it is one of that conversation.
ServeTruncate ==
    \E c \in Asked("truncate") :
        LET conv == c.to.conv
            here == conv \in server.exists /\ Shows(server.rows[conv], c.to.turn)
        IN  \/ ~here /\ Refuse("truncate", c) /\ OnlyNet
            \/ /\ here /\ Answer("truncate", c, TRUE)
               /\ LET i == IndexOf(server.rows[conv], c.to.turn)
                      gone == {server.rows[conv][j].turn : j \in i .. Len(server.rows[conv])}
                  IN  server' = [server EXCEPT !.rows[conv] = SubSeq(@, 1, i - 1),
                                               !.flags = {f \in @ : f.turn \notin gone}]
               /\ UNCHANGED <<page, lost, does>>

\* No credits, a model that is not included, a conversation that is gone; or the
\* prompt is stored and the stream opens.
ServeStream ==
    \E c \in Asked("stream") :
        LET conv == IF c.to.conv = Nobody THEN c.to.turn ELSE c.to.conv IN
        \/ /\ "refuse" \in does \/ c.to.conv \notin {Nobody} \cup server.exists
           /\ Refuse("stream", c) /\ OnlyNet
        \/ /\ c.to.conv \in {Nobody} \cup server.exists
           /\ server' = [server EXCEPT !.exists = @ \cup {conv},
                 !.rows[conv] = Append(@, [turn |-> c.to.turn, who |-> "user"])]
           /\ net' = [net EXCEPT !["stream"] = (@ \ {c}) \cup
                 {[to |-> c.to, phase |-> "opened", conv |-> conv, done |-> "no"]}]
           /\ UNCHANGED <<page, lost, does>>

\* The answer is stored when it is complete; a run may end without one, having
\* taken steps or not.
ServeReply ==
    \E c \in net["stream"] :
        /\ c.phase \in {"opened", "told"} /\ c.done = "no"
        /\ \E d \in {"reply"} \cup (IF "refuse" \in does THEN {"none", "steps"} ELSE {}) :
              /\ net' = [net EXCEPT !["stream"] = (@ \ {c}) \cup {[c EXCEPT !.done = d]}]
              /\ server' = IF d = "reply"
                           THEN [server EXCEPT !.rows[c.conv] =
                                    Append(@, [turn |-> c.to.turn, who |-> "assistant"])]
                           ELSE server
        /\ UNCHANGED <<page, lost, does>>

Lose ==
    /\ "lose" \in does
    /\ \/ \E k \in Threads : \E c \in net[k] : Lost(k, c)
       \/ \E c \in net["stream"] :
             /\ c.phase \in {"opened", "told"} /\ lost < MaxLost
             /\ net' = [net EXCEPT !["stream"] = (@ \ {c}) \cup {[to |-> c.to, phase |-> "failed"]}]
             /\ lost' = lost + 1
    /\ UNCHANGED <<page, server, does>>

ServeChat == ServeReads \/ ServeFlag \/ ServeDelete \/ ServeTruncate \/ ServeStream \/ ServeReply
DeliverChat ==
    \/ DeliverList \/ DeliverModels \/ DeliverFlagged \/ DeliverConnectors
    \/ DeliverOpen \/ DeliverDelete \/ DeliverPin \/ DeliverFlag \/ DeliverUpload
    \/ DeliverTruncate \/ HearConversation \/ StreamEnds \/ StreamFails

ChatNext ==
    \/ DeliverChat \/ ServeChat \/ Lose
    \/ NewChat \/ Focus \/ TypeText \/ UseTemplate \/ HandleSend
    \/ EscapeMention \/ RemoveAttachment \/ StopEdit \/ SaveEdit
    \/ \E id \in Turns : OpenConv(id) \/ DeleteConv(id) \/ TogglePin(id)
    \/ \E m \in ToSet(page.messages) : ToggleFlag(m) \/ StartEdit(m)
    \/ \E m \in Models : PickModel(m)
    \/ \E f \in Flag : OpenFlagged(f)
    \/ \E n \in 0 .. Cardinality(Connectors) : TypeMention(n)
    \/ \E up \in BOOLEAN : MoveMention(up)
    \/ \E c \in Connectors : PickMention(c) \/ RemoveMention(c)
    \/ \E n \in 1 .. 2 : PickFiles(n)

ChatSpec == ChatInit /\ [][ChatNext]_chatVars

\* The server answers, and the page goes on with what came.
StreamServed == ServeStream \/ ServeReply
StreamHeard == HearConversation \/ StreamEnds \/ StreamFails
ChatFairSpec == ChatSpec /\ WF_chatVars(StreamServed) /\ WF_chatVars(StreamHeard)

-----------------------------------------------------------------------------
(* Properties                                                               *)

ThreadQuiet == Quiet(Threads) /\ ~page.streaming

\* Sending, answering, failing, editing and deleting leave on the page what the
\* server keeps, when the user lets each come back before going on: "The server
\* truncates first so its history matches what the user sees" (Chat.jsx:239-240).  A
\* conversation deleted before its list came anew may still be opened: the page then
\* keeps the messages it had (openConv, Chat.jsx:216-220).
ShownIsStored ==
    ThreadQuiet /\ ~page.crossed /\ lost = 0 /\ page.activeId \in server.exists
        => SavedAre(page.messages, server.rows[page.activeId])

\* One answer streams at a time, for a user who does not go on over an edit.
OneStream == ~page.crossed => Cardinality(net["stream"]) <= 1

\* The entry of the popup that Enter would take is one of the list.
MentionIndexIsValid == PopupShown => page.mentionIdx < page.mention
=============================================================================
