----------------------------- MODULE MobileChat -----------------------------
(***************************************************************************)
(* The chat of the mobile app: screens/ConversationsScreen.js and the      *)
(* ChatScreen.js pushed over it, over the conversations the server keeps.  *)
(*                                                                         *)
(* A prompt and its answer are one turn, a number; a conversation is named *)
(* by the turn that began it.  A chat screen that was left keeps running   *)
(* what it began, and can change nothing on a screen any more (mine).      *)
(***************************************************************************)
EXTENDS ClientCalls, Sequences, SequencesExt

CONSTANTS
    Stored,     \* conversations there are already, one turn each: 1 .. n
    MaxTurns,   \* bound: prompts, those of Stored among them
    Models,     \* the models of /chat/models; locked ones among them
    Workloads

VARIABLES page, server, does

mobileChatVars == <<page, server, net, lost, does>>

Turns == 1 .. MaxTurns
Nobody == 0
ListKinds == {"list", "delete"}
ChatKinds == {"models", "load", "chat", "wallet", "upload"}
Kinds == ListKinds \cup ChatKinds

Row == [turn: Turns, who: {"user", "assistant"}]

ChatState == [initialId: Turns \cup {Nobody}, conversationId: Turns \cup {Nobody},
              messages: Seq(Row), typed: BOOLEAN, attachments: Nat, uploading: BOOLEAN,
              streaming: BOOLEAN, selectedModel: Models \cup {"none"}, picker: BOOLEAN,
              began: BOOLEAN]   \* the effects of mounting ran
ChatFirst(id) == [initialId |-> id, conversationId |-> id, messages |-> <<>>,
                  typed |-> FALSE, attachments |-> 0, uploading |-> FALSE,
                  streaming |-> FALSE, selectedModel |-> "none", picker |-> FALSE,
                  began |-> FALSE]

Page == [at: {"list", "chat"}, items: SUBSET Turns, refreshing: BOOLEAN,
         asking: Turns \cup {Nobody},   \* the "Delete chat?" alert
         chat: ChatState, turns: 0 .. MaxTurns,
         hasty: BOOLEAN]  \* history: a prompt went out in a new chat whose first one was
                          \* stopped or failed: the server may keep the two apart

Server == [exists: SUBSET Turns, rows: [Turns -> Seq(Row)], dropped: SUBSET Turns]

MobileChatTypeOK ==
    /\ page \in Page /\ server \in Server /\ does \in Workloads
    /\ lost \in 0 .. MaxLost /\ DOMAIN net = Kinds
    /\ page.at = "list" => page.chat = ChatFirst(Nobody)
    /\ page.chat.streaming => InFlight("wallet") \/ \E c \in net["chat"] : c.to.mine

\* Some come for the first time.
Before == IF "new" \in does THEN {} ELSE Stored

MobileChatInit ==
    /\ does \in Workloads /\ lost = 0
    /\ page = [at |-> "list", items |-> {}, refreshing |-> TRUE, asking |-> Nobody,
               chat |-> ChatFirst(Nobody), turns |-> Cardinality(Before), hasty |-> FALSE]
    /\ server = [exists |-> Before, dropped |-> {},
                 rows |-> [c \in Turns |->
                    IF c \in Before THEN <<[turn |-> c, who |-> "user"], [turn |-> c, who |-> "assistant"]>>
                    ELSE <<>>]]
    /\ net = [k \in Kinds |-> IF k = "list" THEN {Sent(Nobody)} ELSE {}]

OnlyPage == UNCHANGED <<server, lost, does>>
In(chat) == [page EXCEPT !.chat = chat]

\* The calls of a chat screen that is gone: what the prompt does on the server goes
\* on, the other answers would change nothing.
Disowned(n) == [k \in Kinds |-> IF k = "chat" THEN {[c EXCEPT !.to.mine = FALSE] : c \in n[k]}
                                ELSE IF k \in ChatKinds THEN {} ELSE n[k]]

-----------------------------------------------------------------------------
(* ConversationsScreen                                                      *)

ListShown == page.at = "list" /\ page.asking = Nobody

\* load, on focus and on a pull.  The balance it asks for next is left out.
Reload ==
    /\ "reload" \in does /\ ListShown /\ Ask("list", Nobody)
    /\ page' = [page EXCEPT !.refreshing = TRUE]
    /\ OnlyPage

DeliverItems ==
    \E c \in Came("list") :
        /\ Take("list", c)
        /\ page' = [page EXCEPT !.refreshing = FALSE, !.items = IF Ok(c) THEN c.ans ELSE @]
        /\ OnlyPage

LongPress(id) ==
    /\ "delete" \in does /\ ListShown /\ id \in page.items
    /\ page' = [page EXCEPT !.asking = id]
    /\ UNCHANGED net /\ OnlyPage

\* The alert's "Cancel" and "Delete".
AnswerDelete ==
    /\ page.asking # Nobody
    /\ page' = [page EXCEPT !.asking = Nobody]
    /\ UNCHANGED net \/ Ask("delete", page.asking)
    /\ OnlyPage

\* A deletion that fails reloads nothing.
DeliverDelete ==
    \E c \in Came("delete") :
        /\ \/ /\ Ok(c) /\ net' = Asking(Without(net, "delete", c), "list", Nobody)
              /\ page' = [page EXCEPT !.refreshing = TRUE]
           \/ ~Ok(c) /\ Take("delete", c) /\ UNCHANGED page
        /\ OnlyPage

\* A row, or "New".
OpenChat(id) ==
    /\ ListShown /\ (id = Nobody \/ id \in page.items)
    /\ page' = [page EXCEPT !.at = "chat", !.chat = ChatFirst(id)]
    /\ UNCHANGED net /\ OnlyPage

-----------------------------------------------------------------------------
(* ChatScreen                                                               *)

ChatShown == page.at = "chat" /\ ~page.chat.picker
CanAttach == ChatShown /\ ~page.chat.uploading /\ ~page.chat.streaming
CanOpenPicker == ChatShown /\ ~page.chat.streaming
CanSend == ChatShown /\ ~page.chat.streaming /\ (page.chat.typed \/ page.chat.attachments > 0)
CanStop == ChatShown /\ page.chat.streaming

\* The effects of mounting: the models, and the messages of a conversation that is named.
Mounted ==
    /\ page.at = "chat" /\ ~page.chat.began
    /\ net' = LET n == IF "models" \in does THEN Asking(net, "models", Nobody) ELSE net
              IN  IF page.chat.initialId = Nobody THEN n
                  ELSE Asking(n, "load", page.chat.initialId)
    /\ page' = In([page.chat EXCEPT !.began = TRUE])
    /\ OnlyPage

\* Focus returns to the list, which loads.
GoBack ==
    /\ "back" \in does /\ page.at = "chat" /\ page.chat.began
    /\ page' = [page EXCEPT !.at = "list", !.chat = ChatFirst(Nobody), !.refreshing = TRUE]
    /\ net' = Asking(Disowned(net), "list", Nobody)
    /\ OnlyPage

\* The default one, or the first; locked or not.
DeliverModels ==
    \E c \in Came("models") :
        /\ Take("models", c)
        /\ page' = IF Ok(c) /\ page.chat.selectedModel = "none"
                   THEN In([page.chat EXCEPT !.selectedModel = c.ans]) ELSE page
        /\ OnlyPage

OpenPicker ==
    /\ "models" \in does /\ CanOpenPicker
    /\ page' = In([page.chat EXCEPT !.picker = TRUE])
    /\ UNCHANGED net /\ OnlyPage

\* A row of the sheet, or the shade around it.
ClosePicker ==
    /\ page.chat.picker
    /\ \E m \in Models \cup {page.chat.selectedModel} :
          page' = In([page.chat EXCEPT !.picker = FALSE, !.selectedModel = m])
    /\ UNCHANGED net /\ OnlyPage

DeliverLoad ==
    \E c \in Came("load") :
        /\ Take("load", c)
        /\ page' = IF Ok(c) THEN In([page.chat EXCEPT !.messages = c.ans]) ELSE page
        /\ OnlyPage

TypeText ==
    /\ ChatShown /\ ~page.chat.typed
    /\ page' = In([page.chat EXCEPT !.typed = TRUE])
    /\ UNCHANGED net /\ OnlyPage

PickImage ==
    /\ "attach" \in does /\ CanAttach /\ page.chat.attachments = 0
    /\ Ask("upload", Nobody)
    /\ page' = In([page.chat EXCEPT !.uploading = TRUE])
    /\ OnlyPage

DeliverUpload ==
    \E c \in Came("upload") :
        /\ Take("upload", c)
        /\ page' = In([page.chat EXCEPT !.uploading = FALSE,
                                        !.attachments = IF Ok(c) THEN @ + 1 ELSE @])
        /\ OnlyPage

RemoveAttachment ==
    /\ page.chat.attachments > 0
    /\ page' = In([page.chat EXCEPT !.attachments = @ - 1])
    /\ UNCHANGED net /\ OnlyPage

\* The prompt is shown at once.  The request names the conversation the screen
\* knows; images alone are refused with an alert.
SendPrompt ==
    LET turn == page.turns + 1 IN
    /\ CanSend /\ page.chat.typed /\ page.chat.began /\ turn <= MaxTurns
    /\ Ask("chat", [turn |-> turn, conv |-> page.chat.conversationId, mine |-> TRUE])
    /\ page' = [page EXCEPT
          !.turns = turn,
          !.hasty = @ \/ (page.chat.messages # <<>> /\ page.chat.conversationId = Nobody),
          !.chat = [page.chat EXCEPT !.typed = FALSE, !.attachments = 0, !.streaming = TRUE,
              !.messages = Append(page.chat.messages, [turn |-> turn, who |-> "user"])]]
    /\ OnlyPage

\* Mutant: the screen does not learn the conversation it is in.
DeliverChat_KeepsNoId ==
    \E c \in Came("chat") :
        /\ \/ /\ c.to.mine /\ Ok(c)
              /\ net' = Asking(Without(net, "chat", c), "wallet", Nobody)
              /\ page' = In([page.chat EXCEPT
                    !.messages = Append(@, [turn |-> c.to.turn, who |-> "assistant"])])
           \/ /\ ~(c.to.mine /\ Ok(c)) /\ Take("chat", c)
              /\ page' = IF c.to.mine THEN In([page.chat EXCEPT !.streaming = FALSE]) ELSE page
        /\ OnlyPage

\* The answer is shown, and the balance is asked for; a failure is an alert.
DeliverChat ==
    \E c \in Came("chat") :
        /\ \/ /\ c.to.mine /\ Ok(c)
              /\ net' = Asking(Without(net, "chat", c), "wallet", Nobody)
              /\ page' = In([page.chat EXCEPT
                    !.conversationId = IF c.to.conv = Nobody THEN c.ans ELSE @,
                    !.messages = Append(@, [turn |-> c.to.turn, who |-> "assistant"])])
           \/ /\ ~(c.to.mine /\ Ok(c)) /\ Take("chat", c)
              /\ page' = IF c.to.mine THEN In([page.chat EXCEPT !.streaming = FALSE]) ELSE page
        /\ OnlyPage

\* Mutant: only a balance that came frees the composer.
DeliverWallet_OnSuccess ==
    \E c \in Came("wallet") :
        /\ Take("wallet", c)
        /\ page' = IF Ok(c) THEN In([page.chat EXCEPT !.streaming = FALSE]) ELSE page
        /\ OnlyPage

DeliverWallet ==
    \E c \in Came("wallet") :
        /\ Take("wallet", c)
        /\ page' = In([page.chat EXCEPT !.streaming = FALSE])
        /\ OnlyPage

\* stopGeneration aborts the POST; once the balance is awaited it aborts nothing.
Stop ==
    /\ "stop" \in does /\ CanStop
    /\ \E c \in net["chat"] :
          /\ c.to.mine
          /\ net' = [net EXCEPT !["chat"] = (@ \ {c}) \cup
                (IF c.phase \in {"answered", "failed"} THEN {} ELSE {[c EXCEPT !.to.mine = FALSE]})]
          /\ server' = [server EXCEPT !.dropped = @ \cup {c.to.turn}]
    /\ page' = In([page.chat EXCEPT !.streaming = FALSE])
    /\ UNCHANGED <<lost, does>>

-----------------------------------------------------------------------------
(* The server                                                               *)

OnlyNet == UNCHANGED <<page, server, lost, does>>

ServeReads ==
    \/ \E c \in Asked("list") : Answer("list", c, server.exists) /\ OnlyNet
    \/ \E c \in Asked("wallet") : Answer("wallet", c, TRUE) /\ OnlyNet
    \/ \E c \in Asked("models") : (\E m \in Models : Answer("models", c, m)) /\ OnlyNet
    \/ \E c \in Asked("upload") : (Answer("upload", c, TRUE) \/ Refuse("upload", c)) /\ OnlyNet
    \/ \E c \in Asked("load") :
          /\ IF c.to \in server.exists THEN Answer("load", c, server.rows[c.to])
             ELSE Refuse("load", c)
          /\ OnlyNet

ServeDelete ==
    \E c \in Asked("delete") :
        /\ Answer("delete", c, TRUE)
        /\ server' = [server EXCEPT !.exists = @ \ {c.to}, !.rows[c.to] = <<>>]
        /\ UNCHANGED <<page, lost, does>>

\* Refused; or the conversation and the prompt are stored.
ServePrompt ==
    \E c \in Asked("chat") :
        LET conv == IF c.to.conv = Nobody THEN c.to.turn ELSE c.to.conv IN
        \/ /\ "refuse" \in does \/ c.to.conv \notin {Nobody} \cup server.exists
           /\ Refuse("chat", c) /\ OnlyNet
        \/ /\ c.to.conv \in {Nobody} \cup server.exists
           /\ server' = [server EXCEPT !.exists = @ \cup {conv},
                 !.rows[conv] = Append(@, [turn |-> c.to.turn, who |-> "user"])]
           /\ net' = [net EXCEPT !["chat"] = (@ \ {c}) \cup
                 {[to |-> c.to, phase |-> "opened", conv |-> conv]}]
           /\ UNCHANGED <<page, lost, does>>

\* Between two events of the model the server looks whether the client is gone;
\* after the last one it stores the answer and charges, whoever is there.  A model
\* that fails leaves the prompt, a spend that is refused the answer too.
ServeReply ==
    \E c \in net["chat"] :
        LET answer == [server EXCEPT !.rows[c.conv] = Append(@, [turn |-> c.to.turn, who |-> "assistant"])]
        IN
        /\ c.phase \in {"opened", "past"}
        /\ \/ /\ c.phase = "opened" /\ c.to.turn \in server.dropped
              /\ Take("chat", c) /\ UNCHANGED server
           \/ /\ c.phase = "opened" /\ c.to.turn \notin server.dropped
              /\ net' = [net EXCEPT !["chat"] = (@ \ {c}) \cup {[c EXCEPT !.phase = "past"]}]
              /\ UNCHANGED server
           \/ /\ c.phase = "opened" /\ "refuse" \in does
              /\ Refuse("chat", c) /\ UNCHANGED server
           \/ c.phase = "past" /\ Answer("chat", c, c.conv) /\ server' = answer
           \/ c.phase = "past" /\ "refuse" \in does /\ Refuse("chat", c) /\ server' = answer
        /\ UNCHANGED <<page, lost, does>>

Lose ==
    /\ "lose" \in does
    /\ \/ \E k \in {"list", "load", "chat", "wallet"} : \E c \in net[k] : Lost(k, c)
       \/ \E c \in net["chat"] :
             /\ c.phase \in {"opened", "past"} /\ lost < MaxLost
             /\ net' = [net EXCEPT !["chat"] = (@ \ {c}) \cup {[to |-> c.to, phase |-> "failed"]}]
             /\ lost' = lost + 1
    /\ UNCHANGED <<page, server, does>>

ChatServed == ServePrompt \/ ServeReply \/ \E c \in Asked("wallet") : Answer("wallet", c, TRUE) /\ OnlyNet
ChatHeard == DeliverChat \/ DeliverWallet

MobileChatNext ==
    \/ ServeReads \/ ServeDelete \/ ServePrompt \/ ServeReply \/ Lose
    \/ DeliverItems \/ DeliverDelete
    \/ DeliverModels \/ DeliverLoad \/ DeliverUpload \/ ChatHeard
    \/ Reload \/ AnswerDelete \/ Mounted \/ GoBack
    \/ OpenPicker \/ ClosePicker \/ TypeText \/ PickImage \/ RemoveAttachment
    \/ SendPrompt \/ Stop
    \/ \E id \in Turns : LongPress(id)
    \/ \E id \in {Nobody} \cup Turns : OpenChat(id)

MobileChatSpec == MobileChatInit /\ [][MobileChatNext]_mobileChatVars

MobileChatFairSpec ==
    MobileChatSpec /\ WF_mobileChatVars(ChatServed) /\ WF_mobileChatVars(ChatHeard)

-----------------------------------------------------------------------------
(* Properties                                                               *)

\* The messages a screen shows are in one conversation of the server, the one the
\* next prompt is sent to, or the screen shows a first prompt that is not answered:
\* nothing a call of another screen brought, and nothing of a thread the server
\* keeps as two, whatever was stopped, deleted, lost, or sent before the messages
\* had come.
ScreenIsOneConversation ==
    page.at = "chat" /\ ~page.hasty =>
        \A c \in server.exists :
            \A r \in ToSet(server.rows[c]) \cap ToSet(page.chat.messages) :
                \/ page.chat.conversationId = c
                \/ page.chat.conversationId = Nobody /\ r.who = "user"
=============================================================================
