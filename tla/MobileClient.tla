----------------------------- MODULE MobileClient -----------------------------
(***************************************************************************)
(* The screens of the mobile app, a stack in a behaviour: the interview    *)
(* from its overview to its report over the session's lifecycle, the chat, *)
(* the session of the app with its drawer, and billing.  They share the    *)
(* calls in flight and the losses of the network; a stack that is not the  *)
(* behaviour's is idle.                                                    *)
(***************************************************************************)
EXTENDS MobileInterview

CONSTANTS
    Stored, MaxTurns, Models, ChatWorkloads,      \* of MobileChat
    Providers, MaxTokens, SessionWorkloads,       \* of MobileSession
    Users, ShopPacks, MaxPurchases, MaxSignOuts, BillingWorkloads   \* of MobileBilling

\* Tokens can be given, and the conversation that is stored has its turns numbered.
ASSUME AppAssumption ==
    /\ MaxTokens \in Nat \ {0} /\ MaxTurns \in Nat
    /\ \E n \in 0 .. MaxTurns : Stored = 1 .. n

VARIABLES which, page, server

appVars == <<mobileVars, which, page, server>>

Idle == "idle"

\* The stacks, the first two with the theorems about each.
Chat == INSTANCE MobileChatProofs WITH Workloads <- ChatWorkloads
Session == INSTANCE MobileSessionProofs WITH Workloads <- SessionWorkloads
Billing == INSTANCE MobileBilling WITH Workloads <- BillingWorkloads, store <- server

\* Purchases and changes of user are counted, and no user is the lack of one.
ASSUME BillingAssumption ==
    MaxPurchases \in Nat /\ MaxSignOuts \in Nat /\ Billing!None \notin Users

-----------------------------------------------------------------------------
(* The app                                                                  *)

InterviewIdle ==
    /\ status = Idle /\ round = Idle /\ warnings = 0 /\ paused = FALSE
    /\ stack = <<Idle>> /\ room = Idle /\ home = Idle /\ setup = Idle /\ check = Idle
    /\ report = Idle /\ calls = Idle /\ shop = Idle /\ perms = Idle /\ left = 0 /\ ready = FALSE

AppInit ==
    \/ which = "interview" /\ MobileInit /\ page = Idle /\ server = Idle
    \/ which = "chat" /\ Chat!MobileChatInit /\ InterviewIdle
    \/ which = "session" /\ Session!AppInit /\ InterviewIdle
    \/ which = "billing" /\ Billing!StoreInit /\ InterviewIdle

OnInterview(A) == which = "interview" /\ A /\ UNCHANGED <<which, page, server>>
OnPage(p, A) == which = p /\ A /\ UNCHANGED <<which, lifeVars, stack, room, flowVars>>

AppNext ==
    \/ OnInterview(MobileNext)
    \/ OnPage("chat", Chat!MobileChatNext)
    \/ OnPage("session", Session!AppNext)
    \/ OnPage("billing", Billing!StoreNext)

\* The fairness of each stack's own specification.
AppFairness ==
    /\ WF_appVars(OnInterview(RoomPoll /\ UNCHANGED flowVars))
    /\ \A c \in Slots["poll"] \cup Slots["end"] :
          /\ WF_appVars(OnInterview(ServeRoom(c) /\ UNCHANGED flowVars))
          /\ WF_appVars(OnInterview(DeliverRoom(c) /\ UNCHANGED flowVars))
    /\ WF_appVars(OnInterview(ReportPoll))
    /\ WF_appVars(OnInterview(ServeRead))
    /\ \A k \in ReportCalls : WF_appVars(OnInterview(DeliverReport(k)))
    /\ WF_appVars(OnPage("chat", Chat!ChatServed))
    /\ WF_appVars(OnPage("chat", Chat!ChatHeard))

AppSpec == AppInit /\ [][AppNext]_appVars /\ AppFairness

-----------------------------------------------------------------------------
(* Properties: those of the screens, one question each                      *)

\* Every stack's state is of its type.
AppTypesOK ==
    /\ which = "interview" => MobileTypeOK
    /\ which = "chat" => Chat!MobileChatTypeOK
    /\ which = "session" => Session!AppTypeOK
    /\ which = "billing" => Billing!StoreTypeOK

\* A session is asked for with a topic, a level and a focus area of its pack.
SessionFitsPack == which = "interview" => AskedWithinPack

\* A room that hears no more of the session says so, or is on its way to the report.
DeafRoomIsLeft == which = "interview" => EndedRoomIsLeft

\* Of what must not be sent twice, one is in flight: the answer of an interview, and
\* the refresh of the tokens, which all calls that were refused wait for.
OneAtATime ==
    /\ which = "interview" => OneAnswerAtATime
    /\ which = "session" => Session!RefreshIsShared

\* A chat screen shows one conversation of the server, the one it sends to.
ScreenIsOneConversation == which = "chat" => Chat!ScreenIsOneConversation

\* A purchase the store will not report again was recorded, and credited unless the handler
\* that recorded it has not come so far, or failed.
FinishedIsAccounted == which = "billing" => Billing!FinishedIsAccounted

\* The device holds the session of the app, but for a write still on its way, one that
\* failed or came late, and storage the app could not read.
StorageCatchesUp == which = "session" => Session!StorageCatchesUp

\* No screen waits for ever: a room for the end of a session that ended, a report
\* screen for a report that was written, a composer for the answer.
RoomWaits == which = "interview" /\ status \in Terminal /\ InRoom /\ ~room.terminated
ReportWaits ==
    which = "interview" /\ ready /\ Top = "report" /\ report.status # "ready" /\ ~report.overtaken
ComposerWaits == which = "chat" /\ page.chat.streaming
Waits == RoomWaits \/ ReportWaits \/ ComposerWaits
ScreensSettle == Waits ~> ~Waits
=============================================================================
