------------------------------ MODULE WebClient ------------------------------
(***************************************************************************)
(* The pages of the web client, one in a behaviour: the live interview     *)
(* room over the session's lifecycle, the pages around an interview, chat, *)
(* practice, signing in, billing, connectors and the contests.  They share *)
(* the calls in flight and the losses of the network; a page that is not   *)
(* the behaviour's is idle.                                                *)
(***************************************************************************)
EXTENDS InterviewRoom, Sequences

CONSTANTS
    Grants, PackConfig, ShopPacks, MAX_POLL_ATTEMPTS, InterviewWorkloads,   \* of WebInterview
    Stored, MaxTurns, Mentions, Models, Locked, ChatWorkloads,              \* of WebChat
    Problems, PracticeWorkloads,                                            \* of WebPractice
    Sections, SessionWorkloads,                                             \* of WebSession
    CodePacks, MaxConfirms, MaxPrices, BillingWorkloads,                    \* of WebBilling
    Catalogue, PromptSteps, MaxPopups, ConnectorWorkloads,                  \* of WebConnectors
    Users, Hosts, MinSize, MaxSize, Cap, MaxTries, ContestInFlight, ContestWorkloads  \* of WebContest

VARIABLES which, page, server

webVars == <<vars, which, page, server>>

Idle == "idle"

\* The pages, the chat and the contest with the theorems about each.
Interview == INSTANCE WebInterview WITH Workloads <- InterviewWorkloads
Chat == INSTANCE WebChatProofs WITH Connectors <- Mentions, Workloads <- ChatWorkloads
Practice == INSTANCE WebPractice WITH Workloads <- PracticeWorkloads
Session == INSTANCE WebSession WITH Workloads <- SessionWorkloads
Billing == INSTANCE WebBilling WITH Workloads <- BillingWorkloads
Connectors == INSTANCE WebConnectors WITH Steps <- PromptSteps, Workloads <- ConnectorWorkloads
\* The pages of several contestants share the calls in flight.
Contest == INSTANCE ContestTeamsProofs WITH
    MaxInFlight <- ContestInFlight, Workloads <- ContestWorkloads

\* There is a pack to test with, of finitely many, and what packs offer is listed.
ASSUME PackAssumption ==
    /\ Grants # {} /\ IsFiniteSet(Grants)
    /\ \A g \in Grants : /\ PackConfig[g].topics \in Seq(Interview!Topics)
                          /\ PackConfig[g].levels \in Seq(Interview!Levels)
                          /\ PackConfig[g].behavioral \in BOOLEAN

\* The contestants and hosts are finitely many, and the team there is when a contest is
\* opened has a place left.
ASSUME ContestAssumption == Contest!Assumptions

\* The conversations there are when the chat is opened have their turns numbered.
ASSUME ChatAssumption == Chat!Assumptions

\* A problem of the editor comes in some language.
ASSUME ProblemAssumption ==
    \A p \in Practice!Ids : /\ Problems[p].languages \in Seq(Practice!AllLanguages)
                            /\ Practice!CodeView(p) => Problems[p].languages # <<>>

\* A discount code has a name and is for packs on sale, and the bounds are numbers.
ASSUME ShopAssumption ==
    /\ \A k \in Billing!Codes : k # Billing!None /\ CodePacks[k] \subseteq ShopPacks
    /\ MaxConfirms \in Nat /\ MaxPrices \in Nat \ {0}

-----------------------------------------------------------------------------
(* The client                                                               *)

RoomIdle == status = Idle /\ round = Idle /\ warnings = 0 /\ paused = FALSE /\ ui = Idle

WebInit ==
    \/ which = "room" /\ RoomInit /\ page = Idle /\ server = Idle
    \/ which = "interview" /\ Interview!InterviewInit /\ RoomIdle
    \/ which = "chat" /\ Chat!ChatInit /\ RoomIdle
    \/ which = "practice" /\ Practice!PracticeInit /\ server = Idle /\ RoomIdle
    \/ which = "session" /\ Session!SessionInit /\ RoomIdle
    \/ which = "billing" /\ Billing!BillingInit /\ RoomIdle
    \/ which = "connectors" /\ Connectors!ConnectorsInit /\ RoomIdle
    \/ which = "contest" /\ Contest!ContestInit /\ RoomIdle

OnRoom(A) == which = "room" /\ A /\ UNCHANGED <<which, page, server>>
OnPage(p, A) == which = p /\ A /\ UNCHANGED <<which, lifeVars, ui>>

WebNext ==
    \/ OnRoom(RoomNext)
    \/ OnPage("interview", Interview!InterviewNext)
    \/ OnPage("chat", Chat!ChatNext)
    \/ OnPage("practice", Practice!PracticeNext) /\ UNCHANGED server
    \/ OnPage("session", Session!SessionNext)
    \/ OnPage("billing", Billing!BillingNext)
    \/ OnPage("connectors", Connectors!ConnectorsNext)
    \/ OnPage("contest", Contest!ContestNext)

\* The fairness of each page's own specification.
WebFairness ==
    /\ \A c \in Slots["poll"] : WF_webVars(OnRoom(Serve(c))) /\ WF_webVars(OnRoom(DeliverPoll(c)))
    /\ WF_webVars(OnRoom(Poll)) /\ WF_webVars(OnRoom(ReportDue))
    /\ WF_webVars(OnPage("interview", Interview!ReportServed))
    /\ WF_webVars(OnPage("interview", Interview!DeliverReport))
    /\ WF_webVars(OnPage("interview", Interview!PollDue))
    /\ WF_webVars(OnPage("chat", Chat!StreamServed))
    /\ WF_webVars(OnPage("chat", Chat!StreamHeard))
    /\ WF_webVars(OnPage("session", Session!Deliver("work")))
    /\ WF_webVars(OnPage("session", Session!DeliverRefresh))
    /\ WF_webVars(OnPage("session", Session!Serve("work")))
    /\ WF_webVars(OnPage("session", Session!ServeRefresh))
    /\ WF_webVars(OnPage("billing", Billing!ConfirmAnswered))
    /\ WF_webVars(OnPage("billing", Billing!ConfirmHeard))
    /\ WF_webVars(OnPage("billing", Billing!StatusDue))
    /\ WF_webVars(OnPage("connectors", Connectors!ConnectServed))
    /\ WF_webVars(OnPage("connectors", Connectors!ConnectHeard))
    /\ WF_webVars(OnPage("connectors", Connectors!PollTick))

WebSpec == WebInit /\ [][WebNext]_webVars /\ WebFairness

-----------------------------------------------------------------------------
(* Properties: those of the pages, one question each                        *)

\* Every page's state is of its type.
WebTypeOK ==
    /\ which = "room" => RoomTypeOK
    /\ which = "interview" => Interview!InterviewTypeOK
    /\ which = "chat" => Chat!ChatTypeOK
    /\ which = "practice" => Practice!PracticeTypeOK
    /\ which = "session" => Session!SessionTypeOK
    /\ which = "billing" => Billing!BillingTypeOK
    /\ which = "connectors" => Connectors!ConnectorsTypeOK
    /\ which = "contest" => Contest!ContestTypeOK

\* What must not be sent twice is not: one turn of an interview, one streamed answer,
\* one submission that is charged, one refresh of the tokens, one run of a prompt, one
\* question to the organisers.
OneAtATime ==
    /\ which = "room" => OneTurnAtATime
    /\ which = "chat" => Chat!OneStream
    /\ which = "practice" => Practice!OneSubmission
    /\ which = "session" => Session!WaitersAreServed
    /\ which = "connectors" => Connectors!OneRun
    /\ which = "contest" => Contest!OneRequest

\* The camera and the microphone are off once the page that took them is done with
\* them: the room when the interview stopped, the setup when it was left.
MediaReleased ==
    /\ which = "room" => CameraOffAfterStop
    /\ which = "interview" => Interview!SetupMediaReleased

\* While the server has the interview paused, the candidate sees why.
PausedInterviewIsShown == which = "room" => PausedIsShown

\* What is asked of the server fits together, whatever was chosen before it: a
\* session and its pack, a solution and its problem, a discount code and its pack; and
\* the connector the keyboard picks in the chat is one of those listed.
RequestsFit ==
    /\ which = "interview" => Interview!BodyWithinPack
    /\ which = "practice" => Practice!SolutionFitsProblem
    /\ which = "billing" => Billing!CodeFitsPack
    /\ which = "chat" => Chat!MentionIndexIsValid

\* What the page shows is what the server keeps: the thread of a conversation, the
\* team of a contestant.
ShownIsStored ==
    /\ which = "chat" => Chat!ShownIsStored
    /\ which = "contest" => Contest!TeamIsStored

\* However many join the teams of a contest at once, each team comes to have no more
\* members than it may.
TeamsFit == which = "contest" => Contest!TeamsFit

\* The room notices that the session it shows as running has ended, and goes on from one
\* it shows as complete to the report.  Nothing is polled under the warning dialog; and a
\* room that was told of the end by the answer to a start or an acknowledgement, which
\* store the status and look no further, sees no change in the poll for ever.
Deaf == ui.seen \in Terminal /\ ~ui.stopped
RoomWaits ==
    /\ which = "room" /\ ui.page = "room"
    /\ \/ status \in Terminal /\ ~ui.stopped /\ ~ui.ack /\ ~Deaf
       \/ ui.completed
RoomSettles == RoomWaits ~> ~RoomWaits

\* No page waits for ever: for a report that is being written, for an answer that
\* streams, for a call that is refused with every token, for a payment to be confirmed, for a
\* provider's popup that is gone (while apps are connected one at a time).
ReportWaits ==
    which = "interview" /\ page.at = "report" /\ page.report.status = "pending" /\ ~page.report.retried
AnswerStreams == which = "chat" /\ page.streaming
WorkWaits ==
    which = "session" /\ \/ \E c \in net["call"] : c.to.id = "work"
                         \/ \E r \in page.waiting : r.id = "work"
PaymentWaits == which = "billing" /\ page.at = "confirm" /\ page.status = "checking"
ConnectWaits ==
    /\ which = "connectors" /\ page.connecting # Connectors!None
    /\ page.popup \notin Connectors!Request /\ ~page.crossed
Waits == ReportWaits \/ AnswerStreams \/ WorkWaits \/ PaymentWaits \/ ConnectWaits
PagesSettle == Waits ~> ~Waits
=============================================================================
