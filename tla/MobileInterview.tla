-------------------------- MODULE MobileInterview --------------------------
(***************************************************************************)
(* The mock interview of the mobile app, from the overview to the report:  *)
(* the InterviewStack of navigation/RootNavigator.js with                  *)
(* InterviewHomeScreen, InterviewSetupScreen, InterviewSystemCheckScreen,  *)
(* MobileRoom's session screen and InterviewReportScreen.                  *)
(*                                                                         *)
(* A screen stays mounted, with its state, under the screens pushed over   *)
(* it; a screen that is not on the stack is in its first state.  One       *)
(* session is followed: status is "none" until it is created.              *)
(***************************************************************************)
EXTENDS MobileRoom

CONSTANTS
    Grants,      \* grants the candidate owns or may buy
    PackConfig,  \* the config of each: topics, levels (a sequence), subs of a topic, behavioral
    MaxLeft      \* bound: sessions bought

VARIABLES
    home, setup, check, report,   \* the states of the other screens
    calls,       \* their calls
    shop,        \* the server's side of a purchase
    perms,       \* what the operating system lets the app use
    left,        \* interview sessions remaining
    ready        \* final_report_id is set

flowVars == <<home, setup, check, report, calls, shop, perms, left, ready>>
mobileVars == <<lifeVars, stack, room, net, lost, does, flowVars>>

None == "none"
Topics == UNION {PackConfig[g].topics : g \in Grants}
Levels == UNION {{PackConfig[g].levels[i] : i \in 1 .. Len(PackConfig[g].levels)} : g \in Grants}
Subs == UNION {UNION {PackConfig[g].subs[t] : t \in PackConfig[g].topics} : g \in Grants}

ASSUME PackAssumption ==
    /\ \A g \in Grants : PackConfig[g].levels \in Seq(Levels) /\ PackConfig[g].behavioral \in BOOLEAN
    /\ IsFiniteSet(Grants) /\ MaxLeft \in Nat \ {0}

FirstLevel(g) == IF PackConfig[g].levels = <<>> THEN None ELSE Head(PackConfig[g].levels)

\* What createSession is asked for.
Choice == [grant: Grants \cup {None}, topic: Topics \cup {None}, level: Levels \cup {None},
           sub: Subs \cup {None}, behavioral: BOOLEAN]
NoChoice == [grant |-> None, topic |-> None, level |-> None, sub |-> None, behavioral |-> TRUE]

FlowKinds == {"entitlement", "sessions", "packs", "order", "link", "grants", "profile",
              "upload", "create", "report1", "report2"}

FlowCall == [phase: {"free", "sent", "answered", "refused", "failed"}, mine: BOOLEAN,
             choice: Choice, left: 0 .. MaxLeft,
             status: {"none"} \cup ACTIVE_STATUSES \cup Terminal, ready: BOOLEAN,
             code: {"none", "paid", "cancelled"}]
NoCall == [phase |-> "free", mine |-> TRUE, choice |-> NoChoice, left |-> 0,
           status |-> "none", ready |-> FALSE, code |-> "none"]

HomeState == [asked: BOOLEAN, loading: BOOLEAN, seen: {"none"} \cup ACTIVE_STATUSES \cup Terminal,
              ready: BOOLEAN, entitlement: {-1} \cup 0 .. MaxLeft, packs: BOOLEAN,
              buying: BOOLEAN, browser: BOOLEAN]
HomeFirst == [asked |-> FALSE, loading |-> TRUE, seen |-> "none", ready |-> FALSE,
              entitlement |-> -1, packs |-> FALSE, buying |-> FALSE, browser |-> FALSE]

SetupState == [asked: BOOLEAN, loading: BOOLEAN, grants: SUBSET Grants, choice: Choice,
               profileLoading: BOOLEAN, profile: BOOLEAN, useExisting: BOOLEAN,
               pasted: BOOLEAN, uploading: BOOLEAN, starting: BOOLEAN]
SetupFirst == [asked |-> FALSE, loading |-> TRUE, grants |-> {}, choice |-> NoChoice,
               profileLoading |-> TRUE, profile |-> FALSE, useExisting |-> TRUE,
               pasted |-> FALSE, uploading |-> FALSE, starting |-> FALSE]

STEPS == <<"intro_camera", "intro_mic", "live_check", "consent">>
Permission == {"undetermined", "granted", "denied"}
CheckState == [step: 1 .. Len(STEPS), micStatus: {None} \cup Permission, metering: BOOLEAN]
CheckFirst == [step |-> 1, micStatus |-> None, metering |-> FALSE]

ReportState == [loading: BOOLEAN, polling: BOOLEAN, status: {"none", "pending", "ready"},
                overtaken: BOOLEAN]   \* history: an older answer came after the report
ReportFirst == [loading |-> TRUE, polling |-> TRUE, status |-> "none", overtaken |-> FALSE]

Screens == {"home", "setup", "check", "room", "report"}

MobileTypeOK ==
    /\ LifeTypeOK
    /\ stack \in Seq(Screens) /\ stack # <<>> /\ stack[1] = "home"
    /\ room \in Room /\ net \in [Calls -> Call]
    /\ lost \in 0 .. MaxLost /\ does \in Workloads
    /\ home \in HomeState /\ setup \in SetupState /\ check \in CheckState
    /\ report \in ReportState
    /\ calls \in [FlowKinds -> FlowCall]
    /\ shop \in {"none", "open", "paid", "credited", "cancelled"}
    /\ perms \in [{"camera", "mic"} -> Permission]
    /\ left \in 0 .. MaxLeft /\ ready \in BOOLEAN

\* The candidate comes to begin an interview, or to one that was begun elsewhere
\* or before the app was restarted, with its last warning perhaps.
MobileInit ==
    /\ does \in Workloads
    /\ status \in IF "new" \in does THEN {"none"} ELSE ACTIVE_STATUSES \ {"behavioral_in_progress"}
    /\ round = "technical"
    /\ warnings = (IF "warned" \in does THEN WarningsBeforeTermination ELSE 0)
    /\ paused \in {FALSE, "warned" \in does}
    /\ stack = <<"home">> /\ room = Entered
    /\ net = [c \in Calls |-> Free] /\ lost = 0
    /\ home = HomeFirst /\ setup = SetupFirst /\ check = CheckFirst /\ report = ReportFirst
    /\ calls = [k \in FlowKinds |-> NoCall]
    /\ shop = "none" /\ ready = FALSE
    /\ perms \in [{"camera", "mic"} -> IF "permissions" \in does THEN Permission ELSE {"granted"}]
    /\ left = IF "new" \in does /\ "buy" \notin does THEN 1 ELSE 0

-----------------------------------------------------------------------------
(* Navigation                                                               *)

On(screen) == \E i \in 1 .. Len(stack) : stack[i] = screen
Pushed(screen) == Append(stack, screen)

\* Calls of these kinds, once the screen that made them is gone.
Abandoned(n, kinds) ==
    [k \in FlowKinds |-> IF k \in kinds /\ n[k].phase # "free" THEN [n[k] EXCEPT !.mine = FALSE]
                         ELSE n[k]]

SetupCalls == {"grants", "profile", "upload", "create"}
ReportCalls == {"report1", "report2"}

\* The top screen goes, with its state; its calls have nobody to answer.
Pop ==
    /\ stack' = SubSeq(stack, 1, Len(stack) - 1)
    /\ room' = IF Top = "room" THEN Entered ELSE room
    /\ net' = IF Top = "room" THEN Disowned(net) ELSE net
    /\ setup' = IF Top = "setup" THEN SetupFirst ELSE setup
    /\ check' = IF Top = "check" THEN CheckFirst ELSE check
    /\ report' = IF Top = "report" THEN ReportFirst ELSE report

\* The header's arrow, the gesture or the button of the phone.
Back ==
    /\ "back" \in does /\ Len(stack) > 1 /\ ~room.asking
    /\ Pop
    /\ calls' = Abandoned(calls, IF Top = "setup" THEN SetupCalls
                                 ELSE IF Top = "report" THEN ReportCalls ELSE {})
    /\ UNCHANGED <<lifeVars, lost, does, home, shop, perms, left, ready>>

-----------------------------------------------------------------------------
(* Calls of the screens                                                     *)

Fetch(kinds) ==
    /\ \A k \in kinds : calls[k].phase = "free"
    /\ calls' = [k \in FlowKinds |-> IF k \in kinds THEN [NoCall EXCEPT !.phase = "sent"] ELSE calls[k]]

Settled(k) == calls[k].phase \in {"answered", "refused", "failed"}
Took(k) == calls' = [calls EXCEPT ![k] = NoCall]

OnlyScreen == UNCHANGED <<lifeVars, stack, room, net, lost, does, shop, perms, left, ready>>
OnlyHome == OnlyScreen /\ UNCHANGED <<setup, check, report>>
OnlySetup == OnlyScreen /\ UNCHANGED <<home, check, report>>

-----------------------------------------------------------------------------
(* InterviewHomeScreen                                                      *)

HomeShown == Top = "home" /\ ~home.loading /\ ~home.browser
ActiveSession == home.seen \in ACTIVE_STATUSES
CanStartNew == HomeShown /\ ~ActiveSession /\ home.entitlement # 0
CanResume == HomeShown /\ ActiveSession
CanBuy == HomeShown /\ home.packs /\ ~home.buying
CanOpenReport == HomeShown /\ home.ready

HomeLoadKinds == {"entitlement", "sessions", "packs"}

\* On mount: the three requests go out together.
HomeLoad ==
    /\ ~home.asked
    /\ home' = [home EXCEPT !.asked = TRUE, !.loading = TRUE]
    /\ Fetch(HomeLoadKinds) /\ OnlyHome

\* Promise.allSettled: what was fulfilled is taken, what failed keeps its old value.
DeliverHome ==
    /\ home.asked /\ \A k \in HomeLoadKinds : Settled(k)
    /\ home' = [home EXCEPT
                  !.loading = FALSE,
                  !.entitlement = IF calls["entitlement"].phase = "answered"
                                  THEN calls["entitlement"].left ELSE @,
                  !.seen = IF calls["sessions"].phase = "answered"
                           THEN calls["sessions"].status ELSE @,
                  !.ready = IF calls["sessions"].phase = "answered"
                            THEN calls["sessions"].ready ELSE @,
                  !.packs = @ \/ calls["packs"].phase = "answered"]
    /\ calls' = [k \in FlowKinds |-> IF k \in HomeLoadKinds THEN NoCall ELSE calls[k]]
    /\ OnlyHome

Pushes(screen) ==
    /\ stack' = Pushed(screen)
    /\ UNCHANGED <<lifeVars, room, net, lost, does, flowVars>>

StartNew == CanStartNew /\ Pushes("setup")
ResumeSession == CanResume /\ Pushes("room")
OpenReport == CanOpenReport /\ Pushes("report")

BuyPack ==
    /\ "buy" \in does /\ CanBuy
    /\ home' = [home EXCEPT !.buying = TRUE]
    /\ Fetch({"order"}) /\ OnlyHome

\* The hosted page covers the app; no URL, or a failure, ends the purchase.
DeliverOrder ==
    /\ Settled("order") /\ Took("order")
    /\ home' = IF calls["order"].phase = "answered" THEN [home EXCEPT !.browser = TRUE]
               ELSE [home EXCEPT !.buying = FALSE]
    /\ OnlyHome

\* Only a page that was dismissed or cancelled is followed by a look at the link.
BrowserClosed ==
    /\ home.browser
    /\ \/ /\ home' = [home EXCEPT !.browser = FALSE] /\ Fetch({"link"})
       \/ /\ home' = [home EXCEPT !.browser = FALSE, !.buying = FALSE]
          /\ UNCHANGED calls
    /\ OnlyHome

\* "paid" loads the screen again; load is not awaited, so buying ends at once.
DeliverLink ==
    /\ Settled("link")
    /\ LET paid == calls["link"].phase = "answered" /\ calls["link"].code = "paid" IN
       /\ home' = [home EXCEPT !.buying = FALSE, !.loading = @ \/ paid]
       /\ calls' = [k \in FlowKinds |-> IF k = "link" THEN NoCall
                       ELSE IF paid /\ k \in HomeLoadKinds THEN [NoCall EXCEPT !.phase = "sent"]
                       ELSE calls[k]]
    /\ OnlyHome

-----------------------------------------------------------------------------
(* InterviewSetupScreen                                                     *)

SetupShown == Top = "setup" /\ ~setup.loading
PickerShown == SetupShown /\ setup.grants # {} /\ setup.choice.grant = None
FormShown == SetupShown /\ setup.grants # {} /\ setup.choice.grant # None
CanChangePack == FormShown /\ Cardinality(setup.grants) > 1
AvailableTopics == PackConfig[setup.choice.grant].topics
SubTopicOptions == IF setup.choice.topic \notin AvailableTopics THEN {}
                   ELSE PackConfig[setup.choice.grant].subs[setup.choice.topic]
CanIncludeBehavioral == PackConfig[setup.choice.grant].behavioral
CanUpload == FormShown /\ ~setup.profileLoading /\ ~setup.uploading
CanSaveText == CanUpload /\ ~setup.profile /\ setup.pasted
CanContinue == FormShown /\ setup.choice.topic \notin {None, "dsa"} /\ ~setup.starting

\* Mutant: the topic of the other pack is kept.
SelectGrant_KeepsTopic(g) ==
    [setup.choice EXCEPT !.grant = g, !.level = FirstLevel(g),
                         !.behavioral = PackConfig[g].behavioral]

\* Everything that depends on the pack starts again.
SelectGrant(g) ==
    [NoChoice EXCEPT !.grant = g, !.level = FirstLevel(g), !.behavioral = PackConfig[g].behavioral]

SetupLoad ==
    /\ Top = "setup" /\ ~setup.asked
    /\ setup' = [setup EXCEPT !.asked = TRUE]
    /\ Fetch({"grants", "profile"}) /\ OnlySetup

\* A single grant is selected for the candidate.  The entitlement is kept in the
\* store, which the overview shows.
DeliverGrants ==
    /\ Settled("grants") /\ Took("grants")
    /\ LET here == calls["grants"].mine
           ok == calls["grants"].phase = "answered"
       IN  /\ home' = [home EXCEPT !.entitlement = IF ok THEN calls["grants"].left ELSE @]
           /\ setup' = IF ~here THEN setup
                       ELSE IF ~ok THEN [setup EXCEPT !.loading = FALSE]
                       ELSE IF Cardinality(Grants) = 1
                            THEN [setup EXCEPT !.loading = FALSE, !.grants = Grants,
                                               !.choice = SelectGrant(CHOOSE g \in Grants : TRUE)]
                            ELSE [setup EXCEPT !.loading = FALSE, !.grants = Grants]
    /\ OnlyScreen /\ UNCHANGED <<check, report>>

DeliverProfile ==
    /\ Settled("profile") /\ Took("profile")
    /\ setup' = IF ~calls["profile"].mine THEN setup
                ELSE IF calls["profile"].phase = "answered"
                THEN [setup EXCEPT !.profileLoading = FALSE, !.profile = calls["profile"].ready,
                                   !.useExisting = calls["profile"].ready]
                ELSE [setup EXCEPT !.profileLoading = FALSE]
    /\ OnlySetup

Picks(choice) ==
    /\ setup' = [setup EXCEPT !.choice = choice]
    /\ UNCHANGED calls /\ OnlySetup

PickGrant(g) == PickerShown /\ g \in setup.grants /\ Picks(SelectGrant(g))
ChangePack == CanChangePack /\ Picks([setup.choice EXCEPT !.grant = None])
PickTopic(t) ==
    /\ FormShown /\ t \in AvailableTopics
    /\ Picks([setup.choice EXCEPT !.topic = t, !.sub = None])
PickSubTopic(s) ==
    /\ FormShown /\ s \in SubTopicOptions
    /\ Picks([setup.choice EXCEPT !.sub = IF @ = s THEN None ELSE s])
PickLevel(l) ==
    /\ FormShown /\ \E i \in 1 .. Len(PackConfig[setup.choice.grant].levels) :
                        PackConfig[setup.choice.grant].levels[i] = l
    /\ Picks([setup.choice EXCEPT !.level = l])
SwitchBehavioral ==
    /\ FormShown /\ CanIncludeBehavioral
    /\ Picks([setup.choice EXCEPT !.behavioral = ~@])

ToggleUseExisting ==
    /\ "resume" \in does /\ FormShown /\ setup.profile
    /\ setup' = [setup EXCEPT !.useExisting = ~@]
    /\ UNCHANGED calls /\ OnlySetup

PasteText ==
    /\ "resume" \in does /\ CanUpload /\ ~setup.profile
    /\ setup' = [setup EXCEPT !.pasted = ~@]
    /\ UNCHANGED calls /\ OnlySetup

\* A file that was picked, or the text that was pasted.
UploadResume ==
    /\ "resume" \in does /\ CanUpload
    /\ setup' = [setup EXCEPT !.uploading = TRUE]
    /\ Fetch({"upload"}) /\ OnlySetup

SavePastedText ==
    /\ "resume" \in does /\ CanSaveText
    /\ setup' = [setup EXCEPT !.uploading = TRUE]
    /\ Fetch({"upload"}) /\ OnlySetup

DeliverUpload ==
    /\ Settled("upload") /\ Took("upload")
    /\ setup' = IF ~calls["upload"].mine THEN setup
                ELSE IF calls["upload"].phase = "answered"
                THEN [setup EXCEPT !.uploading = FALSE, !.profile = TRUE, !.useExisting = TRUE,
                                   !.pasted = FALSE]
                ELSE [setup EXCEPT !.uploading = FALSE]
    /\ OnlySetup

\* A focus area or a behavioral round is only sent when the pack offers one.
Start ==
    /\ CanContinue /\ calls["create"].phase = "free"
    /\ setup' = [setup EXCEPT !.starting = TRUE]
    /\ calls' = [calls EXCEPT !["create"] =
                    [NoCall EXCEPT !.phase = "sent",
                        !.choice = [setup.choice EXCEPT
                            !.sub = IF SubTopicOptions = {} THEN None ELSE @,
                            !.behavioral = @ /\ CanIncludeBehavioral]]]
    /\ OnlySetup

\* A created session opens the system check; no sessions left, or one that is
\* active, goes back to the overview, which does not load again; any other
\* refusal stays.
DeliverCreate ==
    LET call == calls["create"] IN
    /\ Settled("create")
    /\ \/ /\ call.phase = "answered"
          /\ stack' = Pushed("check")
          /\ setup' = IF call.mine THEN [setup EXCEPT !.starting = FALSE] ELSE setup
          /\ Took("create") /\ UNCHANGED <<room, net, check, report>>
       \/ /\ call.phase = "refused" /\ call.mine /\ Top = "setup"
          /\ Pop
          /\ calls' = Abandoned([calls EXCEPT !["create"] = NoCall], SetupCalls)
       \/ /\ call.phase = "failed" \/ (call.phase = "refused" /\ ~call.mine)
          /\ setup' = IF call.mine THEN [setup EXCEPT !.starting = FALSE] ELSE setup
          /\ Took("create") /\ UNCHANGED <<stack, room, net, check, report>>
    /\ UNCHANGED <<lifeVars, lost, does, home, shop, perms, left, ready>>

-----------------------------------------------------------------------------
(* InterviewSystemCheckScreen                                               *)

Step == STEPS[check.step]
GoNext(s) == [s EXCEPT !.step = IF @ < Len(STEPS) THEN @ + 1 ELSE @]

\* What a step offers: to go on, to ask for the permission, or the settings.
CameraDenied == perms["camera"] = "denied"
MicDenied == check.micStatus = "denied"
ContinueAsks ==
    \/ Step = "intro_camera" /\ perms["camera"] = "undetermined"
    \/ Step = "intro_mic" /\ check.micStatus \in {None, "undetermined"}
ContinueGoes ==
    \/ Step = "intro_camera" /\ perms["camera"] = "granted"
    \/ Step = "intro_mic" /\ check.micStatus = "granted"
    \/ Step = "live_check"
SettingsOffered ==
    \/ Step = "intro_camera" /\ CameraDenied
    \/ Step = "intro_mic" /\ MicDenied

OnlyCheck == UNCHANGED <<lifeVars, stack, room, net, lost, does, home, setup, report, calls,
                         shop, left, ready>>

\* On mount, what was allowed before is asked of the system.
MicPermissionRead ==
    /\ Top = "check" /\ check.micStatus = None
    /\ check' = [check EXCEPT !.micStatus = perms["mic"]]
    /\ UNCHANGED perms /\ OnlyCheck

CheckContinue ==
    /\ Top = "check" /\ ContinueGoes
    /\ check' = [GoNext(check) EXCEPT !.metering = FALSE]
    /\ UNCHANGED perms /\ OnlyCheck

\* The system asks the candidate, unless it was told before; a step goes on only
\* with a permission.
AskPermission ==
    /\ Top = "check" /\ ContinueAsks
    /\ LET device == IF Step = "intro_camera" THEN "camera" ELSE "mic" IN
       \E answer \in IF perms[device] = "undetermined" THEN Permission ELSE {perms[device]} :
          LET s == IF device = "mic" THEN [check EXCEPT !.micStatus = answer] ELSE check IN
          /\ perms' = [perms EXCEPT ![device] = answer]
          /\ check' = IF answer = "granted" THEN GoNext(s) ELSE s
    /\ OnlyCheck

\* The settings of the phone may grant what was denied.
OpenSettings ==
    /\ Top = "check" /\ SettingsOffered
    /\ perms' = [perms EXCEPT ![IF Step = "intro_camera" THEN "camera" ELSE "mic"] = "granted"]
    /\ UNCHANGED check /\ OnlyCheck

\* The level meter records while the live check is shown.
MicCheck ==
    /\ Top = "check" /\ Step = "live_check" /\ ~check.metering /\ check.micStatus = "granted"
    /\ check' = [check EXCEPT !.metering = TRUE]
    /\ UNCHANGED perms /\ OnlyCheck

StartInterview ==
    /\ Top = "check" /\ Step = "consent"
    /\ stack' = Replace("room") /\ check' = CheckFirst
    /\ UNCHANGED <<lifeVars, room, net, lost, does, home, setup, report, calls, shop, perms,
                   left, ready>>

-----------------------------------------------------------------------------
(* InterviewReportScreen                                                    *)

\* At once and every five seconds, whatever is still in flight.
ReportPoll ==
    /\ Top = "report" /\ report.polling
    /\ \E k \in ReportCalls :
          /\ k = "report2" => calls["report1"].phase # "free" /\ "slow" \in does
          /\ Fetch({k})
    /\ OnlyScreen /\ UNCHANGED <<home, setup, check, report>>

\* The newest answer is shown, not the answer to the newest question; only a
\* report ends the polling.
DeliverReport(k) ==
    /\ Settled(k) /\ Took(k)
    /\ report' = IF ~calls[k].mine THEN report
                 ELSE IF calls[k].phase # "answered" THEN [report EXCEPT !.loading = FALSE]
                 ELSE IF calls[k].ready
                 THEN [report EXCEPT !.loading = FALSE, !.status = "ready", !.polling = FALSE]
                 ELSE [report EXCEPT !.loading = FALSE, !.status = "pending",
                                     !.overtaken = @ \/ report.status = "ready"]
    /\ OnlyScreen /\ UNCHANGED <<home, setup, check>>

-----------------------------------------------------------------------------
(* The server                                                               *)

FlowAnswer(k, call) ==
    /\ calls[k].phase = "sent"
    /\ calls' = [calls EXCEPT ![k] = [call EXCEPT !.phase = "answered"]]
    /\ UNCHANGED <<stack, room, net, lost, does, home, setup, check, report, perms>>

ServeRead ==
    /\ \/ \E k \in {"entitlement", "grants"} : FlowAnswer(k, [calls[k] EXCEPT !.left = left])
       \/ FlowAnswer("sessions", [calls["sessions"] EXCEPT !.status = status, !.ready = ready])
       \/ FlowAnswer("packs", calls["packs"])
       \/ \E saved \in BOOLEAN :
             /\ "resume" \in does \/ ~saved
             /\ FlowAnswer("profile", [calls["profile"] EXCEPT !.ready = saved])
       \/ FlowAnswer("upload", calls["upload"])
       \/ \E k \in ReportCalls : FlowAnswer(k, [calls[k] EXCEPT !.ready = ready])
    /\ UNCHANGED <<lifeVars, shop, left, ready>>

\* One active session at a time, paid for with one of those that remain.
ServeCreate ==
    \/ /\ ~Active /\ left > 0 /\ Created
       /\ FlowAnswer("create", calls["create"])
       /\ left' = left - 1 /\ UNCHANGED <<shop, ready>>
    \/ /\ calls["create"].phase = "sent" /\ (Active \/ left = 0)
       /\ calls' = [calls EXCEPT !["create"].phase = "refused"]
       /\ UNCHANGED <<lifeVars, stack, room, net, lost, does, home, setup, check, report,
                      perms, shop, left, ready>>

ServeOrder ==
    /\ shop' = "open" /\ FlowAnswer("order", calls["order"])
    /\ UNCHANGED <<lifeVars, left, ready>>

\* The candidate pays in the browser, or cancels there.
PayOrCancel ==
    /\ home.browser /\ shop = "open" /\ left < MaxLeft
    /\ shop' \in {"paid", "cancelled"}
    /\ UNCHANGED <<lifeVars, stack, room, net, lost, does, home, setup, check, report, calls,
                   perms, left, ready>>

\* The status of a paid link credits it if the webhook has not.
ServeLink ==
    /\ FlowAnswer("link", [calls["link"] EXCEPT
           !.code = IF shop \in {"paid", "credited"} THEN "paid"
                    ELSE IF shop = "cancelled" THEN "cancelled" ELSE "none"])
    /\ shop' = (IF shop = "paid" THEN "credited" ELSE shop)
    /\ left' = (IF shop = "paid" THEN left + 1 ELSE left)
    /\ UNCHANGED <<lifeVars, ready>>

Webhook ==
    /\ shop = "paid" /\ shop' = "credited" /\ left' = left + 1
    /\ UNCHANGED <<lifeVars, stack, room, net, lost, does, home, setup, check, report, calls,
                   perms, ready>>

\* The report of a session that ended is written some time later.
ReportWritten ==
    /\ status \in Terminal /\ ~ready /\ ready' = TRUE
    /\ UNCHANGED <<lifeVars, stack, room, net, lost, does, home, setup, check, report, calls,
                   shop, perms, left>>

FlowLose(k) ==
    /\ "lose" \in does /\ calls[k].phase \in {"sent", "answered"} /\ lost < MaxLost
    /\ calls' = [calls EXCEPT ![k].phase = "failed"]
    /\ lost' = lost + 1
    /\ UNCHANGED <<lifeVars, stack, room, net, does, home, setup, check, report, shop, perms,
                   left, ready>>

-----------------------------------------------------------------------------
Home == HomeLoad \/ DeliverHome \/ StartNew \/ ResumeSession \/ OpenReport \/ BuyPack
        \/ DeliverOrder \/ BrowserClosed \/ DeliverLink

Setup ==
    \/ SetupLoad \/ DeliverGrants \/ DeliverProfile
    \/ \E g \in Grants : PickGrant(g)
    \/ ChangePack
    \/ \E t \in Topics : PickTopic(t)
    \/ \E s \in Subs : PickSubTopic(s)
    \/ \E l \in Levels : PickLevel(l)
    \/ SwitchBehavioral \/ ToggleUseExisting \/ PasteText \/ UploadResume \/ SavePastedText
    \/ DeliverUpload \/ Start \/ DeliverCreate

SystemCheck == MicPermissionRead \/ CheckContinue \/ AskPermission \/ OpenSettings \/ MicCheck
               \/ StartInterview

ReportScreen == ReportPoll \/ \E k \in ReportCalls : DeliverReport(k)

FlowServer == ServeRead \/ ServeCreate \/ ServeOrder \/ PayOrCancel \/ ServeLink \/ Webhook
              \/ ReportWritten \/ \E k \in FlowKinds : FlowLose(k)

MobileNext ==
    \/ Home \/ Setup \/ SystemCheck \/ ReportScreen \/ FlowServer \/ Back
    \/ RoomStep /\ UNCHANGED flowVars

\* The intervals of the polls fire, the server answers them and the end of an
\* interview.  Nothing is asked of the candidate.
MobileFairness ==
    /\ WF_mobileVars(RoomPoll /\ UNCHANGED flowVars)
    /\ \A c \in Slots["poll"] \cup Slots["end"] :
          /\ WF_mobileVars(ServeRoom(c) /\ UNCHANGED flowVars)
          /\ WF_mobileVars(DeliverRoom(c) /\ UNCHANGED flowVars)
    /\ WF_mobileVars(ReportPoll)
    /\ WF_mobileVars(ServeRead)
    /\ \A k \in ReportCalls : WF_mobileVars(DeliverReport(k))

MobileSpec == MobileInit /\ [][MobileNext]_mobileVars
MobileFairSpec == MobileSpec /\ MobileFairness

-----------------------------------------------------------------------------
(* Properties                                                               *)

\* Whatever packs and topics were tried before, and however slowly they loaded, a
\* session is asked for with a topic, a level and a focus area of the pack it is
\* paid with (InterviewSetupScreen.selectGrant and start).
AskedWithinPack ==
    calls["create"].phase # "free" =>
        LET asked == calls["create"].choice
            pack == PackConfig[asked.grant]
        IN  /\ asked.topic \in pack.topics
            /\ asked.level \in {None} \cup {pack.levels[i] : i \in 1 .. Len(pack.levels)}
            /\ asked.sub \in {None} \cup pack.subs[asked.topic]
            /\ asked.behavioral => pack.behavioral

\* A room that will take no more answers and hear no more polls (endedRef) says so,
\* or has the call in flight that takes it to the report.
EndedRoomIsLeft ==
    InRoom /\ room.ended =>
        room.terminated \/ \E c \in InFlight("end") : net[c].mine

\* Two answers are never in flight at once, unless a recording that was being
\* stopped went out over a typed one.
OneAnswerAtATime ==
    ~room.crossed => Cardinality({c \in InFlight("turn") : net[c].mine}) <= 1
=============================================================================
