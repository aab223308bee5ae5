---------------------------- MODULE WebInterview ----------------------------
(***************************************************************************)
(* The pages of the web client around the live interview:                  *)
(* pages/interview/InterviewHome.jsx, InterviewSetup.jsx and               *)
(* InterviewReport.jsx.  Leaving a page unmounts it; InterviewRoom is the  *)
(* page a created or resumed session opens.                                *)
(*                                                                         *)
(* One session is followed.  The coding language and the minutes are       *)
(* chosen like the seniority, and are left out.                            *)
(***************************************************************************)
EXTENDS ClientCalls, Sequences, SequencesExt

CONSTANTS
    Grants,       \* entitlement grants the candidate may own
    PackConfig,   \* of each: topics and levels (sequences), subs of a topic, behavioral
    ShopPacks,    \* packs on sale
    MAX_POLL_ATTEMPTS,
    Workloads

VARIABLES page, server, does

interviewVars == <<page, server, net, lost, does>>

None == "none"
Kinds == {"home", "packs", "order", "entitlement", "profile", "save", "create", "history",
          "ping", "report", "evidence", "pdf"}
ACTIVE == "active"      \* any of ACTIVE_STATUSES

Topics == UNION {ToSet(PackConfig[g].topics) : g \in Grants}
Levels == UNION {ToSet(PackConfig[g].levels) : g \in Grants}
SubTopics == UNION {UNION {PackConfig[g].subs[t] : t \in ToSet(PackConfig[g].topics)} : g \in Grants}

\* What a session is created with.
Choice == [grant: Grants \cup {None}, topic: Topics \cup {None}, seniority: Levels \cup {None},
           subTopic: SubTopics \cup {None}, behavioral: BOOLEAN]
NoChoice == [grant |-> None, topic |-> None, seniority |-> None, subTopic |-> None,
             behavioral |-> TRUE]

Home == [loading: BOOLEAN, left: Nat, seen: {None, ACTIVE, "ended"}, hasReport: BOOLEAN,
         packs: BOOLEAN, buying: ShopPacks \cup {None}]
HomeFirst == [loading |-> TRUE, left |-> 0, seen |-> None, hasReport |-> FALSE,
              packs |-> FALSE, buying |-> None]

Devices == {"camera", "mic"}
Setup == [loaded: BOOLEAN, grants: SUBSET Grants, choice: Choice, step: Nat,
          profileLoading: BOOLEAN, profile: BOOLEAN, useUpload: BOOLEAN,
          material: {None, "file", "text"}, saving: BOOLEAN,
          instructionsAck: BOOLEAN, consentOpen: BOOLEAN, creating: BOOLEAN,
          offered: BOOLEAN]   \* the toast that resumes an active session
SetupFirst == [loaded |-> FALSE, grants |-> {}, choice |-> NoChoice, step |-> 1,
               profileLoading |-> TRUE, profile |-> FALSE, useUpload |-> FALSE,
               material |-> None, saving |-> FALSE, instructionsAck |-> FALSE,
               consentOpen |-> FALSE, creating |-> FALSE, offered |-> FALSE]

\* The camera and the microphone of the system check; they outlive the page.
Media == [asking: SUBSET {"here", "left"},     \* getUserMedia of the effect, cancelled or not
          stream: BOOLEAN, lit: SUBSET Devices, orphan: SUBSET Devices,
          switching: Devices \cup {None}, camError: BOOLEAN, micOk: BOOLEAN,
          netStatus: {"checking", "good", "slow", "down"},
          strayed: BOOLEAN]   \* history: the step was left while a device was being switched
MediaFirst == [asking |-> {}, stream |-> FALSE, lit |-> {}, orphan |-> {}, switching |-> None,
               camError |-> FALSE, micOk |-> FALSE, netStatus |-> "checking", strayed |-> FALSE]

Report == [status: {"pending", "ready", "no_data", "failed", "stalled", "error"},
           due: BOOLEAN,      \* the timer of the next attempt
           attempts: Nat, retried: BOOLEAN, downloading: BOOLEAN, clip: BOOLEAN]
ReportFirst == [status |-> "pending", due |-> FALSE, attempts |-> 1, retried |-> FALSE,
                downloading |-> FALSE, clip |-> FALSE]

Page == [at: {"home", "setup", "report", "room", "checkout"},
         home: Home, setup: Setup, media: Media, report: Report]

Server == [left: Nat, session: {None, ACTIVE, "ended"},
           report: {"pending", "ready", "no_data", "failed"}]

InterviewTypeOK ==
    /\ page \in Page /\ server \in Server /\ does \in Workloads
    /\ lost \in 0 .. MaxLost /\ DOMAIN net = Kinds
    /\ page.at # "home" => page.home = HomeFirst
    /\ page.at # "setup" => page.setup = SetupFirst
    /\ page.setup.step <= 5 /\ page.report.attempts <= MAX_POLL_ATTEMPTS

-----------------------------------------------------------------------------
(* Pages and their calls                                                    *)

Loading(kinds) == [k \in Kinds |-> IF k \in kinds THEN {Sent(None)} ELSE {}]
HomeCalls == {"home", "packs"}
SetupCalls == {"entitlement", "profile"}

Heard(c) == IF Ok(c) THEN c.ans ELSE "failed"

\* The page one goes to is mounted; what the other had in flight would find
\* nothing to change.  A session that is being created is created all the same.
Goes(p, at) ==
    /\ page' = [p EXCEPT !.at = at, !.home = HomeFirst, !.setup = SetupFirst,
                         !.report = ReportFirst]
    /\ net' = [Loading(IF at = "home" THEN HomeCalls ELSE IF at = "setup" THEN SetupCalls
                       ELSE IF at = "report" THEN {"report"} ELSE {})
               EXCEPT !["create"] = {c \in net["create"] : c.phase = "sent"}]

InterviewInit ==
    /\ does \in Workloads /\ lost = 0
    /\ \E at \in IF "report" \in does THEN {"report"} ELSE {"home"} :
          /\ page = [at |-> at, home |-> HomeFirst, setup |-> SetupFirst,
                     media |-> MediaFirst, report |-> ReportFirst]
          /\ net = Loading(IF at = "home" THEN HomeCalls ELSE {"report"})
    /\ server = [left |-> IF does \cap {"buy", "admin"} = {} THEN 1 ELSE 0,
                 session |-> IF "report" \in does THEN "ended"
                             ELSE IF "resume" \in does THEN ACTIVE ELSE None,
                 report |-> "pending"]

OnlyPage == UNCHANGED <<server, lost, does>>
InHome(h) == [page EXCEPT !.home = h]
InSetup(s) == [page EXCEPT !.setup = s]
InMedia(m) == [page EXCEPT !.media = m]
InReport(r) == [page EXCEPT !.report = r]
Stays(p) == page' = p /\ UNCHANGED net /\ OnlyPage

-----------------------------------------------------------------------------
(* InterviewHome                                                            *)

HomeShown == page.at = "home" /\ ~page.home.loading
Admin == "admin" \in does
CanStartNew == HomeShown /\ page.home.seen # ACTIVE /\ (Admin \/ page.home.left > 0)
CanResume == HomeShown /\ page.home.seen = ACTIVE
PaywallShown == HomeShown /\ page.home.left = 0 /\ page.home.packs

\* The entitlement and the sessions come together or not at all.
DeliverHome ==
    \E c \in Came("home") :
        /\ Take("home", c)
        /\ page' = InHome(IF Ok(c)
              THEN [page.home EXCEPT !.loading = FALSE, !.left = c.ans.left, !.seen = c.ans.session,
                                     !.hasReport = c.ans.report # "pending"]
              ELSE [page.home EXCEPT !.loading = FALSE])
        /\ OnlyPage

DeliverPacks ==
    \E c \in Came("packs") :
        /\ Take("packs", c)
        /\ page' = InHome([page.home EXCEPT !.packs = Ok(c)])
        /\ OnlyPage

StartNew == CanStartNew /\ Goes(page, "setup") /\ OnlyPage
Resume == CanResume /\ Goes(page, "room") /\ OnlyPage
\* A row of the history: an active session is resumed, an ended one shows its report.
OpenRow ==
    /\ HomeShown /\ page.home.seen # None
    /\ Goes(page, IF page.home.seen = "ended" /\ page.home.hasReport THEN "report" ELSE "room")
    /\ OnlyPage

\* Only the button of the pack that is being bought waits.
BuyRazorpay(p) ==
    /\ "buy" \in does /\ PaywallShown /\ page.home.buying # p /\ Ask("order", p)
    /\ page' = InHome([page.home EXCEPT !.buying = p])
    /\ OnlyPage

DeliverOrder ==
    \E c \in Came("order") :
        /\ IF Ok(c) THEN Goes(page, "checkout")
           ELSE Take("order", c) /\ page' = InHome([page.home EXCEPT !.buying = None])
        /\ OnlyPage

-----------------------------------------------------------------------------
(* InterviewSetup: the wizard                                               *)

SetupShown == page.at = "setup" /\ page.setup.loaded
Steps == IF Cardinality(page.setup.grants) > 1
         THEN <<"Pack", "Topic", "Resume", "System check", "Instructions">>
         ELSE <<"Topic", "Resume", "System check", "Instructions">>
StepName(s) == IF page.at = "setup" THEN Steps[s] ELSE None
At(name) == SetupShown /\ StepName(page.setup.step) = name /\ ~page.setup.consentOpen
First(s) == IF s = <<>> THEN None ELSE Head(s)
Config == PackConfig[page.setup.choice.grant]
SubTopicOptions(ch) == IF ch.grant = None \/ ch.topic = None \/ ch.topic \notin ToSet(PackConfig[ch.grant].topics)
                       THEN {} ELSE PackConfig[ch.grant].subs[ch.topic]
HasBehavioralOption == page.setup.choice.grant # None /\ Config.behavioral

\* Mutant: the topic of the pack before is kept.
SelectGrant_KeepsTopic(ch, g) ==
    LET cfg == PackConfig[g] IN
    [ch EXCEPT !.grant = g,
        !.topic = IF @ = None THEN First(cfg.topics) ELSE @,
        !.seniority = IF @ \in ToSet(cfg.levels) THEN @ ELSE First(cfg.levels),
        !.behavioral = cfg.behavioral, !.subTopic = None]

\* The effect of another pack: a choice it does not offer falls back to its first.
SelectGrant(ch, g) ==
    LET cfg == PackConfig[g] IN
    [ch EXCEPT !.grant = g,
        !.topic = IF @ \in ToSet(cfg.topics) THEN @ ELSE First(cfg.topics),
        !.seniority = IF @ \in ToSet(cfg.levels) THEN @ ELSE First(cfg.levels),
        !.behavioral = cfg.behavioral, !.subTopic = None]

\* The effect of another topic.
SelectTopic(ch, t) ==
    LET next == [ch EXCEPT !.topic = t]
    IN  [next EXCEPT !.subTopic = IF @ \in SubTopicOptions(next) THEN @ ELSE None]

\* No grant at all leads back to the paywall, except for an admin, who tests with
\* the bounds of a grant of their own.
DeliverEntitlement ==
    \E c \in Came("entitlement") :
        LET listed == IF Ok(c) THEN c.ans ELSE {}
            owned  == IF listed = {} /\ Ok(c) /\ Admin THEN {CHOOSE g \in Grants : TRUE} ELSE listed
            s      == [page.setup EXCEPT !.loaded = TRUE, !.grants = owned]
        IN  /\ IF owned = {} THEN Goes(page, "home")
               ELSE /\ Take("entitlement", c)
                    /\ page' = InSetup(IF Cardinality(owned) = 1
                                       THEN [s EXCEPT !.choice = SelectGrant(@, CHOOSE g \in owned : TRUE)]
                                       ELSE s)
            /\ OnlyPage

DeliverProfile ==
    \E c \in Came("profile") :
        /\ Take("profile", c)
        /\ page' = InSetup([page.setup EXCEPT !.profileLoading = FALSE, !.profile = IF Ok(c) THEN c.ans ELSE FALSE])
        /\ OnlyPage

PickGrant(g) ==
    /\ At("Pack") /\ g \in page.setup.grants /\ g # page.setup.choice.grant
    /\ Stays(InSetup([page.setup EXCEPT !.choice = SelectGrant(@, g)]))
PickTopic(t) ==
    /\ "packs" \in does /\ At("Topic") /\ t \in ToSet(Config.topics)
    /\ Stays(InSetup([page.setup EXCEPT !.choice = SelectTopic(@, t)]))
PickSubTopic(s) ==
    /\ "packs" \in does /\ At("Topic") /\ SubTopicOptions(page.setup.choice) # {}
    /\ s \in SubTopicOptions(page.setup.choice) \cup {None}
    /\ Stays(InSetup([page.setup EXCEPT !.choice.subTopic = s]))
PickSeniority(l) ==
    /\ "packs" \in does /\ At("Topic") /\ l \in ToSet(Config.levels)
    /\ Stays(InSetup([page.setup EXCEPT !.choice.seniority = l]))
SwitchBehavioral ==
    /\ "packs" \in does /\ At("Topic") /\ HasBehavioralOption
    /\ Stays(InSetup([page.setup EXCEPT !.choice.behavioral = ~@]))

\* The résumé on file, or the form that replaces it.
ResumeForm == At("Resume") /\ ~page.setup.profileLoading /\ (~page.setup.profile \/ page.setup.useUpload)
UploadAnother ==
    /\ "cv" \in does /\ At("Resume") /\ ~page.setup.profileLoading /\ page.setup.profile
    /\ Stays(InSetup([page.setup EXCEPT !.useUpload = ~@]))
\* A file replaces the text; without a file, text may be pasted.
ChooseMaterial(m) ==
    /\ "cv" \in does /\ ResumeForm
    /\ m = "text" => page.setup.material # "file"
    /\ Stays(InSetup([page.setup EXCEPT !.material = m]))
SaveProfile ==
    /\ ResumeForm /\ ~page.setup.saving /\ page.setup.material # None /\ Ask("save", None)
    /\ page' = InSetup([page.setup EXCEPT !.saving = TRUE])
    /\ OnlyPage
DeliverSave ==
    \E c \in Came("save") :
        /\ Take("save", c)
        /\ page' = InSetup(IF Ok(c) THEN [page.setup EXCEPT !.saving = FALSE, !.profile = TRUE, !.useUpload = FALSE]
                           ELSE [page.setup EXCEPT !.saving = FALSE])
        /\ OnlyPage

CanProceed ==
    CASE At("Pack") -> page.setup.choice.grant # None
      [] At("Topic") -> page.setup.choice.topic # None /\ page.setup.choice.seniority # None
      [] At("System check") -> /\ ~page.media.camError /\ page.media.micOk
                               /\ page.media.netStatus \notin {"down", "checking"}
                               /\ page.media.switching = None
      [] OTHER -> TRUE

\* The effects of the step "System check" come and go with it.
Entered(m) == [m EXCEPT !.asking = @ \cup {"here"}, !.camError = FALSE, !.micOk = FALSE,
                        !.netStatus = "checking"]

Left(m) == [m EXCEPT !.asking = IF "here" \in @ THEN {"left"} ELSE @,
                     !.stream = FALSE, !.lit = {}, !.strayed = @ \/ m.switching # None]
MediaFor(m, was, is) ==
    IF was = is THEN m ELSE IF is = "System check" THEN Entered(m)
    ELSE IF was = "System check" THEN Left(m) ELSE m

ToStep(n) ==
    /\ page' = [page EXCEPT !.setup.step = n,
                            !.media = MediaFor(@, StepName(page.setup.step), StepName(n))]
    /\ net' = IF StepName(n) = "System check" THEN Asking(net, "ping", None) ELSE net
    /\ OnlyPage

NextStep == SetupShown /\ ~page.setup.consentOpen /\ page.setup.step < Len(Steps) /\ CanProceed
            /\ ToStep(page.setup.step + 1)
\* What a workload goes back for.
GoesBack ==
    \/ "packs" \in does /\ (At("Topic") \/ At("Resume"))
    \/ "cv" \in does /\ At("Resume")
    \/ does \cap {"switch", "refused", "network"} # {} /\ (At("System check") \/ At("Instructions"))

BackStep == GoesBack /\ SetupShown /\ ~page.setup.consentOpen /\ page.setup.step > 1 /\ ToStep(page.setup.step - 1)

\* The navigation of the app, while no dialog covers it.
LeaveSetup ==
    /\ "leave" \in does /\ page.at = "setup" /\ ~page.setup.consentOpen
    /\ Goes([page EXCEPT !.media = MediaFor(@, StepName(page.setup.step), None)], "home")
    /\ OnlyPage

-----------------------------------------------------------------------------
(* InterviewSetup: camera, microphone and network                           *)

\* getUserMedia of the effect answers; one that was cancelled is stopped.
MediaGranted ==
    /\ page.media.asking # {}
    /\ \E a \in page.media.asking :
          Stays(InMedia([page.media EXCEPT !.asking = @ \ {a},
                  !.stream = IF a = "here" THEN TRUE ELSE @,
                  !.orphan = IF a = "here" THEN @ \cup page.media.lit ELSE @,
                  !.lit = IF a = "here" THEN Devices ELSE @]))

\* Refused or missing.  A cancelled one still writes its error.
MediaRefused ==
    /\ "refused" \in does /\ page.media.asking # {}
    /\ \E a \in page.media.asking :
          Stays(InMedia([page.media EXCEPT !.asking = @ \ {a}, !.camError = TRUE]))

\* The meter heard something.
MicHeard ==
    /\ "mic" \in page.media.lit /\ ~page.media.micOk
    /\ Stays(InMedia([page.media EXCEPT !.micOk = TRUE]))

SwitchDevice(d) ==
    /\ "switch" \in does /\ At("System check") /\ page.media.stream /\ page.media.switching = None
    /\ Stays(InMedia([page.media EXCEPT !.switching = d]))

\* The new track replaces the old one of the stream there is now; if there is none
\* any more, the handler fails and nobody stops the new track.
DeviceSwitched ==
    LET d == page.media.switching IN
    /\ d # None
    /\ Stays(InMedia(IF page.media.stream
          THEN [page.media EXCEPT !.switching = None, !.lit = @ \cup {d},
                                  !.micOk = IF d = "mic" THEN FALSE ELSE @]
          ELSE [page.media EXCEPT !.switching = None, !.orphan = @ \cup {d}]))

DeviceRefused ==
    /\ page.media.switching # None /\ "refused" \in does
    /\ Stays(InMedia([page.media EXCEPT !.switching = None]))

\* Every ten seconds and on Retry, however many pings are still out.
NetworkCheck ==
    /\ "network" \in does /\ At("System check") /\ Ask("ping", None)
    /\ page' = InMedia([page.media EXCEPT !.netStatus = "checking"])
    /\ OnlyPage

DeliverPing ==
    \E c \in Came("ping") :
        /\ Take("ping", c)
        /\ page' = InMedia([page.media EXCEPT !.netStatus = IF Ok(c) THEN c.ans ELSE "down"])
        /\ OnlyPage

-----------------------------------------------------------------------------
(* InterviewSetup: the start                                                *)

AckInstructions ==
    /\ At("Instructions") /\ (page.setup.instructionsAck => "tab" \in does)
    /\ Stays(InSetup([page.setup EXCEPT !.instructionsAck = ~@]))

OpenConsent ==
    /\ At("Instructions") /\ page.setup.instructionsAck
    /\ Stays(InSetup([page.setup EXCEPT !.consentOpen = TRUE]))

\* "Not yet", Escape, and the button that confirms all close the dialog.
CloseConsent ==
    /\ page.setup.consentOpen
    /\ Stays(InSetup([page.setup EXCEPT !.consentOpen = FALSE]))

\* A focus area goes along when one is chosen, the round when the pack has one.
ConfirmAndStart ==
    /\ page.setup.consentOpen /\ ~page.setup.creating
    /\ Ask("create", [page.setup.choice EXCEPT !.behavioral = @ /\ HasBehavioralOption])
    /\ page' = InSetup([page.setup EXCEPT !.creating = TRUE, !.consentOpen = FALSE])
    /\ OnlyPage

\* A conflict asks for the sessions, to offer the way back into the active one.
DeliverCreate ==
    \E c \in Came("create") :
        /\ \/ page.at # "setup" /\ Take("create", c) /\ UNCHANGED page
           \/ /\ page.at = "setup" /\ Heard(c) = "created"
              /\ Goes([page EXCEPT !.media = MediaFor(@, StepName(page.setup.step), None)], "room")
           \/ /\ page.at = "setup" /\ Heard(c) = "conflict"
              /\ net' = Asking(Without(net, "create", c), "history", None)
              /\ page' = InSetup([page.setup EXCEPT !.consentOpen = FALSE])
           \/ /\ page.at = "setup" /\ ~Ok(c) /\ Take("create", c)
              /\ page' = InSetup([page.setup EXCEPT !.consentOpen = FALSE, !.creating = FALSE])
        /\ OnlyPage

DeliverHistory ==
    \E c \in Came("history") :
        /\ Take("history", c)
        /\ page' = InSetup([page.setup EXCEPT !.creating = FALSE, !.offered = Heard(c) = ACTIVE])
        /\ OnlyPage

TakeOffer ==
    /\ page.at = "setup" /\ page.setup.offered
    /\ Goes([page EXCEPT !.media = MediaFor(@, StepName(page.setup.step), None)], "room")
    /\ OnlyPage

-----------------------------------------------------------------------------
(* InterviewReport                                                          *)

CanDownload == page.at = "report" /\ page.report.status = "ready" /\ ~page.report.downloading
CanViewClip == page.at = "report" /\ page.report.status \in {"ready", "no_data"} /\ ~page.report.clip
CanCheckAgain == page.at = "report" /\ page.report.status \in {"failed", "stalled"}

\* Mutant: one attempt too many.
DeliverReport_OffByOne ==
    \E c \in Came("report") :
        /\ Take("report", c)
        /\ page' = InReport(
              IF ~Ok(c) THEN [page.report EXCEPT !.status = "error"]
              ELSE IF c.ans # "pending" THEN [page.report EXCEPT !.status = c.ans]
              ELSE IF page.report.attempts > MAX_POLL_ATTEMPTS THEN [page.report EXCEPT !.status = "stalled"]
              ELSE [page.report EXCEPT !.due = TRUE])
        /\ OnlyPage

\* An answer or an error ends the loop, and so does the last attempt.
DeliverReport ==
    \E c \in Came("report") :
        /\ Take("report", c)
        /\ page' = InReport(
              IF ~Ok(c) THEN [page.report EXCEPT !.status = "error"]
              ELSE IF c.ans # "pending" THEN [page.report EXCEPT !.status = c.ans]
              ELSE IF page.report.attempts >= MAX_POLL_ATTEMPTS THEN [page.report EXCEPT !.status = "stalled"]
              ELSE [page.report EXCEPT !.due = TRUE])
        /\ OnlyPage

\* Mutant: the attempts are not counted.
PollDue_Uncounted ==
    /\ page.at = "report" /\ page.report.due
    /\ page' = InReport([page.report EXCEPT !.due = FALSE])
    /\ net' = Asking(net, "report", None)
    /\ OnlyPage

PollDue ==
    /\ page.at = "report" /\ page.report.due
    /\ page' = InReport([page.report EXCEPT !.due = FALSE, !.attempts = @ + 1])
    /\ net' = Asking(net, "report", None)
    /\ OnlyPage

\* Check again: the counter and the view, not the loop.
RetryPolling ==
    /\ CanCheckAgain
    /\ Stays(InReport([page.report EXCEPT !.attempts = 0, !.status = "pending", !.retried = TRUE]))

ViewEvidence ==
    /\ "clips" \in does /\ CanViewClip /\ Ask("evidence", None)
    /\ page' = InReport([page.report EXCEPT !.clip = TRUE]) /\ OnlyPage
DeliverEvidence ==
    \E c \in Came("evidence") :
        /\ Take("evidence", c)
        /\ page' = InReport([page.report EXCEPT !.clip = FALSE]) /\ OnlyPage
DownloadPdf ==
    /\ "clips" \in does /\ CanDownload /\ Ask("pdf", None)
    /\ page' = InReport([page.report EXCEPT !.downloading = TRUE]) /\ OnlyPage
DeliverPdf ==
    \E c \in Came("pdf") :
        /\ Take("pdf", c)
        /\ page' = InReport([page.report EXCEPT !.downloading = FALSE]) /\ OnlyPage

\* "Back to Mock Interviews" is in every view.
LeaveReport ==
    /\ "leave" \in does /\ page.at = "report"
    /\ Goes(page, "home") /\ OnlyPage

-----------------------------------------------------------------------------
(* The server                                                               *)

OnlyNet == UNCHANGED <<page, server, lost, does>>

ServeReads ==
    \/ \E c \in Asked("home") : Answer("home", c, server) /\ OnlyNet
    \/ \E k \in {"packs", "evidence", "pdf"} : \E c \in Asked(k) : Answer(k, c, TRUE) /\ OnlyNet
    \/ \E c \in Asked("order") : (Answer("order", c, TRUE) \/ Refuse("order", c)) /\ OnlyNet
    \/ \E c \in Asked("entitlement") :
          /\ \E gs \in IF server.left = 0 THEN {{}}
                       ELSE IF "packs" \in does THEN SUBSET Grants \ {{}} ELSE {{CHOOSE g \in Grants : TRUE}} :
                 Answer("entitlement", c, gs)
          /\ OnlyNet
    \/ \E c \in Asked("profile") :
          (\E b \in IF "cv" \in does THEN BOOLEAN ELSE {FALSE} : Answer("profile", c, b)) /\ OnlyNet
    \/ \E c \in Asked("save") : (Answer("save", c, TRUE) \/ Refuse("save", c)) /\ OnlyNet
    \/ \E c \in Asked("history") : Answer("history", c, server.session) /\ OnlyNet
    \/ \E c \in Asked("ping") :
          /\ \/ Answer("ping", c, "good")
             \/ "network" \in does /\ (Answer("ping", c, "slow") \/ Refuse("ping", c))
          /\ OnlyNet
    \/ \E c \in Asked("report") : Answer("report", c, server.report) /\ OnlyNet

ServeCreate ==
    \E c \in Asked("create") :
        /\ \/ /\ server.session = ACTIVE
              /\ Answer("create", c, "conflict") /\ UNCHANGED server
           \/ /\ server.session # ACTIVE /\ (server.left > 0 \/ Admin)
              /\ server' = [server EXCEPT !.session = ACTIVE, !.left = IF Admin THEN @ ELSE @ - 1]
              /\ Answer("create", c, "created")
           \/ /\ server.session # ACTIVE /\ server.left = 0 /\ ~Admin
              /\ Refuse("create", c) /\ UNCHANGED server
        /\ UNCHANGED <<page, lost, does>>

\* The session of another tab, which starts or ends; the report that is generated,
\* or never is.
Elsewhere ==
    /\ \/ /\ "tab" \in does /\ server.session # ACTIVE /\ server.left > 0
          /\ server' = [server EXCEPT !.session = ACTIVE, !.left = @ - 1]
       \/ /\ "tab" \in does /\ server.session = ACTIVE
          /\ server' = [server EXCEPT !.session = "ended"]
       \/ /\ "report" \in does /\ server.report = "pending"
          /\ \E r \in {"ready", "no_data", "failed"} : server' = [server EXCEPT !.report = r]
       \/ /\ "report" \in does /\ server.report = "failed"
          /\ server' = [server EXCEPT !.report = "ready"]
    /\ UNCHANGED <<page, net, lost, does>>

Lose ==
    /\ "lose" \in does
    /\ \E k \in Kinds \ {"ping"} : \E c \in net[k] : Lost(k, c)
    /\ UNCHANGED <<page, server, does>>

ReportServed == \E c \in Asked("report") : Answer("report", c, server.report) /\ OnlyNet

InterviewNext ==
    \/ DeliverHome \/ DeliverPacks \/ StartNew \/ Resume \/ OpenRow \/ DeliverOrder
    \/ \E p \in ShopPacks : BuyRazorpay(p)
    \/ DeliverEntitlement \/ DeliverProfile
    \/ \E g \in Grants : PickGrant(g)
    \/ \E t \in Topics : PickTopic(t)
    \/ \E s \in SubTopics \cup {None} : PickSubTopic(s)
    \/ \E l \in Levels : PickSeniority(l)
    \/ SwitchBehavioral \/ UploadAnother \/ SaveProfile \/ DeliverSave
    \/ \E m \in {None, "file", "text"} : ChooseMaterial(m)
    \/ NextStep \/ BackStep \/ LeaveSetup
    \/ MediaGranted \/ MediaRefused \/ MicHeard \/ DeviceSwitched \/ DeviceRefused
    \/ \E d \in Devices : SwitchDevice(d)
    \/ NetworkCheck \/ DeliverPing
    \/ AckInstructions \/ OpenConsent \/ CloseConsent \/ ConfirmAndStart
    \/ DeliverCreate \/ DeliverHistory \/ TakeOffer
    \/ DeliverReport \/ PollDue \/ RetryPolling
    \/ ViewEvidence \/ DeliverEvidence \/ DownloadPdf \/ DeliverPdf \/ LeaveReport
    \/ ServeReads \/ ServeCreate \/ Elsewhere \/ Lose

InterviewSpec == InterviewInit /\ [][InterviewNext]_interviewVars

\* The report is polled by a timer, and the server answers.
InterviewFairSpec ==
    InterviewSpec /\ WF_interviewVars(ReportServed) /\ WF_interviewVars(DeliverReport)
                  /\ WF_interviewVars(PollDue)

-----------------------------------------------------------------------------
(* Properties                                                               *)

\* A session is only asked for with what its pack offers, however often the
\* candidate went back and forth between packs and topics.
BodyWithinPack ==
    \A c \in net["create"] :
        LET cfg == PackConfig[c.to.grant] IN
        /\ c.to.grant \in Grants
        /\ c.to.topic \in ToSet(cfg.topics)
        /\ c.to.seniority \in ToSet(cfg.levels)
        /\ c.to.subTopic # None => c.to.subTopic \in cfg.subs[c.to.topic]
        /\ c.to.behavioral => cfg.behavioral

\* "Acquire camera+mic once we reach the system-check step; release on unmount or
\* when leaving the wizard." (InterviewSetup.jsx:275-276)  Unless the candidate
\* leaves the step while a device is being switched.
SetupMediaReleased ==
    StepName(page.setup.step) # "System check" /\ ~page.media.strayed
        => page.media.lit = {} /\ page.media.orphan = {}
=============================================================================
