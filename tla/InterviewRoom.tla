---------------------------- MODULE InterviewRoom ----------------------------
(***************************************************************************)
(* The live interview page of the web client: pages/interview/             *)
(* InterviewSession.jsx with the proctoring hook useProctoring.js, over    *)
(* the session lifecycle the server keeps.                                 *)
(*                                                                         *)
(* The page is one JavaScript event loop.  An action is the code from one  *)
(* await to the next, or one event handler; what a handler closed over     *)
(* when it was created, the session status above all, is kept with the     *)
(* call it made (net) and may be old when the answer comes.  ui holds the  *)
(* React state and the refs.  What is only shown, the clock, the avatar,   *)
(* the round badge, the text itself, is left out.                          *)
(***************************************************************************)
EXTENDS InterviewLifecycle, FiniteSets

CONSTANTS
    Slots,         \* for each kind of call, how many may be in flight: a set of slots
    CameraTypes,   \* violations found by looking at the camera
    WindowTypes,   \* violations found by window events
    Workloads,     \* what the candidate does: one of these sets, in a behaviour
    Openings,      \* with each of these, what the session may be when the page is opened
    Closings,      \* the verdicts that come from elsewhere
    MaxInFlight,   \* bound: calls in flight at once, besides polls
    MaxLost        \* bound: calls that fail on the network

Kinds == {"load", "poll", "start", "turn", "language", "ack", "end", "violation"}
Types == CameraTypes \cup WindowTypes
Calls == UNION {Slots[k] : k \in Kinds}
Modalities == {"none", "text", "code", "voice"}
Tracks == {"camera", "mic"}

ASSUME RoomAssumption ==
    /\ WarningsBeforeTermination \in Nat \ {0}
    /\ \A j, k \in Kinds : j # k => Slots[j] \cap Slots[k] = {}
    /\ \A c, d \in Slots["load"] : c = d    \* the status is loaded once, when the page opens
    /\ \A w \in Workloads : \A o \in Openings[w] :
          /\ o.status \in ACTIVE_STATUSES /\ o.warnings \in 0 .. WarningsBeforeTermination
          /\ o.paused \in BOOLEAN /\ (o.paused => o.warnings = WarningsBeforeTermination)
    /\ Closings \subseteq {"completed", "expired", "abandoned"}
    /\ MaxInFlight \in Nat /\ MaxLost \in Nat

VARIABLES ui, net, lost, does

clientVars == <<ui, net, lost, does>>
vars == <<lifeVars, clientVars>>

Statuses == {"none"} \cup ACTIVE_STATUSES \cup Terminal

\* A call of the page: how far its handler on the server has come, the status the page
\* closed over, and what the handler read or counted, which in the end is the answer.
Call == [phase: {"free", "sent", "read", "counted", "matched", "answered", "failed"},
         seen: Statuses, modality: Modalities,
         status: Statuses, count: Nat, over: BOOLEAN]
Free == [phase |-> "free", seen |-> "none", modality |-> "none",
         status |-> "none", count |-> 0, over |-> FALSE]

Page == [page: {"load", "media", "room", "report", "home"},
         asking: BOOLEAN,      \* getUserMedia has not come back
         seen: Statuses,       \* sessionStatus
         heard: BOOLEAN,       \* the transcript is not empty
         failed: BOOLEAN,      \* openingError
         typed: BOOLEAN,       \* typedText is not empty
         busy: BOOLEAN,        \* busy: a turn is in flight
         rec: BOOLEAN,         \* recording, the state the button shows
         mic: {"off", "on", "stopping"},   \* mediaRecorderRef, and its stop event to come
         micSeen: Statuses,    \* the status startRecording closed over
         ack: BOOLEAN,         \* ackRequired: the blocking dialog is open
         terminated: BOOLEAN, completed: BOOLEAN,     \* the overlays
         due: SUBSET {"overlay", "report"},           \* timers set
         stopped: BOOLEAN,     \* stoppedAllRef
         stream: BOOLEAN,      \* streamRef is set
         lit: SUBSET Tracks,   \* tracks of the stream that run
         orphan: SUBSET Tracks,   \* tracks that run and belong to no stream any more
         switching: Tracks \cup {"none"},   \* switchDevice waits for getUserMedia
         quiet: BOOLEAN,       \* useProctoring's stoppedRef
         told: BOOLEAN,        \* reportedTerminatedRef
         looking: BOOLEAN,     \* a detector tick waits for its model
         cool: SUBSET Types,   \* types reported within the cooldown
         crossed: BOOLEAN,     \* history: a recording was submitted over another turn
         silent: BOOLEAN]      \* history: the clock was stopped where the page does not look

RoomTypeOK ==
    /\ LifeTypeOK
    /\ ui \in Page
    /\ net \in [Calls -> Call]
    /\ lost \in 0 .. MaxLost /\ does \in Workloads

InFlight(k) == {c \in Slots[k] : net[c].phase # "free"}

Opened ==
    [page |-> "load", asking |-> FALSE, seen |-> "none", heard |-> FALSE,
     failed |-> FALSE, typed |-> FALSE, busy |-> FALSE, rec |-> FALSE,
     mic |-> "off", micSeen |-> "none", ack |-> FALSE,
     terminated |-> FALSE, completed |-> FALSE, due |-> {},
     stopped |-> FALSE, stream |-> FALSE, lit |-> {}, orphan |-> {},
     switching |-> "none", quiet |-> FALSE, told |-> FALSE,
     looking |-> FALSE, cool |-> {}, crossed |-> FALSE, silent |-> FALSE]

\* The page is opened on a session that was created, or by a reload in the middle of
\* one; GET status is the first thing it does.  Of a pause it is told nothing.
RoomInit ==
    /\ does \in Workloads
    /\ \E o \in Openings[does] : status = o.status /\ warnings = o.warnings /\ paused = o.paused
    /\ round = (IF status = "behavioral_in_progress" THEN "behavioral" ELSE "technical")
    /\ ui = [Opened EXCEPT !.silent = paused]
    /\ net = [c \in Calls |->
                 IF c \in Slots["load"] THEN [Free EXCEPT !.phase = "sent"] ELSE Free]
    /\ lost = 0

-----------------------------------------------------------------------------
(* What the page shows, and what it lets the candidate do                   *)

Mounted == ui.page \in {"load", "media", "room"}

\* The overlays replace the room; while the end of the interview is awaited, its
\* modal dialog covers it.
Live == ui.page = "room" /\ ~ui.terminated /\ ~ui.completed /\ InFlight("end") = {}

\* The answer controls are disabled during a turn and under the warning dialog.
CanAnswer == Live /\ ~ui.busy /\ ~ui.ack

\* The feed offers a retry only while it has nothing else to show.
CanRetry == Live /\ ~ui.heard /\ ui.failed

CanSwitchLanguage == CanAnswer /\ InFlight("language") = {} /\ InFlight("start") = {}

-----------------------------------------------------------------------------
(* Calls                                                                    *)

Room(k) ==
    /\ \E c \in Slots[k] : net[c].phase = "free"
    /\ \/ k = "poll"
       \/ Cardinality({c \in Calls \ Slots["poll"] : net[c].phase # "free"}) < MaxInFlight

\* net' once a call of kind k went out, from what net has become.
Sent(n, k, seen, modality) ==
    [n EXCEPT ![CHOOSE c \in Slots[k] : n[c].phase = "free"] =
        [Free EXCEPT !.phase = "sent", !.seen = seen, !.modality = modality]]

Send(k, modality) == Room(k) /\ net' = Sent(net, k, ui.seen, modality)

Came(k, c) == c \in Slots[k] /\ net[c].phase \in {"answered", "failed"}
Answered(c) == net[c].phase = "answered"
Done(c) == net' = [net EXCEPT ![c] = Free]

\* React drops the updates of a page that is gone.
IfMounted(u) == ui' = IF Mounted THEN u ELSE ui

OnlyClient == UNCHANGED <<lifeVars, lost, does>>

-----------------------------------------------------------------------------
(* The end of the interview                                                 *)

\* Mutant: the tracks are left running.
StopEverything_KeepsTracks(u) ==
    [u EXCEPT !.stopped = TRUE, !.stream = FALSE,
              !.mic = IF @ = "on" THEN "stopping" ELSE @]

StopEverything(u) ==
    [u EXCEPT !.stopped = TRUE, !.stream = FALSE, !.lit = {},
              !.mic = IF @ = "on" THEN "stopping" ELSE @]

\* Leaving the page drops its state and runs the cleanups: the stream stops, the
\* listeners and intervals of useProctoring go.  What stays is what something
\* still to come will read: timers, a recorder, a device, a detection.
Unmount(u, page) ==
    LET s == StopEverything(u) IN
    [Opened EXCEPT !.page = page, !.stopped = s.stopped, !.lit = s.lit, !.asking = s.asking,
                   !.due = s.due, !.mic = s.mic, !.switching = s.switching,
                   !.orphan = s.orphan, !.looking = s.looking, !.crossed = s.crossed,
                   !.quiet = s.quiet /\ s.looking,
                   !.cool = IF s.looking THEN s.cool ELSE {}]

\* Mutant: the completed overlay sets no timer.
HandleTerminalStatus_NoTimer(u, s) ==
    IF s = "terminated_violations"
    THEN [StopEverything(u) EXCEPT !.terminated = TRUE]
    ELSE IF s \in Terminal THEN [StopEverything(u) EXCEPT !.completed = TRUE] ELSE u

\* An overlay is state of the page and lost with it, the timer that goes to the
\* report is not.
HandleTerminalStatus(u, s) ==
    IF s = "terminated_violations"
    THEN [StopEverything(u) EXCEPT !.terminated = TRUE]
    ELSE IF s \in Terminal
         THEN [StopEverything(u) EXCEPT !.completed = TRUE, !.due = @ \cup {"report"}]
         ELSE u

\* "No change" is judged by the status the handler closed over.
TakeStatus(u, c) ==
    IF net[c].status # net[c].seen
    THEN HandleTerminalStatus([u EXCEPT !.seen = net[c].status], net[c].status)
    ELSE u

OverlayDue ==
    /\ "overlay" \in ui.due
    /\ ui' = [ui EXCEPT !.due = @ \ {"overlay"}, !.terminated = @ \/ Mounted]
    /\ UNCHANGED net /\ OnlyClient

\* The timer navigates wherever the candidate has gone meanwhile.
ReportDue ==
    /\ "report" \in ui.due
    /\ ui' = [Unmount(ui, "report") EXCEPT !.due = @ \ {"report"}]
    /\ UNCHANGED net /\ OnlyClient

ViewReport ==
    /\ ui.page = "room" /\ ui.terminated
    /\ ui' = Unmount(ui, "report")
    /\ UNCHANGED net /\ OnlyClient

Leave ==
    /\ "leave" \in does /\ Mounted
    /\ ui' = Unmount(ui, "home")
    /\ UNCHANGED net /\ OnlyClient

-----------------------------------------------------------------------------
(* Loading, camera and opening                                              *)

\* The status decides between the report and the room.  A failure sends the
\* candidate to the overview even from another page.
DeliverLoad(c) ==
    /\ Came("load", c) /\ Done(c)
    /\ \/ /\ ~Answered(c)
          /\ ui' = IF Mounted THEN Unmount(ui, "home") ELSE [ui EXCEPT !.page = "home"]
       \/ /\ Answered(c) /\ ~Mounted
          /\ UNCHANGED ui
       \/ /\ Answered(c) /\ Mounted
          /\ ui' = IF net[c].status \in ACTIVE_STATUSES
                   THEN [ui EXCEPT !.seen = net[c].status, !.page = "media", !.asking = TRUE]
                   ELSE Unmount(ui, "report")
    /\ OnlyClient

\* The camera and microphone come, or are refused; either way the room opens and
\* the interviewer is asked to begin.  Tracks that come after the page was left
\* are stopped at once.
MediaSettled ==
    /\ ui.asking
    /\ \/ /\ ui.page = "media"
          /\ \E granted \in BOOLEAN :
                ui' = [ui EXCEPT !.asking = FALSE, !.page = "room", !.stream = granted,
                                 !.lit = IF granted THEN Tracks ELSE {}]
          /\ Send("start", "none")
       \/ /\ ui.page # "media"
          /\ ui' = [ui EXCEPT !.asking = FALSE]
          /\ UNCHANGED net
    /\ OnlyClient

Retry ==
    /\ "retry" \in does /\ CanRetry /\ InFlight("start") = {}
    /\ ui' = [ui EXCEPT !.failed = FALSE]
    /\ Send("start", "none") /\ OnlyClient

\* Stores the status and looks no further.
DeliverStart(c) ==
    /\ Came("start", c) /\ Done(c)
    /\ IfMounted(IF Answered(c) THEN [ui EXCEPT !.heard = TRUE, !.seen = net[c].status]
                 ELSE [ui EXCEPT !.failed = TRUE])
    /\ OnlyClient

\* Every four seconds, but not while the warning dialog is open or once the page
\* stopped.
Poll ==
    /\ ui.page = "room" /\ ~ui.ack /\ ~ui.stopped
    /\ Send("poll", "none")
    /\ UNCHANGED ui /\ OnlyClient

DeliverPoll(c) ==
    /\ Came("poll", c) /\ Done(c)
    /\ IF ~Answered(c) THEN UNCHANGED ui
       ELSE ui' = IF Mounted THEN TakeStatus(ui, c)
                  ELSE [ui EXCEPT !.due = TakeStatus(ui, c).due]
    /\ OnlyClient

-----------------------------------------------------------------------------
(* Turns                                                                    *)

TypeAnswer ==
    /\ "text" \in does /\ CanAnswer /\ ~ui.typed
    /\ ui' = [ui EXCEPT !.typed = TRUE]
    /\ UNCHANGED net /\ OnlyClient

\* Mutant: the controls come back while the turn is still in flight.
SendTyped_NotBusy ==
    /\ CanAnswer /\ ui.typed /\ ~ui.stopped
    /\ ui' = [ui EXCEPT !.typed = FALSE]
    /\ Send("turn", "text") /\ OnlyClient

\* submitTurn refuses while a turn is in flight or the page has stopped.
SendTyped ==
    /\ CanAnswer /\ ui.typed /\ ~ui.stopped
    /\ ui' = [ui EXCEPT !.typed = FALSE, !.busy = TRUE]
    /\ Send("turn", "text") /\ OnlyClient

SubmitCode ==
    /\ "code" \in does /\ CanAnswer /\ ~ui.stopped
    /\ ui' = [ui EXCEPT !.busy = TRUE]
    /\ Send("turn", "code") /\ OnlyClient

StartRecording ==
    /\ "voice" \in does /\ CanAnswer /\ ~ui.rec /\ ui.stream
    /\ ui.mic = "off"    \* the stop event of an earlier recording has come
    /\ ui' = [ui EXCEPT !.rec = TRUE, !.mic = "on", !.micSeen = ui.seen]
    /\ UNCHANGED net /\ OnlyClient

StopRecording ==
    /\ CanAnswer /\ ui.rec
    /\ ui' = [ui EXCEPT !.rec = FALSE, !.mic = IF @ = "on" THEN "stopping" ELSE @]
    /\ UNCHANGED net /\ OnlyClient

\* The recorder's stop event submits what was recorded with the submitTurn of
\* the render that started it: busy was FALSE then, whatever it is now.
RecorderStopped ==
    /\ ui.mic = "stopping"
    /\ IF ui.stopped
       THEN ui' = [ui EXCEPT !.mic = "off"] /\ UNCHANGED net
       ELSE /\ Room("turn")
            /\ net' = Sent(net, "turn", ui.micSeen, "voice")
            /\ ui' = [ui EXCEPT !.mic = "off", !.busy = TRUE,
                                !.crossed = @ \/ InFlight("turn") # {}]
    /\ OnlyClient

\* A typed answer that failed goes back into its box.
DeliverTurn(c) ==
    LET back == net[c].modality = "text" IN
    /\ Came("turn", c) /\ Done(c)
    /\ ui' = LET u == IF Answered(c)
                      THEN TakeStatus([ui EXCEPT !.heard = TRUE, !.busy = FALSE], c)
                      ELSE [ui EXCEPT !.busy = FALSE, !.typed = @ \/ back]
             IN  IF Mounted THEN u ELSE [ui EXCEPT !.due = u.due]
    /\ OnlyClient

ChangeLanguage ==
    /\ "language" \in does /\ CanSwitchLanguage
    /\ Send("language", "none")
    /\ UNCHANGED ui /\ OnlyClient

DeliverLanguage(c) ==
    /\ Came("language", c) /\ Done(c)
    /\ IfMounted([ui EXCEPT !.heard = @ \/ Answered(c)])
    /\ OnlyClient

-----------------------------------------------------------------------------
(* Camera and microphone                                                    *)

SwitchDevice(track) ==
    /\ "switch" \in does /\ Live /\ ui.stream /\ ~ui.stopped /\ ui.switching = "none"
    /\ ui' = [ui EXCEPT !.switching = track]
    /\ UNCHANGED net /\ OnlyClient

\* The device is refused; or it replaces the old track, whose end stops a
\* recorder that used it; or the stream was given up meanwhile, the code throws
\* and the new track belongs to nobody.
DeviceSwitched ==
    /\ ui.switching # "none"
    /\ \/ ui' = [ui EXCEPT !.switching = "none"]
       \/ /\ ui.stream
          /\ ui' = [ui EXCEPT !.switching = "none", !.lit = @ \cup {ui.switching},
                              !.mic = IF ui.switching = "mic" /\ @ = "on" THEN "stopping"
                                      ELSE @]
       \/ /\ ~ui.stream
          /\ ui' = [ui EXCEPT !.switching = "none", !.orphan = @ \cup {ui.switching}]
    /\ UNCHANGED net /\ OnlyClient

-----------------------------------------------------------------------------
(* Proctoring                                                               *)

ActiveForProctoring ==
    /\ ui.page = "room" /\ ~ui.terminated /\ ~ui.completed /\ ~ui.ack
    /\ ui.seen \in ACTIVE_STATUSES

\* reportViolation: not once stopped, not within the cooldown of its type.
Report(t, u) ==
    IF ui.quiet \/ t \in ui.cool
    THEN ui' = u /\ UNCHANGED net
    ELSE /\ ui' = [u EXCEPT !.cool = @ \cup {t}]
         /\ Send("violation", "none")

\* The detectors look at a frame; what they find comes some time later.
Look ==
    /\ "camera" \in does /\ ActiveForProctoring /\ ~ui.quiet /\ ui.stream /\ ~ui.looking
    /\ ui' = [ui EXCEPT !.looking = TRUE]
    /\ UNCHANGED net /\ OnlyClient

Detected ==
    /\ ui.looking
    /\ \/ ui' = [ui EXCEPT !.looking = FALSE] /\ UNCHANGED net
       \/ \E t \in CameraTypes : Report(t, [ui EXCEPT !.looking = FALSE])
    /\ OnlyClient

\* Focus, visibility, fullscreen, clipboard and developer tools.
WindowEvent(t) ==
    /\ "window" \in does /\ ActiveForProctoring /\ ~ui.quiet /\ t \notin ui.cool
    /\ Report(t, ui) /\ OnlyClient

CooldownEnds(t) ==
    /\ t \in ui.cool
    /\ ui' = [ui EXCEPT !.cool = @ \ {t}]
    /\ UNCHANGED net /\ OnlyClient

\* Mutant: the acknowledgement is asked for one warning too late.
DeliverViolation_OffByOne(c) ==
    LET over == [ui EXCEPT !.quiet = TRUE, !.told = TRUE] IN
    /\ Came("violation", c) /\ Done(c)
    /\ \/ ~Answered(c) /\ UNCHANGED ui
       \/ /\ Answered(c) /\ net[c].over
          /\ ui' = over
       \/ /\ Answered(c) /\ ~net[c].over
          /\ IfMounted([ui EXCEPT !.ack = @ \/ net[c].count > WarningsBeforeTermination])
    /\ OnlyClient

\* A termination is taken once, and shown when its spoken warning is over, if
\* there is one; from the last warning on, the candidate must acknowledge.
DeliverViolation(c) ==
    LET over == [ui EXCEPT !.quiet = TRUE, !.told = TRUE] IN
    /\ Came("violation", c) /\ Done(c)
    /\ \/ ~Answered(c) /\ UNCHANGED ui
       \/ /\ Answered(c) /\ net[c].over /\ ui.told
          /\ ui' = over
       \/ /\ Answered(c) /\ net[c].over /\ ~ui.told
          /\ ui' \in {[over EXCEPT !.due = @ \cup {"overlay"}],
                      [over EXCEPT !.terminated = @ \/ Mounted]}
       \/ /\ Answered(c) /\ ~net[c].over
          /\ IfMounted([ui EXCEPT !.ack = @ \/ net[c].count >= WarningsBeforeTermination])
    /\ OnlyClient

Acknowledge ==
    /\ Live /\ ui.ack /\ InFlight("ack") = {}
    /\ Send("ack", "none")
    /\ UNCHANGED ui /\ OnlyClient

\* The dialog closes even when the call failed; the status is only stored.
DeliverAck(c) ==
    /\ Came("ack", c) /\ Done(c)
    /\ IfMounted([ui EXCEPT !.ack = FALSE, !.seen = IF Answered(c) THEN net[c].status ELSE @])
    /\ OnlyClient

ConfirmEnd ==
    /\ "end" \in does /\ Live
    /\ ui' = [StopEverything(ui) EXCEPT !.quiet = TRUE]
    /\ Send("end", "none") /\ OnlyClient

\* Whatever became of the call, and wherever the candidate is.
DeliverEnd(c) ==
    /\ Came("end", c) /\ Done(c)
    /\ ui' = Unmount(ui, "report")
    /\ OnlyClient

-----------------------------------------------------------------------------
(* The server and the network                                               *)

At(k, c, phase) == c \in Slots[k] /\ net[c].phase = phase

\* The handler comes as far as `phase', with the status it has read or left.
Comes(c, phase, s) ==
    /\ net' = [net EXCEPT ![c].phase = phase, ![c].status = s]
    /\ UNCHANGED <<ui, lost, does>>
Counts(c, phase, n) ==
    /\ net' = [net EXCEPT ![c].phase = phase, ![c].count = n]
    /\ UNCHANGED <<ui, lost, does>>
Refuse(c) ==
    /\ net' = [net EXCEPT ![c].phase = "failed"]
    /\ UNCHANGED <<ui, lost, does, lifeVars>>

ServeStatus(c) ==
    /\ At("load", c, "sent") \/ At("poll", c, "sent")
    /\ UNCHANGED lifeVars /\ Comes(c, "answered", status)

\* Begins a session it read as created, however late it writes, and may fail after; or
\* another call began it meanwhile.  Replays the opening of any other or, when none was
\* stored, refuses.
ServeStart(c) ==
    \/ /\ At("start", c, "sent") /\ UNCHANGED lifeVars
       /\ \/ Comes(c, IF status = "created" THEN "read" ELSE "answered", status)
          \/ status # "created" /\ Refuse(c)
    \/ /\ At("start", c, "read")
       /\ \/ \E phase \in {"answered", "failed"} : ToTechnical /\ Comes(c, phase, "technical_in_progress")
          \/ status # "created" /\ UNCHANGED lifeVars /\ Comes(c, "answered", "created")

\* What record_violation returns goes to the page or, of a turn, nowhere: the turn goes on.
Punished(k, c, over) ==
    net' = [net EXCEPT ![c] = IF k = "turn" THEN [@ EXCEPT !.phase = "matched", !.count = 0]
                              ELSE [@ EXCEPT !.phase = "answered", !.over = over]]

\* record_violation has counted one more: the last warning stops the clock, the next one
\* ends the interview, unless something else did.  The page hears of the pause in the
\* answer to a violation, unless it had acknowledged before.
Punish(k, c) ==
    LET told == k = "violation" /\ InFlight("ack") = {}
        n == net[c].count
    IN  /\ At(k, c, "counted")
        /\ \/ /\ n = WarningsBeforeTermination /\ Pause /\ Punished(k, c, FALSE)
              /\ IfMounted([ui EXCEPT !.silent = @ \/ ~told])
           \/ /\ n > WarningsBeforeTermination /\ Close("terminated_violations")
              /\ Punished(k, c, TRUE) /\ UNCHANGED ui
           \/ /\ n > WarningsBeforeTermination /\ ~Active
              /\ Punished(k, c, FALSE) /\ UNCHANGED <<ui, lifeVars>>
        /\ UNCHANGED <<lost, does>>

\* A turn reads the session and starts the clock of one that was created.
TurnBegins(c) ==
    \/ /\ At("turn", c, "sent") /\ UNCHANGED lifeVars
       /\ Comes(c, IF Active THEN "read" ELSE "answered", status)
    \/ /\ At("turn", c, "read") /\ net[c].status = "created"
       /\ ToTechnical /\ Comes(c, "read", "technical_in_progress")

\* _check_voice_match: another voice than before is a violation, of which the answer
\* to the turn says nothing.
VoiceMismatch(c) ==
    \/ /\ At("turn", c, "read") /\ net[c].modality = "voice" /\ net[c].status \in InProgress
       /\ Warn
       /\ IF warnings' < WarningsBeforeTermination THEN Counts(c, "matched", 0)
          ELSE Counts(c, "counted", warnings')
    \/ Punish("turn", c)

\* It may end the round or the interview it has read, and is answered with the status it
\* left; silence is refused, and the interviewer may fail.
TurnEnds(c) ==
    LET s == net[c].status
        last == "behavioral" \notin does \/ s = "behavioral_in_progress"
    IN  /\ At("turn", c, "read") \/ At("turn", c, "matched")
        /\ s \in InProgress
        /\ \/ UNCHANGED lifeVars /\ Comes(c, "answered", s)
           \/ ~last /\ ToBehavioral /\ Comes(c, "answered", "behavioral_in_progress")
           \/ last /\ Close("completed") /\ Comes(c, "answered", "completed")
           \/ last /\ ~Active /\ UNCHANGED lifeVars /\ Comes(c, "answered", status)
           \/ Refuse(c)

ServeTurn(c) == TurnBegins(c) \/ VoiceMismatch(c) \/ TurnEnds(c)

ServeLanguage(c) ==
    /\ At("language", c, "sent")
    /\ \/ Active /\ round = "technical" /\ UNCHANGED lifeVars /\ Comes(c, "answered", status)
       \/ ~(Active /\ round = "technical") /\ Refuse(c)

ServeAck(c) ==
    /\ At("ack", c, "sent") /\ Unpause
    /\ net' = [net EXCEPT ![c].phase = "answered", ![c].status = status]
    /\ ui' = [ui EXCEPT !.silent = FALSE] /\ UNCHANGED <<lost, does>>

ServeEnd(c) ==
    /\ At("end", c, "sent")
    /\ \/ \E v \in {"completed", "abandoned"} : Close(v) /\ Comes(c, "answered", v)
       \/ ~Active /\ UNCHANGED lifeVars /\ Comes(c, "answered", status)

\* Reads, counts, and then the count decides.  A session that ended in between counts no
\* more, and the answer has the count that was read.
ServeViolation(c) ==
    \/ /\ At("violation", c, "sent") /\ UNCHANGED lifeVars
       /\ \/ Active /\ Counts(c, "read", warnings)
          \/ ~Active /\ Refuse(c)
    \/ /\ At("violation", c, "read")
       /\ \/ /\ Warn
             /\ Counts(c, IF warnings' < WarningsBeforeTermination THEN "answered" ELSE "counted", warnings')
          \/ ~Active /\ UNCHANGED lifeVars /\ Counts(c, "answered", net[c].count)
    \/ Punish("violation", c)

Serve(c) ==
    \/ ServeStatus(c) \/ ServeStart(c) \/ ServeTurn(c) \/ ServeLanguage(c)
    \/ ServeAck(c) \/ ServeEnd(c) \/ ServeViolation(c)

\* The session goes on without the page: its clock runs out, or the sweep, or
\* another window, closes it.
Elsewhere ==
    /\ \/ "behavioral" \in does /\ status = "technical_in_progress" /\ ToBehavioral
       \/ \E v \in Closings :
             (v = "completed" => status \in InProgress) /\ Close(v)
    /\ UNCHANGED clientVars

\* A request or its answer is lost.
Lose(c) ==
    /\ "lose" \in does /\ net[c].phase \in {"sent", "answered"} /\ lost < MaxLost
    /\ net' = [net EXCEPT ![c].phase = "failed"]
    /\ lost' = lost + 1
    /\ UNCHANGED <<lifeVars, ui, does>>

-----------------------------------------------------------------------------
Deliver(c) ==
    \/ DeliverLoad(c) \/ DeliverStart(c) \/ DeliverPoll(c) \/ DeliverTurn(c)
    \/ DeliverLanguage(c) \/ DeliverViolation(c) \/ DeliverAck(c) \/ DeliverEnd(c)

\* What the browser does by itself.
Browser == MediaSettled \/ RecorderStopped \/ DeviceSwitched \/ Detected \/ OverlayDue \/ ReportDue

Candidate ==
    \/ Leave \/ ViewReport \/ Retry \/ TypeAnswer \/ SendTyped \/ SubmitCode
    \/ StartRecording \/ StopRecording \/ ChangeLanguage \/ Acknowledge \/ ConfirmEnd
    \/ \E track \in Tracks : SwitchDevice(track)
    \/ Look
    \/ \E t \in WindowTypes : WindowEvent(t)

RoomNext ==
    \/ Candidate \/ Browser \/ Poll
    \/ \E t \in Types : CooldownEnds(t)
    \/ \E c \in Calls : Serve(c) \/ Deliver(c) \/ Lose(c)
    \/ Elsewhere

\* The interval of the poll fires for ever and the server answers it; timers run
\* out.  Nothing is asked of the candidate, nor of any other call.
RoomFairness ==
    /\ \A c \in Slots["poll"] : WF_vars(Serve(c)) /\ WF_vars(DeliverPoll(c))
    /\ WF_vars(Poll)
    /\ WF_vars(ReportDue)

RoomSpec == RoomInit /\ [][RoomNext]_vars
RoomFairSpec == RoomSpec /\ RoomFairness

-----------------------------------------------------------------------------
(* Properties                                                               *)

\* Two turns are never in flight at once (they would be numbered alike and the
\* second would not hear the first), unless a recording was submitted over one:
\* the recorder's handler does not see busy.
OneTurnAtATime == ~ui.crossed => Cardinality(InFlight("turn")) <= 1

\* Once the interview stopped, or was left, in whatever order the camera came and
\* calls were answered, the stream's camera and microphone are off.  (A device
\* switch in flight at that moment leaks its track: orphan.)
CameraOffAfterStop == ui.stopped => ui.lit = {}

\* While the server has the clock paused for a final warning the page was told of, the
\* candidate is looking at the dialog that resumes it, unless the answer is still to come
\* or was lost.
PausedIsShown ==
    paused /\ Active /\ ui.page = "room" /\ InFlight("violation") = {} /\ lost = 0 /\ ~ui.silent
        => ui.ack
=============================================================================
