----------------------------- MODULE MobileRoom -----------------------------
(***************************************************************************)
(* The live interview screen of the mobile app, screens/                   *)
(* InterviewSessionScreen.js with InterviewProctoringCamera.js, over the   *)
(* session lifecycle the server keeps.                                     *)
(*                                                                         *)
(* An action is the code from one await to the next, or one handler.  A    *)
(* screen that left the stack keeps running what it had begun: its calls   *)
(* come back to a closure that can change nothing on the screen (mine).    *)
(* The clock, the avatar, the round badge and the text are left out.       *)
(***************************************************************************)
EXTENDS InterviewLifecycle, FiniteSets, Sequences

CONSTANTS
    Slots,         \* for each kind of call, the calls of that kind that may be in flight
    FaceStatuses,  \* what the camera may see that is not "ok"
    Streak,        \* FACE_VIOLATION_STREAK
    Workloads,     \* what the candidate does: one of these sets, in a behaviour
    Closings,      \* the verdicts that come from elsewhere
    MaxInFlight,   \* bound: calls in flight at once, besides polls
    MaxPresses,    \* bound: presses of the microphone the recorder still works on
    MaxLost        \* bound: calls that fail on the network

\* What the server takes for a violation, of what this screen may report.
KnownTypes == {"face_not_visible", "multiple_faces", "app_backgrounded"}

Types == FaceStatuses \cup {"app_backgrounded"}
Calls == UNION {Slots[k] : k \in DOMAIN Slots}

ASSUME RoomAssumption ==
    /\ WarningsBeforeTermination \in Nat \ {0}
    /\ DOMAIN Slots = {"poll", "turn", "violation", "end"}
    /\ \A j, k \in DOMAIN Slots : j # k => Slots[j] \cap Slots[k] = {}
    /\ Streak \in Nat \ {0} /\ MaxLost \in Nat /\ MaxPresses \in Nat /\ Closings \subseteq Terminal

VARIABLES
    stack,   \* the screens of the InterviewStack navigator, top last
    room,    \* the state and refs of the session screen
    net, lost, does

Modalities == {"none", "text", "voice"}
Statuses == {"none"} \cup ACTIVE_STATUSES \cup Terminal

\* A call: how far its handler on the server has come, what was sent with it, and what the
\* handler read or counted, in the end its answer; mine: its screen is still there.
Call == [phase: {"free", "sent", "read", "counted", "matched", "answered", "failed"},
         mine: BOOLEAN, modality: Modalities, type: {"none"} \cup Types,
         status: Statuses, count: Nat, over: BOOLEAN]
Free == [phase |-> "free", mine |-> TRUE, modality |-> "none", type |-> "none",
         status |-> "none", count |-> 0, over |-> FALSE]

Room == [ended: BOOLEAN,        \* endedRef
         terminated: BOOLEAN,   \* the "Interview ended" view
         busy: BOOLEAN, typed: BOOLEAN,
         rec: BOOLEAN,          \* isRecording
         preparing: 0 .. MaxPresses, stopping: 0 .. MaxPresses,   \* the recorder's awaits
         asking: BOOLEAN,       \* the "End interview?" alert is open
         streak: 0 .. Streak,   \* faceBadStreakRef
         away: BOOLEAN,         \* bgTimerRef is set
         filming: SUBSET Types, \* fireViolation waits for the evidence clip
         cool: SUBSET Types,    \* types reported within the cooldown
         crossed: BOOLEAN]      \* history: a recording was submitted over another turn

Entered == [ended |-> FALSE, terminated |-> FALSE, busy |-> FALSE, typed |-> FALSE,
            rec |-> FALSE, preparing |-> 0, stopping |-> 0, asking |-> FALSE, streak |-> 0, away |-> FALSE,
            filming |-> {}, cool |-> {}, crossed |-> FALSE]

Top == stack[Len(stack)]
InRoom == Top = "room"
InFlight(k) == {c \in Slots[k] : net[c].phase # "free"}

Replace(screen) == [stack EXCEPT ![Len(stack)] = screen]

-----------------------------------------------------------------------------
(* What the screen lets the candidate do                                    *)

Live == InRoom /\ ~room.terminated /\ ~room.asking

CanType == Live /\ ~room.busy
CanSend == Live /\ ~room.busy /\ room.typed
CanToggleMic == Live /\ ~room.busy /\ ~room.typed

-----------------------------------------------------------------------------
(* Calls                                                                    *)

HasSlot(k) ==
    /\ \E c \in Slots[k] : net[c].phase = "free"
    /\ \/ k = "poll"
       \/ Cardinality({c \in Calls \ Slots["poll"] : net[c].phase # "free"}) < MaxInFlight

Sent(n, k, modality) ==
    [n EXCEPT ![CHOOSE c \in Slots[k] : n[c].phase = "free"] =
        [Free EXCEPT !.phase = "sent", !.modality = modality]]

Send(k) == HasSlot(k) /\ net' = Sent(net, k, "none")

Came(k, c) == c \in Slots[k] /\ net[c].phase \in {"answered", "failed"}
Answered(c) == net[c].phase = "answered"
Done(c) == net' = [net EXCEPT ![c] = Free]

\* What the screen had in flight when it went belongs to nobody any more.
Disowned(n) ==
    [c \in Calls |-> IF n[c].phase # "free" /\ \E k \in {"poll", "turn", "violation", "end"} : c \in Slots[k]
                     THEN [n[c] EXCEPT !.mine = FALSE] ELSE n[c]]

\* navigation.replace('InterviewReport'): the room is unmounted.
ToReport(n) == stack' = Replace("report") /\ room' = Entered /\ net' = Disowned(n)

OnlyRoom == UNCHANGED <<lifeVars, lost, does>>

-----------------------------------------------------------------------------
(* Polling and the end of the interview                                     *)

\* At once, and every four seconds for as long as the screen is there.
RoomPoll ==
    /\ InRoom /\ Send("poll")
    /\ UNCHANGED <<stack, room>> /\ OnlyRoom

\* Mutant: only the end of the last round is noticed.
DeliverPoll_OnlyCompleted(c) ==
    /\ Came("poll", c)
    /\ \/ /\ Answered(c) /\ net[c].mine /\ ~room.ended /\ net[c].status = "completed"
          /\ ToReport([net EXCEPT ![c] = Free])
       \/ /\ ~(Answered(c) /\ net[c].mine /\ ~room.ended /\ net[c].status = "completed")
          /\ Done(c) /\ UNCHANGED <<stack, room>>
    /\ OnlyRoom

\* A terminal status ends the room: with the notice for a termination, with the
\* report for the others.
DeliverPoll(c) ==
    LET heard == Answered(c) /\ net[c].mine /\ ~room.ended IN
    /\ Came("poll", c)
    /\ \/ /\ ~(heard /\ net[c].status \in Terminal)
          /\ Done(c) /\ UNCHANGED <<stack, room>>
       \/ /\ heard /\ net[c].status = "terminated_violations"
          /\ Done(c) /\ room' = [room EXCEPT !.ended = TRUE, !.terminated = TRUE]
          /\ UNCHANGED stack
       \/ /\ heard /\ net[c].status \in Terminal \ {"terminated_violations"}
          /\ ToReport([net EXCEPT ![c] = Free])
    /\ OnlyRoom

\* Mutant: a failed call leaves the candidate where they are.
DeliverEnd_StaysOnFailure(c) ==
    /\ Came("end", c)
    /\ IF net[c].mine /\ Answered(c) THEN ToReport([net EXCEPT ![c] = Free])
       ELSE Done(c) /\ UNCHANGED <<stack, room>>
    /\ OnlyRoom

\* Whatever became of the call; a screen that is gone replaces nothing.
DeliverEnd(c) ==
    /\ Came("end", c)
    /\ IF net[c].mine THEN ToReport([net EXCEPT ![c] = Free])
       ELSE Done(c) /\ UNCHANGED <<stack, room>>
    /\ OnlyRoom

AskEnd ==
    /\ "end" \in does /\ Live
    /\ room' = [room EXCEPT !.asking = TRUE]
    /\ UNCHANGED <<stack, net>> /\ OnlyRoom

\* The alert's "Cancel" and "End Interview".  The alert is of the system: it stays
\* whatever the screen under it becomes.
AnswerAlert ==
    /\ InRoom /\ room.asking
    /\ \/ room' = [room EXCEPT !.asking = FALSE] /\ UNCHANGED net
       \/ room' = [room EXCEPT !.asking = FALSE, !.ended = TRUE] /\ Send("end")
    /\ UNCHANGED stack /\ OnlyRoom

\* The notice of a termination has one button.
ViewReport ==
    /\ InRoom /\ room.terminated
    /\ ToReport(net) /\ OnlyRoom

-----------------------------------------------------------------------------
(* Turns                                                                    *)

TypeText ==
    /\ "text" \in does /\ CanType /\ ~room.typed
    /\ room' = [room EXCEPT !.typed = TRUE]
    /\ UNCHANGED <<stack, net>> /\ OnlyRoom

\* The box is emptied in any case, and a failed turn does not refill it.
SubmitText ==
    /\ CanSend
    /\ \/ room.ended /\ room' = [room EXCEPT !.typed = FALSE] /\ UNCHANGED net
       \/ /\ ~room.ended /\ HasSlot("turn")
          /\ room' = [room EXCEPT !.typed = FALSE, !.busy = TRUE]
          /\ net' = Sent(net, "turn", "text")
    /\ UNCHANGED stack /\ OnlyRoom

\* toggleRecording: prepare, record; then stop.  isRecording is set when the recorder is
\* ready and reset before it stops, and nothing is disabled meanwhile: it may be pressed again.
ToggleRecording ==
    /\ "voice" \in does /\ CanToggleMic /\ room.preparing + room.stopping < MaxPresses
    /\ room.preparing + room.stopping > 0 => "hasty" \in does
    /\ room' = IF room.rec THEN [room EXCEPT !.rec = FALSE, !.stopping = @ + 1]
               ELSE [room EXCEPT !.preparing = @ + 1]
    /\ UNCHANGED <<stack, net>> /\ OnlyRoom

RecorderPrepared ==
    /\ room.preparing > 0
    /\ \E ready \in BOOLEAN :
          room' = [room EXCEPT !.preparing = @ - 1, !.rec = @ \/ ready]
    /\ UNCHANGED <<stack, net>> /\ OnlyRoom

\* The answer goes out with the sendTurn of the render in which stop was pressed:
\* busy was FALSE in it, whatever it is now.  A recorder that fails sends nothing.
RecorderStopped ==
    /\ room.stopping > 0
    /\ \/ room' = [room EXCEPT !.stopping = @ - 1] /\ UNCHANGED net
       \/ /\ ~room.ended /\ HasSlot("turn")
          /\ room' = [room EXCEPT !.stopping = @ - 1, !.busy = TRUE,
                                  !.crossed = @ \/ InFlight("turn") # {}]
          /\ net' = Sent(net, "turn", "voice")
    /\ UNCHANGED stack /\ OnlyRoom

\* Any terminal status leads to the report, a termination too.
DeliverTurn(c) ==
    /\ Came("turn", c)
    /\ \/ /\ net[c].mine /\ Answered(c) /\ net[c].status \in Terminal
          /\ ToReport([net EXCEPT ![c] = Free])
       \/ /\ ~(net[c].mine /\ Answered(c) /\ net[c].status \in Terminal)
          /\ Done(c) /\ UNCHANGED stack
          /\ room' = IF net[c].mine THEN [room EXCEPT !.busy = FALSE] ELSE room
    /\ OnlyRoom

-----------------------------------------------------------------------------
(* Proctoring                                                               *)

\* fireViolation: not once ended, not within the cooldown; then the clip is filmed.
Fired(t, r) ==
    IF r.ended \/ t \in r.cool THEN r
    ELSE [r EXCEPT !.cool = @ \cup {t}, !.filming = @ \cup {t}]

\* A sample of the camera; the camera runs until the notice replaces the room.
FaceSample(s) ==
    /\ "camera" \in does /\ InRoom /\ ~room.terminated
    /\ s \notin room.cool
    /\ room' = IF s = "ok" THEN [room EXCEPT !.streak = 0]
               ELSE IF room.streak + 1 < Streak THEN [room EXCEPT !.streak = @ + 1]
               ELSE Fired(s, [room EXCEPT !.streak = 0])
    /\ UNCHANGED <<stack, net>> /\ OnlyRoom

\* The app goes to the background or comes back; after two seconds away it fires.
AppState ==
    /\ "away" \in does /\ InRoom
    /\ room' = [room EXCEPT !.away = ~@]
    /\ UNCHANGED <<stack, net>> /\ OnlyRoom

BackgroundDebounced ==
    /\ InRoom /\ room.away /\ "app_backgrounded" \notin room.cool
    /\ room' = Fired("app_backgrounded", [room EXCEPT !.away = FALSE])
    /\ UNCHANGED <<stack, net>> /\ OnlyRoom

\* The clip came, or could not be made: the report goes out without another look
\* at endedRef.
EvidenceFilmed(t) ==
    /\ t \in room.filming
    /\ room' = [room EXCEPT !.filming = @ \ {t}]
    /\ HasSlot("violation")
    /\ net' = [Sent(net, "violation", "none") EXCEPT
                  ![CHOOSE c \in Slots["violation"] : net[c].phase = "free"].type = t]
    /\ UNCHANGED stack /\ OnlyRoom

CooldownEnds(t) ==
    /\ InRoom /\ t \in room.cool \ room.filming
    /\ room' = [room EXCEPT !.cool = @ \ {t}]
    /\ UNCHANGED <<stack, net>> /\ OnlyRoom

\* Warnings are a banner and an alert: nothing is sent back.
DeliverViolation(c) ==
    /\ Came("violation", c) /\ Done(c)
    /\ room' = IF net[c].mine /\ Answered(c) /\ net[c].over
               THEN [room EXCEPT !.ended = TRUE, !.terminated = TRUE] ELSE room
    /\ UNCHANGED stack /\ OnlyRoom

-----------------------------------------------------------------------------
(* The server and the network                                               *)

At(k, c, phase) == c \in Slots[k] /\ net[c].phase = phase

OnlyServer == UNCHANGED <<stack, room, lost, does>>

\* The handler comes as far as `phase', with the status it has read or left.
Comes(c, phase, s) == net' = [net EXCEPT ![c].phase = phase, ![c].status = s] /\ OnlyServer
Counts(c, phase, n) == net' = [net EXCEPT ![c].phase = phase, ![c].count = n] /\ OnlyServer
Refuse(c) == net' = [net EXCEPT ![c].phase = "failed"] /\ OnlyServer /\ UNCHANGED lifeVars

ServePoll(c) == At("poll", c, "sent") /\ UNCHANGED lifeVars /\ Comes(c, "answered", status)

\* What record_violation returns goes to the screen or, of a turn, nowhere: the turn goes on.
Punished(k, c, over) ==
    net' = [net EXCEPT ![c] = IF k = "turn" THEN [@ EXCEPT !.phase = "matched", !.count = 0]
                              ELSE [@ EXCEPT !.phase = "answered", !.over = over]]

\* record_violation has counted one more: the last warning stops the clock, the next one
\* ends the interview, unless something else did.
Punish(k, c) ==
    LET n == net[c].count IN
    /\ At(k, c, "counted")
    /\ \/ n = WarningsBeforeTermination /\ Pause /\ Punished(k, c, FALSE)
       \/ n > WarningsBeforeTermination /\ Close("terminated_violations") /\ Punished(k, c, TRUE)
       \/ n > WarningsBeforeTermination /\ ~Active /\ UNCHANGED lifeVars /\ Punished(k, c, FALSE)
    /\ OnlyServer

\* A turn reads the session and starts the clock of one that was created.
TurnBegins(c) ==
    \/ /\ At("turn", c, "sent") /\ UNCHANGED lifeVars
       /\ Comes(c, IF Active THEN "read" ELSE "answered", status)
    \/ /\ At("turn", c, "read") /\ net[c].status = "created"
       /\ ToTechnical /\ Comes(c, "read", "technical_in_progress")

\* _check_voice_match: another voice than before is a violation, of which the answer
\* to the turn says nothing.
VoiceMismatch(c) ==
    \/ /\ At("turn", c, "read") /\ net[c].modality = "voice" /\ net[c].status \in InProgress
       /\ Warn
       /\ IF warnings' < WarningsBeforeTermination THEN Counts(c, "matched", 0)
          ELSE Counts(c, "counted", warnings')
    \/ Punish("turn", c)

\* It may end the interview, or the round, it has read, however late it writes the round;
\* silence is refused, and the interviewer may fail.
TurnEnds(c) ==
    LET s == net[c].status
        last == "behavioral" \notin does \/ s = "behavioral_in_progress"
    IN  /\ At("turn", c, "read") \/ At("turn", c, "matched")
        /\ s \in InProgress
        /\ \/ UNCHANGED lifeVars /\ Comes(c, "answered", s)
           \/ ~last /\ ToBehavioral /\ Comes(c, "answered", "behavioral_in_progress")
           \/ last /\ Close("completed") /\ Comes(c, "answered", "completed")
           \/ last /\ ~Active /\ UNCHANGED lifeVars /\ Comes(c, "answered", status)
           \/ Refuse(c)

ServeTurn(c) == TurnBegins(c) \/ VoiceMismatch(c) \/ TurnEnds(c)

ServeEnd(c) ==
    /\ At("end", c, "sent")
    /\ \/ \E v \in {"completed", "abandoned"} : Close(v) /\ Comes(c, "answered", v)
       \/ ~Active /\ UNCHANGED lifeVars /\ Comes(c, "answered", status)

\* A type it does not know is refused before anything else is looked at.  Then it reads,
\* counts, and the count decides; a session that ended in between counts no more.
ServeViolation(c) ==
    \/ /\ At("violation", c, "sent") /\ UNCHANGED lifeVars
       /\ \/ net[c].type \in KnownTypes /\ Active /\ Counts(c, "read", warnings)
          \/ ~(net[c].type \in KnownTypes /\ Active) /\ Refuse(c)
    \/ /\ At("violation", c, "read")
       /\ \/ /\ Warn
             /\ Counts(c, IF warnings' < WarningsBeforeTermination THEN "answered" ELSE "counted", warnings')
          \/ ~Active /\ UNCHANGED lifeVars /\ Counts(c, "answered", net[c].count)
    \/ Punish("violation", c)

\* The session goes on without the screen: its clock runs out, the sweep closes it.
Elsewhere ==
    /\ \/ "behavioral" \in does /\ status = "technical_in_progress" /\ ToBehavioral
       \/ \E v \in Closings : (v = "completed" => status \in InProgress) /\ Close(v)
    /\ UNCHANGED <<stack, room, net, lost, does>>

Lose(c) ==
    /\ "lose" \in does /\ net[c].phase \in {"sent", "answered"} /\ lost < MaxLost
    /\ net' = [net EXCEPT ![c].phase = "failed"]
    /\ lost' = lost + 1
    /\ UNCHANGED <<lifeVars, stack, room, does>>

ServeRoom(c) == ServePoll(c) \/ ServeTurn(c) \/ ServeEnd(c) \/ ServeViolation(c)
DeliverRoom(c) == DeliverPoll(c) \/ DeliverTurn(c) \/ DeliverEnd(c) \/ DeliverViolation(c)

RoomStep ==
    \/ RoomPoll \/ AskEnd \/ AnswerAlert \/ ViewReport
    \/ TypeText \/ SubmitText \/ ToggleRecording \/ RecorderPrepared \/ RecorderStopped
    \/ \E s \in FaceStatuses \cup {"ok"} : FaceSample(s)
    \/ AppState \/ BackgroundDebounced
    \/ \E t \in Types : EvidenceFilmed(t) \/ CooldownEnds(t)
    \/ \E c \in Calls : ServeRoom(c) \/ DeliverRoom(c) \/ Lose(c)
    \/ Elsewhere
=============================================================================
