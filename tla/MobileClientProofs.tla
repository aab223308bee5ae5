------------------------- MODULE MobileClientProofs -------------------------
(***************************************************************************)
(* Proofs about MobileClient, for every value of its constants: what the   *)
(* interview of the app and its billing keep, and, stated of the app, what *)
(* is proved of its other stacks (MobileChatProofs and                     *)
(* MobileSessionProofs, of which MobileClient holds instances).            *)
(***************************************************************************)
EXTENDS MobileClient, SequenceTheorems, FiniteSetTheorems, TLAPS

-----------------------------------------------------------------------------
(* What an interview of the app keeps                                       *)

\* The calls in flight that a screen still waits for.
Mine(n) == {c \in Calls : n[c].phase # "free" /\ n[c].mine}

\* What a room left behind on the screen, or waits for, is that of a room on the stack.
RoomIsThere == room # Entered \/ Mine(net) # {} => On("room")

\* A room that hears no more waits for the end, or shows it.
EndIsAwaited == room.ended => room.terminated \/ Mine(net) \cap Slots["end"] # {}

\* The box is closed while an answer is out.
TurnIsAwaited ==
    ~room.crossed => /\ \A c, d \in Mine(net) \cap Slots["turn"] : c = d
                     /\ Mine(net) \cap Slots["turn"] # {} => room.busy

\* What the setup screen holds for a pack that is chosen.
FitsPack(choice) ==
    LET pack == PackConfig[choice.grant] IN
    /\ choice.topic \in {None} \cup pack.topics
    /\ choice.level \in {None} \cup {pack.levels[i] : i \in 1 .. Len(pack.levels)}
    /\ choice.sub # None => choice.topic \in pack.topics /\ choice.sub \in pack.subs[choice.topic]
    /\ choice.behavioral => pack.behavioral
ChoiceFits == setup.choice.grant # None => FitsPack(setup.choice)

\* A session that is paid for has a place.
PaidHasPlace == shop = "paid" => left < MaxLeft

InterviewInv ==
    /\ MobileTypeOK
    /\ RoomIsThere /\ EndIsAwaited /\ TurnIsAwaited
    /\ ChoiceFits /\ AskedWithinPack /\ PaidHasPlace

\* The part of it that is the room's, over the lifecycle and under the other screens.
RoomPart ==
    /\ LifeTypeOK
    /\ stack \in Seq(Screens) /\ stack # <<>> /\ stack[1] = "home"
    /\ room \in Room /\ net \in [Calls -> Call]
    /\ lost \in 0 .. MaxLost /\ does \in Workloads
    /\ RoomIsThere /\ EndIsAwaited /\ TurnIsAwaited

-----------------------------------------------------------------------------
(* The calls of the room                                                    *)

LEMMA KindsOfCalls ==
    /\ DOMAIN Slots = {"poll", "turn", "violation", "end"}
    /\ \A k \in DOMAIN Slots : Slots[k] \subseteq Calls
    /\ \A c \in Calls : \E k \in {"poll", "turn", "violation", "end"} : c \in Slots[k]
    /\ \A c \in Slots["end"] : c \notin Slots["turn"] /\ c \notin Slots["poll"] /\ c \notin Slots["violation"]
    /\ \A c \in Slots["turn"] : c \notin Slots["end"] /\ c \notin Slots["poll"] /\ c \notin Slots["violation"]
BY RoomAssumption DEF Calls

LEMMA FreeType == Free \in Call /\ Free.phase = "free"
BY DEF Free, Call, Modalities, Statuses

\* A call that goes out takes a place that was free.
LEMMA SentCall ==
    ASSUME NEW n \in [Calls -> Call], NEW k \in DOMAIN Slots, NEW m \in Modalities,
           \E c \in Slots[k] : n[c].phase = "free"
    PROVE  \E s \in Slots[k] :
               /\ s = (CHOOSE c \in Slots[k] : n[c].phase = "free") /\ s \in Calls /\ s \notin Mine(n)
               /\ Sent(n, k, m)[s].phase = "sent" /\ Sent(n, k, m)[s].mine
               /\ Sent(n, k, m) \in [Calls -> Call]
               /\ Mine(Sent(n, k, m)) = Mine(n) \cup {s}
<1> DEFINE s == CHOOSE c \in Slots[k] : n[c].phase = "free"
           q == [Free EXCEPT !.phase = "sent", !.modality = m]
<1>1. s \in Slots[k] /\ n[s].phase = "free" /\ s \in Calls
  BY KindsOfCalls
<1>2. q \in Call /\ q.phase = "sent" /\ q.mine = TRUE
  BY DEF Free, Call, Modalities, Statuses
<1>3. Sent(n, k, m) = [n EXCEPT ![s] = q]
  BY DEF Sent
<1> HIDE DEF s, q
<1>4. s \notin Mine(n) /\ Mine([n EXCEPT ![s] = q]) = Mine(n) \cup {s}
  BY <1>1, <1>2 DEF Mine
<1>5. [n EXCEPT ![s] = q] \in [Calls -> Call] /\ [n EXCEPT ![s] = q][s] = q
  BY <1>1, <1>2
<1> QED  BY <1>1, <1>2, <1>3, <1>4, <1>5 DEF s

LEMMA DoneCall ==
    ASSUME NEW n \in [Calls -> Call], NEW c \in Calls
    PROVE  [n EXCEPT ![c] = Free] \in [Calls -> Call] /\ Mine([n EXCEPT ![c] = Free]) = Mine(n) \ {c}
BY FreeType DEF Mine

\* A call that is still out belongs to whom it did.
LEMMA MarkedCall ==
    ASSUME NEW n \in [Calls -> Call], NEW c \in Calls, NEW q \in Call,
           n[c].phase # "free", q.phase # "free", q.mine = n[c].mine
    PROVE  [n EXCEPT ![c] = q] \in [Calls -> Call] /\ Mine([n EXCEPT ![c] = q]) = Mine(n)
BY DEF Mine

LEMMA DisownedCalls ==
    ASSUME NEW n \in [Calls -> Call]
    PROVE  Disowned(n) \in [Calls -> Call] /\ Mine(Disowned(n)) = {}
<1>1. ASSUME NEW c \in Calls
      PROVE  Disowned(n)[c] = IF n[c].phase # "free" THEN [n[c] EXCEPT !.mine = FALSE] ELSE n[c]
  BY KindsOfCalls DEF Disowned
<1>2. ASSUME NEW c \in Calls
      PROVE  Disowned(n)[c] \in Call /\ (Disowned(n)[c].phase # "free" => ~Disowned(n)[c].mine)
  BY <1>1 DEF Call
<1>3. Disowned(n) = [c \in Calls |-> Disowned(n)[c]]
  BY DEF Disowned
<1>4. Disowned(n) \in [Calls -> Call]
  BY <1>2, <1>3
<1> QED  BY <1>2, <1>4 DEF Mine

-----------------------------------------------------------------------------
(* The steps of the room                                                    *)

LEMMA ScreensOfRoom ==
    ASSUME RoomPart
    PROVE  /\ Len(stack) \in Nat \ {0} /\ Top \in Screens
           /\ InRoom => On("room")
           /\ On("room") => Len(stack) > 1
<1>1. Len(stack) \in Nat /\ Len(stack) # 0
  BY DEF RoomPart
<1> QED  BY <1>1 DEF RoomPart, Top, InRoom, On

LEMMA EnteredType == Entered \in Room /\ ~Entered.ended /\ ~Entered.crossed
BY RoomAssumption DEF Entered, Room

\* The room gives way to the report.
LEMMA ReportInstead ==
    ASSUME RoomPart, On("room"), NEW n \in [Calls -> Call], ToReport(n), OnlyRoom
    PROVE  RoomPart'
<1>1. /\ stack' \in Seq(Screens) /\ stack' # <<>> /\ stack'[1] = "home"
  BY ScreensOfRoom DEF RoomPart, ToReport, Replace, Screens
<1>2. room' = Entered /\ net' \in [Calls -> Call] /\ Mine(net') = {}
  BY DisownedCalls DEF ToReport
<1>3. LifeTypeOK' /\ lost' \in 0 .. MaxLost /\ does' \in Workloads
  BY DEF OnlyRoom, RoomPart, LifeTypeOK, lifeVars
<1> QED  BY <1>1, <1>2, <1>3, EnteredType DEF RoomPart, RoomIsThere, EndIsAwaited, TurnIsAwaited

\* A step of the screen that leaves its calls alone.
LEMMA ScreenOnly ==
    ASSUME RoomPart, On("room"), room' \in Room, UNCHANGED <<stack, net, lifeVars, lost, does>>,
           room'.ended = room.ended, room'.terminated = room.terminated,
           room'.crossed = room.crossed, room'.busy = room.busy
    PROVE  RoomPart'
<1>1. RoomIsThere' /\ On("room")'
  BY DEF RoomIsThere, On
<1>2. Mine(net') = Mine(net)
  OBVIOUS
<1>3. EndIsAwaited' /\ TurnIsAwaited'
  BY <1>2 DEF EndIsAwaited, TurnIsAwaited, RoomPart
<1> QED  BY <1>1, <1>3 DEF RoomPart, LifeTypeOK, lifeVars

\* A step that marks a call, and leaves the screen alone.
LEMMA CallOnly ==
    ASSUME RoomPart, NEW c \in Calls, net[c].phase # "free",
           NEW q \in Call, q.phase # "free", q.mine = net[c].mine, net' = [net EXCEPT ![c] = q],
           UNCHANGED <<stack, room, does>>, LifeTypeOK', lost' \in 0 .. MaxLost
    PROVE  RoomPart'
<1>1. net' \in [Calls -> Call] /\ Mine(net') = Mine(net)
  BY MarkedCall DEF RoomPart
<1>2. RoomIsThere' /\ EndIsAwaited' /\ TurnIsAwaited'
  BY <1>1 DEF RoomPart, RoomIsThere, EndIsAwaited, TurnIsAwaited, On
<1> QED  BY <1>1, <1>2 DEF RoomPart

\* A call that came back, but for what it does to the screen.
LEMMA CallTaken ==
    ASSUME RoomPart, NEW c \in Calls, Done(c), UNCHANGED <<stack, lifeVars, lost, does>>,
           room' \in Room, room' = room \/ c \in Mine(net),
           room'.ended => \/ room'.terminated
                          \/ /\ room.ended /\ (room.terminated => room'.terminated)
                             /\ c \notin Mine(net) \cap Slots["end"],
           room'.crossed = room.crossed, room'.busy = room.busy \/ c \in Mine(net) \cap Slots["turn"]
    PROVE  RoomPart'
<1>1. net' \in [Calls -> Call] /\ Mine(net') = Mine(net) \ {c}
  BY DoneCall DEF RoomPart, Done
<1>2. RoomIsThere'
  BY <1>1 DEF RoomPart, RoomIsThere, On
<1>3. EndIsAwaited'
  BY <1>1 DEF RoomPart, EndIsAwaited
<1>4. TurnIsAwaited'
  BY <1>1 DEF RoomPart, TurnIsAwaited
<1> QED  BY <1>1, <1>2, <1>3, <1>4 DEF RoomPart, LifeTypeOK, lifeVars

\* A call that goes out from the room.
LEMMA CallSent ==
    ASSUME RoomPart, On("room"), NEW s \in Calls, s \notin Mine(net),
           net' \in [Calls -> Call], Mine(net') = Mine(net) \cup {s},
           UNCHANGED <<stack, lifeVars, lost, does>>, room' \in Room,
           room'.ended => \/ room'.terminated \/ s \in Slots["end"]
                          \/ room.ended /\ (room.terminated => room'.terminated),
           s \notin Slots["turn"] => room'.busy = room.busy /\ room'.crossed = room.crossed,
           s \in Slots["turn"] /\ ~room'.crossed => room'.busy /\ Mine(net) \cap Slots["turn"] = {}
    PROVE  RoomPart'
<1>1. RoomIsThere'
  BY DEF RoomIsThere, On
<1>2. EndIsAwaited'
  BY DEF RoomPart, EndIsAwaited
<1>3. TurnIsAwaited'
  <2>1. CASE s \in Slots["turn"]
    BY <2>1 DEF RoomPart, TurnIsAwaited
  <2>2. CASE s \notin Slots["turn"]
    BY <2>2 DEF RoomPart, TurnIsAwaited
  <2> QED  BY <2>1, <2>2
<1> QED  BY <1>1, <1>2, <1>3 DEF RoomPart, LifeTypeOK, lifeVars

LEMMA FiredType ==
    ASSUME NEW r \in Room, NEW t \in Types
    PROVE  /\ Fired(t, r) \in Room
           /\ Fired(t, r).ended = r.ended /\ Fired(t, r).terminated = r.terminated
           /\ Fired(t, r).crossed = r.crossed /\ Fired(t, r).busy = r.busy
BY DEF Fired, Room

\* A recorder that works is that of a room that was used.
LEMMA AtRest == ~(Entered.preparing > 0) /\ ~(Entered.stopping > 0)
BY DEF Entered

\* The candidate's steps that send nothing.
LEMMA RoomPartScreen ==
    ASSUME RoomPart,
           \/ AskEnd \/ TypeText \/ ToggleRecording \/ RecorderPrepared \/ AppState \/ BackgroundDebounced
           \/ \E s \in FaceStatuses \cup {"ok"} : FaceSample(s)
           \/ \E t \in Types : CooldownEnds(t)
    PROVE  RoomPart'
<1> USE DEF Room, OnlyRoom
<1>0. room \in Room
  BY DEF RoomPart
<1>1. CASE AskEnd
  BY <1>0, <1>1, ScreenOnly, ScreensOfRoom DEF AskEnd, Live
<1>2. CASE TypeText
  BY <1>0, <1>2, ScreenOnly, ScreensOfRoom DEF TypeText, CanType, Live
<1>3. CASE ToggleRecording
  <2>1. On("room") /\ room.preparing + room.stopping < MaxPresses
    BY <1>3, ScreensOfRoom DEF ToggleRecording, CanToggleMic, Live
  <2>2. room.preparing \in 0 .. MaxPresses /\ room.stopping \in 0 .. MaxPresses
    BY <1>0
  <2>3. room.preparing + 1 \in 0 .. MaxPresses /\ room.stopping + 1 \in 0 .. MaxPresses
    BY <2>1, <2>2, RoomAssumption
  <2> QED  BY <1>0, <1>3, <2>1, <2>3, ScreenOnly DEF ToggleRecording
<1>4. CASE RecorderPrepared
  <2>1. On("room")
    BY <1>4, AtRest DEF RoomPart, RoomIsThere, RecorderPrepared
  <2>2. room.preparing - 1 \in 0 .. MaxPresses
    <3>1. room.preparing \in 0 .. MaxPresses /\ room.preparing > 0
      BY <1>0, <1>4 DEF RecorderPrepared
    <3> QED  BY <3>1, RoomAssumption
  <2>3. PICK rec \in BOOLEAN : room' = [room EXCEPT !.preparing = @ - 1, !.rec = rec]
    BY <1>0, <1>4 DEF RecorderPrepared
  <2> QED  BY <1>0, <1>4, <2>1, <2>2, <2>3, ScreenOnly DEF RecorderPrepared
<1>5. CASE AppState
  BY <1>0, <1>5, ScreenOnly, ScreensOfRoom DEF AppState
<1>6. CASE BackgroundDebounced
  <2>1. [room EXCEPT !.away = FALSE] \in Room /\ "app_backgrounded" \in Types
    BY <1>0 DEF Types
  <2> QED  BY ZenonT(30), <1>0, <1>6, <2>1, FiredType, ScreenOnly, ScreensOfRoom DEF BackgroundDebounced
<1>7. ASSUME NEW s \in FaceStatuses \cup {"ok"}, FaceSample(s)
      PROVE  RoomPart'
  <2>1. s = "ok" \/ s \in Types
    BY DEF Types
  <2>2. CASE s = "ok"
    BY <1>0, <1>7, <2>2, RoomAssumption, ScreenOnly, ScreensOfRoom DEF FaceSample
  <2>3. CASE s # "ok" /\ room.streak + 1 < Streak
    BY <1>0, <1>7, <2>3, RoomAssumption, ScreenOnly, ScreensOfRoom DEF FaceSample
  <2>4. CASE s # "ok" /\ ~(room.streak + 1 < Streak)
    <3>1. [room EXCEPT !.streak = 0] \in Room
      BY <1>0, RoomAssumption
    <3> QED  BY <1>0, <1>7, <2>1, <2>4, <3>1, FiredType, ScreenOnly, ScreensOfRoom DEF FaceSample
  <2> QED  BY <2>2, <2>3, <2>4
<1>8. ASSUME NEW t \in Types, CooldownEnds(t)
      PROVE  RoomPart'
  BY <1>0, <1>8, ScreenOnly, ScreensOfRoom DEF CooldownEnds
<1> QED  BY <1>1, <1>2, <1>3, <1>4, <1>5, <1>6, <1>7, <1>8

LEMMA SlotFree ==
    ASSUME NEW k, HasSlot(k)
    PROVE  \E c \in Slots[k] : net[c].phase = "free"
BY DEF HasSlot

\* The candidate's steps that send a call, and the one that leaves.
LEMMA RoomPartSends ==
    ASSUME RoomPart,
           \/ RoomPoll \/ AnswerAlert \/ SubmitText \/ RecorderStopped \/ ViewReport
           \/ \E t \in Types : EvidenceFilmed(t)
    PROVE  RoomPart'
<1>0. room \in Room /\ net \in [Calls -> Call]
  BY DEF RoomPart
<1>1. CASE RoomPoll
  <2>1. HasSlot("poll") /\ On("room") /\ net' = Sent(net, "poll", "none") /\ room' = room
    BY <1>1, ScreensOfRoom DEF RoomPoll, Send
  <2>2. PICK s \in Slots["poll"] : /\ s \in Calls /\ s \notin Mine(net)
                                   /\ net' \in [Calls -> Call] /\ Mine(net') = Mine(net) \cup {s}
    BY <1>0, <2>1, SlotFree, KindsOfCalls, SentCall DEF Modalities
  <2>3. s \notin Slots["turn"]
    BY KindsOfCalls
  <2> QED  BY <1>0, <1>1, <2>1, <2>2, <2>3, CallSent DEF RoomPoll, OnlyRoom
<1>2. CASE AnswerAlert
  <2>1. On("room") /\ UNCHANGED <<stack, lifeVars, lost, does>>
    BY <1>2, ScreensOfRoom DEF AnswerAlert, OnlyRoom
  <2>2. CASE room' = [room EXCEPT !.asking = FALSE] /\ UNCHANGED net
    BY <1>0, <2>1, <2>2, ScreenOnly DEF Room
  <2>3. CASE room' = [room EXCEPT !.asking = FALSE, !.ended = TRUE] /\ Send("end")
    <3>1. PICK s \in Slots["end"] : /\ s \in Calls /\ s \notin Mine(net)
                                    /\ net' \in [Calls -> Call] /\ Mine(net') = Mine(net) \cup {s}
      BY <1>0, <2>3, SlotFree, KindsOfCalls, SentCall DEF Modalities, Send
    <3>2. s \notin Slots["turn"]
      BY KindsOfCalls
    <3>3. room' \in Room /\ room'.busy = room.busy /\ room'.crossed = room.crossed
      BY <1>0, <2>3 DEF Room
    <3> QED  BY <2>1, <3>1, <3>2, <3>3, CallSent
  <2> QED  BY <1>2, <2>2, <2>3 DEF AnswerAlert
<1>3. CASE SubmitText
  <2>1. On("room") /\ UNCHANGED <<stack, lifeVars, lost, does>> /\ ~room.busy
    BY <1>3, ScreensOfRoom DEF SubmitText, CanSend, Live, OnlyRoom
  <2>2. CASE room.ended /\ room' = [room EXCEPT !.typed = FALSE] /\ UNCHANGED net
    BY <1>0, <2>1, <2>2, ScreenOnly DEF Room
  <2>3. CASE /\ ~room.ended /\ HasSlot("turn") /\ room' = [room EXCEPT !.typed = FALSE, !.busy = TRUE]
             /\ net' = Sent(net, "turn", "text")
    <3>1. PICK s \in Slots["turn"] : /\ s \in Calls /\ s \notin Mine(net)
                                     /\ net' \in [Calls -> Call] /\ Mine(net') = Mine(net) \cup {s}
      BY <1>0, <2>3, SlotFree, KindsOfCalls, SentCall DEF Modalities
    <3>2. room' \in Room /\ ~room'.ended /\ room'.busy /\ room'.crossed = room.crossed
      BY <1>0, <2>3 DEF Room
    <3>3. ~room.crossed => Mine(net) \cap Slots["turn"] = {}
      BY <2>1 DEF RoomPart, TurnIsAwaited
    <3> QED  BY <2>1, <3>1, <3>2, <3>3, CallSent
  <2> QED  BY <1>3, <2>2, <2>3 DEF SubmitText
<1>4. CASE RecorderStopped
  <2>1. On("room") /\ UNCHANGED <<stack, lifeVars, lost, does>>
    BY <1>4, AtRest DEF RoomPart, RoomIsThere, RecorderStopped, OnlyRoom
  <2>p. room.stopping - 1 \in 0 .. MaxPresses
    <3>1. room.stopping \in 0 .. MaxPresses /\ room.stopping > 0
      BY <1>0, <1>4 DEF RecorderStopped, Room
    <3> QED  BY <3>1, RoomAssumption
  <2>2. CASE room' = [room EXCEPT !.stopping = @ - 1] /\ UNCHANGED net
    BY <1>0, <2>p, <2>1, <2>2, ScreenOnly DEF Room
  <2>3. CASE /\ ~room.ended /\ HasSlot("turn")
             /\ room' = [room EXCEPT !.stopping = @ - 1, !.busy = TRUE, !.crossed = @ \/ InFlight("turn") # {}]
             /\ net' = Sent(net, "turn", "voice")
    <3>1. PICK s \in Slots["turn"] : /\ s \in Calls /\ s \notin Mine(net)
                                     /\ net' \in [Calls -> Call] /\ Mine(net') = Mine(net) \cup {s}
      BY <1>0, <2>3, SlotFree, KindsOfCalls, SentCall DEF Modalities
    <3>2. /\ room' \in Room /\ ~room'.ended /\ room'.busy
          /\ ~room'.crossed => InFlight("turn") = {}
      BY <1>0, <2>p, <2>3 DEF Room
    <3>3. Mine(net) \cap Slots["turn"] \subseteq InFlight("turn")
      BY DEF Mine, InFlight
    <3> QED  BY <2>1, <3>1, <3>2, <3>3, CallSent
  <2> QED  BY <1>4, <2>2, <2>3 DEF RecorderStopped
<1>5. CASE ViewReport
  BY <1>0, <1>5, ReportInstead, ScreensOfRoom DEF ViewReport
<1>6. ASSUME NEW t \in Types, EvidenceFilmed(t)
      PROVE  RoomPart'
  <2>1. On("room") /\ UNCHANGED <<stack, lifeVars, lost, does>>
    BY <1>6 DEF RoomPart, RoomIsThere, EvidenceFilmed, Entered, OnlyRoom
  <2> DEFINE n == Sent(net, "violation", "none")
  <2>2. PICK s \in Slots["violation"] :
            /\ s = (CHOOSE c \in Slots["violation"] : net[c].phase = "free")
            /\ s \in Calls /\ s \notin Mine(net)
            /\ n[s].phase = "sent" /\ n[s].mine
            /\ n \in [Calls -> Call] /\ Mine(n) = Mine(net) \cup {s}
    BY <1>0, <1>6, SlotFree, KindsOfCalls, SentCall DEF Modalities, EvidenceFilmed
  <2> HIDE DEF n
  <2>3. net' = [n EXCEPT ![s] = [n[s] EXCEPT !.type = t]]
    BY <1>6, <2>2 DEF EvidenceFilmed, n
  <2>4. /\ [n[s] EXCEPT !.type = t] \in Call /\ [n[s] EXCEPT !.type = t].phase = n[s].phase
        /\ [n[s] EXCEPT !.type = t].mine = n[s].mine
    BY <2>2 DEF Call
  <2>5. net' \in [Calls -> Call] /\ Mine(net') = Mine(net) \cup {s}
    <3> DEFINE q == [n[s] EXCEPT !.type = t]
    <3>1. q \in Call /\ n[s].phase # "free" /\ q.phase # "free" /\ q.mine = n[s].mine
      BY <2>2, <2>4
    <3>a. n \in [Calls -> Call] /\ s \in Calls
      BY <2>2
    <3> HIDE DEF q
    <3>2. [n EXCEPT ![s] = q] \in [Calls -> Call] /\ Mine([n EXCEPT ![s] = q]) = Mine(n)
      BY <3>a, <3>1, MarkedCall
    <3> QED  BY <2>2, <2>3, <3>2 DEF q
  <2>6. s \notin Slots["turn"]
    BY KindsOfCalls
  <2>7. room' = [room EXCEPT !.filming = @ \ {t}]
    BY <1>6 DEF EvidenceFilmed
  <2>8. /\ room' \in Room /\ room'.busy = room.busy /\ room'.crossed = room.crossed
        /\ room'.ended = room.ended /\ room'.terminated = room.terminated
    BY <1>0, <2>7 DEF Room
  <2> QED  BY <2>1, <2>2, <2>5, <2>6, <2>8, CallSent
<1> QED  BY <1>1, <1>2, <1>3, <1>4, <1>5, <1>6

\* What comes back to the screen.
LEMMA RoomPartDelivers ==
    ASSUME RoomPart, NEW c \in Calls, DeliverRoom(c)
    PROVE  RoomPart'
<1>0. room \in Room /\ net \in [Calls -> Call] /\ [net EXCEPT ![c] = Free] \in [Calls -> Call]
  BY DoneCall DEF RoomPart
<1>1. net[c].mine /\ net[c].phase # "free" => c \in Mine(net) /\ On("room")
  BY DEF Mine, RoomPart, RoomIsThere
<1>2. CASE DeliverPoll(c)
  <2>1. c \in Slots["poll"] /\ net[c].phase # "free" /\ OnlyRoom
    BY <1>2 DEF DeliverPoll, Came
  <2>2. c \notin Slots["end"] /\ c \notin Slots["turn"]
    BY <2>1, KindsOfCalls
  <2>3. CASE Done(c) /\ UNCHANGED <<stack, room>>
    BY <1>0, <2>1, <2>2, <2>3, CallTaken DEF OnlyRoom
  <2>4. CASE net[c].mine /\ Done(c) /\ UNCHANGED stack /\ room' = [room EXCEPT !.ended = TRUE, !.terminated = TRUE]
    <3>1. room' \in Room /\ room'.terminated /\ room'.busy = room.busy /\ room'.crossed = room.crossed
      BY <1>0, <2>4 DEF Room
    <3> QED  BY <1>1, <2>1, <2>2, <2>4, <3>1, CallTaken DEF OnlyRoom
  <2>5. CASE net[c].mine /\ ToReport([net EXCEPT ![c] = Free])
    BY <1>0, <1>1, <2>1, <2>5, ReportInstead
  <2> QED  BY <1>2, <2>3, <2>4, <2>5 DEF DeliverPoll
<1>3. CASE DeliverTurn(c)
  <2>1. c \in Slots["turn"] /\ net[c].phase # "free" /\ OnlyRoom
    BY <1>3 DEF DeliverTurn, Came
  <2>2. c \notin Slots["end"]
    BY <2>1, KindsOfCalls
  <2>3. CASE net[c].mine /\ ToReport([net EXCEPT ![c] = Free])
    BY <1>0, <1>1, <2>1, <2>3, ReportInstead
  <2>4. CASE Done(c) /\ UNCHANGED stack /\ room' = IF net[c].mine THEN [room EXCEPT !.busy = FALSE] ELSE room
    <3>1. /\ room' \in Room /\ room'.crossed = room.crossed /\ room'.ended = room.ended
          /\ room'.terminated = room.terminated
          /\ room' = room \/ net[c].mine
      BY <1>0, <2>4 DEF Room
    <3> QED  BY <1>1, <2>1, <2>2, <2>4, <3>1, CallTaken DEF OnlyRoom
  <2> QED  BY <1>3, <2>3, <2>4 DEF DeliverTurn
<1>4. CASE DeliverEnd(c)
  <2>1. c \in Slots["end"] /\ net[c].phase # "free" /\ OnlyRoom
    BY <1>4 DEF DeliverEnd, Came
  <2>2. CASE net[c].mine /\ ToReport([net EXCEPT ![c] = Free])
    BY <1>0, <1>1, <2>1, <2>2, ReportInstead
  <2>3. CASE ~net[c].mine /\ Done(c) /\ UNCHANGED <<stack, room>>
    <3>1. c \notin Mine(net)
      BY <2>3 DEF Mine
    <3> QED  BY <1>0, <2>1, <2>3, <3>1, CallTaken DEF OnlyRoom
  <2> QED  BY <1>4, <2>2, <2>3 DEF DeliverEnd
<1>5. CASE DeliverViolation(c)
  <2>1. c \in Slots["violation"] /\ net[c].phase # "free" /\ OnlyRoom /\ Done(c) /\ UNCHANGED stack
    BY <1>5 DEF DeliverViolation, Came
  <2>2. c \notin Slots["end"] /\ c \notin Slots["turn"]
    BY <2>1, KindsOfCalls
  <2>3. CASE room' = room
    BY <1>0, <2>1, <2>2, <2>3, CallTaken DEF OnlyRoom
  <2>4. CASE net[c].mine /\ room' = [room EXCEPT !.ended = TRUE, !.terminated = TRUE]
    <3>1. room' \in Room /\ room'.terminated /\ room'.busy = room.busy /\ room'.crossed = room.crossed
      BY <1>0, <2>4 DEF Room
    <3> QED  BY <1>1, <2>1, <2>2, <2>4, <3>1, CallTaken DEF OnlyRoom
  <2> QED  BY <1>5, <2>3, <2>4 DEF DeliverViolation
<1> QED  BY <1>2, <1>3, <1>4, <1>5 DEF DeliverRoom

\* The session stays as it is, moves on, or ends, or counts a warning or stops its clock.
GoesOn ==
    \/ UNCHANGED lifeVars \/ ToTechnical \/ ToBehavioral \/ Warn \/ Pause
    \/ \E v \in Terminal : Close(v)

LEMMA ClockGoesOn ==
    ASSUME LifeTypeOK, GoesOn
    PROVE  LifeTypeOK' /\ warnings' \in Nat
<1> USE DEF LifeTypeOK
<1>1. CASE UNCHANGED lifeVars
  BY <1>1 DEF lifeVars
<1>2. CASE ToTechnical \/ ToBehavioral
  BY <1>2 DEF ToTechnical, ToBehavioral, ACTIVE_STATUSES, InProgress
<1>3. CASE Warn
  BY <1>3 DEF Warn
<1>4. CASE Pause
  BY <1>4 DEF Pause
<1>5. CASE \E v \in Terminal : Close(v)
  BY <1>5 DEF Close
<1> QED  BY <1>1, <1>2, <1>3, <1>4, <1>5 DEF GoesOn

\* How far a handler that goes on has come, and how the call is marked then.
Further == {"read", "counted", "matched", "answered", "failed"}
MarkedWith(c, q) == q.phase \in Further /\ q.mine = net[c].mine /\ net' = [net EXCEPT ![c] = q]

LEMMA HandlerComes ==
    ASSUME RoomPart, NEW c \in Calls, net[c].phase # "free", OnlyServer, GoesOn,
           NEW q \in Call, MarkedWith(c, q)
    PROVE  RoomPart'
<1>1. LifeTypeOK' /\ lost' \in 0 .. MaxLost
  BY ClockGoesOn DEF RoomPart, OnlyServer
<1>2. q.phase # "free"
  BY DEF MarkedWith, Further
<1> QED  BY <1>1, <1>2, CallOnly DEF OnlyServer, MarkedWith

\* What a handler reads, counts or refuses.
LEMMA HandlerStep ==
    ASSUME RoomPart, NEW c \in Calls, net[c].phase # "free",
           \/ \E phase \in Further : \E s \in Statuses : Comes(c, phase, s) /\ GoesOn
           \/ \E phase \in Further : \E n \in Nat : Counts(c, phase, n) /\ GoesOn
           \/ Refuse(c)
    PROVE  RoomPart'
<1> DEFINE o == net[c]
<1>0. net \in [Calls -> Call] /\ o \in Call
  BY DEF RoomPart
<1>1. ASSUME NEW phase \in Further, NEW s \in Statuses, Comes(c, phase, s), GoesOn
      PROVE  RoomPart'
  <2> DEFINE q == [o EXCEPT !.phase = phase, !.status = s]
  <2>1. net' = [net EXCEPT ![c] = q] /\ OnlyServer
    BY <1>0, <1>1 DEF Comes
  <2> HIDE DEF o
  <2>2. q \in Call /\ q.phase = phase /\ q.mine = o.mine
    BY <1>0 DEF Call, Further
  <2> HIDE DEF q
  <2>3. MarkedWith(c, q)
    BY <2>1, <2>2 DEF MarkedWith, o
  <2> QED  BY <1>1, <2>1, <2>2, <2>3, HandlerComes
<1>2. ASSUME NEW phase \in Further, NEW n \in Nat, Counts(c, phase, n), GoesOn
      PROVE  RoomPart'
  <2> DEFINE q == [o EXCEPT !.phase = phase, !.count = n]
  <2>1. net' = [net EXCEPT ![c] = q] /\ OnlyServer
    BY <1>0, <1>2 DEF Counts
  <2> HIDE DEF o
  <2>2. q \in Call /\ q.phase = phase /\ q.mine = o.mine
    BY <1>0 DEF Call, Further
  <2> HIDE DEF q
  <2>3. MarkedWith(c, q)
    BY <2>1, <2>2 DEF MarkedWith, o
  <2> QED  BY <1>2, <2>1, <2>2, <2>3, HandlerComes
<1>3. CASE Refuse(c)
  <2> DEFINE q == [o EXCEPT !.phase = "failed"]
  <2>1. net' = [net EXCEPT ![c] = q] /\ OnlyServer /\ GoesOn
    BY <1>0, <1>3 DEF Refuse, GoesOn
  <2> HIDE DEF o
  <2>2. q \in Call /\ q.phase \in Further /\ q.mine = o.mine
    BY <1>0 DEF Call, Further
  <2> HIDE DEF q
  <2>3. MarkedWith(c, q)
    BY <2>1, <2>2 DEF MarkedWith, o
  <2> QED  BY <2>1, <2>2, <2>3, HandlerComes
<1> QED  BY <1>1, <1>2, <1>3

LEMMA PunishStep ==
    ASSUME RoomPart, NEW c \in Calls, NEW k \in {"turn", "violation"}, Punish(k, c)
    PROVE  RoomPart'
<1> DEFINE o == net[c]
<1>0. net \in [Calls -> Call] /\ o \in Call
  BY DEF RoomPart
<1>1. net[c].phase # "free" /\ OnlyServer /\ GoesOn
  BY DEF Punish, At, GoesOn, Terminal
<1>2. PICK over \in BOOLEAN : Punished(k, c, over)
  BY DEF Punish
<1> DEFINE q1 == [o EXCEPT !.phase = "matched", !.count = 0]
           q2 == [o EXCEPT !.phase = "answered", !.over = over]
<1>3. PICK q \in {q1, q2} : net' = [net EXCEPT ![c] = q]
  BY <1>0, <1>2 DEF Punished
<1> HIDE DEF o
<1>a. q1 \in Call /\ q1.phase \in Further /\ q1.mine = o.mine
  BY <1>0 DEF Call, Further
<1>b. q2 \in Call /\ q2.phase \in Further /\ q2.mine = o.mine
  BY <1>0 DEF Call, Further
<1> HIDE DEF q1, q2
<1>4. q \in Call /\ q.phase \in Further /\ q.mine = o.mine
  BY <1>3, <1>a, <1>b
<1>5. MarkedWith(c, q)
  BY <1>3, <1>4 DEF MarkedWith, o
<1> QED  BY <1>1, <1>4, <1>5, HandlerComes

\* What the server and the network do to a call, and what goes on elsewhere.
LEMMA RoomPartServes ==
    ASSUME RoomPart, \/ \E c \in Calls : ServeRoom(c) \/ Lose(c)
                     \/ Elsewhere
    PROVE  RoomPart'
<1>0. /\ net \in [Calls -> Call] /\ LifeTypeOK /\ lost \in 0 .. MaxLost
      /\ status \in Statuses /\ warnings \in Nat
      /\ \A c \in Calls : net[c].status \in Statuses /\ net[c].count \in Nat
  BY DEF RoomPart, LifeTypeOK, Statuses, Call
<1>s. {"technical_in_progress", "behavioral_in_progress", "completed", "abandoned"} \subseteq Statuses
  BY DEF Statuses, ACTIVE_STATUSES, InProgress, Terminal
<1>f. {"read", "counted", "matched", "answered"} \subseteq Further /\ 0 \in Nat
  BY DEF Further
<1>w. Warn => warnings' \in Nat
  BY <1>0 DEF Warn
<1>1. ASSUME NEW c \in Calls, ServePoll(c)
      PROVE  RoomPart'
  <2>1. net[c].phase # "free" /\ Comes(c, "answered", status) /\ GoesOn
    BY <1>1 DEF ServePoll, At, GoesOn
  <2> QED  BY <1>0, <1>f, <2>1, HandlerStep
<1>2. ASSUME NEW c \in Calls, TurnBegins(c)
      PROVE  RoomPart'
  <2>1. \E phase \in Further : \E s \in Statuses : Comes(c, phase, s) /\ GoesOn
    BY <1>0, <1>2, <1>f, <1>s DEF TurnBegins, GoesOn
  <2>2. net[c].phase # "free"
    BY <1>2 DEF TurnBegins, At
  <2> QED  BY <2>1, <2>2, HandlerStep
<1>3. ASSUME NEW c \in Calls, VoiceMismatch(c)
      PROVE  RoomPart'
  <2>1. CASE Punish("turn", c)
    BY <2>1, PunishStep
  <2>2. CASE ~Punish("turn", c)
    <3>1. net[c].phase # "free" /\ Warn /\ GoesOn
      BY <1>3, <2>2 DEF VoiceMismatch, At, GoesOn
    <3>2. \E phase \in Further : \E n \in Nat : Counts(c, phase, n) /\ GoesOn
      BY <1>3, <1>f, <1>w, <2>2, <3>1 DEF VoiceMismatch
    <3> QED  BY <3>1, <3>2, HandlerStep
  <2> QED  BY <2>1, <2>2
<1>4. ASSUME NEW c \in Calls, TurnEnds(c)
      PROVE  RoomPart'
  <2>1. net[c].phase # "free"
    BY <1>4 DEF TurnEnds, At
  <2>2. \/ \E phase \in Further : \E s \in Statuses : Comes(c, phase, s) /\ GoesOn
        \/ Refuse(c)
    BY <1>0, <1>4, <1>f, <1>s DEF TurnEnds, GoesOn, Terminal
  <2> QED  BY <2>1, <2>2, HandlerStep
<1>5. ASSUME NEW c \in Calls, ServeEnd(c)
      PROVE  RoomPart'
  <2>1. net[c].phase # "free"
    BY <1>5 DEF ServeEnd, At
  <2>2. \E phase \in Further : \E s \in Statuses : Comes(c, phase, s) /\ GoesOn
    BY <1>0, <1>5, <1>f, <1>s DEF ServeEnd, GoesOn, Terminal
  <2> QED  BY <2>1, <2>2, HandlerStep
<1>6. ASSUME NEW c \in Calls, ServeViolation(c)
      PROVE  RoomPart'
  <2>1. CASE Punish("violation", c)
    BY <2>1, PunishStep
  <2>2. CASE ~Punish("violation", c)
    <3>1. net[c].phase # "free"
      BY <1>6, <2>2 DEF ServeViolation, At
    <3>2. \/ \E phase \in Further : \E n \in Nat : Counts(c, phase, n) /\ GoesOn
          \/ Refuse(c)
      BY <1>0, <1>6, <1>f, <1>w, <2>2 DEF ServeViolation, GoesOn
    <3> QED  BY <3>1, <3>2, HandlerStep
  <2> QED  BY <2>1, <2>2
<1>7. ASSUME NEW c \in Calls, Lose(c)
      PROVE  RoomPart'
  <2> DEFINE q == [net[c] EXCEPT !.phase = "failed"]
  <2>1. lost' \in 0 .. MaxLost /\ net[c].phase # "free"
    BY <1>0, <1>7, RoomAssumption DEF Lose
  <2>2. q \in Call /\ q.phase # "free" /\ q.mine = net[c].mine
    BY <1>0 DEF Call
  <2>3. net' = [net EXCEPT ![c] = q] /\ LifeTypeOK'
    BY <1>0, <1>7 DEF Lose, LifeTypeOK, lifeVars
  <2> HIDE DEF q
  <2> QED  BY <1>7, <2>1, <2>2, <2>3, CallOnly DEF Lose
<1>8. CASE Elsewhere
  <2>1. GoesOn
    BY <1>8, RoomAssumption DEF Elsewhere, GoesOn
  <2>2. LifeTypeOK' /\ UNCHANGED <<stack, room, net, lost, does>>
    BY <1>0, <1>8, <2>1, ClockGoesOn DEF Elsewhere
  <2> QED  BY <2>2 DEF RoomPart, RoomIsThere, EndIsAwaited, TurnIsAwaited, On
<1> QED  BY <1>1, <1>2, <1>3, <1>4, <1>5, <1>6, <1>7, <1>8 DEF ServeRoom, ServeTurn

LEMMA RoomPartStep == ASSUME RoomPart, RoomStep  PROVE RoomPart'
BY RoomPartScreen, RoomPartSends, RoomPartDelivers, RoomPartServes DEF RoomStep

-----------------------------------------------------------------------------
(* The other screens: their calls                                           *)

CallsPart == calls \in [FlowKinds -> FlowCall] /\ AskedWithinPack

LEMMA NoCallType == NoChoice \in Choice /\ NoCall \in FlowCall /\ NoCall.phase = "free"
BY PackAssumption DEF NoChoice, Choice, NoCall, FlowCall

\* The call that creates the session goes on as it was, or is over.
LEMMA CreateKept ==
    ASSUME CallsPart, calls' \in [FlowKinds -> FlowCall],
           \/ calls'["create"].phase = "free"
           \/ calls["create"].phase # "free" /\ calls'["create"].choice = calls["create"].choice
    PROVE  CallsPart'
BY DEF CallsPart, AskedWithinPack

LEMMA Fetched ==
    ASSUME CallsPart, NEW kinds \in SUBSET FlowKinds, "create" \notin kinds, Fetch(kinds)
    PROVE  CallsPart'
<1>1. [NoCall EXCEPT !.phase = "sent"] \in FlowCall
  BY NoCallType DEF FlowCall
<1>2. calls' = [k \in FlowKinds |-> IF k \in kinds THEN [NoCall EXCEPT !.phase = "sent"] ELSE calls[k]]
  BY DEF Fetch
<1>3. calls' \in [FlowKinds -> FlowCall]
  BY <1>1, <1>2 DEF CallsPart
<1>4. calls'["create"] = calls["create"]
  BY <1>2 DEF FlowKinds
<1> QED  BY <1>3, <1>4, CreateKept

LEMMA Taken == ASSUME CallsPart, NEW k \in FlowKinds, Took(k)  PROVE CallsPart'
<1>1. calls' \in [FlowKinds -> FlowCall]
  BY NoCallType DEF Took, CallsPart
<1>2. calls'["create"] = calls["create"] \/ calls'["create"].phase = "free"
  BY NoCallType DEF Took, CallsPart, FlowKinds
<1> QED  BY <1>1, <1>2, CreateKept

LEMMA AbandonedCalls ==
    ASSUME NEW n \in [FlowKinds -> FlowCall], NEW kinds
    PROVE  /\ Abandoned(n, kinds) \in [FlowKinds -> FlowCall]
           /\ Abandoned(n, kinds)["create"].phase = n["create"].phase
           /\ Abandoned(n, kinds)["create"].choice = n["create"].choice
<1>1. ASSUME NEW k \in FlowKinds
      PROVE  /\ [n[k] EXCEPT !.mine = FALSE] \in FlowCall
             /\ [n[k] EXCEPT !.mine = FALSE].phase = n[k].phase
             /\ [n[k] EXCEPT !.mine = FALSE].choice = n[k].choice
  BY DEF FlowCall
<1>2. "create" \in FlowKinds
  BY DEF FlowKinds
<1> QED  BY <1>1, <1>2 DEF Abandoned

LEMMA FlowAnswered ==
    ASSUME CallsPart, NEW k \in FlowKinds, NEW call \in FlowCall, call.choice = calls[k].choice,
           FlowAnswer(k, call)
    PROVE  CallsPart'
<1>1. [call EXCEPT !.phase = "answered"] \in FlowCall /\ [call EXCEPT !.phase = "answered"].choice = call.choice
  BY DEF FlowCall
<1>2. calls[k].phase # "free" /\ calls' = [calls EXCEPT ![k] = [call EXCEPT !.phase = "answered"]]
  BY DEF FlowAnswer
<1>3. calls' \in [FlowKinds -> FlowCall]
  BY <1>1, <1>2 DEF CallsPart
<1>4. \/ calls'["create"] = calls["create"]
      \/ calls["create"].phase # "free" /\ calls'["create"].choice = calls["create"].choice
  BY <1>1, <1>2 DEF CallsPart, FlowKinds
<1> QED  BY <1>3, <1>4, CreateKept

LEMMA Marked ==
    ASSUME CallsPart, NEW k \in FlowKinds, NEW phase \in {"refused", "failed"},
           calls[k].phase # "free", calls' = [calls EXCEPT ![k].phase = phase]
    PROVE  CallsPart'
<1>1. [calls[k] EXCEPT !.phase = phase] \in FlowCall
  BY DEF FlowCall, CallsPart
<1>2. calls' = [calls EXCEPT ![k] = [calls[k] EXCEPT !.phase = phase]]
  BY DEF CallsPart
<1>3. calls' \in [FlowKinds -> FlowCall]
  BY <1>1, <1>2 DEF CallsPart
<1>4. [calls[k] EXCEPT !.phase = phase].choice = calls[k].choice
  BY DEF CallsPart, FlowCall
<1>5. \/ calls'["create"] = calls["create"]
      \/ calls["create"].phase # "free" /\ calls'["create"].choice = calls["create"].choice
  BY <1>2, <1>4 DEF CallsPart, FlowKinds
<1> QED  BY <1>3, <1>5, CreateKept

-----------------------------------------------------------------------------
(* The screens over and under the room                                      *)

LEMMA RoomAlone ==
    ASSUME RoomPart, UNCHANGED <<lifeVars, stack, room, net, lost, does>>
    PROVE  RoomPart'
BY DEF RoomPart, RoomIsThere, EndIsAwaited, TurnIsAwaited, On, LifeTypeOK, lifeVars

LEMMA RoomPushed ==
    ASSUME RoomPart, NEW screen \in Screens, stack' = Pushed(screen),
           UNCHANGED <<lifeVars, room, net, lost, does>>
    PROVE  RoomPart'
<1>1. /\ stack' \in Seq(Screens) /\ stack' # <<>> /\ stack'[1] = "home"
      /\ Len(stack') = Len(stack) + 1 /\ \A i \in 1 .. Len(stack) : stack'[i] = stack[i]
  BY ScreensOfRoom DEF RoomPart, Pushed
<1>2. On("room") => On("room")'
  BY <1>1, ScreensOfRoom DEF On
<1> QED  BY <1>1, <1>2 DEF RoomPart, RoomIsThere, EndIsAwaited, TurnIsAwaited, LifeTypeOK, lifeVars

LEMMA RoomPopped ==
    ASSUME RoomPart, Len(stack) > 1, stack' = SubSeq(stack, 1, Len(stack) - 1),
           room' = IF Top = "room" THEN Entered ELSE room,
           net' = IF Top = "room" THEN Disowned(net) ELSE net,
           UNCHANGED <<lifeVars, lost, does>>
    PROVE  RoomPart'
<1>1. /\ stack' \in Seq(Screens) /\ stack' # <<>> /\ stack'[1] = "home"
      /\ Len(stack') = Len(stack) - 1 /\ \A i \in 1 .. Len(stack) - 1 : stack'[i] = stack[i]
  <2>1. Len(stack) \in Nat /\ \A i \in 1 .. Len(stack) - 1 : stack[i] \in Screens
    BY DEF RoomPart
  <2>2. /\ SubSeq(stack, 1, Len(stack) - 1) \in Seq(Screens)
        /\ Len(SubSeq(stack, 1, Len(stack) - 1)) = Len(stack) - 1
        /\ \A i \in 1 .. Len(stack) - 1 : SubSeq(stack, 1, Len(stack) - 1)[i] = stack[i]
    BY <2>1, SubSeqProperties
  <2> DEFINE t == SubSeq(stack, 1, Len(stack) - 1)
  <2> HIDE DEF t
  <2>3. /\ t \in Seq(Screens) /\ Len(t) = Len(stack) - 1
        /\ \A i \in 1 .. Len(stack) - 1 : t[i] = stack[i]
    BY <2>2 DEF t
  <2>4. t # <<>> /\ t[1] = "home"
    BY <2>1, <2>3 DEF RoomPart
  <2> QED  BY <2>3, <2>4 DEF t
<1>2. On("room") /\ Top # "room" => On("room")'
  BY <1>1, ScreensOfRoom DEF On, Top
<1>3. LifeTypeOK' /\ lost' \in 0 .. MaxLost /\ does' \in Workloads
  BY DEF RoomPart, LifeTypeOK, lifeVars
<1>4. CASE Top = "room"
  <2>1. room' = Entered /\ net' \in [Calls -> Call] /\ Mine(net') = {}
    BY <1>4, DisownedCalls DEF RoomPart
  <2> QED  BY <1>1, <1>3, <2>1, EnteredType DEF RoomPart, RoomIsThere, EndIsAwaited, TurnIsAwaited
<1>5. CASE Top # "room"
  BY <1>1, <1>2, <1>3, <1>5 DEF RoomPart, RoomIsThere, EndIsAwaited, TurnIsAwaited
<1> QED  BY <1>4, <1>5

-----------------------------------------------------------------------------
(* The other screens: their states                                          *)

FlowPart ==
    /\ home \in HomeState /\ setup \in SetupState /\ check \in CheckState /\ report \in ReportState
    /\ shop \in {"none", "open", "paid", "credited", "cancelled"}
    /\ perms \in [{"camera", "mic"} -> Permission]
    /\ left \in 0 .. MaxLeft /\ ready \in BOOLEAN
    /\ CallsPart /\ ChoiceFits /\ PaidHasPlace

LEMMA FirstStates ==
    /\ HomeFirst \in HomeState /\ SetupFirst \in SetupState /\ CheckFirst \in CheckState
    /\ ReportFirst \in ReportState
    /\ SetupFirst.choice.grant = None
<1>1. HomeFirst \in HomeState
  BY PackAssumption DEF HomeFirst, HomeState
<1>2. SetupFirst \in SetupState /\ SetupFirst.choice.grant = None
  BY NoCallType DEF SetupFirst, SetupState, NoChoice
<1>3. CheckFirst \in CheckState
  BY DEF CheckFirst, CheckState, STEPS
<1>4. ReportFirst \in ReportState
  BY DEF ReportFirst, ReportState
<1> QED  BY <1>1, <1>2, <1>3, <1>4

\* A pack that is selected has nothing chosen yet but its first level.
LEMMA Selected ==
    ASSUME NEW g \in Grants
    PROVE  SelectGrant(g) \in Choice /\ SelectGrant(g).grant = g /\ FitsPack(SelectGrant(g))
<1>1. PackConfig[g].levels \in Seq(Levels) /\ PackConfig[g].behavioral \in BOOLEAN
  BY PackAssumption
<1>2. SelectGrant(g) \in [grant: {g}, topic: {None}, level: {FirstLevel(g)}, sub: {None},
                         behavioral: {PackConfig[g].behavioral}]
  BY DEF SelectGrant, NoChoice
<1>3. /\ FirstLevel(g) \in {None} \cup Levels
      /\ FirstLevel(g) \in {None} \cup {PackConfig[g].levels[i] : i \in 1 .. Len(PackConfig[g].levels)}
  <2>1. CASE PackConfig[g].levels = <<>>
    BY <2>1 DEF FirstLevel
  <2>2. CASE PackConfig[g].levels # <<>>
    <3>1. /\ Len(PackConfig[g].levels) \in Nat \ {0} /\ PackConfig[g].levels[1] \in Levels
          /\ FirstLevel(g) = PackConfig[g].levels[1]
      BY <1>1, <2>2 DEF FirstLevel
    <3> QED  BY <3>1
  <2> QED  BY <2>1, <2>2
<1> QED  BY <1>1, <1>2, <1>3 DEF Choice, FitsPack

\* The overview's steps.
LEMMA FlowPartHome ==
    ASSUME FlowPart, \/ HomeLoad \/ DeliverHome \/ BuyPack \/ DeliverOrder \/ BrowserClosed
                     \/ DeliverLink
    PROVE  FlowPart' /\ UNCHANGED <<lifeVars, stack, room, net, lost, does>>
<1>0. /\ home \in HomeState /\ CallsPart /\ calls \in [FlowKinds -> FlowCall]
      /\ HomeLoadKinds \subseteq FlowKinds /\ "create" \notin HomeLoadKinds
      /\ {"order", "link", "entitlement", "sessions", "packs"} \subseteq FlowKinds
  BY DEF FlowPart, CallsPart, HomeLoadKinds, FlowKinds
<1>1. OnlyHome
  BY DEF HomeLoad, DeliverHome, BuyPack, DeliverOrder, BrowserClosed, DeliverLink
<1>2. ASSUME home' \in HomeState, CallsPart'
      PROVE  FlowPart' /\ UNCHANGED <<lifeVars, stack, room, net, lost, does>>
  BY <1>1, <1>2 DEF FlowPart, OnlyHome, OnlyScreen, ChoiceFits, PaidHasPlace
<1>3. CASE HomeLoad
  <2>1. home' \in HomeState
    BY <1>0, <1>3 DEF HomeLoad, HomeState
  <2>2. CallsPart'
    BY <1>0, <1>3, Fetched DEF HomeLoad
  <2> QED  BY <1>2, <2>1, <2>2
<1>4. CASE DeliverHome
  <2>1. calls["entitlement"].left \in 0 .. MaxLeft
    BY <1>0 DEF FlowCall
  <2>2. calls["sessions"].status \in {"none"} \cup ACTIVE_STATUSES \cup Terminal
        /\ calls["sessions"].ready \in BOOLEAN
    BY <1>0 DEF FlowCall
  <2>3. home' \in HomeState
    <3>1. PICK e \in {-1} \cup 0 .. MaxLeft, seen \in {"none"} \cup ACTIVE_STATUSES \cup Terminal,
               r \in BOOLEAN, p \in BOOLEAN :
              home' = [home EXCEPT !.loading = FALSE, !.entitlement = e, !.seen = seen,
                                   !.ready = r, !.packs = p]
      <4>1. home.entitlement \in {-1} \cup 0 .. MaxLeft /\ home.ready \in BOOLEAN
            /\ home.seen \in {"none"} \cup ACTIVE_STATUSES \cup Terminal
        BY <1>0 DEF HomeState
      <4>2. (home.packs \/ calls["packs"].phase = "answered") \in BOOLEAN
        OBVIOUS
      <4> DEFINE e == IF calls["entitlement"].phase = "answered"
                      THEN calls["entitlement"].left ELSE home.entitlement
                 seen == IF calls["sessions"].phase = "answered"
                         THEN calls["sessions"].status ELSE home.seen
                 r == IF calls["sessions"].phase = "answered" THEN calls["sessions"].ready ELSE home.ready
                 p == home.packs \/ calls["packs"].phase = "answered"
      <4>3. e \in {-1} \cup 0 .. MaxLeft /\ seen \in {"none"} \cup ACTIVE_STATUSES \cup Terminal
            /\ r \in BOOLEAN
        BY <2>1, <2>2, <4>1
      <4>4. home' = [home EXCEPT !.loading = FALSE, !.entitlement = e, !.seen = seen,
                                 !.ready = r, !.packs = p]
        BY <1>4 DEF DeliverHome
      <4> HIDE DEF e, seen, r, p
      <4> QED  BY <4>2, <4>3, <4>4 DEF p
    <3> QED  BY <1>0, <3>1 DEF HomeState
  <2>4. calls' = [k \in FlowKinds |-> IF k \in HomeLoadKinds THEN NoCall ELSE calls[k]]
    BY <1>4 DEF DeliverHome
  <2>5. calls' \in [FlowKinds -> FlowCall] /\ calls'["create"] = calls["create"]
    BY <1>0, <2>4, NoCallType DEF FlowKinds
  <2> QED  BY <1>0, <1>2, <2>3, <2>5, CreateKept
<1>5. CASE BuyPack
  <2>1. home' \in HomeState
    BY <1>0, <1>5 DEF BuyPack, HomeState
  <2>2. CallsPart'
    BY <1>0, <1>5, Fetched DEF BuyPack
  <2> QED  BY <1>2, <2>1, <2>2
<1>6. CASE DeliverOrder
  <2>1. home' \in HomeState
    BY <1>0, <1>6 DEF DeliverOrder, HomeState
  <2>2. CallsPart'
    BY <1>0, <1>6, Taken DEF DeliverOrder
  <2> QED  BY <1>2, <2>1, <2>2
<1>7. CASE BrowserClosed
  <2>1. home' \in HomeState
    BY <1>0, <1>7 DEF BrowserClosed, HomeState
  <2>2. Fetch({"link"}) \/ UNCHANGED calls
    BY <1>7 DEF BrowserClosed
  <2>3. CallsPart'
    BY <1>0, <2>2, Fetched DEF CallsPart, AskedWithinPack
  <2> QED  BY <1>2, <2>1, <2>3
<1>8. CASE DeliverLink
  <2> DEFINE paid == calls["link"].phase = "answered" /\ calls["link"].code = "paid"
  <2>1. /\ home' = [home EXCEPT !.buying = FALSE, !.loading = @ \/ paid]
        /\ calls' = [k \in FlowKinds |-> IF k = "link" THEN NoCall
                        ELSE IF paid /\ k \in HomeLoadKinds THEN [NoCall EXCEPT !.phase = "sent"]
                        ELSE calls[k]]
    BY <1>8 DEF DeliverLink
  <2>2. paid \in BOOLEAN
    OBVIOUS
  <2> HIDE DEF paid
  <2>3. home' \in HomeState
    BY <1>0, <2>1, <2>2 DEF HomeState
  <2>4. [NoCall EXCEPT !.phase = "sent"] \in FlowCall
    BY NoCallType DEF FlowCall
  <2>5. calls' \in [FlowKinds -> FlowCall] /\ calls'["create"] = calls["create"]
    BY <1>0, <2>1, <2>4, NoCallType DEF FlowKinds
  <2> QED  BY <1>0, <1>2, <2>3, <2>5, CreateKept
<1> QED  BY <1>3, <1>4, <1>5, <1>6, <1>7, <1>8

\* A step of the setup screen.
LEMMA SetupOnly ==
    ASSUME FlowPart, OnlySetup, setup' \in SetupState, CallsPart', ChoiceFits'
    PROVE  FlowPart' /\ UNCHANGED <<lifeVars, stack, room, net, lost, does>>
BY DEF FlowPart, OnlySetup, OnlyScreen, PaidHasPlace

LEMMA ChoiceSame == ASSUME FlowPart, setup'.choice = setup.choice  PROVE ChoiceFits'
BY DEF FlowPart, ChoiceFits, FitsPack

LEMMA Chosen ==
    ASSUME FlowPart, NEW choice \in Choice, Picks(choice), choice.grant # None => FitsPack(choice)
    PROVE  FlowPart' /\ UNCHANGED <<lifeVars, stack, room, net, lost, does>>
<1>1. setup' \in SetupState /\ setup'.choice = choice /\ UNCHANGED calls /\ OnlySetup
  BY DEF FlowPart, Picks, SetupState
<1>2. CallsPart'
  BY <1>1 DEF FlowPart, CallsPart, AskedWithinPack
<1>3. ChoiceFits'
  BY <1>1 DEF ChoiceFits, FitsPack
<1> QED  BY <1>1, <1>2, <1>3, SetupOnly

\* What the candidate chooses on the setup screen.
LEMMA FlowPartChoices ==
    ASSUME FlowPart,
           \/ \E g \in Grants : PickGrant(g)
           \/ ChangePack
           \/ \E t \in Topics : PickTopic(t)
           \/ \E s \in Subs : PickSubTopic(s)
           \/ \E l \in Levels : PickLevel(l)
           \/ SwitchBehavioral
    PROVE  FlowPart' /\ UNCHANGED <<lifeVars, stack, room, net, lost, does>>
<1> DEFINE c == setup.choice
<1>0. c \in Choice
  BY DEF FlowPart, SetupState
<1>1. FormShown => c.grant # None /\ FitsPack(c)
  BY DEF FormShown, FlowPart, ChoiceFits
<1> HIDE DEF c
<1>2. ASSUME NEW g \in Grants, PickGrant(g)
      PROVE  FlowPart' /\ UNCHANGED <<lifeVars, stack, room, net, lost, does>>
  BY <1>2, Selected, Chosen DEF PickGrant
<1>3. CASE ChangePack
  <2>1. [c EXCEPT !.grant = None] \in Choice /\ [c EXCEPT !.grant = None].grant = None
    BY <1>0 DEF Choice
  <2> QED  BY <1>3, <2>1, Chosen DEF ChangePack, c
<1>4. ASSUME NEW t \in Topics, PickTopic(t)
      PROVE  FlowPart' /\ UNCHANGED <<lifeVars, stack, room, net, lost, does>>
  <2> DEFINE d == [c EXCEPT !.topic = t, !.sub = None]
  <2>1. /\ d \in Choice /\ d.grant = c.grant /\ d.topic = t /\ d.sub = None
        /\ d.level = c.level /\ d.behavioral = c.behavioral
    BY <1>0 DEF Choice
  <2>2. t \in PackConfig[c.grant].topics /\ FormShown /\ Picks(d)
    BY <1>4 DEF PickTopic, AvailableTopics, c
  <2> HIDE DEF d
  <2>3. FitsPack(d)
    BY <1>1, <2>1, <2>2 DEF FitsPack
  <2> QED  BY <2>1, <2>2, <2>3, Chosen
<1>5. ASSUME NEW s \in Subs, PickSubTopic(s)
      PROVE  FlowPart' /\ UNCHANGED <<lifeVars, stack, room, net, lost, does>>
  <2> DEFINE d == [c EXCEPT !.sub = IF @ = s THEN None ELSE s]
  <2>1. /\ d \in Choice /\ d.grant = c.grant /\ d.topic = c.topic /\ d.sub \in {None, s}
        /\ d.level = c.level /\ d.behavioral = c.behavioral
    BY <1>0 DEF Choice
  <2>2. FormShown /\ Picks(d) /\ s \in SubTopicOptions
    BY <1>5 DEF PickSubTopic, c
  <2>3. c.topic \in PackConfig[c.grant].topics /\ s \in PackConfig[c.grant].subs[c.topic]
    BY <2>2 DEF SubTopicOptions, AvailableTopics, c
  <2> HIDE DEF d
  <2>4. FitsPack(d)
    BY <1>1, <2>1, <2>2, <2>3 DEF FitsPack
  <2> QED  BY <2>1, <2>2, <2>4, Chosen
<1>6. ASSUME NEW l \in Levels, PickLevel(l)
      PROVE  FlowPart' /\ UNCHANGED <<lifeVars, stack, room, net, lost, does>>
  <2> DEFINE d == [c EXCEPT !.level = l]
  <2>1. /\ d \in Choice /\ d.grant = c.grant /\ d.topic = c.topic /\ d.sub = c.sub
        /\ d.level = l /\ d.behavioral = c.behavioral
    BY <1>0 DEF Choice
  <2>2. /\ FormShown /\ Picks(d)
        /\ l \in {PackConfig[c.grant].levels[i] : i \in 1 .. Len(PackConfig[c.grant].levels)}
    BY <1>6 DEF PickLevel, c
  <2> HIDE DEF d
  <2>3. FitsPack(d)
    BY <1>1, <2>1, <2>2 DEF FitsPack
  <2> QED  BY <2>1, <2>2, <2>3, Chosen
<1>7. CASE SwitchBehavioral
  <2> DEFINE d == [c EXCEPT !.behavioral = ~@]
  <2>1. /\ d \in Choice /\ d.grant = c.grant /\ d.topic = c.topic /\ d.sub = c.sub
        /\ d.level = c.level
    BY <1>0 DEF Choice
  <2>2. FormShown /\ Picks(d) /\ PackConfig[c.grant].behavioral
    BY <1>7 DEF SwitchBehavioral, CanIncludeBehavioral, c
  <2> HIDE DEF d
  <2>3. FitsPack(d)
    BY <1>1, <2>1, <2>2 DEF FitsPack
  <2> QED  BY <2>1, <2>2, <2>3, Chosen
<1> QED  BY <1>2, <1>3, <1>4, <1>5, <1>6, <1>7

\* The resume of the setup screen, and what it loads.
LEMMA FlowPartResume ==
    ASSUME FlowPart,
           \/ SetupLoad \/ DeliverProfile \/ ToggleUseExisting \/ PasteText \/ UploadResume
           \/ SavePastedText \/ DeliverUpload
    PROVE  FlowPart' /\ UNCHANGED <<lifeVars, stack, room, net, lost, does>>
<1>0. /\ setup \in SetupState /\ CallsPart /\ calls \in [FlowKinds -> FlowCall]
      /\ {"grants", "profile", "upload"} \subseteq FlowKinds
  BY DEF FlowPart, CallsPart, FlowKinds
<1>1. ASSUME OnlySetup, setup' \in SetupState, setup'.choice = setup.choice, UNCHANGED calls
      PROVE  FlowPart' /\ UNCHANGED <<lifeVars, stack, room, net, lost, does>>
  <2>1. CallsPart'
    BY <1>1 DEF FlowPart, CallsPart, AskedWithinPack
  <2> QED  BY <1>1, <2>1, ChoiceSame, SetupOnly
<1>2. CASE SetupLoad
  <2>1. setup' \in SetupState /\ setup'.choice = setup.choice
    BY <1>0, <1>2 DEF SetupLoad, SetupState
  <2>2. CallsPart' /\ OnlySetup
    BY <1>0, <1>2, Fetched DEF SetupLoad
  <2> QED  BY <2>1, <2>2, ChoiceSame, SetupOnly
<1>3. CASE DeliverProfile
  <2>1. calls["profile"].ready \in BOOLEAN
    BY <1>0 DEF FlowCall
  <2>2. setup' \in SetupState /\ setup'.choice = setup.choice
    BY <1>0, <1>3, <2>1 DEF DeliverProfile, SetupState
  <2>3. CallsPart' /\ OnlySetup
    BY <1>0, <1>3, Taken DEF DeliverProfile
  <2> QED  BY <2>2, <2>3, ChoiceSame, SetupOnly
<1>4. CASE ToggleUseExisting
  <2>1. setup' \in SetupState /\ setup'.choice = setup.choice
    BY <1>0, <1>4 DEF ToggleUseExisting, SetupState
  <2> QED  BY <1>1, <1>4, <2>1 DEF ToggleUseExisting
<1>5. CASE PasteText
  <2>1. setup' \in SetupState /\ setup'.choice = setup.choice
    BY <1>0, <1>5 DEF PasteText, SetupState
  <2> QED  BY <1>1, <1>5, <2>1 DEF PasteText
<1>6. CASE UploadResume \/ SavePastedText
  <2>1. setup' \in SetupState /\ setup'.choice = setup.choice
    BY <1>0, <1>6 DEF UploadResume, SavePastedText, SetupState
  <2>2. CallsPart' /\ OnlySetup
    BY <1>0, <1>6, Fetched DEF UploadResume, SavePastedText
  <2> QED  BY <2>1, <2>2, ChoiceSame, SetupOnly
<1>7. CASE DeliverUpload
  <2>1. setup' \in SetupState /\ setup'.choice = setup.choice
    BY <1>0, <1>7 DEF DeliverUpload, SetupState
  <2>2. CallsPart' /\ OnlySetup
    BY <1>0, <1>7, Taken DEF DeliverUpload
  <2> QED  BY <2>1, <2>2, ChoiceSame, SetupOnly
<1> QED  BY <1>2, <1>3, <1>4, <1>5, <1>6, <1>7

\* The grants of the candidate, of which a single one is selected for them.
LEMMA FlowPartGrants ==
    ASSUME FlowPart, DeliverGrants
    PROVE  FlowPart' /\ UNCHANGED <<lifeVars, stack, room, net, lost, does>>
<1>0. /\ home \in HomeState /\ setup \in SetupState /\ CallsPart /\ calls \in [FlowKinds -> FlowCall]
      /\ "grants" \in FlowKinds
  BY DEF FlowPart, CallsPart, FlowKinds
<1>1. /\ Took("grants") /\ OnlyScreen /\ UNCHANGED <<check, report>>
  BY DEF DeliverGrants
<1>2. CallsPart'
  BY <1>0, <1>1, Taken
<1>3. calls["grants"].left \in 0 .. MaxLeft
  BY <1>0 DEF FlowCall
<1>4. home' \in HomeState
  BY <1>0, <1>3 DEF DeliverGrants, HomeState
<1>5. setup' \in SetupState /\ ChoiceFits'
  <2>1. CASE setup' = setup
    BY <1>0, <2>1, ChoiceSame
  <2>2. CASE setup' = [setup EXCEPT !.loading = FALSE]
    <3>1. setup' \in SetupState /\ setup'.choice = setup.choice
      BY <1>0, <2>2 DEF SetupState
    <3> QED  BY <3>1, ChoiceSame
  <2>3. CASE setup' = [setup EXCEPT !.loading = FALSE, !.grants = Grants]
    <3>1. setup' \in SetupState /\ setup'.choice = setup.choice
      BY <1>0, <2>3 DEF SetupState
    <3> QED  BY <3>1, ChoiceSame
  <2>4. CASE /\ Cardinality(Grants) = 1
             /\ setup' = [setup EXCEPT !.loading = FALSE, !.grants = Grants,
                                       !.choice = SelectGrant(CHOOSE g \in Grants : TRUE)]
    <3>1. PICK g : Grants = {g}
      BY <2>4, PackAssumption, FS_Singleton
    <3>2. (CHOOSE x \in Grants : TRUE) \in Grants
      BY <3>1
    <3> DEFINE h == CHOOSE x \in Grants : TRUE
    <3>3. h \in Grants
      BY <3>2
    <3>4. setup' = [setup EXCEPT !.loading = FALSE, !.grants = Grants, !.choice = SelectGrant(h)]
      BY <2>4
    <3> HIDE DEF h
    <3>5. setup' \in SetupState /\ setup'.choice = SelectGrant(h)
      BY <1>0, <3>3, <3>4, Selected DEF SetupState
    <3>6. FitsPack(setup'.choice)
      BY <3>3, <3>5, Selected
    <3> QED  BY <3>5, <3>6 DEF ChoiceFits, FitsPack
  <2> QED  BY <2>1, <2>2, <2>3, <2>4 DEF DeliverGrants
<1> QED  BY <1>1, <1>2, <1>4, <1>5 DEF FlowPart, OnlyScreen, PaidHasPlace

\* The session is asked for: with what the screen holds, less what the pack has not.
LEMMA FlowPartStart ==
    ASSUME FlowPart, Start
    PROVE  FlowPart' /\ UNCHANGED <<lifeVars, stack, room, net, lost, does>>
<1> DEFINE c == setup.choice
           d == [c EXCEPT !.sub = IF SubTopicOptions = {} THEN None ELSE @,
                          !.behavioral = @ /\ CanIncludeBehavioral]
<1>0. /\ setup \in SetupState /\ calls \in [FlowKinds -> FlowCall] /\ c \in Choice
      /\ "create" \in FlowKinds
  BY DEF FlowPart, CallsPart, FlowKinds, SetupState
<1>1. FormShown /\ c.topic \notin {None, "dsa"}
  BY DEF Start, CanContinue
<1>2. c.grant # None /\ FitsPack(c)
  BY <1>1 DEF FormShown, FlowPart, ChoiceFits
<1>3. setup' \in SetupState /\ setup'.choice = setup.choice
  BY <1>0 DEF Start, SetupState
<1>4. /\ d \in Choice /\ d.grant = c.grant /\ d.topic = c.topic /\ d.level = c.level
      /\ d.sub = c.sub \/ d.sub = None
      /\ d.behavioral => c.behavioral
  <2>1. (c.behavioral /\ CanIncludeBehavioral) \in BOOLEAN
    OBVIOUS
  <2>2. c.behavioral \in BOOLEAN /\ c.sub \in Subs \cup {None}
    BY <1>0 DEF Choice
  <2> DEFINE sub == IF SubTopicOptions = {} THEN None ELSE c.sub
             behavioral == c.behavioral /\ CanIncludeBehavioral
  <2>3. sub \in Subs \cup {None} /\ (sub = c.sub \/ sub = None)
    BY <2>2
  <2>4. behavioral \in BOOLEAN /\ (behavioral => c.behavioral)
    BY <2>1
  <2>5. d = [c EXCEPT !.sub = sub, !.behavioral = behavioral]
    OBVIOUS
  <2> HIDE DEF sub, behavioral, c, d
  <2> QED  BY <1>0, <2>3, <2>4, <2>5 DEF Choice
<1>5. calls' = [calls EXCEPT !["create"] = [NoCall EXCEPT !.phase = "sent", !.choice = d]]
  BY DEF Start
<1> HIDE DEF c, d
<1>6. [NoCall EXCEPT !.phase = "sent", !.choice = d] \in FlowCall
      /\ [NoCall EXCEPT !.phase = "sent", !.choice = d].choice = d
  BY <1>4, NoCallType DEF FlowCall
<1>7. calls' \in [FlowKinds -> FlowCall] /\ calls'["create"].choice = d
  BY <1>0, <1>5, <1>6
<1>8. CallsPart'
  BY <1>1, <1>2, <1>4, <1>7 DEF CallsPart, AskedWithinPack, FitsPack
<1> QED  BY <1>3, <1>8, ChoiceSame, SetupOnly DEF Start

\* A screen that is popped starts again.
LEMMA ScreenPopped ==
    ASSUME FlowPart, Pop, CallsPart', UNCHANGED <<home, shop, perms, left, ready>>
    PROVE  FlowPart'
<1>1. /\ setup' \in SetupState /\ check' \in CheckState /\ report' \in ReportState
      /\ setup' = SetupFirst \/ setup' = setup
  BY FirstStates DEF FlowPart, Pop
<1>2. ChoiceFits'
  BY <1>1, FirstStates DEF FlowPart, ChoiceFits, FitsPack
<1> QED  BY <1>1, <1>2 DEF FlowPart, PaidHasPlace

LEMMA BackStep == ASSUME RoomPart, FlowPart, Back  PROVE RoomPart' /\ FlowPart'
<1>1. RoomPart'
  BY RoomPopped DEF Back, Pop
<1>2. CallsPart'
  <2>1. calls \in [FlowKinds -> FlowCall]
    BY DEF FlowPart, CallsPart
  <2>2. PICK kinds : calls' = Abandoned(calls, kinds)
    BY DEF Back
  <2> QED  BY <2>1, <2>2, AbandonedCalls, CreateKept DEF FlowPart
<1> QED  BY <1>1, <1>2, ScreenPopped DEF Back

LEMMA CreateStep == ASSUME RoomPart, FlowPart, DeliverCreate  PROVE RoomPart' /\ FlowPart'
<1> DEFINE call == calls["create"]
<1>0. /\ setup \in SetupState /\ CallsPart /\ calls \in [FlowKinds -> FlowCall] /\ "create" \in FlowKinds
      /\ UNCHANGED <<lifeVars, lost, does, home, shop, perms, left, ready>>
  BY DEF FlowPart, CallsPart, FlowKinds, DeliverCreate
<1>1. ASSUME setup' = IF call.mine THEN [setup EXCEPT !.starting = FALSE] ELSE setup,
             Took("create"), UNCHANGED <<check, report>>
      PROVE  FlowPart'
  <2>1. setup' \in SetupState /\ setup'.choice = setup.choice
    BY <1>0, <1>1 DEF SetupState
  <2>2. CallsPart' /\ ChoiceFits'
    BY <1>0, <1>1, <2>1, Taken, ChoiceSame
  <2> QED  BY <1>0, <1>1, <2>1, <2>2 DEF FlowPart, PaidHasPlace
<1>2. CASE /\ stack' = Pushed("check")
           /\ setup' = IF call.mine THEN [setup EXCEPT !.starting = FALSE] ELSE setup
           /\ Took("create") /\ UNCHANGED <<room, net, check, report>>
  BY <1>0, <1>1, <1>2, RoomPushed DEF Screens
<1>3. CASE /\ Top = "setup" /\ Pop
           /\ calls' = Abandoned([calls EXCEPT !["create"] = NoCall], SetupCalls)
  <2>1. Len(stack) > 1
    BY <1>3, ScreensOfRoom DEF RoomPart, Top
  <2>2. RoomPart'
    BY <1>0, <1>3, <2>1, RoomPopped DEF Pop
  <2> DEFINE n == [calls EXCEPT !["create"] = NoCall]
  <2>3. n \in [FlowKinds -> FlowCall] /\ n["create"].phase = "free"
    BY <1>0, NoCallType
  <2>4. calls' = Abandoned(n, SetupCalls)
    BY <1>3
  <2> HIDE DEF n
  <2>5. CallsPart'
    BY <1>0, <2>3, <2>4, AbandonedCalls, CreateKept
  <2> QED  BY <1>0, <1>3, <2>2, <2>5, ScreenPopped
<1>4. CASE /\ setup' = IF call.mine THEN [setup EXCEPT !.starting = FALSE] ELSE setup
           /\ Took("create") /\ UNCHANGED <<stack, room, net, check, report>>
  BY <1>0, <1>1, <1>4, RoomAlone
<1> QED  BY <1>2, <1>3, <1>4 DEF DeliverCreate

LEMMA PushStep ==
    ASSUME RoomPart, FlowPart, StartNew \/ ResumeSession \/ OpenReport
    PROVE  RoomPart' /\ FlowPart'
<1>1. PICK screen \in Screens : Pushes(screen)
  BY DEF StartNew, ResumeSession, OpenReport, Screens
<1>2. RoomPart'
  BY <1>1, RoomPushed DEF Pushes
<1> QED  BY SMTT(60), <1>1, <1>2 DEF Pushes, flowVars, FlowPart, CallsPart, AskedWithinPack, ChoiceFits, FitsPack,
                           PaidHasPlace

LEMMA ReportStep ==
    ASSUME FlowPart, ReportScreen
    PROVE  FlowPart' /\ UNCHANGED <<lifeVars, stack, room, net, lost, does>>
<1>0. /\ report \in ReportState /\ CallsPart /\ calls \in [FlowKinds -> FlowCall]
      /\ ReportCalls \subseteq FlowKinds /\ "create" \notin ReportCalls
  BY DEF FlowPart, CallsPart, FlowKinds, ReportCalls
<1>1. ASSUME report' \in ReportState, CallsPart', OnlyScreen, UNCHANGED <<home, setup, check>>
      PROVE  FlowPart' /\ UNCHANGED <<lifeVars, stack, room, net, lost, does>>
  BY <1>1 DEF FlowPart, OnlyScreen, ChoiceFits, FitsPack, PaidHasPlace
<1>2. CASE ReportPoll
  <2>1. PICK k \in ReportCalls : Fetch({k})
    BY <1>2 DEF ReportPoll
  <2>2. CallsPart'
    BY <1>0, <2>1, Fetched
  <2> QED  BY <1>0, <1>1, <1>2, <2>2 DEF ReportPoll
<1>3. ASSUME NEW k \in ReportCalls, DeliverReport(k)
      PROVE  FlowPart' /\ UNCHANGED <<lifeVars, stack, room, net, lost, does>>
  <2>1. report' \in ReportState
    <3>1. (report.overtaken \/ report.status = "ready") \in BOOLEAN
      OBVIOUS
    <3> QED  BY <1>0, <1>3, <3>1 DEF DeliverReport, ReportState
  <2>2. CallsPart'
    BY <1>0, <1>3, Taken DEF DeliverReport
  <2> QED  BY <1>1, <1>3, <2>1, <2>2 DEF DeliverReport
<1> QED  BY <1>2, <1>3 DEF ReportScreen

LEMMA CheckStep ==
    ASSUME RoomPart, FlowPart, SystemCheck
    PROVE  RoomPart' /\ FlowPart'
<1>0. check \in CheckState /\ perms \in [{"camera", "mic"} -> Permission]
  BY DEF FlowPart
<1>1. ASSUME NEW s \in CheckState  PROVE GoNext(s) \in CheckState
  <2>1. Len(STEPS) = 4
    BY DEF STEPS
  <2> QED  BY <2>1 DEF GoNext, CheckState
<1>2. ASSUME check' \in CheckState, perms' \in [{"camera", "mic"} -> Permission],
             UNCHANGED <<home, setup, report, calls, shop, left, ready>>
      PROVE  FlowPart'
  BY SMTT(60), <1>2 DEF FlowPart, CallsPart, AskedWithinPack, ChoiceFits, FitsPack, PaidHasPlace
<1>3. ASSUME OnlyCheck, check' \in CheckState, perms' \in [{"camera", "mic"} -> Permission]
      PROVE  RoomPart' /\ FlowPart'
  BY <1>2, <1>3, RoomAlone DEF OnlyCheck
<1>4. CASE MicPermissionRead
  <2>1. check' \in CheckState /\ UNCHANGED perms
    BY <1>0, <1>4 DEF MicPermissionRead, CheckState
  <2> QED  BY <1>0, <1>3, <1>4, <2>1 DEF MicPermissionRead
<1>5. CASE CheckContinue
  <2>1. GoNext(check) \in CheckState
    BY <1>0, <1>1
  <2>2. check' \in CheckState /\ UNCHANGED perms
    BY <1>5, <2>1 DEF CheckContinue, CheckState
  <2> QED  BY <1>0, <1>3, <1>5, <2>2 DEF CheckContinue
<1>6. CASE AskPermission
  <2> DEFINE device == IF Step = "intro_camera" THEN "camera" ELSE "mic"
  <2>1. PICK answer \in Permission :
            LET s == IF device = "mic" THEN [check EXCEPT !.micStatus = answer] ELSE check IN
            /\ perms' = [perms EXCEPT ![device] = answer]
            /\ check' = IF answer = "granted" THEN GoNext(s) ELSE s
    <3>1. PICK answer \in IF perms[device] = "undetermined" THEN Permission ELSE {perms[device]} :
              LET s == IF device = "mic" THEN [check EXCEPT !.micStatus = answer] ELSE check IN
              /\ perms' = [perms EXCEPT ![device] = answer]
              /\ check' = IF answer = "granted" THEN GoNext(s) ELSE s
      BY <1>6 DEF AskPermission
    <3>2. answer \in Permission
      BY <1>0, <3>1
    <3> QED  BY <3>1, <3>2
  <2> DEFINE s == IF device = "mic" THEN [check EXCEPT !.micStatus = answer] ELSE check
  <2>2. s \in CheckState
    BY <1>0 DEF CheckState
  <2> HIDE DEF s
  <2>3. check' \in CheckState /\ perms' \in [{"camera", "mic"} -> Permission]
    BY <1>0, <1>1, <2>1, <2>2 DEF s
  <2> QED  BY <1>3, <1>6, <2>3 DEF AskPermission
<1>7. CASE OpenSettings
  <2>1. check' \in CheckState /\ perms' \in [{"camera", "mic"} -> Permission]
    BY <1>0, <1>7 DEF OpenSettings, Permission
  <2> QED  BY <1>3, <1>7, <2>1 DEF OpenSettings
<1>8. CASE MicCheck
  <2>1. check' \in CheckState /\ UNCHANGED perms
    BY <1>0, <1>8 DEF MicCheck, CheckState
  <2> QED  BY <1>0, <1>3, <1>8, <2>1 DEF MicCheck
<1>9. CASE StartInterview
  <2>1. Len(stack) > 1 /\ Top = "check" /\ stack' = Replace("room")
    BY <1>9, ScreensOfRoom DEF StartInterview, RoomPart, Top
  <2>2. /\ stack' \in Seq(Screens) /\ stack' # <<>> /\ stack'[1] = "home"
        /\ Len(stack') = Len(stack) /\ stack'[Len(stack)] = "room"
    BY <2>1, ScreensOfRoom DEF RoomPart, Replace, Screens
  <2>3. On("room")'
    BY <2>1, <2>2 DEF On
  <2>4. RoomPart'
    BY <1>9, <2>2, <2>3 DEF StartInterview, RoomPart, RoomIsThere, EndIsAwaited, TurnIsAwaited,
                            LifeTypeOK, lifeVars
  <2>5. FlowPart'
    BY <1>0, <1>2, <1>9, FirstStates DEF StartInterview
  <2> QED  BY <2>4, <2>5
<1> QED  BY <1>4, <1>5, <1>6, <1>7, <1>8, <1>9 DEF SystemCheck

\* What the server answers and does.
LEMMA ServerStep ==
    ASSUME RoomPart, FlowPart, FlowServer
    PROVE  RoomPart' /\ FlowPart'
<1>0. /\ CallsPart /\ calls \in [FlowKinds -> FlowCall] /\ LifeTypeOK /\ lost \in 0 .. MaxLost
      /\ shop \in {"none", "open", "paid", "credited", "cancelled"} /\ PaidHasPlace
      /\ left \in 0 .. MaxLeft /\ ready \in BOOLEAN
      /\ status \in {"none"} \cup ACTIVE_STATUSES \cup Terminal
  BY DEF RoomPart, FlowPart, CallsPart, LifeTypeOK
<1>1. /\ {"entitlement", "grants", "sessions", "packs", "profile", "upload", "create", "order",
          "link"} \subseteq FlowKinds
      /\ ReportCalls \subseteq FlowKinds
  BY DEF FlowKinds, ReportCalls
<1>2. ASSUME UNCHANGED <<home, setup, check, report, perms>>, CallsPart',
             shop' \in {"none", "open", "paid", "credited", "cancelled"},
             left' \in 0 .. MaxLeft, ready' \in BOOLEAN, PaidHasPlace'
      PROVE  FlowPart'
  BY <1>2 DEF FlowPart, ChoiceFits, FitsPack
<1>3. ASSUME UNCHANGED calls  PROVE CallsPart'
  BY <1>0, <1>3 DEF CallsPart, AskedWithinPack
<1>4. CASE ServeRead
  <2>1. UNCHANGED <<lifeVars, stack, room, net, lost, does, home, setup, check, report, perms, shop, left, ready>>
    BY <1>4 DEF ServeRead, FlowAnswer
  <2>2. CallsPart'
    <3>1. ASSUME NEW k \in {"entitlement", "grants"}, FlowAnswer(k, [calls[k] EXCEPT !.left = left])
          PROVE  CallsPart'
      <4>1. k \in FlowKinds /\ calls[k] \in FlowCall
        BY <1>0, <1>1
      <4>2. [calls[k] EXCEPT !.left = left] \in FlowCall /\ [calls[k] EXCEPT !.left = left].choice = calls[k].choice
        BY <1>0, <4>1 DEF FlowCall
      <4> QED  BY <1>0, <3>1, <4>1, <4>2, FlowAnswered
    <3>2. CASE FlowAnswer("sessions", [calls["sessions"] EXCEPT !.status = status, !.ready = ready])
      <4>1. "sessions" \in FlowKinds /\ calls["sessions"] \in FlowCall
        BY <1>0, <1>1
      <4> DEFINE call == [calls["sessions"] EXCEPT !.status = status, !.ready = ready]
      <4>2. call \in FlowCall /\ call.choice = calls["sessions"].choice
        BY <1>0, <4>1 DEF FlowCall
      <4> QED  BY <1>0, <3>2, <4>1, <4>2, FlowAnswered
    <3>3. ASSUME NEW k \in {"packs", "upload"}, FlowAnswer(k, calls[k])  PROVE CallsPart'
      <4>1. k \in FlowKinds /\ calls[k] \in FlowCall
        BY <1>0, <1>1
      <4> QED  BY <1>0, <3>3, <4>1, FlowAnswered
    <3>4. ASSUME NEW k \in ReportCalls \cup {"profile"}, NEW saved \in BOOLEAN,
                 FlowAnswer(k, [calls[k] EXCEPT !.ready = saved])
          PROVE  CallsPart'
      <4>1. k \in FlowKinds /\ calls[k] \in FlowCall
        BY <1>0, <1>1
      <4>2. [calls[k] EXCEPT !.ready = saved] \in FlowCall /\ [calls[k] EXCEPT !.ready = saved].choice = calls[k].choice
        BY <4>1 DEF FlowCall
      <4> QED  BY <1>0, <3>4, <4>1, <4>2, FlowAnswered
    <3> QED  BY <1>0, <1>4, <3>1, <3>2, <3>3, <3>4 DEF ServeRead
  <2>3. FlowPart'
    BY <1>0, <1>2, <2>1, <2>2 DEF PaidHasPlace
  <2> QED  BY <2>1, <2>3, RoomAlone
<1>5. CASE ServeCreate
  <2>1. CASE /\ left > 0 /\ Created /\ FlowAnswer("create", calls["create"])
             /\ left' = left - 1 /\ UNCHANGED <<shop, ready>>
    <3>1. LifeTypeOK' /\ UNCHANGED <<stack, room, net, lost, does, home, setup, check, report, perms>>
      BY <1>0, <2>1 DEF LifeTypeOK, Created, FlowAnswer, ACTIVE_STATUSES
    <3>2. RoomPart'
      BY <3>1 DEF RoomPart, RoomIsThere, EndIsAwaited, TurnIsAwaited, On
    <3>3. CallsPart'
      BY <1>0, <1>1, <2>1, FlowAnswered
    <3>4. left' \in 0 .. MaxLeft /\ PaidHasPlace'
      BY <1>0, <2>1, PackAssumption DEF PaidHasPlace
    <3> QED  BY <1>0, <1>2, <2>1, <3>1, <3>2, <3>3, <3>4
  <2>2. CASE /\ calls["create"].phase = "sent"
             /\ calls' = [calls EXCEPT !["create"].phase = "refused"]
             /\ UNCHANGED <<lifeVars, stack, room, net, lost, does, home, setup, check, report,
                            perms, shop, left, ready>>
    <3>1. CallsPart'
      BY <1>0, <1>1, <2>2, Marked
    <3> QED  BY <1>0, <1>2, <2>2, <3>1, RoomAlone DEF PaidHasPlace
  <2> QED  BY <1>5, <2>1, <2>2 DEF ServeCreate
<1>6. CASE ServeOrder
  <2>1. CallsPart'
    BY <1>0, <1>1, <1>6, FlowAnswered DEF ServeOrder
  <2>2. UNCHANGED <<lifeVars, stack, room, net, lost, does, home, setup, check, report, perms, left, ready>>
        /\ shop' = "open"
    BY <1>6 DEF ServeOrder, FlowAnswer
  <2> QED  BY <1>0, <1>2, <2>1, <2>2, RoomAlone DEF PaidHasPlace
<1>7. CASE PayOrCancel
  <2>1. /\ UNCHANGED <<lifeVars, stack, room, net, lost, does, home, setup, check, report, calls,
                       perms, left, ready>>
        /\ shop' \in {"paid", "cancelled"} /\ left < MaxLeft
    BY <1>7 DEF PayOrCancel
  <2> QED  BY <1>0, <1>2, <1>3, <2>1, RoomAlone DEF PaidHasPlace
<1>8. CASE ServeLink
  <2>1. UNCHANGED <<lifeVars, stack, room, net, lost, does, home, setup, check, report, perms, ready>>
    BY <1>8 DEF ServeLink, FlowAnswer
  <2> DEFINE code == IF shop \in {"paid", "credited"} THEN "paid"
                     ELSE IF shop = "cancelled" THEN "cancelled" ELSE "none"
             call == [calls["link"] EXCEPT !.code = code]
  <2>2. "link" \in FlowKinds /\ calls["link"] \in FlowCall /\ code \in {"none", "paid", "cancelled"}
    BY <1>0, <1>1
  <2>3. FlowAnswer("link", call)
    BY <1>8 DEF ServeLink
  <2> HIDE DEF code
  <2>4. call \in FlowCall /\ call.choice = calls["link"].choice
    BY <2>2 DEF FlowCall
  <2>5. CallsPart'
    BY <1>0, <2>2, <2>3, <2>4, FlowAnswered
  <2>6. /\ shop' \in {"none", "open", "credited", "cancelled"}
        /\ left' \in 0 .. MaxLeft
    BY <1>0, <1>8, PackAssumption DEF ServeLink, PaidHasPlace
  <2> QED  BY <1>0, <1>2, <2>1, <2>5, <2>6, RoomAlone DEF PaidHasPlace
<1>9. CASE Webhook
  <2>1. UNCHANGED <<lifeVars, stack, room, net, lost, does, home, setup, check, report, calls, perms, ready>>
    BY <1>9 DEF Webhook
  <2>2. shop' = "credited" /\ left' \in 0 .. MaxLeft
    BY <1>0, <1>9, PackAssumption DEF Webhook, PaidHasPlace
  <2> QED  BY <1>0, <1>2, <1>3, <2>1, <2>2, RoomAlone DEF PaidHasPlace
<1>10. CASE ReportWritten
  <2>1. /\ UNCHANGED <<lifeVars, stack, room, net, lost, does, home, setup, check, report, calls,
                       shop, perms, left>>
        /\ ready' = TRUE
    BY <1>10 DEF ReportWritten
  <2> QED  BY <1>0, <1>2, <1>3, <2>1, RoomAlone DEF PaidHasPlace
<1>11. ASSUME NEW k \in FlowKinds, FlowLose(k)
       PROVE  RoomPart' /\ FlowPart'
  <2>1. /\ UNCHANGED <<lifeVars, stack, room, net, does, home, setup, check, report, shop, perms, left, ready>>
        /\ lost' \in 0 .. MaxLost /\ calls[k].phase # "free"
        /\ calls' = [calls EXCEPT ![k].phase = "failed"]
    BY <1>0, <1>11, RoomAssumption DEF FlowLose
  <2>2. CallsPart'
    BY <1>0, <2>1, Marked
  <2>3. RoomPart'
    BY <2>1 DEF RoomPart, RoomIsThere, EndIsAwaited, TurnIsAwaited, On, LifeTypeOK, lifeVars
  <2> QED  BY <1>0, <1>2, <2>1, <2>2, <2>3 DEF PaidHasPlace
<1> QED  BY <1>4, <1>5, <1>6, <1>7, <1>8, <1>9, <1>10, <1>11 DEF FlowServer

-----------------------------------------------------------------------------
(* The interview                                                            *)

LEMMA InterviewParts == InterviewInv <=> RoomPart /\ FlowPart
BY DEF InterviewInv, RoomPart, FlowPart, MobileTypeOK, CallsPart

LEMMA InitInterview == MobileInit => InterviewInv
<1> SUFFICES ASSUME MobileInit  PROVE RoomPart /\ FlowPart
  BY InterviewParts
<1>1. LifeTypeOK
  <2>1. warnings \in Nat
    BY RoomAssumption DEF MobileInit
  <2>2. paused \in BOOLEAN
    <3>1. paused = FALSE \/ paused = ("warned" \in does)
      BY DEF MobileInit
    <3>2. CASE "warned" \in does
      BY <3>1, <3>2
    <3>3. CASE "warned" \notin does
      <4>1. ("warned" \in does) = FALSE
        BY <3>3
      <4> QED  BY <3>1, <4>1, Zenon
    <3> QED  BY <3>2, <3>3
  <2> QED  BY <2>1, <2>2 DEF MobileInit, LifeTypeOK, ACTIVE_STATUSES, InProgress
<1>2. /\ stack \in Seq(Screens) /\ stack # <<>> /\ stack[1] = "home"
  BY DEF MobileInit, Screens
<1>3. net \in [Calls -> Call] /\ Mine(net) = {} /\ room = Entered /\ lost \in 0 .. MaxLost /\ does \in Workloads
  BY FreeType, RoomAssumption DEF MobileInit, Mine
<1>4. RoomPart
  BY <1>1, <1>2, <1>3, EnteredType DEF RoomPart, RoomIsThere, EndIsAwaited, TurnIsAwaited
<1>5. calls \in [FlowKinds -> FlowCall] /\ calls["create"].phase = "free"
  BY NoCallType DEF MobileInit, FlowKinds
<1>6. left \in 0 .. MaxLeft
  BY PackAssumption DEF MobileInit
<1>7. perms \in [{"camera", "mic"} -> Permission]
  BY DEF MobileInit, Permission
<1>8. FlowPart
  BY <1>5, <1>6, <1>7, FirstStates DEF MobileInit, FlowPart, CallsPart, AskedWithinPack, ChoiceFits,
                                       PaidHasPlace
<1> QED  BY <1>4, <1>8

LEMMA NextInterview == InterviewInv /\ [MobileNext]_mobileVars => InterviewInv'
<1> SUFFICES ASSUME RoomPart, FlowPart, [MobileNext]_mobileVars
             PROVE  RoomPart' /\ FlowPart'
  BY InterviewParts, PTL
<1>1. ASSUME UNCHANGED flowVars  PROVE FlowPart'
  BY SMTT(60), <1>1 DEF flowVars, FlowPart, CallsPart, AskedWithinPack, ChoiceFits, FitsPack, PaidHasPlace
<1>2. CASE RoomStep /\ UNCHANGED flowVars
  BY <1>1, <1>2, RoomPartStep
<1>3. CASE Home
  BY <1>3, FlowPartHome, PushStep, RoomAlone DEF Home
<1>4. CASE Setup
  BY <1>4, FlowPartGrants, FlowPartResume, FlowPartChoices, FlowPartStart, CreateStep, RoomAlone DEF Setup
<1>5. CASE SystemCheck
  BY <1>5, CheckStep
<1>6. CASE ReportScreen
  BY <1>6, ReportStep, RoomAlone
<1>7. CASE FlowServer
  BY <1>7, ServerStep
<1>8. CASE Back
  BY <1>8, BackStep
<1>9. CASE UNCHANGED mobileVars
  BY <1>1, <1>9, RoomAlone DEF mobileVars
<1> QED  BY <1>2, <1>3, <1>4, <1>5, <1>6, <1>7, <1>8, <1>9 DEF MobileNext

-----------------------------------------------------------------------------
(* What billing keeps: the yes of the server travels in an answer that may  *)
(* come back after another purchase began, so what matters is which         *)
(* purchase it was given for, and who still has to credit that one.         *)

StoreShape ==
    /\ server = [connected |-> server.connected, purchase |-> server.purchase,
                event |-> server.event, nth |-> server.nth, buyer |-> server.buyer,
                observed |-> server.observed, receipts |-> server.receipts,
                credited |-> server.credited, cut |-> server.cut]
    /\ server.nth \in Nat

\* A call that asks the server to verify a purchase made so far; from when its handler
\* has recorded the purchase, or found it recorded, it is.
VerifyFits(c) ==
    /\ \/ c = [to |-> c.to, phase |-> c.phase]
       \/ c = [to |-> c.to, phase |-> c.phase, ans |-> c.ans]
    /\ c.to = [cb |-> c.to.cb, user |-> c.to.user, nth |-> c.to.nth]
    /\ c.to.nth \in Nat /\ c.to.nth <= server.nth
    /\ c.phase \in {"recorded", "answered"} => c.to.nth \in server.receipts

VerifiesFit == \A c \in net["verify"] : VerifyFits(c)

\* A purchase that is recorded was credited, or the handler that recorded it is about to
\* credit it, or failed in between.
RecordedIsAccounted ==
    \A n \in server.receipts :
        \/ n \in server.credited \cup server.cut
        \/ \E c \in net["verify"] : c.phase = "recorded" /\ c.to.nth = n

FinishedIsRecorded == server.purchase = "finished" => server.nth \in server.receipts

PurchaseInv ==
    /\ DOMAIN net = Billing!Kinds /\ StoreShape /\ VerifiesFit
    /\ RecordedIsAccounted /\ FinishedIsRecorded

-----------------------------------------------------------------------------
(* Billing: steps that give no verdict on a purchase                        *)

SamePurchase ==
    /\ server'.purchase = server.purchase /\ server'.nth = server.nth
    /\ server'.receipts = server.receipts /\ server'.credited = server.credited
    /\ server'.cut = server.cut

LEMMA Unverified ==
    ASSUME PurchaseInv, DOMAIN net' = Billing!Kinds, StoreShape', SamePurchase,
           net'["verify"] \subseteq net["verify"],
           \A c \in net["verify"] : c.phase = "recorded" => c \in net'["verify"]
    PROVE  PurchaseInv'
BY DEF PurchaseInv, VerifiesFit, VerifyFits, RecordedIsAccounted, FinishedIsRecorded, SamePurchase

\* A handler that verifies comes further: what it records it is to credit, and what it
\* had recorded it leaves accounted for.
LEMMA Verifying ==
    ASSUME PurchaseInv, NEW c \in net["verify"], NEW d,
           DOMAIN net' = Billing!Kinds, net'["verify"] = (net["verify"] \ {c}) \cup {d},
           StoreShape', VerifyFits(d)',
           server'.nth = server.nth, server'.purchase = server.purchase,
           server.receipts \subseteq server'.receipts, server.credited \subseteq server'.credited,
           server.cut \subseteq server'.cut,
           c.phase = "recorded" => c.to.nth \in server'.credited \cup server'.cut,
           \A n \in server'.receipts \ server.receipts : d.phase = "recorded" /\ d.to.nth = n
    PROVE  PurchaseInv'
<1>1. ASSUME NEW e \in net["verify"]  PROVE VerifyFits(e)'
  BY DEF VerifyFits, PurchaseInv, VerifiesFit
<1>2. RecordedIsAccounted'
  <2> SUFFICES ASSUME NEW n \in server'.receipts
               PROVE  \/ n \in server'.credited \cup server'.cut
                      \/ \E e \in net'["verify"] : e.phase = "recorded" /\ e.to.nth = n
    BY DEF RecordedIsAccounted
  <2>1. CASE n \in server.receipts
    <3>1. \/ n \in server.credited \cup server.cut
          \/ \E e \in net["verify"] : e.phase = "recorded" /\ e.to.nth = n
      BY <2>1 DEF PurchaseInv, RecordedIsAccounted
    <3> QED  BY <3>1
  <2>2. CASE n \notin server.receipts
    BY <2>2
  <2> QED  BY <2>1, <2>2
<1>3. VerifiesFit'
  BY <1>1 DEF VerifiesFit
<1>4. FinishedIsRecorded'
  BY DEF PurchaseInv, FinishedIsRecorded
<1> QED  BY <1>2, <1>3, <1>4 DEF PurchaseInv

LEMMA NetMoves ==
    ASSUME PurchaseInv, UNCHANGED server, NEW k \in Billing!Kinds \ {"verify"}, NEW v,
           net' = [net EXCEPT ![k] = v]
    PROVE  PurchaseInv'
<1>1. DOMAIN net' = Billing!Kinds /\ net'["verify"] = net["verify"]
  BY DEF PurchaseInv, Billing!Kinds
<1> QED  BY <1>1, Unverified DEF SamePurchase, PurchaseInv, StoreShape

LEMMA StaysFits ==
    ASSUME PurchaseInv, UNCHANGED <<net, server>>  PROVE PurchaseInv'
BY Unverified DEF SamePurchase, PurchaseInv, StoreShape

\* One call is taken and another, of another kind, is made.
LEMMA NetMovesTwice ==
    ASSUME PurchaseInv, UNCHANGED server, NEW k \in Billing!Kinds \ {"verify"}, NEW v,
           NEW l \in Billing!Kinds \ {"verify"}, NEW w,
           net' = [[net EXCEPT ![k] = v] EXCEPT ![l] = w]
    PROVE  PurchaseInv'
<1>1. DOMAIN net' = Billing!Kinds /\ net'["verify"] = net["verify"]
  BY DEF PurchaseInv, Billing!Kinds
<1> QED  BY <1>1, Unverified DEF SamePurchase, PurchaseInv, StoreShape

LEMMA AskFits ==
    ASSUME PurchaseInv, UNCHANGED server, NEW k \in Billing!Kinds \ {"verify"}, NEW a,
           Billing!Ask(k, a) \/ (\E c : Billing!Take(k, c) \/ Billing!Refuse(k,
              c) \/ \E v : Billing!Answer(k, c, v))
    PROVE  PurchaseInv'
BY NetMoves
   DEF Billing!Ask, Billing!Asking, Billing!Take, Billing!Without, Billing!Refuse, Billing!Answer

\* A call that fails gives no verdict.
LEMMA RefusedFits ==
    ASSUME PurchaseInv, UNCHANGED server, NEW c \in net["verify"], c.phase # "recorded",
           Billing!Refuse("verify", c)
    PROVE  PurchaseInv'
<1> DEFINE d == [to |-> c.to, phase |-> "failed"]
<1>1. DOMAIN net' = Billing!Kinds /\ net'["verify"] = (net["verify"] \ {c}) \cup {d}
  BY DEF Billing!Refuse, PurchaseInv, Billing!Kinds
<1>2. VerifyFits(c) /\ d.to = c.to /\ d.phase = "failed" /\ d = [to |-> d.to, phase |-> d.phase]
  BY DEF PurchaseInv, VerifiesFit
<1> HIDE DEF d
<1>3. VerifyFits(d)' /\ StoreShape'
  BY <1>2 DEF VerifyFits, PurchaseInv, StoreShape
<1> QED  BY <1>1, <1>3, Verifying

-----------------------------------------------------------------------------
(* Billing: steps about a purchase                                          *)

\* The callbacks of a screen that is left stay with its calls.
LEMMA LeavingFits ==
    ASSUME PurchaseInv, Billing!SignOut  PROVE PurchaseInv'
<1>1. net' = [k \in Billing!Kinds |->
                 IF k \in {"connect",
                    "verify"} THEN {[c EXCEPT !.to.cb = Billing!ToGone(@)] : c \in net[k]}
                 ELSE IF k = "sheet" THEN net[k] ELSE {}]
      /\ UNCHANGED server
  BY DEF Billing!SignOut, Billing!Same
<1>2. DOMAIN net' = Billing!Kinds
      /\ net'["verify"] = {[c EXCEPT !.to.cb = Billing!ToGone(@)] : c \in net["verify"]}
  BY <1>1 DEF Billing!Kinds
<1>3. ASSUME NEW d \in net'["verify"]  PROVE VerifyFits(d)'
  <2>1. PICK c \in net["verify"] : d = [c EXCEPT !.to.cb = Billing!ToGone(@)]
    BY <1>2
  <2>2. VerifyFits(c)
    BY DEF PurchaseInv, VerifiesFit
  <2>3. /\ d.to = [cb |-> Billing!ToGone(c.to.cb), user |-> c.to.user, nth |-> c.to.nth]
        /\ d.phase = c.phase
        /\ d = [to |-> d.to, phase |-> d.phase] \/ d = [to |-> d.to, phase |-> d.phase,
           ans |-> d.ans]
    BY <2>1, <2>2 DEF VerifyFits
  <2> QED  BY <1>1, <2>2, <2>3 DEF VerifyFits
<1>4. ASSUME NEW c \in net["verify"], c.phase = "recorded"
      PROVE  \E d \in net'["verify"] : d.phase = "recorded" /\ d.to.nth = c.to.nth
  <2> DEFINE d == [c EXCEPT !.to.cb = Billing!ToGone(@)]
  <2>1. d \in net'["verify"]
    BY <1>2
  <2>2. VerifyFits(c)
    BY DEF PurchaseInv, VerifiesFit
  <2>3. d.phase = c.phase /\ d.to.nth = c.to.nth
    BY <2>2 DEF VerifyFits
  <2> HIDE DEF d
  <2> QED  BY <1>4, <2>1, <2>3
<1>5. RecordedIsAccounted'
  <2> SUFFICES ASSUME NEW n \in server.receipts
               PROVE  \/ n \in server.credited \cup server.cut
                      \/ \E d \in net'["verify"] : d.phase = "recorded" /\ d.to.nth = n
    BY <1>1 DEF RecordedIsAccounted
  <2>1. CASE \E c \in net["verify"] : c.phase = "recorded" /\ c.to.nth = n
    <3>1. PICK c \in net["verify"] : c.phase = "recorded" /\ c.to.nth = n
      BY <2>1
    <3> QED  BY <1>4, <3>1
  <2> QED  BY <2>1 DEF PurchaseInv, RecordedIsAccounted
<1> QED  BY <1>1, <1>2, <1>3, <1>5 DEF PurchaseInv, VerifiesFit, StoreShape, FinishedIsRecorded

\* The verdicts of earlier purchases say nothing of the one that is paid for now.
LEMMA PaidFits ==
    ASSUME PurchaseInv, Billing!PaySheet  PROVE PurchaseInv'
<1>1. PICK c : net' = [net EXCEPT !["sheet"] = @ \ {c}]
  BY DEF Billing!PaySheet, Billing!Take, Billing!Without
<1>2. DOMAIN net' = Billing!Kinds /\ net'["verify"] = net["verify"]
  BY <1>1 DEF PurchaseInv, Billing!Kinds
<1>3. server' = [server EXCEPT !.purchase = "paid", !.event = TRUE, !.nth = @ + 1,
                             !.buyer = page.user, !.observed = page.configured]
  BY DEF Billing!PaySheet
<1>4. /\ server'.purchase = "paid" /\ server'.nth = server.nth + 1 /\ StoreShape'
      /\ server'.receipts = server.receipts /\ server'.credited = server.credited
      /\ server'.cut = server.cut
  <2>1. StoreShape
    BY DEF PurchaseInv
  <2>2. server' = [connected |-> server.connected, purchase |-> "paid", event |-> TRUE,
                  nth |-> server.nth + 1, buyer |-> page.user, observed |-> page.configured,
                  receipts |-> server.receipts, credited |-> server.credited, cut |-> server.cut]
    BY <1>3, <2>1, Zenon DEF StoreShape
  <2>3. server.nth + 1 \in Nat
    BY <2>1 DEF StoreShape
  <2> QED  BY <2>2, <2>3 DEF StoreShape
<1>5. ASSUME NEW d \in net'["verify"]  PROVE VerifyFits(d)'
  BY <1>2, <1>4 DEF PurchaseInv, VerifiesFit, VerifyFits, StoreShape
<1> QED  BY <1>2, <1>4, <1>5 DEF PurchaseInv, VerifiesFit, RecordedIsAccounted, FinishedIsRecorded

\* A call to verify the last purchase is on its way.
LEMMA VerifySent ==
    ASSUME PurchaseInv, NEW cb,
           NEW n, DOMAIN n = Billing!Kinds, \A c \in n["verify"] : VerifyFits(c),
           NEW m, m = Billing!Asking(n, "verify", [cb |-> cb, user |-> page.user,
              nth |-> server.nth])
    PROVE  DOMAIN m = Billing!Kinds /\ n["verify"] \subseteq m["verify"]
           /\ \A c \in m["verify"] : VerifyFits(c)
<1>1. m["verify"] = n["verify"] \cup {Billing!Sent([cb |-> cb, user |-> page.user,
   nth |-> server.nth])}
      /\ DOMAIN m = Billing!Kinds
  BY DEF Billing!Asking, Billing!Kinds
<1>2. VerifyFits(Billing!Sent([cb |-> cb, user |-> page.user, nth |-> server.nth]))
  BY DEF VerifyFits, Billing!Sent, PurchaseInv, StoreShape
<1> QED  BY <1>1, <1>2

LEMMA ReportedFits ==
    ASSUME PurchaseInv, Billing!PurchaseEvent  PROVE PurchaseInv'
<1> DEFINE By(n, cb) == Billing!Asking(n, "verify", [cb |-> cb, user |-> page.user,
   nth |-> server.nth])
           n1 == IF page.sub # Billing!None THEN By(net, page.sub) ELSE net
<1>1. net' = (IF page.leaked THEN By(n1, "gone") ELSE n1)
      /\ server' = [server EXCEPT !.event = FALSE]
  BY DEF Billing!PurchaseEvent
<1>2. DOMAIN n1 = Billing!Kinds /\ net["verify"] \subseteq n1["verify"]
      /\ \A c \in n1["verify"] : VerifyFits(c)
  <2>1. DOMAIN net = Billing!Kinds /\ \A c \in net["verify"] : VerifyFits(c)
    BY DEF PurchaseInv, VerifiesFit
  <2> QED  BY <2>1, VerifySent
<1>3. DOMAIN net' = Billing!Kinds /\ net["verify"] \subseteq net'["verify"]
      /\ \A c \in net'["verify"] : VerifyFits(c)
  <2> HIDE DEF n1
  <2> QED  BY <1>1, <1>2, VerifySent
<1>4. SamePurchase /\ StoreShape'
  BY <1>1 DEF SamePurchase, PurchaseInv, StoreShape
<1> HIDE DEF By, n1
<1> QED  BY <1>3, <1>4
   DEF PurchaseInv, VerifiesFit, VerifyFits, RecordedIsAccounted, FinishedIsRecorded, SamePurchase

\* What a handler adds to the store.
Adds(receipts, credited, gone) ==
    server' = [server EXCEPT !.receipts = @ \cup receipts, !.credited = @ \cup credited,
                             !.cut = @ \cup gone]

\* A handler that looked for the receipt, made one, or credited the wallet.
Handled(c, phase, receipts, credited, gone) ==
    /\ \/ phase = "answered" /\ Billing!Answer("verify", c, TRUE)
       \/ phase # "answered" /\ Billing!GoesOn(c, phase)
    /\ Adds(receipts, credited, gone)
    /\ phase \in {"recorded", "answered"} => c.to.nth \in server.receipts \cup receipts
    /\ \A n \in receipts : phase = "recorded" /\ c.to.nth = n
    /\ c.phase = "recorded" => c.to.nth \in credited \cup gone

LEMMA HandledFits ==
    ASSUME PurchaseInv, NEW c \in net["verify"], NEW phase, NEW receipts, NEW credited, NEW gone,
           Handled(c, phase, receipts, credited, gone)
    PROVE  PurchaseInv'
<1> USE DEF Handled
<1> DEFINE d == IF phase = "answered" THEN [to |-> c.to, phase |-> "answered", ans |-> TRUE]
                ELSE [to |-> c.to, phase |-> phase]
<1>1. DOMAIN net' = Billing!Kinds /\ net'["verify"] = (net["verify"] \ {c}) \cup {d}
  BY DEF Billing!Answer, Billing!GoesOn, PurchaseInv, Billing!Kinds
<1>2. /\ StoreShape' /\ server'.nth = server.nth /\ server'.purchase = server.purchase
      /\ server'.receipts = server.receipts \cup receipts
      /\ server'.credited = server.credited \cup credited /\ server'.cut = server.cut \cup gone
  BY DEF PurchaseInv, StoreShape, Adds
<1>3. /\ d.to = c.to /\ d.phase = phase
      /\ d = [to |-> d.to, phase |-> d.phase] \/ d = [to |-> d.to, phase |-> d.phase, ans |-> d.ans]
  OBVIOUS
<1>4. VerifyFits(c)
  BY DEF PurchaseInv, VerifiesFit
<1> HIDE DEF d
<1>5. VerifyFits(d)'
  BY <1>2, <1>3, <1>4 DEF VerifyFits
<1> QED  BY <1>1, <1>2, <1>3, <1>5, Verifying

\* A step that leaves the store alone, as one that adds nothing to it.
LEMMA NothingAdded ==
    ASSUME StoreShape, UNCHANGED server
    PROVE  Adds({}, {}, {})
BY DEF StoreShape, Adds

LEMMA ServedFits ==
    ASSUME PurchaseInv, Billing!ServeVerify  PROVE PurchaseInv'
<1>0. StoreShape
  BY DEF PurchaseInv
<1>r. ASSUME NEW c, Billing!Refuse("verify", c)  PROVE Billing!GoesOn(c, "failed")
  BY <1>r DEF Billing!Refuse, Billing!GoesOn
<1>1. CASE Billing!FindReceipt
  <2>1. PICK c \in net["verify"] :
            /\ c.phase = "sent"
            /\ \/ c.to.nth \in server.receipts /\ Billing!Answer("verify", c, TRUE)
               \/ Billing!GoesOn(c, "absent")
               \/ Billing!Refuse("verify", c)
    BY <1>1 DEF Billing!FindReceipt, Billing!Asked
  <2>2. UNCHANGED server
    BY <1>1 DEF Billing!FindReceipt, Billing!OnlyNet
  <2>3. PICK phase \in {"absent", "answered", "failed"} :
            /\ \/ phase = "answered" /\ Billing!Answer("verify", c, TRUE)
               \/ phase # "answered" /\ Billing!GoesOn(c, phase)
            /\ phase = "answered" => c.to.nth \in server.receipts
    BY <1>r, <2>1
  <2>4. Handled(c, phase, {}, {}, {})
    BY <1>0, <2>1, <2>2, <2>3, NothingAdded DEF Handled
  <2> QED  BY <2>4, HandledFits
<1>2. CASE Billing!InsertReceipt
  <2>1. PICK c \in net["verify"] :
            /\ c.phase = "absent"
            /\ \/ /\ Billing!GoesOn(c, "recorded")
                  /\ server' = [server EXCEPT !.receipts = @ \cup {c.to.nth}]
               \/ Billing!Refuse("verify", c) /\ UNCHANGED server
    BY <1>2 DEF Billing!InsertReceipt, Billing!At
  <2>2. CASE /\ Billing!GoesOn(c, "recorded")
             /\ server' = [server EXCEPT !.receipts = @ \cup {c.to.nth}]
    <3> DEFINE phase == "recorded"
    <3>1. Adds({c.to.nth}, {}, {})
      BY <1>0, <2>2 DEF StoreShape, Adds
    <3>2. phase \in {"absent", "recorded", "answered", "failed"} /\ phase # "answered"
          /\ Billing!GoesOn(c, phase) /\ phase = "recorded"
      BY <2>2
    <3> HIDE DEF phase
    <3>3. Handled(c, phase, {c.to.nth}, {}, {})
      BY <2>1, <3>1, <3>2 DEF Handled
    <3> QED  BY <3>3, HandledFits
  <2>3. CASE Billing!Refuse("verify", c) /\ UNCHANGED server
    BY <2>1, <2>3, RefusedFits
  <2> QED  BY <2>1, <2>2, <2>3
<1>3. CASE Billing!CreditPack
  <2>1. PICK c \in net["verify"] :
            /\ c.phase = "recorded"
            /\ \/ /\ Billing!Answer("verify", c, TRUE) \/ Billing!Refuse("verify", c)
                  /\ server' = [server EXCEPT !.credited = @ \cup {c.to.nth}]
               \/ /\ Billing!Refuse("verify", c)
                  /\ server' = [server EXCEPT !.cut = @ \cup {c.to.nth}]
    BY <1>3 DEF Billing!CreditPack, Billing!At
  <2>2. PICK phase \in {"answered", "failed"} :
            \/ phase = "answered" /\ Billing!Answer("verify", c, TRUE)
            \/ phase # "answered" /\ Billing!GoesOn(c, phase)
    BY <1>r, <2>1
  <2>3. PICK credited \in SUBSET {c.to.nth} : \E gone \in SUBSET {c.to.nth} :
            /\ credited \cup gone = {c.to.nth}
            /\ Adds({}, credited, gone)
    <3>1. CASE server' = [server EXCEPT !.credited = @ \cup {c.to.nth}]
      <4>1. Adds({}, {c.to.nth}, {})
        BY <1>0, <3>1 DEF StoreShape, Adds
      <4> QED  BY <4>1
    <3>2. CASE server' = [server EXCEPT !.cut = @ \cup {c.to.nth}]
      <4>1. Adds({}, {}, {c.to.nth})
        BY <1>0, <3>2 DEF StoreShape, Adds
      <4> QED  BY <4>1
    <3> QED  BY <2>1, <3>1, <3>2
  <2>4. PICK gone \in SUBSET {c.to.nth} :
            /\ credited \cup gone = {c.to.nth}
            /\ Adds({}, credited, gone)
    BY <2>3
  <2>5. c.to.nth \in server.receipts
    BY <2>1 DEF PurchaseInv, VerifiesFit, VerifyFits
  <2>6. Handled(c, phase, {}, credited, gone)
    BY <2>1, <2>2, <2>4, <2>5 DEF Handled
  <2> QED  BY <2>6, HandledFits
<1> QED  BY <1>1, <1>2, <1>3 DEF Billing!ServeVerify

\* The store is told to finish what the server said yes to: the purchase that the yes
\* is about.
LEMMA VerdictFits ==
    ASSUME PurchaseInv, Billing!DeliverVerify  PROVE PurchaseInv'
<1>1. PICK c \in Billing!Came("verify") :
        /\ net' = [net EXCEPT !["verify"] = @ \ {c}]
        /\ \/ /\ Billing!Ok(c) /\ c.to.nth = server.nth
              /\ server' = [server EXCEPT !.purchase = "finished", !.event = FALSE]
           \/ UNCHANGED server
  BY DEF Billing!DeliverVerify, Billing!Take, Billing!Without
<1>2. c \in net["verify"] /\ VerifyFits(c)
  BY DEF Billing!Came, PurchaseInv, VerifiesFit
<1>3. DOMAIN net' = Billing!Kinds /\ net'["verify"] = net["verify"] \ {c} /\ c.phase # "recorded"
  BY <1>1 DEF PurchaseInv, Billing!Kinds, Billing!Came
<1>4. CASE UNCHANGED server
  BY <1>3, <1>4, Unverified DEF SamePurchase, PurchaseInv, StoreShape
<1>5. CASE /\ Billing!Ok(c) /\ c.to.nth = server.nth
           /\ server' = [server EXCEPT !.purchase = "finished", !.event = FALSE]
  <2>1. server.nth \in server.receipts
    BY <1>2, <1>5 DEF VerifyFits, Billing!Ok
  <2>2. /\ StoreShape' /\ server'.nth = server.nth /\ server'.receipts = server.receipts
        /\ server'.credited = server.credited /\ server'.cut = server.cut
    BY <1>5 DEF PurchaseInv, StoreShape
  <2>3. VerifiesFit' /\ FinishedIsRecorded'
    BY <1>3, <2>1, <2>2 DEF PurchaseInv, VerifiesFit, VerifyFits, FinishedIsRecorded
  <2>4. RecordedIsAccounted'
    BY <1>3, <2>2 DEF PurchaseInv, RecordedIsAccounted
  <2> QED  BY <1>3, <2>2, <2>3, <2>4 DEF PurchaseInv
<1> QED  BY <1>1, <1>4, <1>5

\* What fails on the network is refused to its handler.
LEMMA LosingFits ==
    ASSUME PurchaseInv, Billing!Lose  PROVE PurchaseInv'
<1>1. PICK k \in Billing!Kinds : \E c \in net[k] : c.phase # "recorded" /\ Billing!Refuse(k, c)
  BY DEF Billing!Lose, Billing!Lost
<1>2. UNCHANGED server
  BY DEF Billing!Lose
<1>3. CASE k = "verify"
  BY <1>1, <1>2, <1>3, RefusedFits
<1>4. CASE k # "verify"
  BY <1>1, <1>2, <1>4, AskFits
<1> QED  BY <1>3, <1>4

-----------------------------------------------------------------------------
(* Billing: the bridge to the store                                         *)

LEMMA ClosedFits ==
    ASSUME PurchaseInv, Billing!Closed  PROVE PurchaseInv'
<1>1. server' = [server EXCEPT !.connected = FALSE] /\ UNCHANGED net
  BY DEF Billing!Closed
<1>2. SamePurchase /\ StoreShape'
  BY <1>1 DEF SamePurchase, PurchaseInv, StoreShape
<1> QED  BY <1>1, <1>2, Unverified DEF PurchaseInv

LEMMA ConnectFits ==
    ASSUME PurchaseInv, Billing!DeliverConnect  PROVE PurchaseInv'
<1>1. PICK c \in Billing!Came("connect") :
        /\ \/ UNCHANGED server
           \/ server' = [server EXCEPT !.connected = TRUE,
                            !.event = @ \/ ("ios" \in does /\ server.purchase = "paid")]
        /\ \/ net' = Billing!Without(net, "connect", c)
           \/ \E k \in {"sheet", "products"} :
                 net' = Billing!Asking(Billing!Without(net, "connect", c), k, TRUE)
  BY DEF Billing!DeliverConnect
<1>2. DOMAIN net' = Billing!Kinds /\ net'["verify"] = net["verify"]
  BY <1>1 DEF Billing!Without, Billing!Asking, PurchaseInv, Billing!Kinds
<1>3. SamePurchase /\ StoreShape'
  BY <1>1 DEF SamePurchase, PurchaseInv, StoreShape
<1> QED  BY <1>2, <1>3, Unverified

-----------------------------------------------------------------------------
(* Billing: what the user and the other calls do                            *)

LEMMA ScreenFits ==
    ASSUME PurchaseInv,
           (\E u \in Users : Billing!SignIn(u)) \/ Billing!OpenBilling \/ Billing!OpenWallet
              \/ Billing!DeliverWallet \/ Billing!TypeAmount
    PROVE  PurchaseInv'
<1>1. CASE (\E u \in Users : Billing!SignIn(u)) \/ Billing!TypeAmount
  BY <1>1, StaysFits DEF Billing!SignIn, Billing!TypeAmount, Billing!Stays, Billing!Same
<1>2. CASE Billing!OpenBilling
  <2>1. UNCHANGED server /\ (UNCHANGED net \/ net' = Billing!Asking(net, "pricing", TRUE))
    BY <1>2 DEF Billing!OpenBilling, Billing!GoBilling, Billing!Same
  <2> QED  BY <2>1, StaysFits, NetMoves DEF Billing!Asking, Billing!Kinds
<1>3. CASE Billing!OpenWallet
  BY <1>3, AskFits DEF Billing!OpenWallet, Billing!Same, Billing!Kinds
<1>4. CASE Billing!DeliverWallet
  BY <1>4, AskFits DEF Billing!DeliverWallet, Billing!Same, Billing!Kinds
<1> QED  BY <1>1, <1>2, <1>3, <1>4

LEMMA PricesFit ==
    ASSUME PurchaseInv, Billing!DeliverPricing \/ Billing!DeliverProducts  PROVE PurchaseInv'
<1>1. CASE Billing!DeliverPricing
  <2>1. PICK c \in Billing!Came("pricing") :
          \/ net' = Billing!Without(net, "pricing", c)
          \/ net' = Billing!Asking(Billing!Without(net, "pricing", c), "products", TRUE)
          \/ net' = Billing!Asking(Billing!Without(net, "pricing", c), "connect", [cb |-> "here",
             buy |-> FALSE])
    BY <1>1 DEF Billing!DeliverPricing
  <2>2. DOMAIN net' = Billing!Kinds /\ net'["verify"] = net["verify"] /\ UNCHANGED server
    BY <1>1, <2>1
       DEF Billing!DeliverPricing, Billing!Same, Billing!Without, Billing!Asking, PurchaseInv,
          Billing!Kinds
  <2> QED  BY <2>2, Unverified DEF SamePurchase, PurchaseInv, StoreShape
<1>2. CASE Billing!DeliverProducts
  BY <1>2, AskFits DEF Billing!DeliverProducts, Billing!Same, Billing!Kinds
<1> QED  BY <1>1, <1>2

LEMMA BuyingFits ==
    ASSUME PurchaseInv,
           \/ \E p \in ShopPacks : Billing!BuyPack(p)
           \/ Billing!PayAsYouGo \/ Billing!CancelSheet \/ Billing!DeliverCancel
           \/ Billing!DeliverOrder \/ Billing!CloseBrowser \/ Billing!DeliverLink
    PROVE  PurchaseInv'
<1>1. CASE \E p \in ShopPacks : Billing!BuyPack(p)
  <2>1. UNCHANGED server
        /\ (UNCHANGED net \/ \E k \in Billing!Kinds \ {"verify"} : \E a : Billing!Ask(k, a))
    <3>1. /\ UNCHANGED server
          /\ \/ UNCHANGED net
             \/ Billing!Ask("sheet", TRUE)
             \/ Billing!Ask("connect", [cb |-> "nobody", buy |-> TRUE])
             \/ \E p \in ShopPacks : Billing!Ask("order", p)
      BY <1>1 DEF Billing!BuyPack, Billing!Same
    <3>2. {"sheet", "connect", "order"} \subseteq Billing!Kinds \ {"verify"}
      BY DEF Billing!Kinds
    <3> QED  BY <3>1, <3>2
  <2> QED  BY <2>1, StaysFits, AskFits
<1>2. CASE Billing!PayAsYouGo
  BY <1>2, AskFits DEF Billing!PayAsYouGo, Billing!Same, Billing!Kinds
<1>3. CASE Billing!CancelSheet \/ Billing!DeliverCancel
  BY <1>3, AskFits
     DEF Billing!CancelSheet, Billing!DeliverCancel, Billing!OnlyNet, Billing!Same, Billing!Kinds
<1>4. CASE Billing!DeliverOrder \/ Billing!DeliverLink
  BY <1>4, AskFits DEF Billing!DeliverOrder, Billing!DeliverLink, Billing!Same, Billing!Kinds
<1>5. CASE Billing!CloseBrowser
  BY <1>5, AskFits, StaysFits DEF Billing!CloseBrowser, Billing!Same, Billing!Kinds
<1> QED  BY <1>1, <1>2, <1>3, <1>4, <1>5

LEMMA ReadsFit ==
    ASSUME PurchaseInv, Billing!ServeReads  PROVE PurchaseInv'
<1>1. PICK k \in {"pricing", "connect", "order", "wallet", "products", "link"} :
        \E c \in Billing!Asked(k) : \E v : Billing!Answer(k, c, v) /\ UNCHANGED server
  BY DEF Billing!ServeReads, Billing!OnlyNet
<1>2. k \in Billing!Kinds \ {"verify"}
  BY DEF Billing!Kinds
<1> QED  BY <1>1, <1>2, AskFits

LEMMA InitPurchase == Billing!StoreInit => PurchaseInv
BY
   DEF Billing!StoreInit, Billing!NoCalls, PurchaseInv, StoreShape, VerifiesFit,
      RecordedIsAccounted, FinishedIsRecorded, Billing!Kinds, Billing!None

LEMMA NextPurchase == PurchaseInv /\ [Billing!StoreNext]_<<page, server, net, lost,
   does>> => PurchaseInv'
<1> SUFFICES ASSUME PurchaseInv, [Billing!StoreNext]_<<page, server, net, lost,
   does>>  PROVE PurchaseInv'
  OBVIOUS
<1>1. CASE UNCHANGED <<page, server, net, lost, does>>
  BY <1>1, StaysFits
<1>2. CASE Billing!SignOut
  BY <1>2, LeavingFits
<1>3. CASE Billing!PaySheet
  BY <1>3, PaidFits
<1>4. CASE Billing!PurchaseEvent
  BY <1>4, ReportedFits
<1>5. CASE Billing!ServeVerify
  BY <1>5, ServedFits
<1>6. CASE Billing!DeliverVerify
  BY <1>6, VerdictFits
<1>7. CASE Billing!Lose
  BY <1>7, LosingFits
<1>8. CASE Billing!Closed
  BY <1>8, ClosedFits
<1>9. CASE Billing!DeliverConnect
  BY <1>9, ConnectFits
<1>10. CASE \/ \E u \in Users : Billing!SignIn(u)
            \/ Billing!OpenBilling \/ Billing!OpenWallet \/ Billing!DeliverWallet
               \/ Billing!TypeAmount
  BY <1>10, ScreenFits
<1>11. CASE Billing!DeliverPricing \/ Billing!DeliverProducts
  BY <1>11, PricesFit
<1>12. CASE \/ \E p \in ShopPacks : Billing!BuyPack(p)
            \/ Billing!PayAsYouGo \/ Billing!CancelSheet \/ Billing!DeliverCancel
            \/ Billing!DeliverOrder \/ Billing!CloseBrowser \/ Billing!DeliverLink
  BY <1>12, BuyingFits
<1>13. CASE Billing!ServeReads
  BY <1>13, ReadsFit
<1> QED
  BY <1>1, <1>2, <1>3, <1>4, <1>5, <1>6, <1>7, <1>8, <1>9, <1>10, <1>11, <1>12, <1>13
     DEF Billing!StoreNext

-----------------------------------------------------------------------------
(* Billing: what a call comes back to.  StoreTypeOK is not inductive: that   *)
(* a screen which is called back is mounted depends on the calls in flight. *)

\* Only a screen that is mounted is called back, and only a user who is signed in has one.
BackFits(p, c) ==
    /\ {"to", "phase"} \subseteq DOMAIN c /\ "cb" \in DOMAIN c.to
    /\ c.to.cb \in Billing!Callbacks /\ (c.to.cb = "here" => p.mounted)

BillingCallsFit(p, n) ==
    /\ DOMAIN n = Billing!Kinds
    /\ p.mounted \/ p.browser \/ n["order"] # {} \/ n["link"] # {} => p.user # Billing!None
    /\ n["pricing"] # {} => p.mounted
    /\ \A c \in n["connect"] \cup n["verify"] : BackFits(p, c)
    /\ \A c \in n["verify"] : "nth" \in DOMAIN c.to /\ c.to.nth \in 0 .. MaxPurchases
    /\ \A c \in n["products"] : Billing!Ok(c) => c.ans \in SUBSET ShopPacks

BillingTypes == Billing!StoreTypeOK /\ BillingCallsFit(page, net)

-----------------------------------------------------------------------------

LEMMA KindsOfBilling ==
    Billing!Kinds = {"pricing", "connect", "products", "sheet", "verify", "order", "link", "wallet"}
BY DEF Billing!Kinds

LEMMA BillingCallsLeft ==
    ASSUME NEW p, NEW n, BillingCallsFit(p, n), NEW m, DOMAIN m = Billing!Kinds,
           \A k \in Billing!Kinds : m[k] \subseteq n[k]
    PROVE  BillingCallsFit(p, m)
BY KindsOfBilling DEF BillingCallsFit

LEMMA BillingCallTaken ==
    ASSUME NEW p, NEW n, BillingCallsFit(p, n), NEW k, NEW c
    PROVE  BillingCallsFit(p, Billing!Without(n, k, c))
<1>1. PICK m : m = Billing!Without(n, k, c)
  OBVIOUS
<1>2. DOMAIN m = Billing!Kinds /\ \A j \in Billing!Kinds : m[j] \subseteq n[j]
  BY <1>1 DEF Billing!Without, BillingCallsFit
<1> QED  BY <1>1, <1>2, BillingCallsLeft

\* What is asked for has who asked behind it.
LEMMA BillingCallAsked ==
    ASSUME NEW p, NEW n, BillingCallsFit(p, n), NEW k, NEW a,
           k \in {"order", "link"} => p.user # Billing!None,
           k = "pricing" => p.mounted,
           k \in {"connect", "verify"} =>
               "cb" \in DOMAIN a /\ a.cb \in Billing!Callbacks /\ (a.cb = "here" => p.mounted),
           k = "verify" => "nth" \in DOMAIN a /\ a.nth \in 0 .. MaxPurchases
    PROVE  BillingCallsFit(p, Billing!Asking(n, k, a))
<1>1. PICK m : m = Billing!Asking(n, k, a)
  OBVIOUS
<1>2. DOMAIN m = Billing!Kinds /\ \A j \in Billing!Kinds : m[j] = IF j = k
      THEN n[j] \cup {Billing!Sent(a)} ELSE n[j]
  BY <1>1 DEF Billing!Asking, BillingCallsFit
<1>3. /\ Billing!Sent(a).to = a /\ ~Billing!Ok(Billing!Sent(a))
         /\ {"to", "phase"} \subseteq DOMAIN Billing!Sent(a)
  BY DEF Billing!Sent, Billing!Ok
<1>4. k \in {"connect", "verify"} => BackFits(p, Billing!Sent(a))
  BY <1>3 DEF BackFits
<1>5. BillingCallsFit(p, m)
  BY <1>2, <1>3, <1>4, KindsOfBilling DEF BillingCallsFit
<1> QED  BY <1>1, <1>5

\* A call goes on.
LEMMA BillingCallMoves ==
    ASSUME NEW p, NEW n, BillingCallsFit(p, n), NEW k \in Billing!Kinds, NEW c \in n[k], NEW d,
           d.to = c.to, {"to", "phase"} \subseteq DOMAIN d,
           k = "products" /\ Billing!Ok(d) => d.ans \in SUBSET ShopPacks,
           NEW m, m = [n EXCEPT ![k] = (@ \ {c}) \cup {d}]
    PROVE  BillingCallsFit(p, m)
<1>1. DOMAIN m = Billing!Kinds /\ \A j \in Billing!Kinds : m[j] = IF j = k THEN (n[j] \ {c}) \cup {d}
      ELSE n[j]
  BY DEF BillingCallsFit
<1>2. k \in {"connect", "verify"} => BackFits(p, c)
  BY DEF BillingCallsFit
<1>3. k \in {"connect", "verify"} => BackFits(p, d)
  BY <1>2 DEF BackFits
<1> QED  BY <1>1, <1>3, KindsOfBilling DEF BillingCallsFit

LEMMA BillingCallAnswered ==
    ASSUME BillingTypes, NEW k \in Billing!Kinds, NEW c \in net[k], NEW v, Billing!Answer(k, c, v),
           k = "products" => v \in SUBSET ShopPacks, UNCHANGED page
    PROVE  BillingCallsFit(page', net')
<1>1. PICK d : d = [to |-> c.to, phase |-> "answered", ans |-> v]
  OBVIOUS
<1>2. net' = [net EXCEPT ![k] = (@ \ {c}) \cup {d}]
  BY <1>1 DEF Billing!Answer
<1>3. /\ d.to = c.to /\ {"to", "phase"} \subseteq DOMAIN d
      /\ k = "products" /\ Billing!Ok(d) => d.ans \in SUBSET ShopPacks
  BY <1>1
<1> QED  BY <1>2, <1>3, BillingCallMoves DEF BillingTypes

LEMMA BillingCallRefused ==
    ASSUME BillingTypes, NEW k \in Billing!Kinds, NEW c \in net[k], Billing!Refuse(k, c), UNCHANGED page
    PROVE  BillingCallsFit(page', net')
<1>1. PICK d : d = [to |-> c.to, phase |-> "failed"]
  OBVIOUS
<1>2. net' = [net EXCEPT ![k] = (@ \ {c}) \cup {d}]
  BY <1>1 DEF Billing!Refuse
<1>3. d.to = c.to /\ {"to", "phase"} \subseteq DOMAIN d /\ ~Billing!Ok(d)
  BY <1>1 DEF Billing!Ok
<1> QED  BY <1>2, <1>3, BillingCallMoves DEF BillingTypes

LEMMA BillingCallGoesOn ==
    ASSUME BillingTypes, NEW c \in net["verify"], NEW ph, Billing!GoesOn(c, ph), UNCHANGED page
    PROVE  BillingCallsFit(page', net')
<1>1. PICK d : d = [to |-> c.to, phase |-> ph]
  OBVIOUS
<1>2. net' = [net EXCEPT !["verify"] = (@ \ {c}) \cup {d}]
  BY <1>1 DEF Billing!GoesOn
<1>3. PICK k \in Billing!Kinds : k = "verify"
  BY KindsOfBilling
<1>4. d.to = c.to /\ {"to", "phase"} \subseteq DOMAIN d
  BY <1>1
<1> QED  BY <1>2, <1>3, <1>4, BillingCallMoves DEF BillingTypes

\* The screens go on, with the same user.
LEMMA BillingPageGoes ==
    ASSUME NEW p, NEW n, BillingCallsFit(p, n), NEW q, q.user = p.user,
           p.mounted = q.mounted, q.browser => p.browser \/ p.user # Billing!None
    PROVE  BillingCallsFit(q, n)
BY DEF BillingCallsFit, BackFits

-----------------------------------------------------------------------------

\* The page and the store are typed field by field.
LEMMA BillingPage ==
    ASSUME BillingTypes,
           (\E u \in Users : Billing!SignIn(u)) \/ Billing!SignOut \/ Billing!Closed
           \/ Billing!OpenBilling \/ Billing!OpenWallet \/ Billing!DeliverWallet
    PROVE  Billing!StoreTypeOK'
<1>0. /\ page \in Billing!Page /\ server \in Billing!Store
         /\ (page.user = Billing!None <=> page.at = "signin")
      /\ (page.sub = "here" => page.mounted) /\ does \in BillingWorkloads /\ lost \in 0 .. MaxLost
  BY DEF BillingTypes, Billing!StoreTypeOK
<1>1. CASE \E u \in Users : Billing!SignIn(u)
  <2>1. PICK u \in Users : Billing!SignIn(u)
    BY <1>1
  <2>2. page' \in Billing!Page
    BY <1>0, <2>1 DEF Billing!SignIn, Billing!Stays, Billing!Page
  <2> QED  BY <1>0, <2>1, <2>2, BillingAssumption, RoomAssumption
     DEF Billing!SignIn, Billing!Stays, Billing!Same, BillingTypes, Billing!StoreTypeOK, Billing!Page
<1>2. CASE Billing!SignOut
  <2> DEFINE out(n, c, s) ==
                 [page EXCEPT
                     !.outs = n, !.user = Billing!None, !.at = "signin", !.mounted = FALSE,
                     !.loading = TRUE,
                     !.pricing = FALSE, !.iapReady = FALSE, !.products = {}, !.buying = Billing!None,
                     !.valid = TRUE, !.balance = FALSE, !.closing = c, !.sub = s]
  <2>a. ASSUME NEW n \in 0 .. MaxSignOuts, NEW c \in BOOLEAN,
               NEW s \in Billing!Callbacks \cup {Billing!None}
        PROVE  out(n, c, s) \in Billing!Page
    <3>1. PICK p : p = [page EXCEPT
                           !.outs = n, !.user = Billing!None, !.at = "signin", !.mounted = FALSE,
                           !.loading = TRUE,
                           !.pricing = FALSE, !.iapReady = FALSE]
      OBVIOUS
    <3>2. p \in Billing!Page
      BY <1>0, <2>a, <3>1 DEF Billing!Page
    <3>3. [p EXCEPT !.products = {}, !.buying = Billing!None, !.valid = TRUE, !.balance = FALSE,
                    !.closing = c, !.sub = s] \in Billing!Page
      BY <2>a, <3>2 DEF Billing!Page
    <3> QED  BY <3>1, <3>3, Zenon
  <2>b. page.outs + 1 \in 0 .. MaxSignOuts
    BY <1>0, <1>2, BillingAssumption, RoomAssumption DEF Billing!SignOut, Billing!Page
  <2>c. (page.closing \/ (page.pricing /\ page.initialized)) \in BOOLEAN
    OBVIOUS
  <2>d. (IF page.pricing /\ page.initialized THEN Billing!None
        ELSE Billing!ToGone(page.sub)) \in Billing!Callbacks \cup {Billing!None}
    BY <1>0 DEF Billing!Page, Billing!ToGone, Billing!Callbacks
  <2>e. page' = out(page.outs + 1, page.closing \/ (page.pricing /\ page.initialized),
                    IF page.pricing /\ page.initialized THEN Billing!None ELSE Billing!ToGone(page.sub))
    BY <1>2, Zenon DEF Billing!SignOut
  <2> HIDE DEF out
  <2>1. page' \in Billing!Page
    BY <2>a, <2>b, <2>c, <2>d, <2>e
  <2>2. page'.user = Billing!None /\ page'.at = "signin" /\ page'.sub # "here"
    BY <1>0, <1>2 DEF Billing!SignOut, Billing!Page, Billing!ToGone, Billing!Callbacks, Billing!None
  <2> QED  BY <1>0, <1>2, <2>1, <2>2 DEF Billing!SignOut, Billing!Same, Billing!StoreTypeOK
<1>3. CASE Billing!Closed
  <2>1. page' \in Billing!Page /\ server' \in Billing!Store
    BY <1>0, <1>3 DEF Billing!Closed, Billing!Page, Billing!Store
  <2> QED  BY <1>0, <1>3, <2>1
     DEF Billing!Closed, Billing!StoreTypeOK, BillingTypes, Billing!Page, Billing!None
<1>4. CASE Billing!OpenBilling
  <2>1. page' \in Billing!Page
    BY <1>0, <1>4 DEF Billing!OpenBilling, Billing!GoBilling, Billing!Page
  <2> QED  BY <1>0, <1>4, <2>1
     DEF Billing!OpenBilling, Billing!GoBilling, Billing!Same, Billing!Asking, Billing!StoreTypeOK,
         BillingTypes, Billing!Page
<1>5. CASE Billing!OpenWallet
  <2>1. page' \in Billing!Page
    BY <1>0, <1>5 DEF Billing!OpenWallet, Billing!Page
  <2> QED  BY <1>0, <1>5, <2>1
     DEF Billing!OpenWallet, Billing!Same, Billing!Ask, Billing!Asking, Billing!StoreTypeOK, BillingTypes,
         Billing!Page
<1>6. CASE Billing!DeliverWallet
  <2>1. page' \in Billing!Page
    BY <1>0, <1>6 DEF Billing!DeliverWallet, Billing!Page, Billing!Ok
  <2> QED  BY <1>0, <1>6, <2>1
     DEF Billing!DeliverWallet, Billing!Same, Billing!Take, Billing!Without, Billing!StoreTypeOK,
         BillingTypes, Billing!Page
<1> QED  BY <1>1, <1>2, <1>3, <1>4, <1>5, <1>6

LEMMA BillingStores ==
    ASSUME BillingTypes, Billing!DeliverPricing \/ Billing!DeliverConnect \/ Billing!DeliverProducts
    PROVE  Billing!StoreTypeOK'
<1>0. /\ page \in Billing!Page /\ server \in Billing!Store
         /\ (page.user = Billing!None <=> page.at = "signin")
      /\ (page.sub = "here" => page.mounted) /\ does \in BillingWorkloads /\ lost \in 0 .. MaxLost
      /\ DOMAIN net = Billing!Kinds
  BY DEF BillingTypes, Billing!StoreTypeOK
<1>1. CASE Billing!DeliverPricing
  <2>1. PICK c, p, n :
          /\ c \in Billing!Came("pricing")
          /\ p = [page EXCEPT !.loading = FALSE, !.pricing = Billing!Ok(c)]
             /\ n = Billing!Without(net, "pricing", c)
          /\ \/ page' = p /\ net' = n
             \/ /\ page' = [p EXCEPT !.configured = Billing!Configured(p), !.iapReady = TRUE]
                /\ net' = Billing!Asking(n, "products", TRUE)
             \/ /\ page' = [p EXCEPT !.configured = Billing!Configured(p)]
                /\ net' = Billing!Asking(n, "connect", [cb |-> "here", buy |-> FALSE])
    BY <1>1 DEF Billing!DeliverPricing
  <2>2. DOMAIN n = Billing!Kinds /\ DOMAIN net' = Billing!Kinds
    BY <1>0, <2>1 DEF Billing!Without, Billing!Asking
  <2>3. /\ p \in Billing!Page /\ p.user = page.user /\ p.at = page.at /\ p.sub = page.sub
           /\ p.mounted = page.mounted
        /\ Billing!Configured(p) \in Users \cup {Billing!None}
    BY ZenonT(60), <1>0, <2>1 DEF Billing!Page, Billing!Configured, Billing!Ok
  <2>4. /\ page' \in Billing!Page /\ page'.user = p.user /\ page'.at = p.at /\ page'.sub = p.sub
        /\ page'.mounted = p.mounted
    BY ZenonT(60), <2>1, <2>3 DEF Billing!Page
  <2> QED  BY <1>0, <1>1, <2>2, <2>3, <2>4
     DEF Billing!DeliverPricing, Billing!Same, Billing!StoreTypeOK
<1>2. CASE Billing!DeliverConnect
  <2>1. PICK c \in Billing!Came("connect") :
        /\ page' = IF ~Billing!Ok(c) THEN page
                   ELSE [page EXCEPT !.initialized = TRUE, !.sub = c.to.cb,
                                     !.leaked = @ \/ page.sub # Billing!None,
                                     !.iapReady = @ \/ c.to.cb = "here"]
        /\ server' = IF ~Billing!Ok(c) THEN server
                    ELSE [server EXCEPT !.connected = TRUE,
                             !.event = @ \/ ("ios" \in does /\ server.purchase = "paid")]
        /\ DOMAIN net' = Billing!Kinds /\ UNCHANGED <<lost, does>>
    BY <1>0, <1>2 DEF Billing!DeliverConnect, Billing!Without, Billing!Asking
  <2>2. c.to.cb \in Billing!Callbacks /\ (c.to.cb = "here" => page.mounted)
    BY DEF Billing!Came, BillingTypes, BillingCallsFit, BackFits
  <2>3. PICK l \in BOOLEAN, i \in BOOLEAN, s \in Billing!Callbacks :
          l = (page.leaked \/ page.sub # Billing!None) /\ i = (page.iapReady \/ c.to.cb = "here")
          /\ s = c.to.cb
    BY <2>2
  <2>4. page' = page \/ page' = [page EXCEPT !.initialized = TRUE, !.sub = s, !.leaked = l,
        !.iapReady = i]
    BY <2>1, <2>3
  <2>5. page' \in Billing!Page /\ (page'.user = Billing!None <=> page'.at = "signin")
        /\ (page'.sub = "here" => page'.mounted)
    BY ZenonT(60), <1>0, <2>2, <2>3, <2>4 DEF Billing!Page
  <2>6. server' \in Billing!Store
    BY <1>0, <2>1 DEF Billing!Store
  <2> QED  BY <1>0, <2>1, <2>5, <2>6 DEF Billing!StoreTypeOK
<1>3. CASE Billing!DeliverProducts
  <2>1. PICK c \in Billing!Came("products") :
          /\ net' = Billing!Without(net, "products", c) /\ Billing!Same
          /\ page' = [page EXCEPT !.products = IF Billing!Ok(c) THEN c.ans ELSE {}]
    BY <1>3 DEF Billing!DeliverProducts, Billing!Take
  <2>2. (IF Billing!Ok(c) THEN c.ans ELSE {}) \in SUBSET ShopPacks
    BY <2>1 DEF Billing!Came, BillingTypes, BillingCallsFit
  <2>3. page' \in Billing!Page
    BY <1>0, <2>1, <2>2 DEF Billing!Page
  <2> QED  BY <1>0, <2>1, <2>3 DEF Billing!Same, Billing!Without, Billing!StoreTypeOK, Billing!Page
<1> QED  BY <1>1, <1>2, <1>3

LEMMA BillingBuys ==
    ASSUME BillingTypes,
           \/ \E p \in ShopPacks : Billing!BuyPack(p)
           \/ Billing!TypeAmount \/ Billing!PayAsYouGo \/ Billing!CancelSheet \/ Billing!DeliverCancel
           \/ Billing!DeliverOrder \/ Billing!CloseBrowser \/ Billing!DeliverLink
    PROVE  Billing!StoreTypeOK'
<1>0. /\ page \in Billing!Page /\ server \in Billing!Store
         /\ (page.user = Billing!None <=> page.at = "signin")
      /\ (page.sub = "here" => page.mounted) /\ does \in BillingWorkloads /\ lost \in 0 .. MaxLost
      /\ DOMAIN net = Billing!Kinds
  BY DEF BillingTypes, Billing!StoreTypeOK
<1>1. ASSUME DOMAIN net' = Billing!Kinds, Billing!Same, page' \in Billing!Page, page'.user = page.user,
             page'.at = page.at \/ (page.user # Billing!None /\ page'.at = "wallet"),
             page'.sub = page.sub, page'.mounted = page.mounted
      PROVE  Billing!StoreTypeOK'
  BY <1>0, <1>1 DEF Billing!Same, Billing!StoreTypeOK
<1>2. CASE \E p \in ShopPacks : Billing!BuyPack(p)
  <2>1. PICK p \in ShopPacks : Billing!BuyPack(p)
    BY <1>2
  <2>2. page' \in {[page EXCEPT !.buying = Billing!None], [page EXCEPT !.buying = p]}
        /\ DOMAIN net' = Billing!Kinds /\ Billing!Same
    BY <1>0, <2>1 DEF Billing!BuyPack, Billing!Ask, Billing!Asking
  <2>3. page' \in Billing!Page
    BY <1>0, <2>2 DEF Billing!Page
  <2> QED  BY <1>0, <1>1, <2>2, <2>3 DEF Billing!Page
<1>3. CASE Billing!TypeAmount
  BY <1>0, <1>1, <1>3 DEF Billing!TypeAmount, Billing!Stays, Billing!Page
<1>4. CASE Billing!PayAsYouGo
  <2>1. page' = [page EXCEPT !.buying = "payg"] /\ DOMAIN net' = Billing!Kinds /\ Billing!Same
    BY <1>0, <1>4 DEF Billing!PayAsYouGo, Billing!Ask, Billing!Asking
  <2> QED  BY <1>0, <1>1, <2>1 DEF Billing!Page
<1>5. CASE Billing!CancelSheet
  BY <1>0, <1>1, <1>5 DEF Billing!CancelSheet, Billing!Refuse, Billing!OnlyNet, Billing!Same
<1>6. CASE Billing!DeliverCancel
  <2>1. page' = [page EXCEPT !.buying = Billing!None] /\ DOMAIN net' = Billing!Kinds /\ Billing!Same
    BY <1>0, <1>6 DEF Billing!DeliverCancel, Billing!Take, Billing!Without
  <2> QED  BY <1>0, <1>1, <2>1 DEF Billing!Page
<1>7. CASE Billing!DeliverOrder
  <2>1. /\ page' \in {[page EXCEPT !.browser = TRUE], [page EXCEPT !.buying = Billing!None]}
        /\ DOMAIN net' = Billing!Kinds /\ Billing!Same
    BY <1>0, <1>7 DEF Billing!DeliverOrder, Billing!Take, Billing!Without
  <2> QED  BY <1>0, <1>1, <2>1 DEF Billing!Page
<1>8. CASE Billing!CloseBrowser
  <2>1. /\ page' \in {[page EXCEPT !.browser = FALSE], [page EXCEPT !.browser = FALSE,
           !.buying = Billing!None]}
        /\ DOMAIN net' = Billing!Kinds /\ Billing!Same
    BY <1>0, <1>8 DEF Billing!CloseBrowser, Billing!Ask, Billing!Asking
  <2> QED  BY <1>0, <1>1, <2>1 DEF Billing!Page
<1>9. CASE Billing!DeliverLink
  <2>1. PICK c \in Billing!Came("link") :
          /\ net' = Billing!Without(net, "link", c) /\ Billing!Same
          /\ page' = [page EXCEPT !.buying = Billing!None, !.at = IF Billing!Ok(c) /\ c.ans THEN "wallet"
             ELSE @]
    BY <1>9 DEF Billing!DeliverLink, Billing!Take
  <2>2. page.user # Billing!None
    BY <2>1 DEF Billing!Came, BillingTypes, BillingCallsFit
  <2>3. page' \in {[page EXCEPT !.buying = Billing!None],
        [page EXCEPT !.buying = Billing!None, !.at = "wallet"]}
    BY <1>0, <2>1 DEF Billing!Page
  <2>4. DOMAIN net' = Billing!Kinds
    BY <1>0, <2>1 DEF Billing!Without
  <2> QED  BY <1>0, <1>1, <2>1, <2>2, <2>3, <2>4 DEF Billing!Page
<1> QED  BY <1>2, <1>3, <1>4, <1>5, <1>6, <1>7, <1>8, <1>9

LEMMA BillingServed ==
    ASSUME BillingTypes,
           Billing!PaySheet \/ Billing!PurchaseEvent \/ Billing!DeliverVerify \/ Billing!ServeReads
           \/ Billing!ServeVerify \/ Billing!Lose
    PROVE  Billing!StoreTypeOK'
<1>0. /\ page \in Billing!Page /\ server \in Billing!Store
         /\ (page.user = Billing!None <=> page.at = "signin")
      /\ (page.sub = "here" => page.mounted) /\ does \in BillingWorkloads /\ lost \in 0 .. MaxLost
      /\ DOMAIN net = Billing!Kinds
  BY DEF BillingTypes, Billing!StoreTypeOK
<1>1. CASE Billing!PaySheet
  <2>1. /\ server' = [server EXCEPT !.purchase = "paid", !.event = TRUE, !.nth = @ + 1,
                                  !.buyer = page.user, !.observed = page.configured]
        /\ server.nth < MaxPurchases /\ UNCHANGED <<page, lost, does>> /\ DOMAIN net' = Billing!Kinds
    BY <1>0, <1>1 DEF Billing!PaySheet, Billing!Take, Billing!Without
  <2>2. server.nth + 1 \in 0 .. MaxPurchases
    BY <1>0, <2>1, BillingAssumption, RoomAssumption DEF Billing!Store
  <2>3. server' \in Billing!Store
    BY <1>0, <2>1, <2>2 DEF Billing!Store, Billing!Page
  <2> QED  BY <1>0, <2>1, <2>3 DEF Billing!StoreTypeOK
<1>2. CASE Billing!PurchaseEvent
  <2>1. server' = [server EXCEPT !.event = FALSE] /\ UNCHANGED <<page, lost, does>>
        /\ DOMAIN net' = Billing!Kinds
    BY <1>0, <1>2 DEF Billing!PurchaseEvent, Billing!Asking
  <2> QED  BY <1>0, <2>1 DEF Billing!StoreTypeOK, Billing!Store
<1>3. CASE Billing!DeliverVerify
  <2>1. PICK c \in Billing!Came("verify") :
          /\ net' = Billing!Without(net, "verify", c)
          /\ server' = server \/ server' = [server EXCEPT !.purchase = "finished", !.event = FALSE]
          /\ UNCHANGED <<lost, does>>
          /\ page' = page \/ (c.to.cb = "here" /\ (\/ page' = [page EXCEPT !.buying = Billing!None]
                                                  \/ page' = [page EXCEPT !.buying = Billing!None,
                                                     !.at = "wallet"]))
    BY <1>0, <1>3 DEF Billing!DeliverVerify, Billing!Take, Billing!Page
  <2>2. c.to.cb = "here" => page.user # Billing!None
    BY DEF Billing!Came, BillingTypes, BillingCallsFit, BackFits
  <2>3. server' \in Billing!Store
    BY <1>0, <2>1 DEF Billing!Store
  <2>4. page' \in Billing!Page /\ (page'.user = Billing!None <=> page'.at = "signin")
        /\ (page'.sub = "here" => page'.mounted)
    BY ZenonT(60), <1>0, <2>1, <2>2 DEF Billing!Page
  <2> QED  BY <1>0, <2>1, <2>3, <2>4 DEF Billing!StoreTypeOK, Billing!Without
<1>4. CASE Billing!ServeReads
  BY <1>0, <1>4 DEF Billing!ServeReads, Billing!Answer, Billing!OnlyNet, Billing!StoreTypeOK
<1>5. CASE Billing!ServeVerify
  <2>1. /\ DOMAIN net' = Billing!Kinds /\ UNCHANGED <<page, lost, does>>
        /\ \/ server' = server
           \/ \E c \in net["verify"] :
                 \/ server' = [server EXCEPT !.receipts = @ \cup {c.to.nth}]
                 \/ server' = [server EXCEPT !.credited = @ \cup {c.to.nth}]
                 \/ server' = [server EXCEPT !.cut = @ \cup {c.to.nth}]
    <3>1. CASE Billing!FindReceipt
      BY <1>0, <3>1 DEF Billing!FindReceipt, Billing!Answer, Billing!Refuse, Billing!GoesOn, Billing!OnlyNet
    <3>2. CASE Billing!InsertReceipt
      BY <1>0, <3>2 DEF Billing!InsertReceipt, Billing!At, Billing!Refuse, Billing!GoesOn
    <3>3. CASE Billing!CreditPack
      BY <1>0, <3>3 DEF Billing!CreditPack, Billing!At, Billing!Answer, Billing!Refuse
    <3> QED  BY <1>5, <3>1, <3>2, <3>3 DEF Billing!ServeVerify
  <2>2. \A c \in net["verify"] : c.to.nth \in 0 .. MaxPurchases
    BY DEF BillingTypes, BillingCallsFit
  <2>3. server' \in Billing!Store
    BY <1>0, <2>1, <2>2 DEF Billing!Store
  <2> QED  BY <1>0, <2>1, <2>3 DEF Billing!StoreTypeOK
<1>6. CASE Billing!Lose
  <2>1. lost' \in 0 .. MaxLost /\ DOMAIN net' = Billing!Kinds /\ UNCHANGED <<page, server, does>>
    BY <1>0, <1>6, BillingAssumption, RoomAssumption DEF Billing!Lose, Billing!Lost, Billing!Refuse
  <2> QED  BY <1>0, <2>1 DEF Billing!StoreTypeOK
<1> QED  BY <1>1, <1>2, <1>3, <1>4, <1>5, <1>6

-----------------------------------------------------------------------------

LEMMA BillingCallsPage ==
    ASSUME BillingTypes,
           (\E u \in Users : Billing!SignIn(u)) \/ Billing!SignOut \/ Billing!Closed
           \/ Billing!OpenBilling \/ Billing!OpenWallet \/ Billing!DeliverWallet
    PROVE  BillingCallsFit(page', net')
<1>0. page \in Billing!Page /\ BillingCallsFit(page, net)
      /\ (page.user = Billing!None <=> page.at = "signin")
  BY DEF BillingTypes, Billing!StoreTypeOK
<1>1. CASE \E u \in Users : Billing!SignIn(u)
  <2>1. PICK u \in Users : page.at = "signin" /\ page' = [page EXCEPT !.user = u, !.at = "other"]
                           /\ net' = net
    BY <1>1 DEF Billing!SignIn, Billing!Stays
  <2>2. ~page.mounted /\ ~page.browser /\ net["order"] = {} /\ net["link"] = {}
    BY <1>0, <2>1 DEF BillingCallsFit
  <2> QED  BY <1>0, <2>1, <2>2 DEF BillingCallsFit, BackFits, Billing!Page
<1>2. CASE Billing!SignOut
  <2>1. /\ page'.user = Billing!None /\ page'.mounted = FALSE /\ page'.browser = FALSE
        /\ net' = [k \in Billing!Kinds |->
                      IF k \in {"connect", "verify"}
                      THEN {[c EXCEPT !.to.cb = Billing!ToGone(@)] : c \in net[k]}
                      ELSE IF k = "sheet" THEN net[k] ELSE {}]
    BY <1>0, <1>2 DEF Billing!SignOut, Billing!Page
  <2>2. /\ DOMAIN net' = Billing!Kinds
        /\ \A k \in {"order", "link", "pricing", "products"} : net'[k] = {}
        /\ \A k \in {"connect",
           "verify"} : net'[k] = {[c EXCEPT !.to.cb = Billing!ToGone(@)] : c \in net[k]}
    BY <2>1, KindsOfBilling
  <2>3. ASSUME NEW k \in {"connect", "verify"}, NEW d \in net'[k]
        PROVE  /\ BackFits(page', d)
               /\ k = "verify" => "nth" \in DOMAIN d.to /\ d.to.nth \in 0 .. MaxPurchases
    <3>1. PICK c \in net[k] : d = [c EXCEPT !.to.cb = Billing!ToGone(@)]
      BY <2>2
    <3>2. /\ BackFits(page, c)
          /\ k = "verify" => "nth" \in DOMAIN c.to /\ c.to.nth \in 0 .. MaxPurchases
      BY <1>0 DEF BillingCallsFit
    <3>3. /\ DOMAIN d = DOMAIN c /\ d.to = [c.to EXCEPT !.cb = Billing!ToGone(@)]
      BY <3>1, <3>2 DEF BackFits
    <3>4. /\ DOMAIN d.to = DOMAIN c.to /\ d.to.cb = Billing!ToGone(c.to.cb)
          /\ k = "verify" => d.to.nth = c.to.nth
      BY <3>2, <3>3 DEF BackFits
    <3>5. d.to.cb \in Billing!Callbacks /\ d.to.cb # "here"
      BY <3>2, <3>4 DEF BackFits, Billing!ToGone, Billing!Callbacks
    <3> QED  BY <3>2, <3>3, <3>4, <3>5 DEF BackFits
  <2> QED  BY <2>1, <2>2, <2>3 DEF BillingCallsFit
<1>3. CASE Billing!Closed
  <2>1. page' = [page EXCEPT !.closing = FALSE, !.initialized = FALSE, !.sub = Billing!None] /\ net' = net
    BY <1>3 DEF Billing!Closed
  <2>2. page'.user = page.user /\ page'.mounted = page.mounted /\ page'.browser = page.browser
    BY <1>0, <2>1 DEF Billing!Page
  <2> QED  BY <1>0, <2>1, <2>2, BillingPageGoes
<1>4. CASE Billing!OpenBilling
  <2>1. /\ page' = [page EXCEPT !.at = "billing", !.mounted = TRUE] /\ page.user # Billing!None
        /\ net' = IF page.mounted THEN net ELSE Billing!Asking(net, "pricing", TRUE)
    BY <1>4 DEF Billing!OpenBilling, Billing!GoBilling
  <2>2. page'.user = page.user /\ page'.mounted = TRUE /\ page'.browser = page.browser
    BY <1>0, <2>1 DEF Billing!Page
  <2>3. BillingCallsFit(page', net)
    BY <1>0, <2>1, <2>2 DEF BillingCallsFit, BackFits
  <2>4. BillingCallsFit(page', Billing!Asking(net, "pricing", TRUE))
    BY <2>2, <2>3, BillingCallAsked
  <2> QED  BY <2>1, <2>3, <2>4
<1>5. CASE Billing!OpenWallet
  <2>1. page' = [page EXCEPT !.at = "wallet"] /\ net' = Billing!Asking(net, "wallet", TRUE)
    BY <1>5 DEF Billing!OpenWallet, Billing!Ask
  <2>2. page'.user = page.user /\ page'.mounted = page.mounted /\ page'.browser = page.browser
    BY <1>0, <2>1 DEF Billing!Page
  <2> QED  BY <1>0, <2>1, <2>2, BillingPageGoes, BillingCallAsked
<1>6. CASE Billing!DeliverWallet
  <2>1. PICK c : net' = Billing!Without(net, "wallet", c)
                 /\ page' = [page EXCEPT !.balance = @ \/ Billing!Ok(c)]
    BY <1>6 DEF Billing!DeliverWallet, Billing!Take
  <2>2. page'.user = page.user /\ page'.mounted = page.mounted /\ page'.browser = page.browser
    BY <1>0, <2>1 DEF Billing!Page
  <2> QED  BY <1>0, <2>1, <2>2, BillingPageGoes, BillingCallTaken
<1> QED  BY <1>1, <1>2, <1>3, <1>4, <1>5, <1>6

LEMMA BillingCallsStores ==
    ASSUME BillingTypes, Billing!DeliverPricing \/ Billing!DeliverConnect \/ Billing!DeliverProducts
    PROVE  BillingCallsFit(page', net')
<1>0. page \in Billing!Page /\ BillingCallsFit(page, net)
  BY DEF BillingTypes, Billing!StoreTypeOK
<1>1. CASE Billing!DeliverPricing
  <2>1. PICK c \in Billing!Came("pricing") :
          /\ page'.user = page.user /\ page'.mounted = page.mounted /\ page'.browser = page.browser
          /\ net' \in {Billing!Without(net, "pricing", c),
             Billing!Asking(Billing!Without(net, "pricing", c), "products", TRUE),
                       Billing!Asking(Billing!Without(net, "pricing", c), "connect",
                       [cb |-> "here", buy |-> FALSE])}
    BY <1>0, <1>1 DEF Billing!DeliverPricing, Billing!Page
  <2>2. page'.mounted
    BY <1>0, <2>1 DEF Billing!Came, BillingCallsFit
  <2>3. BillingCallsFit(page', Billing!Without(net, "pricing", c))
    BY <1>0, <2>1, BillingPageGoes, BillingCallTaken
  <2>4. PICK n : n = Billing!Without(net, "pricing", c)
    OBVIOUS
  <2>5. PICK a : a = [cb |-> "here", buy |-> FALSE]
    OBVIOUS
  <2>6. BillingCallsFit(page', Billing!Asking(n, "products", TRUE))
        /\ BillingCallsFit(page', Billing!Asking(n, "connect", a))
    <3>1. "cb" \in DOMAIN a /\ a.cb \in Billing!Callbacks
      BY <2>5 DEF Billing!Callbacks
    <3> QED  BY <2>2, <2>3, <2>4, <3>1, BillingCallAsked
  <2> QED  BY <2>1, <2>3, <2>4, <2>5, <2>6
<1>2. CASE Billing!DeliverConnect
  <2>1. PICK c \in Billing!Came("connect") :
          /\ page'.user = page.user /\ page'.mounted = page.mounted /\ page'.browser = page.browser
          /\ net' \in {Billing!Without(net, "connect", c),
             Billing!Asking(Billing!Without(net, "connect", c), "products", TRUE),
                       Billing!Asking(Billing!Without(net, "connect", c), "sheet", TRUE)}
    BY <1>0, <1>2 DEF Billing!DeliverConnect, Billing!Page
  <2>2. PICK n : n = Billing!Without(net, "connect", c)
    OBVIOUS
  <2>3. BillingCallsFit(page', n)
    BY <1>0, <2>1, <2>2, BillingPageGoes, BillingCallTaken
  <2>4. BillingCallsFit(page', Billing!Asking(n, "products", TRUE))
        /\ BillingCallsFit(page', Billing!Asking(n, "sheet", TRUE))
    BY <2>3, BillingCallAsked
  <2> QED  BY <2>1, <2>2, <2>3, <2>4
<1>3. CASE Billing!DeliverProducts
  <2>1. PICK c : net' = Billing!Without(net, "products", c)
                 /\ page' = [page EXCEPT !.products = IF Billing!Ok(c) THEN c.ans ELSE {}]
    BY <1>3 DEF Billing!DeliverProducts, Billing!Take
  <2>2. page'.user = page.user /\ page'.mounted = page.mounted /\ page'.browser = page.browser
    BY <1>0, <2>1 DEF Billing!Page
  <2> QED  BY <1>0, <2>1, <2>2, BillingPageGoes, BillingCallTaken
<1> QED  BY <1>1, <1>2, <1>3

LEMMA BillingCallsBuys ==
    ASSUME BillingTypes,
           \/ \E p \in ShopPacks : Billing!BuyPack(p)
           \/ Billing!TypeAmount \/ Billing!PayAsYouGo \/ Billing!CancelSheet \/ Billing!DeliverCancel
           \/ Billing!DeliverOrder \/ Billing!CloseBrowser \/ Billing!DeliverLink
    PROVE  BillingCallsFit(page', net')
<1>0. page \in Billing!Page /\ BillingCallsFit(page, net)
      /\ (page.user = Billing!None <=> page.at = "signin")
  BY DEF BillingTypes, Billing!StoreTypeOK
<1>1. ASSUME page'.user = page.user, page'.mounted = page.mounted,
             page'.browser => page.browser \/ page.user # Billing!None
      PROVE  /\ BillingCallsFit(page', net)
             /\ \A k, c : BillingCallsFit(page', Billing!Without(net, k, c))
  BY <1>0, <1>1, BillingPageGoes, BillingCallTaken
<1>2. CASE \E p \in ShopPacks : Billing!BuyPack(p)
  <2>1. PICK p \in ShopPacks : Billing!BuyPack(p)
    BY <1>2
  <2>2. /\ page.user # Billing!None
        /\ page' \in {[page EXCEPT !.buying = Billing!None], [page EXCEPT !.buying = p]}
        /\ net' \in {net, Billing!Asking(net, "sheet", TRUE), Billing!Asking(net, "order", p),
                     Billing!Asking(net, "connect", [cb |-> "nobody", buy |-> TRUE])}
    BY <1>0, <2>1 DEF Billing!BuyPack, Billing!PacksShown, Billing!Ask
  <2>3. BillingCallsFit(page', net) /\ page'.user # Billing!None
    BY <1>0, <1>1, <2>2 DEF Billing!Page
  <2>4. BillingCallsFit(page', Billing!Asking(net, "sheet", TRUE))
        /\ BillingCallsFit(page', Billing!Asking(net, "order", p))
    BY <2>3, BillingCallAsked
  <2>5. PICK a : a = [cb |-> "nobody", buy |-> TRUE]
    OBVIOUS
  <2>6. BillingCallsFit(page', Billing!Asking(net, "connect", a))
    <3>1. "cb" \in DOMAIN a /\ a.cb \in Billing!Callbacks /\ a.cb # "here"
      BY <2>5 DEF Billing!Callbacks
    <3> QED  BY <2>3, <3>1, BillingCallAsked
  <2> QED  BY <2>2, <2>3, <2>4, <2>5, <2>6
<1>3. CASE Billing!TypeAmount
  BY <1>0, <1>1, <1>3 DEF Billing!TypeAmount, Billing!Stays, Billing!Page
<1>4. CASE Billing!PayAsYouGo
  <2>1. page' = [page EXCEPT !.buying = "payg"] /\ net' = Billing!Asking(net, "order", "payg")
        /\ page.user # Billing!None
    BY <1>0, <1>4 DEF Billing!PayAsYouGo, Billing!PaygShown, Billing!PacksShown, Billing!Ask
  <2>2. BillingCallsFit(page', net) /\ page'.user # Billing!None
    BY <1>0, <1>1, <2>1 DEF Billing!Page
  <2> QED  BY <2>1, <2>2, BillingCallAsked
<1>5. CASE Billing!CancelSheet
  BY <1>5, KindsOfBilling, BillingCallRefused
     DEF Billing!CancelSheet, Billing!Asked, Billing!OnlyNet
<1>6. CASE Billing!DeliverCancel
  <2>1. page' = [page EXCEPT !.buying = Billing!None] /\ \E c : net' = Billing!Without(net, "sheet", c)
    BY <1>6 DEF Billing!DeliverCancel, Billing!Take
  <2> QED  BY <1>0, <1>1, <2>1 DEF Billing!Page
<1>7. CASE Billing!DeliverOrder
  <2>1. /\ page' \in {[page EXCEPT !.browser = TRUE], [page EXCEPT !.buying = Billing!None]}
        /\ net["order"] # {} /\ \E c : net' = Billing!Without(net, "order", c)
    BY <1>7 DEF Billing!DeliverOrder, Billing!Take, Billing!Came
  <2>2. page.user # Billing!None
    BY <1>0, <2>1 DEF BillingCallsFit
  <2> QED  BY <1>0, <1>1, <2>1, <2>2 DEF Billing!Page
<1>8. CASE Billing!CloseBrowser
  <2>1. /\ page' \in {[page EXCEPT !.browser = FALSE], [page EXCEPT !.browser = FALSE,
           !.buying = Billing!None]}
        /\ net' \in {net, Billing!Asking(net, "link", TRUE)} /\ page.browser
    BY <1>8 DEF Billing!CloseBrowser, Billing!Ask
  <2>2. page.user # Billing!None
    BY <1>0, <2>1 DEF BillingCallsFit
  <2>3. BillingCallsFit(page', net) /\ page'.user # Billing!None
    BY <1>0, <1>1, <2>1, <2>2 DEF Billing!Page
  <2>4. BillingCallsFit(page', Billing!Asking(net, "link", TRUE))
    BY <2>3, BillingCallAsked
  <2> QED  BY <2>1, <2>3, <2>4
<1>9. CASE Billing!DeliverLink
  <2>1. /\ \E c : net' = Billing!Without(net, "link", c)
        /\ \E at : page' = [page EXCEPT !.buying = Billing!None, !.at = at]
    BY <1>9 DEF Billing!DeliverLink, Billing!Take
  <2> QED  BY <1>0, <1>1, <2>1 DEF Billing!Page
<1> QED  BY <1>2, <1>3, <1>4, <1>5, <1>6, <1>7, <1>8, <1>9

LEMMA BillingCallsServed ==
    ASSUME BillingTypes, Billing!PaySheet \/ Billing!PurchaseEvent \/ Billing!DeliverVerify
           \/ Billing!ServeReads \/ Billing!ServeVerify \/ Billing!Lose
    PROVE  BillingCallsFit(page', net')
<1>0. /\ page \in Billing!Page /\ BillingCallsFit(page, net) /\ (page.sub = "here" => page.mounted)
      /\ server \in Billing!Store
  BY DEF BillingTypes, Billing!StoreTypeOK
<1>1. CASE Billing!PaySheet
  <2>1. page' = page /\ \E c : net' = Billing!Without(net, "sheet", c)
    BY <1>1 DEF Billing!PaySheet, Billing!Take
  <2> QED  BY <1>0, <2>1, BillingCallTaken
<1>2. CASE Billing!PurchaseEvent
  <2> DEFINE By(n, cb) == Billing!Asking(n, "verify", [cb |-> cb, user |-> page.user, nth |-> server.nth])
             n == IF page.sub # Billing!None THEN By(net, page.sub) ELSE net
  <2>1. net' = (IF page.leaked THEN By(n, "gone") ELSE n) /\ page' = page
    BY <1>2 DEF Billing!PurchaseEvent
  <2>2. ASSUME NEW m, BillingCallsFit(page, m), NEW cb \in Billing!Callbacks, cb = "here" => page.mounted
        PROVE  BillingCallsFit(page, By(m, cb))
    <3>1. PICK a : a = [cb |-> cb, user |-> page.user, nth |-> server.nth]
      OBVIOUS
    <3>2. /\ "cb" \in DOMAIN a /\ a.cb \in Billing!Callbacks /\ (a.cb = "here" => page.mounted)
          /\ "nth" \in DOMAIN a /\ a.nth \in 0 .. MaxPurchases
      BY <1>0, <2>2, <3>1 DEF Billing!Store
    <3>3. BillingCallsFit(page, Billing!Asking(m, "verify", a))
      BY <2>2, <3>2, BillingCallAsked
    <3> QED  BY <3>1, <3>3
  <2>3. BillingCallsFit(page, n)
    <3> HIDE DEF By
    <3>1. page.sub # Billing!None => page.sub \in Billing!Callbacks
      BY <1>0 DEF Billing!Page
    <3> QED  BY <1>0, <2>2, <3>1
  <2> HIDE DEF By, n
  <2>4. "gone" \in Billing!Callbacks
    BY DEF Billing!Callbacks
  <2> QED  BY <2>1, <2>2, <2>3, <2>4
<1>3. CASE Billing!DeliverVerify
  <2>1. PICK c : /\ net' = Billing!Without(net, "verify", c)
                 /\ page'.user = page.user /\ page'.mounted = page.mounted /\ page'.browser = page.browser
    BY <1>0, <1>3 DEF Billing!DeliverVerify, Billing!Take, Billing!Page
  <2> QED  BY <1>0, <2>1, BillingPageGoes, BillingCallTaken
<1>4. CASE Billing!ServeReads
  <2>1. PICK k \in Billing!Kinds : \E c \in net[k] : \E v :
           Billing!Answer(k, c, v) /\ UNCHANGED page /\ (k = "products" => v \in SUBSET ShopPacks)
    <3>1. \/ \E k \in {"pricing", "connect", "order", "wallet"} :
                \E c \in Billing!Asked(k) : Billing!Answer(k, c, TRUE) /\ UNCHANGED page
          \/ \E c \in Billing!Asked("products") : \E known \in {{}, ShopPacks} :
                Billing!Answer("products", c, known) /\ UNCHANGED page
          \/ \E c \in Billing!Asked("link") : \E paid \in BOOLEAN : Billing!Answer("link", c, paid)
             /\ UNCHANGED page
      BY <1>4 DEF Billing!ServeReads, Billing!OnlyNet
    <3>2. \A k : Billing!Asked(k) \subseteq net[k]
      BY DEF Billing!Asked
    <3> QED  BY <3>1, <3>2, KindsOfBilling
  <2> QED  BY <2>1, BillingCallAnswered
<1>5. CASE Billing!ServeVerify
  <2>1. UNCHANGED page /\ \E c \in net["verify"] :
           Billing!Answer("verify", c, TRUE) \/ Billing!Refuse("verify", c)
           \/ \E ph : Billing!GoesOn(c, ph)
    BY <1>5 DEF Billing!ServeVerify, Billing!FindReceipt, Billing!InsertReceipt, Billing!CreditPack,
                Billing!Asked, Billing!At, Billing!OnlyNet
  <2>2. PICK c \in net["verify"] : Billing!Answer("verify", c, TRUE) \/ Billing!Refuse("verify", c)
                                  \/ \E ph : Billing!GoesOn(c, ph)
    BY <2>1
  <2> QED  BY <2>1, <2>2, KindsOfBilling, BillingCallAnswered, BillingCallRefused, BillingCallGoesOn
<1>6. CASE Billing!Lose
  BY <1>6, BillingCallRefused DEF Billing!Lose, Billing!Lost
<1> QED  BY <1>1, <1>2, <1>3, <1>4, <1>5, <1>6

LEMMA InitBillingTypes == ASSUME Billing!StoreInit  PROVE BillingTypes
<1>1. page \in Billing!Page /\ server \in Billing!Store
  BY BillingAssumption, RoomAssumption
     DEF Billing!StoreInit, Billing!Page, Billing!Store, Billing!Callbacks
<1>2. /\ page.user = Billing!None /\ page.at = "signin" /\ page.sub = Billing!None /\ ~page.mounted
         /\ ~page.browser
      /\ DOMAIN net = Billing!Kinds /\ \A k \in Billing!Kinds : net[k] = {}
      /\ does \in BillingWorkloads /\ lost \in 0 .. MaxLost
  BY BillingAssumption, RoomAssumption DEF Billing!StoreInit, Billing!NoCalls
<1> QED  BY <1>1, <1>2, KindsOfBilling
   DEF BillingTypes, Billing!StoreTypeOK, BillingCallsFit, Billing!None

LEMMA NextBillingTypes == ASSUME BillingTypes, [Billing!StoreNext]_<<page, server, net, lost,
                          does>>  PROVE BillingTypes'
<1>1. CASE UNCHANGED <<page, server, net, lost, does>>
  BY <1>1 DEF BillingTypes, Billing!StoreTypeOK
<1>2. CASE Billing!StoreNext
  <2>1. Billing!StoreTypeOK'
    BY <1>2, BillingPage, BillingStores, BillingBuys, BillingServed DEF Billing!StoreNext
  <2>2. BillingCallsFit(page', net')
    BY <1>2, BillingCallsPage, BillingCallsStores, BillingCallsBuys, BillingCallsServed
       DEF Billing!StoreNext
  <2> QED  BY <2>1, <2>2 DEF BillingTypes
<1> QED  BY <1>1, <1>2

-----------------------------------------------------------------------------
(* While a stack is the behaviour's, a step of the app is one of the stack's *)

LEMMA InterviewStep ==
    /\ AppInit /\ which = "interview" => MobileInit
    /\ [AppNext]_appVars /\ which = "interview" => (which = "interview")' /\ [MobileNext]_mobileVars
    /\ [AppNext]_appVars /\ ~(which = "interview") => ~(which = "interview")'
BY DEF AppInit, AppNext, appVars, OnInterview, OnPage

LEMMA ChatStep ==
    /\ AppInit /\ which = "chat" => Chat!MobileChatInit
    /\ [AppNext]_appVars /\ which = "chat"
           => (which = "chat")' /\ [Chat!MobileChatNext]_<<page, server, net, lost, does>>
    /\ [AppNext]_appVars /\ ~(which = "chat") => ~(which = "chat")'
BY DEF AppInit, AppNext, appVars, mobileVars, OnInterview, OnPage

LEMMA SessionStep ==
    /\ AppInit /\ which = "session" => Session!AppInit
    /\ [AppNext]_appVars /\ which = "session"
           => (which = "session")' /\ [Session!AppNext]_<<page, server, net, lost, does>>
    /\ [AppNext]_appVars /\ ~(which = "session") => ~(which = "session")'
BY DEF AppInit, AppNext, appVars, mobileVars, OnInterview, OnPage

LEMMA BillingStep ==
    /\ AppInit /\ which = "billing" => Billing!StoreInit
    /\ [AppNext]_appVars /\ which = "billing"
           => (which = "billing")' /\ [Billing!StoreNext]_<<page, server, net, lost, does>>
    /\ [AppNext]_appVars /\ ~(which = "billing") => ~(which = "billing")'
BY DEF AppInit, AppNext, appVars, mobileVars, OnInterview, OnPage

-----------------------------------------------------------------------------
(* The app keeps what its stacks keep                                       *)

\* A session is asked for with a topic, a level and a focus area of its pack, however the
\* candidate went from pack to pack before, and whatever answer comes when.
THEOREM SessionFitsPackInApp == AppSpec => []SessionFitsPack
<1>1. InterviewInv => AskedWithinPack
  BY DEF InterviewInv
<1>2. (which = "interview" => AskedWithinPack) => SessionFitsPack
  BY DEF SessionFitsPack
<1> QED  BY <1>1, <1>2, InterviewStep, InitInterview, NextInterview, PTL DEF AppSpec

\* A room of the app that hears no more of its session shows that it ended, or waits for
\* the call that takes it to the report.
THEOREM DeafRoomIsLeftInApp == AppSpec => []DeafRoomIsLeft
<1>1. InterviewInv => EndedRoomIsLeft
  BY DEF InterviewInv, EndIsAwaited, EndedRoomIsLeft, Mine, InFlight
<1>2. (which = "interview" => EndedRoomIsLeft) => DeafRoomIsLeft
  BY DEF DeafRoomIsLeft
<1> QED  BY <1>1, <1>2, InterviewStep, InitInterview, NextInterview, PTL DEF AppSpec

\* One answer of an interview is in flight, unless a recording that was being stopped
\* overtook a typed one; and one refresh of the tokens, which every call that was
\* refused waits for.
THEOREM OneAtATimeInApp == AppSpec => []OneAtATime
<1>1. InterviewInv => OneAnswerAtATime
  <2> SUFFICES ASSUME InterviewInv, ~room.crossed
               PROVE  Cardinality({c \in InFlight("turn") : net[c].mine}) <= 1
    BY DEF OneAnswerAtATime
  <2> DEFINE T == {c \in InFlight("turn") : net[c].mine}
  <2>1. \A c, d \in T : c = d
    BY KindsOfCalls DEF InterviewInv, TurnIsAwaited, Mine, InFlight
  <2>2. T = {} \/ \E c : T = {c}
    BY <2>1
  <2> HIDE DEF T
  <2>3. Cardinality(T) = 0 \/ Cardinality(T) = 1
    BY <2>2, FS_EmptySet, FS_Singleton, Zenon
  <2>4. Cardinality(T) <= 1
    BY <2>3
  <2> QED  BY <2>4 DEF T
<1>2. Session!AppSpec => []Session!RefreshIsShared
  BY AppAssumption, Session!RefreshIsSharedInvariant
<1>3. (which = "interview" => OneAnswerAtATime) /\ (which = "session" => Session!RefreshIsShared)
          => OneAtATime
  BY DEF OneAtATime
<1> QED  BY <1>1, <1>2, <1>3, InterviewStep, InitInterview, NextInterview, SessionStep, PTL
         DEF AppSpec, Session!AppSpec, Session!appVars

\* Whatever the user does with the chat of the app, and in whatever order the answers
\* come, its screen shows one conversation of the server.
THEOREM ScreenIsOneConversationInApp == AppSpec => []ScreenIsOneConversation
<1>1. Chat!MobileChatSpec => []Chat!ScreenIsOneConversation
  BY AppAssumption, Chat!ScreenIsOneConversationInvariant
<1>2. (which = "chat" => Chat!ScreenIsOneConversation) => ScreenIsOneConversation
  BY DEF ScreenIsOneConversation
<1> QED  BY <1>1, <1>2, ChatStep, PTL DEF AppSpec, Chat!MobileChatSpec, Chat!mobileChatVars

\* Whoever is signed in to the app when an answer of the server comes, a purchase that
\* the store was told to finish is recorded, and was credited unless the handler that
\* recorded it has yet to, or failed.
THEOREM FinishedIsAccountedInApp == AppSpec => []FinishedIsAccounted
<1>1. PurchaseInv => Billing!FinishedIsAccounted
  BY DEF PurchaseInv, FinishedIsRecorded, RecordedIsAccounted, Billing!FinishedIsAccounted, Billing!At
<1>2. (which = "billing" => Billing!FinishedIsAccounted) => FinishedIsAccounted
  BY DEF FinishedIsAccounted
<1> QED  BY <1>1, <1>2, BillingStep, InitPurchase, NextPurchase, PTL DEF AppSpec

\* However often the app signs in, refreshes, signs out or is killed, the device holds
\* its session once nothing is on its way there, but for a write that failed, an older
\* one that came after it, and storage the app could not read.
THEOREM StorageCatchesUpInApp == AppSpec => []StorageCatchesUp
<1>1. Session!AppSpec => []Session!StorageCatchesUp
  BY AppAssumption, Session!StorageCatchesUpInvariant
<1>2. (which = "session" => Session!StorageCatchesUp) => StorageCatchesUp
  BY DEF StorageCatchesUp
<1> QED  BY <1>1, <1>2, SessionStep, PTL DEF AppSpec, Session!AppSpec, Session!appVars

\* Whatever the user does and whichever answer comes late, the screens of the app agree
\* on where it is: the stack of the interview begins at its home, a chat that was left
\* keeps nothing, the drawer is shown exactly while there is a token, and a listener to
\* the store that calls a screen back calls one that is mounted.
THEOREM AppTypesOKInApp == AppSpec => []AppTypesOK
<1>1. InterviewInv => MobileTypeOK
  BY DEF InterviewInv
<1>2. Chat!MobileChatSpec => []Chat!MobileChatTypeOK
  BY AppAssumption, RoomAssumption, Chat!MobileChatTypeInvariant
<1>3. Session!AppSpec => []Session!AppTypeOK
  BY AppAssumption, RoomAssumption, Session!AppTypeInvariant
<1>4. BillingTypes => Billing!StoreTypeOK
  BY DEF BillingTypes
<1>5. (/\ which = "interview" => MobileTypeOK
       /\ which = "chat" => Chat!MobileChatTypeOK
       /\ which = "session" => Session!AppTypeOK
       /\ which = "billing" => Billing!StoreTypeOK)
      => AppTypesOK
  BY DEF AppTypesOK
<1> QED
  BY <1>1, <1>2, <1>3, <1>4, <1>5, InterviewStep, InitInterview, NextInterview, ChatStep,
     SessionStep, BillingStep, InitBillingTypes, NextBillingTypes, PTL
     DEF AppSpec, Chat!MobileChatSpec, Chat!mobileChatVars, Session!AppSpec, Session!appVars
=============================================================================
