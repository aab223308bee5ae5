-------------------------- MODULE WebClientProofs --------------------------
(***************************************************************************)
(* Proofs about WebClient, for every value of its constants: what each of  *)
(* its pages keeps, and, stated of the client, what is proved of them, of  *)
(* the chat and of the contests (WebChatProofs and ContestTeamsProofs, of  *)
(* which WebClient holds instances).                                       *)
(***************************************************************************)
EXTENDS WebClient, FiniteSetTheorems, TLAPS

-----------------------------------------------------------------------------
(* What the live interview page keeps                                       *)

\* Nothing runs yet that a room would have to stop.
Calm(u) ==
    /\ ~u.stopped /\ ~u.stream /\ u.lit = {} /\ u.due = {} /\ u.mic = "off"
    /\ u.switching = "none" /\ ~u.looking /\ ~u.ack

\* A page that was left stopped, and what stopped has no stream.
PageFits(u) ==
    /\ u \in Page
    /\ u.page \in {"load", "media"} => Calm(u)
    /\ u.page \in {"report", "home"} => u.stopped
    /\ u.stopped => ~u.stream /\ u.lit = {}

\* Until the room opens, the status of the session is all that was asked for, and of a
\* pause there already is the page will not be told.
NotYetOpened ==
    ui.page \in {"load", "media"} =>
        /\ paused => ui.silent
        /\ \A k \in Kinds \ {"load"} : InFlight(k) = {}

\* The status is loaded once.
LoadedOnce == ui.page \in {"media", "room"} => InFlight("load") = {}

\* The answer controls are closed while a turn is out.
TurnIsAwaited ==
    ~ui.crossed => /\ \A c, d \in InFlight("turn") : c = d
                   /\ ui.page = "room" /\ InFlight("turn") # {} => ui.busy

\* An answer that opens the dialog, for the last warning.
LastWarning(call) ==
    call.phase = "answered" /\ ~call.over /\ call.count >= WarningsBeforeTermination

\* What the dialog asked for was done, or is lost; and the clock may stop again meanwhile
\* only where the page does not look.
AckResumes ==
    ui.page = "room" =>
        \A c \in Slots["ack"] : /\ net[c].phase = "answered" => ~paused \/ ui.silent
                                /\ net[c].phase = "failed" => lost > 0

\* The clock runs again only through the dialog, so while it is paused the dialog is open,
\* or the answer that opens it is on its way, if there is one.
PausedIsHeard ==
    paused /\ ~ui.silent /\ ui.page = "room" /\ lost = 0
        => ui.ack \/ \E c \in Slots["violation"] : LastWarning(net[c])

RoomInv ==
    /\ RoomTypeOK /\ PageFits(ui)
    /\ NotYetOpened /\ LoadedOnce /\ TurnIsAwaited /\ AckResumes /\ PausedIsHeard

-----------------------------------------------------------------------------
(* Its calls                                                                *)

LEMMA KindsOfCalls ==
    /\ \A k \in Kinds : Slots[k] \subseteq Calls
    /\ \A c \in Calls : \E k \in Kinds : c \in Slots[k]
    /\ \A j, k \in Kinds : \A c \in Slots[j] : c \in Slots[k] => j = k
BY RoomAssumption DEF Calls

LEMMA FreeType == Free \in Call /\ Free.phase = "free"
BY DEF Free, Call, Modalities, Statuses

\* A call that goes out takes a place that was free.
LEMMA SentCall ==
    ASSUME net \in [Calls -> Call], NEW k \in Kinds, NEW seen \in Statuses,
           NEW m \in Modalities, Room(k)
    PROVE  \E s \in Slots[k] : \E q \in Call :
               /\ net[s].phase = "free" /\ q.phase = "sent"
               /\ Sent(net, k, seen, m) = [net EXCEPT ![s] = q]
<1> DEFINE s == CHOOSE c \in Slots[k] : net[c].phase = "free"
           q == [Free EXCEPT !.phase = "sent", !.seen = seen, !.modality = m]
<1>1. s \in Slots[k] /\ net[s].phase = "free"
  BY DEF Room
<1>2. q \in Call /\ q.phase = "sent"
  BY DEF Free, Call, Modalities, Statuses
<1> QED  BY <1>1, <1>2 DEF Sent

-----------------------------------------------------------------------------
(* The shapes of a step                                                     *)

\* A step of the page that leaves its calls alone.
LEMMA PageOnly ==
    ASSUME RoomInv, PageFits(ui'), UNCHANGED net, OnlyClient,
           ui'.page = ui.page \/ ui'.page \in {"report", "home"},
           ui'.crossed = ui.crossed, ui'.page \notin {"report", "home"} => ui'.silent = ui.silent,
           ui'.page = "room" => ui'.busy = ui.busy /\ ui'.ack = ui.ack
    PROVE  RoomInv'
<1>1. RoomTypeOK'
  BY DEF RoomInv, RoomTypeOK, LifeTypeOK, PageFits, OnlyClient, lifeVars
<1>2. ui'.page \in {"load", "media"} => ui.page \in {"load", "media"}
  OBVIOUS
<1>3. NotYetOpened' /\ LoadedOnce' /\ TurnIsAwaited' /\ AckResumes' /\ PausedIsHeard'
  BY <1>2 DEF RoomInv, NotYetOpened, LoadedOnce, TurnIsAwaited, AckResumes, PausedIsHeard, InFlight,
              OnlyClient, lifeVars, LastWarning
<1> QED  BY <1>1, <1>3 DEF RoomInv

\* A call that came back, and what it does to the page.
LEMMA CallTaken ==
    ASSUME RoomInv, NEW c \in Calls, net[c].phase # "free", Done(c), OnlyClient, PageFits(ui'),
           \/ ui'.page = ui.page \/ ui'.page \in {"report", "home"}
           \/ ui.page = "load" /\ ui'.page = "media" /\ c \in Slots["load"],
           ui'.crossed = ui.crossed, ui'.page \notin {"report", "home"} => ui'.silent = ui.silent,
           ui'.page = "room" =>
               /\ ui'.busy = ui.busy \/ c \in Slots["turn"]
               /\ ui.ack => ui'.ack \/ ~paused \/ ui.silent \/ lost > 0
               /\ c \in Slots["violation"] /\ LastWarning(net[c]) => ui'.ack
    PROVE  RoomInv'
<1>0. net \in [Calls -> Call] /\ net' = [net EXCEPT ![c] = Free] /\ lost \in Nat
  BY RoomAssumption DEF RoomInv, RoomTypeOK, Done
<1>1. net' \in [Calls -> Call]
  BY <1>0, FreeType
<1>2. RoomTypeOK'
  BY <1>1 DEF RoomInv, RoomTypeOK, LifeTypeOK, PageFits, OnlyClient, lifeVars
<1>3. \A k \in Kinds : \A d \in Slots[k] : d \in Calls /\ net'[d] = IF d = c THEN Free ELSE net[d]
  BY <1>0, KindsOfCalls
<1>4. \A k \in Kinds : InFlight(k)' = InFlight(k) \ {c}
  BY <1>3, FreeType DEF InFlight
<1>k. {"load", "turn", "ack", "violation"} \subseteq Kinds
  BY DEF Kinds
<1>5. NotYetOpened'
  BY <1>4 DEF RoomInv, NotYetOpened, OnlyClient, lifeVars
<1>l. LoadedOnce'
  <2>1. InFlight("load")' = InFlight("load") \ {c} /\ InFlight("load") \subseteq Slots["load"]
    BY <1>4, <1>k DEF InFlight
  <2>2. c \in Slots["load"] => InFlight("load")' = {}
    BY <2>1, RoomAssumption
  <2> QED  BY <2>1, <2>2 DEF RoomInv, LoadedOnce
<1>6. TurnIsAwaited'
  <2> SUFFICES ASSUME ~ui'.crossed  PROVE TurnIsAwaited'
    BY DEF TurnIsAwaited
  <2>1. \A d, e \in InFlight("turn") : d = e
    BY DEF RoomInv, TurnIsAwaited
  <2>2. InFlight("turn")' = InFlight("turn") \ {c}
    BY <1>4, <1>k
  <2>3. c \in Slots["turn"] => InFlight("turn")' = {}
    BY <2>1, <2>2 DEF InFlight
  <2> QED  BY <2>1, <2>2, <2>3 DEF RoomInv, TurnIsAwaited
<1>7. AckResumes'
  <2>1. \A d \in Slots["ack"] : net'[d].phase = "free" \/ net'[d] = net[d]
    BY <1>3, <1>k, FreeType
  <2>2. ui'.page = "room" => ui.page = "room" /\ ui'.silent = ui.silent
    OBVIOUS
  <2> QED  BY <2>1, <2>2 DEF RoomInv, AckResumes, OnlyClient, lifeVars
<1>8. PausedIsHeard'
  <2> SUFFICES ASSUME paused, ~ui.silent, ui'.page = "room", lost = 0
               PROVE  ui'.ack \/ \E d \in Slots["violation"] : LastWarning(net'[d])
    BY DEF PausedIsHeard, OnlyClient, lifeVars
  <2>1. ui.ack \/ \E d \in Slots["violation"] : LastWarning(net[d])
    BY DEF RoomInv, PausedIsHeard
  <2> QED  BY <2>1, <1>3, <1>k
<1> QED  BY <1>2, <1>5, <1>l, <1>6, <1>7, <1>8 DEF RoomInv

\* A call that goes out from the room, or, for a detection, after it.
LEMMA CallSent ==
    ASSUME RoomInv, NEW k \in Kinds, NEW s \in Slots[k], NEW q \in Call,
           net[s].phase = "free", q.phase = "sent", net' = [net EXCEPT ![s] = q], OnlyClient,
           PageFits(ui'), ui'.page \notin {"load", "media"},
           ui'.page = ui.page \/ ui.page = "media", ui'.ack = ui.ack, ui'.silent = ui.silent,
           k # "load",
           k # "turn" => ui'.busy = ui.busy /\ ui'.crossed = ui.crossed,
           k = "turn" /\ ~ui'.crossed => ui'.busy /\ InFlight("turn") = {}
    PROVE  RoomInv'
<1>0. net \in [Calls -> Call] /\ s \in Calls
  BY KindsOfCalls DEF RoomInv, RoomTypeOK
<1>1. net' \in [Calls -> Call]
  BY <1>0
<1>2. RoomTypeOK'
  BY <1>1 DEF RoomInv, RoomTypeOK, LifeTypeOK, PageFits, OnlyClient, lifeVars
<1>3. \A j \in Kinds : \A d \in Slots[j] : d \in Calls /\ net'[d] = IF d = s THEN q ELSE net[d]
  BY <1>0, KindsOfCalls
<1>4. \A j \in Kinds : InFlight(j)' = IF j = k THEN InFlight(j) \cup {s} ELSE InFlight(j)
  BY <1>3, KindsOfCalls DEF InFlight
<1>k. {"turn", "ack", "violation"} \subseteq Kinds
  BY DEF Kinds
<1>l. LoadedOnce'
  BY <1>4 DEF RoomInv, LoadedOnce, Kinds
<1>6. TurnIsAwaited'
  <2> SUFFICES ASSUME ~ui'.crossed  PROVE TurnIsAwaited'
    BY DEF TurnIsAwaited
  <2>1. CASE k = "turn"
    <3>1. InFlight("turn")' = {s}
      BY <1>4, <2>1
    <3> QED  BY <2>1, <3>1 DEF TurnIsAwaited
  <2>2. CASE k # "turn"
    <3>1. InFlight("turn")' = InFlight("turn")
      BY <1>4, <1>k, <2>2
    <3>2. ui.page \in {"load", "media"} => InFlight("turn") = {}
      BY DEF RoomInv, NotYetOpened, Kinds
    <3> QED  BY <2>2, <3>1, <3>2 DEF RoomInv, TurnIsAwaited
  <2> QED  BY <2>1, <2>2
<1>7. AckResumes'
  <2>1. \A d \in Slots["ack"] : net'[d].phase = "sent" \/ net'[d] = net[d]
    BY <1>3, <1>k
  <2>2. ui.page = "media" => \A d \in Slots["ack"] : net[d].phase = "free"
    BY DEF RoomInv, NotYetOpened, InFlight, Kinds
  <2>3. ui'.page = "room" => ui.page = "room" \/ ui.page = "media"
    OBVIOUS
  <2> QED  BY <2>1, <2>2, <2>3 DEF RoomInv, AckResumes, OnlyClient, lifeVars
<1>8. PausedIsHeard'
  <2> SUFFICES ASSUME paused, ~ui.silent, ui'.page = "room", lost = 0
               PROVE  ui'.ack \/ \E d \in Slots["violation"] : LastWarning(net'[d])
    BY DEF PausedIsHeard, OnlyClient, lifeVars
  <2>1. ui.page = "room"
    BY DEF RoomInv, NotYetOpened
  <2>2. ui.ack \/ \E d \in Slots["violation"] : LastWarning(net[d])
    BY <2>1 DEF RoomInv, PausedIsHeard
  <2>3. ~LastWarning(net[s])
    BY DEF LastWarning
  <2> QED  BY <2>2, <2>3, <1>3, <1>k
<1> QED  BY <1>2, <1>l, <1>6, <1>7, <1>8 DEF RoomInv, NotYetOpened

LEMMA TurnSent ==
    ASSUME RoomInv, NEW s \in Slots["turn"], NEW q \in Call,
           net[s].phase = "free", q.phase = "sent", net' = [net EXCEPT ![s] = q], OnlyClient,
           PageFits(ui'), ui'.page \notin {"load", "media"}, ui'.page = ui.page, ui'.ack = ui.ack /\ ui'.silent = ui.silent,
           ~ui'.crossed => ui'.busy /\ InFlight("turn") = {}
    PROVE  RoomInv'
<1>1. "turn" \in Kinds /\ "turn" # "ack" /\ "turn" # "load"
  BY DEF Kinds
<1> DEFINE k == "turn"
<1> QED  BY <1>1, CallSent

\* A call that the server or the network moves on, with what that does to the session and
\* to what the page misses of it.
LEMMA CallMoved ==
    ASSUME RoomInv, NEW k \in Kinds, NEW c \in Slots[k], NEW q \in Call, net[c].phase # "free",
           q.phase # "free", net' = [net EXCEPT ![c] = q], UNCHANGED does,
           NEW v \in BOOLEAN, ui' = [ui EXCEPT !.silent = v],
           LifeTypeOK', lost' \in 0 .. MaxLost, lost' >= lost,
           k = "load" => paused' = paused /\ v = ui.silent,
           ui.page = "room" /\ paused' /\ ~v =>
               /\ InFlight("ack") = {} \/ (paused /\ ~ui.silent)
               /\ \/ paused /\ ~ui.silent /\ (k # "violation" \/ ~LastWarning(net[c]) \/ lost' > 0)
                  \/ k = "violation" /\ LastWarning(q),
           ui.page = "room" /\ k = "ack" => /\ (q.phase = "answered" => ~paused' \/ v)
                                           /\ (q.phase = "failed" => lost' > 0)
    PROVE  RoomInv'
<1>0. /\ net \in [Calls -> Call] /\ c \in Calls /\ ui \in Page
      /\ lost \in Nat /\ lost' \in Nat
  BY KindsOfCalls, RoomAssumption DEF RoomInv, RoomTypeOK, LifeTypeOK
<1>1. net' \in [Calls -> Call]
  BY <1>0
<1>u. /\ ui' \in Page /\ ui'.silent = v
      /\ ui'.page = ui.page /\ ui'.crossed = ui.crossed /\ ui'.busy = ui.busy /\ ui'.ack = ui.ack
  BY <1>0 DEF Page
<1>2. RoomTypeOK' /\ PageFits(ui')
  <2>1. PageFits(ui')
    BY <1>0, <1>u DEF RoomInv, PageFits, Calm, Page
  <2> QED  BY <1>1, <1>u, <2>1 DEF RoomInv, RoomTypeOK
<1>3. \A j \in Kinds : \A d \in Slots[j] : d \in Calls /\ net'[d] = IF d = c THEN q ELSE net[d]
  BY <1>0, KindsOfCalls
<1>4. \A j \in Kinds : InFlight(j)' = InFlight(j)
  BY <1>3 DEF InFlight
<1>5. \A j \in Kinds : c \in Slots[j] => j = k
  BY KindsOfCalls
<1>k. {"turn", "ack", "violation", "load"} \subseteq Kinds
  BY DEF Kinds
<1>6. NotYetOpened'
  <2> SUFFICES ASSUME ui.page \in {"load", "media"}  PROVE NotYetOpened'
    BY <1>u DEF NotYetOpened
  <2>1. c \in InFlight(k)
    BY DEF InFlight
  <2>2. k = "load"
    BY <2>1 DEF RoomInv, NotYetOpened
  <2> QED  BY <2>2, <1>4, <1>u DEF RoomInv, NotYetOpened
<1>7. TurnIsAwaited'
  BY <1>4, <1>k, <1>u DEF RoomInv, TurnIsAwaited
<1>l. LoadedOnce'
  BY <1>4, <1>k, <1>u DEF RoomInv, LoadedOnce
<1>8. AckResumes'
  <2> SUFFICES ASSUME ui.page = "room", NEW d \in Slots["ack"]
               PROVE  /\ net'[d].phase = "answered" => ~paused' \/ v
                      /\ net'[d].phase = "failed" => lost' > 0
    BY <1>u DEF AckResumes
  <2>1. CASE d = c
    BY <1>3, <1>5, <1>k, <2>1
  <2>2. CASE d # c
    <3>1. net'[d] = net[d]
      BY <1>3, <1>k, <2>2
    <3>2. net[d].phase = "answered" => InFlight("ack") # {} /\ (~paused \/ ui.silent)
      BY DEF RoomInv, AckResumes, InFlight
    <3>3. net[d].phase = "failed" => lost > 0
      BY DEF RoomInv, AckResumes
    <3> QED  BY <1>0, <3>1, <3>2, <3>3
  <2> QED  BY <2>1, <2>2
<1>9. PausedIsHeard'
  <2> SUFFICES ASSUME paused', ~v, ui.page = "room", lost' = 0
               PROVE  ui.ack \/ \E d \in Slots["violation"] : LastWarning(net'[d])
    BY <1>u DEF PausedIsHeard
  <2>1. CASE k = "violation" /\ LastWarning(q)
    <3>1. c \in Slots["violation"] /\ net'[c] = q
      BY <1>3, <2>1
    <3> QED  BY <2>1, <3>1
  <2>2. CASE paused /\ ~ui.silent /\ (k # "violation" \/ ~LastWarning(net[c]))
    <3>1. lost = 0
      BY <1>0
    <3>2. ui.ack \/ \E d \in Slots["violation"] : LastWarning(net[d])
      BY <2>2, <3>1 DEF RoomInv, PausedIsHeard
    <3> QED  BY <2>2, <3>2, <1>3, <1>5, <1>k
  <2> QED  BY <1>0, <2>1, <2>2
<1> QED  BY <1>2, <1>6, <1>7, <1>l, <1>8, <1>9 DEF RoomInv

-----------------------------------------------------------------------------
(* Stopping and leaving                                                     *)

LEMMA Stopped ==
    ASSUME NEW u \in Page
    PROVE  /\ StopEverything(u) \in Page
           /\ StopEverything(u).stopped /\ ~StopEverything(u).stream /\ StopEverything(u).lit = {}
           /\ StopEverything(u).page = u.page /\ StopEverything(u).crossed = u.crossed
           /\ StopEverything(u).ack = u.ack /\ StopEverything(u).silent = u.silent /\ StopEverything(u).busy = u.busy
           /\ StopEverything(u).due = u.due
BY ZenonT(30) DEF StopEverything, Page

LEMMA OpenedType == Opened \in Page
BY DEF Opened, Page, Tracks, Statuses

LEMMA Unmounted ==
    ASSUME NEW u \in Page, NEW where \in {"report", "home"}
    PROVE  /\ PageFits(Unmount(u, where))
           /\ Unmount(u, where).page = where /\ Unmount(u, where).crossed = u.crossed
           /\ ~Unmount(u, where).ack
<1> DEFINE s == StopEverything(u)
<1>1. s \in Page /\ s.stopped /\ ~s.stream /\ s.lit = {} /\ s.crossed = u.crossed
  BY Stopped
<1> HIDE DEF s
<1> DEFINE quiet == s.quiet /\ s.looking
           cool  == IF s.looking THEN s.cool ELSE {}
           a == [Opened EXCEPT !.page = where, !.stopped = s.stopped, !.lit = s.lit, !.asking = s.asking]
           b == [a EXCEPT !.due = s.due, !.mic = s.mic, !.switching = s.switching]
           d == [b EXCEPT !.orphan = s.orphan, !.looking = s.looking, !.crossed = s.crossed]
           t == [d EXCEPT !.quiet = quiet, !.cool = cool]
<1>2. quiet \in BOOLEAN /\ cool \in SUBSET Types
  BY <1>1 DEF Page
<1>3. Unmount(u, where) = t
  BY DEF Unmount, s, a, b, d
<1> HIDE DEF quiet, cool
<1>o. Opened \in Page /\ ~Opened.stream /\ ~Opened.ack
  BY OpenedType DEF Opened
<1>4. /\ a \in Page /\ a.page = where /\ a.stopped /\ a.lit = {} /\ ~a.stream /\ ~a.ack
  <2>0. where \in {"load", "media", "room", "report", "home"} /\ s.stopped \in BOOLEAN
        /\ s.lit \in SUBSET Tracks /\ s.asking \in BOOLEAN
    BY <1>1 DEF Page
  <2>1. a \in Page
    BY <2>0, <1>o DEF Page
  <2>2. a.page = where /\ a.stopped = s.stopped /\ a.lit = s.lit
    BY <1>o DEF Page
  <2>3. a.stream = Opened.stream /\ a.ack = Opened.ack
    BY <1>o DEF Page
  <2> QED  BY <1>1, <1>o, <2>1, <2>2, <2>3
<1> HIDE DEF a
<1>5. /\ b \in Page /\ b.page = where /\ b.stopped /\ b.lit = {} /\ ~b.stream /\ ~b.ack
  BY <1>1, <1>4 DEF Page
<1> HIDE DEF b
<1>6. /\ d \in Page /\ d.page = where /\ d.stopped /\ d.lit = {} /\ ~d.stream /\ ~d.ack
      /\ d.crossed = u.crossed
  BY <1>1, <1>5 DEF Page
<1> HIDE DEF d
<1>7. /\ t \in Page /\ t.page = where /\ t.stopped /\ t.lit = {} /\ ~t.stream /\ ~t.ack
      /\ t.crossed = u.crossed
  BY <1>2, <1>6 DEF Page
<1> HIDE DEF t
<1> QED  BY <1>3, <1>7 DEF PageFits

\* What a status does to the page of a room, and what of it outlives the page.
LEMMA StatusTaken ==
    ASSUME NEW u \in Page, u.stopped => ~u.stream /\ u.lit = {}, NEW c \in Calls, net[c] \in Call
    PROVE  /\ TakeStatus(u, c) \in Page
           /\ TakeStatus(u, c).stopped => ~TakeStatus(u, c).stream /\ TakeStatus(u, c).lit = {}
           /\ u.stopped => TakeStatus(u, c).stopped
           /\ TakeStatus(u, c).page = u.page /\ TakeStatus(u, c).crossed = u.crossed
           /\ TakeStatus(u, c).ack = u.ack /\ TakeStatus(u, c).silent = u.silent /\ TakeStatus(u, c).busy = u.busy
           /\ TakeStatus(u, c).due \in SUBSET {"overlay", "report"}
<1> DEFINE v == [u EXCEPT !.seen = net[c].status]
           s == StopEverything(v)
<1>1. /\ v \in Page /\ v.stopped = u.stopped /\ v.stream = u.stream /\ v.lit = u.lit
      /\ v.page = u.page /\ v.crossed = u.crossed /\ v.ack = u.ack /\ v.silent = u.silent /\ v.busy = u.busy
  BY DEF Page, Call
<1> HIDE DEF v
<1>2. /\ s \in Page /\ s.stopped /\ ~s.stream /\ s.lit = {}
      /\ s.page = u.page /\ s.crossed = u.crossed /\ s.ack = u.ack /\ s.silent = u.silent /\ s.busy = u.busy
  BY <1>1, Stopped
<1> HIDE DEF s
<1> DEFINE a == [s EXCEPT !.terminated = TRUE]
           b == [s EXCEPT !.completed = TRUE, !.due = @ \cup {"report"}]
<1>3. /\ a \in Page /\ a.stopped /\ ~a.stream /\ a.lit = {}
      /\ a.page = u.page /\ a.crossed = u.crossed /\ a.ack = u.ack /\ a.silent = u.silent /\ a.busy = u.busy
  BY <1>2 DEF Page
<1>4. /\ b \in Page /\ b.stopped /\ ~b.stream /\ b.lit = {}
      /\ b.page = u.page /\ b.crossed = u.crossed /\ b.ack = u.ack /\ b.silent = u.silent /\ b.busy = u.busy
  BY <1>2 DEF Page
<1>5. TakeStatus(u, c) \in {a, b, v, u}
  BY DEF TakeStatus, HandleTerminalStatus, a, b, v, s
<1> HIDE DEF a, b
<1>6. \A w \in {a, b, v, u} :
          /\ w \in Page /\ (w.stopped => ~w.stream /\ w.lit = {}) /\ (u.stopped => w.stopped)
          /\ w.page = u.page /\ w.crossed = u.crossed /\ w.ack = u.ack /\ w.silent = u.silent /\ w.busy = u.busy
  BY <1>1, <1>3, <1>4
<1> QED  BY <1>5, <1>6 DEF Page

-----------------------------------------------------------------------------
(* The steps of the candidate and of the browser                            *)

LEMMA StepsAlone ==
    ASSUME RoomInv,
           \/ Leave \/ ViewReport \/ TypeAnswer \/ StartRecording \/ StopRecording
           \/ \E track \in Tracks : SwitchDevice(track)
           \/ Look \/ DeviceSwitched \/ OverlayDue \/ ReportDue
           \/ \E t \in Types : CooldownEnds(t)
    PROVE  RoomInv'
<1>0. ui \in Page /\ PageFits(ui)
  BY DEF RoomInv, RoomTypeOK
<1>1. CASE Leave
  BY <1>0, <1>1, Unmounted, PageOnly DEF Leave
<1>2. CASE ViewReport
  BY <1>0, <1>2, Unmounted, PageOnly DEF ViewReport
<1>3. CASE TypeAnswer
  <2>1. PageFits(ui') /\ ui'.page = ui.page /\ ui'.crossed = ui.crossed /\ ui'.ack = ui.ack
        /\ ui'.silent = ui.silent /\ ui'.busy = ui.busy
    BY <1>0, <1>3 DEF TypeAnswer, PageFits, Page, Calm
  <2> QED  BY <1>3, <2>1, PageOnly DEF TypeAnswer
<1>4. CASE StartRecording
  <2>1. PageFits(ui') /\ ui'.page = ui.page /\ ui'.crossed = ui.crossed /\ ui'.ack = ui.ack
        /\ ui'.silent = ui.silent /\ ui'.busy = ui.busy
    BY <1>0, <1>4 DEF StartRecording, CanAnswer, Live, PageFits, Page, Calm
  <2> QED  BY <1>4, <2>1, PageOnly DEF StartRecording
<1>5. CASE StopRecording
  <2>1. PageFits(ui') /\ ui'.page = ui.page /\ ui'.crossed = ui.crossed /\ ui'.ack = ui.ack
        /\ ui'.silent = ui.silent /\ ui'.busy = ui.busy
    <3> DEFINE m == IF ui.mic = "on" THEN "stopping" ELSE ui.mic
    <3>1. m \in {"off", "on", "stopping"} /\ ui.page = "room" /\ ui' = [ui EXCEPT !.rec = FALSE, !.mic = m]
      BY <1>0, <1>5 DEF StopRecording, CanAnswer, Live, Page
    <3> HIDE DEF m
    <3> QED  BY <1>0, <3>1 DEF PageFits, Page
  <2> QED  BY <1>5, <2>1, PageOnly DEF StopRecording
<1>6. ASSUME NEW track \in Tracks, SwitchDevice(track)
      PROVE  RoomInv'
  <2>1. PageFits(ui') /\ ui'.page = ui.page /\ ui'.crossed = ui.crossed /\ ui'.ack = ui.ack
        /\ ui'.silent = ui.silent /\ ui'.busy = ui.busy
    BY <1>0, <1>6 DEF SwitchDevice, Live, PageFits, Page, Calm
  <2> QED  BY <1>6, <2>1, PageOnly DEF SwitchDevice
<1>7. CASE Look
  <2>1. PageFits(ui') /\ ui'.page = ui.page /\ ui'.crossed = ui.crossed /\ ui'.ack = ui.ack
        /\ ui'.silent = ui.silent /\ ui'.busy = ui.busy
    BY <1>0, <1>7 DEF Look, ActiveForProctoring, PageFits, Page, Calm
  <2> QED  BY <1>7, <2>1, PageOnly DEF Look
<1>8. CASE DeviceSwitched
  <2>1. PageFits(ui') /\ ui'.page = ui.page /\ ui'.crossed = ui.crossed /\ ui'.ack = ui.ack
        /\ ui'.silent = ui.silent /\ ui'.busy = ui.busy
    <3> DEFINE m == IF ui.switching = "mic" /\ ui.mic = "on" THEN "stopping" ELSE ui.mic
    <3>1. /\ m \in {"off", "on", "stopping"} /\ ui.page \notin {"load", "media"}
          /\ ui.switching \in Tracks
      BY <1>0, <1>8 DEF DeviceSwitched, PageFits, Page, Calm
    <3>2. \/ ui' = [ui EXCEPT !.switching = "none"]
          \/ ui.stream /\ ui' = [ui EXCEPT !.switching = "none", !.lit = @ \cup {ui.switching}, !.mic = m]
          \/ ui' = [ui EXCEPT !.switching = "none", !.orphan = @ \cup {ui.switching}]
      BY <1>8 DEF DeviceSwitched
    <3> HIDE DEF m
    <3>3. CASE ui' = [ui EXCEPT !.switching = "none"]
      BY <1>0, <3>1, <3>3 DEF PageFits, Page
    <3>4. CASE ui.stream /\ ui' = [ui EXCEPT !.switching = "none", !.lit = @ \cup {ui.switching}, !.mic = m]
      BY <1>0, <3>1, <3>4 DEF PageFits, Page
    <3>5. CASE ui' = [ui EXCEPT !.switching = "none", !.orphan = @ \cup {ui.switching}]
      BY <1>0, <3>1, <3>5 DEF PageFits, Page
    <3> QED  BY <3>2, <3>3, <3>4, <3>5
  <2> QED  BY <1>8, <2>1, PageOnly DEF DeviceSwitched
<1>9. CASE OverlayDue
  <2>1. Mounted \in BOOLEAN
    BY DEF Mounted
  <2>2. PageFits(ui') /\ ui'.page = ui.page /\ ui'.crossed = ui.crossed /\ ui'.ack = ui.ack
        /\ ui'.silent = ui.silent /\ ui'.busy = ui.busy
    BY <1>0, <1>9, <2>1 DEF OverlayDue, PageFits, Page, Calm
  <2> QED  BY <1>9, <2>2, PageOnly DEF OverlayDue
<1>10. CASE ReportDue
  <2> DEFINE u == Unmount(ui, "report")
  <2>1. PageFits(u) /\ u.page = "report" /\ u.crossed = ui.crossed /\ ~u.ack
    BY <1>0, Unmounted
  <2>2. ui' = [u EXCEPT !.due = @ \ {"report"}]
    BY <1>10 DEF ReportDue
  <2> HIDE DEF u
  <2>3. PageFits(ui') /\ ui'.page = "report" /\ ui'.crossed = ui.crossed /\ ~ui'.ack
    BY <2>1, <2>2 DEF PageFits, Page
  <2> QED  BY <1>10, <2>3, PageOnly DEF ReportDue
<1>11. ASSUME NEW t \in Types, CooldownEnds(t)
       PROVE  RoomInv'
  <2>1. PageFits(ui') /\ ui'.page = ui.page /\ ui'.crossed = ui.crossed /\ ui'.ack = ui.ack
        /\ ui'.silent = ui.silent /\ ui'.busy = ui.busy
    BY <1>0, <1>11 DEF CooldownEnds, PageFits, Page, Calm
  <2> QED  BY <1>11, <2>1, PageOnly DEF CooldownEnds
<1> QED  BY <1>1, <1>2, <1>3, <1>4, <1>5, <1>6, <1>7, <1>8, <1>9, <1>10, <1>11

LEMMA StepsThatSend ==
    ASSUME RoomInv,
           \/ MediaSettled \/ Retry \/ Poll \/ SendTyped \/ SubmitCode \/ RecorderStopped
           \/ ChangeLanguage \/ Acknowledge \/ ConfirmEnd \/ Detected
           \/ \E t \in WindowTypes : WindowEvent(t)
    PROVE  RoomInv'
<1>0. ui \in Page /\ PageFits(ui) /\ net \in [Calls -> Call] /\ ui.seen \in Statuses /\ ui.micSeen \in Statuses
  BY DEF RoomInv, RoomTypeOK, Page
<1>k. /\ {"poll", "start", "turn", "language", "ack", "violation", "end"} \subseteq Kinds
      /\ {"none", "text", "code", "voice"} \subseteq Modalities
  BY DEF Kinds, Modalities
<1>1. CASE MediaSettled
  <2>1. CASE ui' = [ui EXCEPT !.asking = FALSE] /\ UNCHANGED net /\ OnlyClient
    <3>1. PageFits(ui') /\ ui'.page = ui.page /\ ui'.crossed = ui.crossed /\ ui'.ack = ui.ack
          /\ ui'.silent = ui.silent /\ ui'.busy = ui.busy
      BY <1>0, <2>1 DEF PageFits, Page, Calm
    <3> QED  BY <2>1, <3>1, PageOnly
  <2>2. ASSUME ui.page = "media", NEW granted \in BOOLEAN, NEW lit \in SUBSET Tracks,
               ui' = [ui EXCEPT !.asking = FALSE, !.page = "room", !.stream = granted, !.lit = lit],
               Room("start"), net' = Sent(net, "start", ui.seen, "none"), OnlyClient
        PROVE  RoomInv'
    <3>1. PICK s \in Slots["start"] : \E q \in Call :
              net[s].phase = "free" /\ q.phase = "sent" /\ Sent(net, "start", ui.seen, "none") = [net EXCEPT ![s] = q]
      <4>1. net \in [Calls -> Call] /\ ui.seen \in Statuses /\ "none" \in Modalities /\ "start" \in Kinds
        BY <1>0, <1>k
      <4> QED  BY <2>2, <4>1, SentCall
    <3>2. /\ PageFits(ui') /\ ui'.page = "room" /\ ui'.crossed = ui.crossed /\ ui'.ack = ui.ack
          /\ ui'.silent = ui.silent
          /\ ui'.busy = ui.busy
      BY <1>0, <2>2 DEF PageFits, Page, Calm
    <3> QED  BY <1>k, <2>2, <3>1, <3>2, CallSent
  <2> QED  BY <1>1, <2>1, <2>2, Zenon DEF MediaSettled, Send
<1>2. ASSUME NEW k \in {"poll", "start", "language", "ack", "violation", "end"}, Send(k, "none"), OnlyClient,
             PageFits(ui'), ui'.page = ui.page, ui.page \notin {"load", "media"},
             ui'.ack = ui.ack /\ ui'.silent = ui.silent, ui'.busy = ui.busy, ui'.crossed = ui.crossed
      PROVE  RoomInv'
  <2>1. Room(k) /\ net' = Sent(net, k, ui.seen, "none") /\ k \in Kinds /\ k # "turn" /\ k # "load"
    BY <1>2, <1>k DEF Send
  <2>2. PICK s \in Slots[k] : \E q \in Call :
            net[s].phase = "free" /\ q.phase = "sent" /\ Sent(net, k, ui.seen, "none") = [net EXCEPT ![s] = q]
    <3>1. net \in [Calls -> Call] /\ ui.seen \in Statuses /\ "none" \in Modalities
      BY <1>0, <1>k
    <3> QED  BY <2>1, <3>1, SentCall
  <2> QED  BY <1>2, <2>1, <2>2, CallSent
<1>3. ASSUME NEW m \in Modalities, NEW seen \in Statuses, Room("turn"), net' = Sent(net, "turn", seen, m),
             OnlyClient, PageFits(ui'), ui'.page = ui.page, ui.page = "room",
             ui'.ack = ui.ack /\ ui'.silent = ui.silent, ui'.busy, ~ui'.crossed => InFlight("turn") = {}
      PROVE  RoomInv'
  <2>1. PICK s \in Slots["turn"] : \E q \in Call :
            net[s].phase = "free" /\ q.phase = "sent" /\ Sent(net, "turn", seen, m) = [net EXCEPT ![s] = q]
    BY <1>0, <1>k, <1>3, SentCall
  <2>2. PICK q \in Call : net[s].phase = "free" /\ q.phase = "sent" /\ Sent(net, "turn", seen, m) = [net EXCEPT ![s] = q]
    BY <2>1
  <2>3. PageFits(ui') /\ ui'.page \notin {"load", "media"} /\ ui'.page = ui.page /\ ui'.ack = ui.ack
        /\ ui'.silent = ui.silent
    BY <1>3
  <2>4. ~ui'.crossed => ui'.busy /\ InFlight("turn") = {}
    BY <1>3
  <2> QED  BY <1>3, <2>2, <2>3, <2>4, TurnSent
<1>4. CASE Retry
  <2>1. PageFits(ui') /\ ui'.page = ui.page /\ ui'.crossed = ui.crossed /\ ui'.ack = ui.ack
        /\ ui'.silent = ui.silent /\ ui'.busy = ui.busy
    BY <1>0, <1>4 DEF Retry, PageFits, Page, Calm
  <2> QED  BY <1>2, <1>4, <2>1 DEF Retry, CanRetry, Live
<1>5. CASE Poll
  BY <1>0, <1>2, <1>5 DEF Poll
<1>6. ui.page = "room" /\ ~ui.busy /\ ~ui.crossed => InFlight("turn") = {}
  BY DEF RoomInv, TurnIsAwaited
<1>7. CASE SendTyped
  <2>1. PageFits(ui') /\ ui'.page = ui.page /\ ui'.crossed = ui.crossed /\ ui'.ack = ui.ack
        /\ ui'.silent = ui.silent /\ ui'.busy
    BY ZenonT(60), <1>0, <1>7 DEF SendTyped, PageFits, Page, Calm
  <2> QED  BY <1>0, <1>3, <1>6, <1>7, <2>1 DEF SendTyped, CanAnswer, Live, Send, Modalities
<1>8. CASE SubmitCode
  <2>1. PageFits(ui') /\ ui'.page = ui.page /\ ui'.crossed = ui.crossed /\ ui'.ack = ui.ack
        /\ ui'.silent = ui.silent /\ ui'.busy
    BY <1>0, <1>8 DEF SubmitCode, PageFits, Page, Calm
  <2> QED  BY <1>0, <1>3, <1>6, <1>8, <2>1 DEF SubmitCode, CanAnswer, Live, Send, Modalities
<1>9. CASE RecorderStopped
  <2>1. CASE ui.stopped
    <3>1. PageFits(ui') /\ ui'.page = ui.page /\ ui'.crossed = ui.crossed /\ ui'.ack = ui.ack
          /\ ui'.silent = ui.silent /\ ui'.busy = ui.busy
      BY <1>0, <1>9, <2>1 DEF RecorderStopped, PageFits, Page, Calm
    <3> QED  BY <1>9, <2>1, <3>1, PageOnly DEF RecorderStopped
  <2>2. CASE ~ui.stopped
    <3>1. ui.page = "room"
      BY <1>0, <1>9, <2>2 DEF RecorderStopped, PageFits, Calm, Page
    <3>2. /\ PageFits(ui') /\ ui'.page = ui.page /\ ui'.ack = ui.ack /\ ui'.silent = ui.silent /\ ui'.busy
          /\ ~ui'.crossed => InFlight("turn") = {}
      <4> DEFINE x == ui.crossed \/ InFlight("turn") # {}
      <4>1. ui' = [ui EXCEPT !.mic = "off", !.busy = TRUE, !.crossed = x] /\ x \in BOOLEAN
        BY <1>9, <2>2 DEF RecorderStopped
      <4>2. ~x => InFlight("turn") = {}
        OBVIOUS
      <4> HIDE DEF x
      <4> QED  BY <1>0, <2>2, <3>1, <4>1, <4>2 DEF PageFits, Page
    <3> QED  BY <1>0, <1>3, <1>9, <2>2, <3>1, <3>2, Zenon DEF RecorderStopped, Modalities
  <2> QED  BY <2>1, <2>2
<1>10. CASE ChangeLanguage
  BY <1>0, <1>2, <1>10 DEF ChangeLanguage, CanSwitchLanguage, CanAnswer, Live
<1>11. CASE Acknowledge
  BY <1>0, <1>2, <1>11 DEF Acknowledge, Live
<1>12. CASE ConfirmEnd
  <2> DEFINE s == StopEverything(ui)
  <2>1. /\ s \in Page /\ s.stopped /\ ~s.stream /\ s.lit = {}
        /\ s.page = ui.page /\ s.crossed = ui.crossed /\ s.ack = ui.ack /\ s.silent = ui.silent /\ s.busy = ui.busy
    BY <1>0, Stopped
  <2>2. ui' = [s EXCEPT !.quiet = TRUE] /\ Send("end", "none") /\ OnlyClient /\ ui.page = "room"
    BY <1>12 DEF ConfirmEnd, Live
  <2> HIDE DEF s
  <2>3. /\ PageFits(ui') /\ ui'.page = ui.page /\ ui'.crossed = ui.crossed /\ ui'.ack = ui.ack
        /\ ui'.silent = ui.silent
        /\ ui'.busy = ui.busy
    BY <2>1, <2>2 DEF PageFits, Page
  <2> QED  BY <1>2, <2>2, <2>3
\* A report of a violation, from a page that may have been left.
<1>13. ASSUME NEW t \in Types, NEW u \in Page, Report(t, u), OnlyClient, PageFits(u),
              u.page = ui.page, ui.page \notin {"load", "media"},
              u.crossed = ui.crossed, u.ack = ui.ack /\ u.silent = ui.silent, u.busy = ui.busy
       PROVE  RoomInv'
  <2>1. CASE ui' = u /\ UNCHANGED net
    BY <1>13, <2>1, PageOnly
  <2>2. CASE ui' = [u EXCEPT !.cool = @ \cup {t}] /\ Send("violation", "none")
    <3>1. /\ PageFits(ui') /\ ui'.page = ui.page /\ ui'.crossed = ui.crossed /\ ui'.ack = ui.ack
          /\ ui'.silent = ui.silent
          /\ ui'.busy = ui.busy
      BY <1>13, <2>2 DEF PageFits, Page, Calm
    <3> QED  BY <1>2, <1>13, <2>2, <3>1
  <2> QED  BY <1>13, <2>1, <2>2 DEF Report
<1>14. CASE Detected
  <2> DEFINE u == [ui EXCEPT !.looking = FALSE]
  <2>1. /\ u \in Page /\ PageFits(u) /\ u.page = ui.page /\ ui.page \notin {"load", "media"}
        /\ u.crossed = ui.crossed /\ u.ack = ui.ack /\ u.silent = ui.silent /\ u.busy = ui.busy
    BY ZenonT(30), <1>0, <1>14 DEF Detected, PageFits, Page, Calm
  <2>2. OnlyClient /\ ((ui' = u /\ UNCHANGED net) \/ \E t \in CameraTypes : Report(t, u))
    BY <1>14 DEF Detected
  <2> HIDE DEF u
  <2>3. CASE ui' = u /\ UNCHANGED net
    BY <2>1, <2>2, <2>3, PageOnly
  <2>4. ASSUME NEW t \in CameraTypes, Report(t, u)
        PROVE  RoomInv'
    BY <1>13, <2>1, <2>2, <2>4 DEF Types
  <2> QED  BY <2>2, <2>3, <2>4
<1>15. ASSUME NEW t \in WindowTypes, WindowEvent(t)
       PROVE  RoomInv'
  BY <1>0, <1>13, <1>15 DEF WindowEvent, ActiveForProctoring, Types
<1> QED  BY <1>1, <1>4, <1>5, <1>7, <1>8, <1>9, <1>10, <1>11, <1>12, <1>14, <1>15
-----------------------------------------------------------------------------
(* The steps at which a call comes back                                     *)

LEMMA AnswerToTheRoom ==
    ASSUME RoomInv, NEW c \in Calls,
           DeliverLoad(c) \/ DeliverStart(c) \/ DeliverLanguage(c) \/ DeliverEnd(c)
    PROVE  RoomInv'
<1>0. ui \in Page /\ PageFits(ui) /\ net[c] \in Call
  BY DEF RoomInv, RoomTypeOK
<1>k. {"load", "start", "turn", "language", "ack", "violation", "end"} \subseteq Kinds
  BY DEF Kinds
<1>1. CASE DeliverLoad(c)
  <2>1. net[c].phase # "free" /\ c \in Slots["load"] /\ Done(c) /\ OnlyClient /\ c \notin Slots["violation"]
    BY <1>1, <1>k, KindsOfCalls DEF DeliverLoad, Came
  <2>2. ~(c \in Slots["violation"] /\ LastWarning(net[c]))
    BY <2>1
  <2>3. CASE ui' = Unmount(ui, "home") \/ ui' = Unmount(ui, "report")
    BY <1>0, <2>1, <2>3, Unmounted, CallTaken
  <2>4. CASE ~Mounted /\ ui' = [ui EXCEPT !.page = "home"]
    <3>1. /\ PageFits(ui') /\ ui'.page = "home" /\ ui'.crossed = ui.crossed
          /\ ui'.ack = ui.ack /\ ui'.silent = ui.silent
      BY <1>0, <2>4 DEF PageFits, Page, Mounted
    <3> QED  BY <2>1, <3>1, CallTaken
  <2>5. CASE UNCHANGED ui
    BY <1>0, <2>1, <2>2, <2>5, CallTaken
  <2>6. CASE Mounted /\ net[c].status \in ACTIVE_STATUSES
             /\ ui' = [ui EXCEPT !.seen = net[c].status, !.page = "media", !.asking = TRUE]
    <3>1. c \in InFlight("load")
      BY <2>1 DEF InFlight
    <3>2. ui.page = "load"
      BY <2>6, <3>1 DEF RoomInv, LoadedOnce, Mounted
    <3>3. net[c].status \in Statuses
      BY <1>0 DEF Call
    <3>4. PageFits(ui') /\ ui'.page = "media" /\ ui'.crossed = ui.crossed /\ ui'.ack = ui.ack
          /\ ui'.silent = ui.silent
      BY <1>0, <2>6, <3>2, <3>3 DEF PageFits, Page, Calm
    <3> QED  BY <2>1, <3>2, <3>4, CallTaken
  <2> QED  BY <1>1, <2>3, <2>4, <2>5, <2>6 DEF DeliverLoad
<1>2. ASSUME NEW k \in {"start", "language"}, c \in Slots[k], net[c].phase # "free", Done(c), OnlyClient,
             UNCHANGED ui \/ /\ Mounted /\ PageFits(ui') /\ ui'.page = ui.page /\ ui'.crossed = ui.crossed
                             /\ ui'.ack = ui.ack /\ ui'.silent = ui.silent /\ ui'.busy = ui.busy
      PROVE  RoomInv'
  <2>1. c \notin Slots["violation"]
    BY <1>2, <1>k, KindsOfCalls
  <2> QED  BY <1>0, <1>2, <2>1, CallTaken
<1>3. CASE DeliverStart(c)
  <2>1. net[c].status \in Statuses
    BY <1>0 DEF Call
  <2>2. c \in InFlight("start")
    BY <1>3 DEF DeliverStart, Came, InFlight
  <2>3. ui.page \notin {"load", "media"}
    BY <2>2, <1>k DEF RoomInv, NotYetOpened
  <2>4. UNCHANGED ui \/ /\ Mounted /\ PageFits(ui') /\ ui'.page = ui.page /\ ui'.crossed = ui.crossed
                        /\ ui'.ack = ui.ack /\ ui'.silent = ui.silent /\ ui'.busy = ui.busy
    BY <1>0, <1>3, <2>1, <2>3 DEF DeliverStart, IfMounted, PageFits, Page
  <2> QED  BY <1>2, <1>3, <2>4 DEF DeliverStart, Came
<1>4. CASE DeliverLanguage(c)
  <2> DEFINE h == ui.heard \/ Answered(c)
  <2>1. h \in BOOLEAN
    OBVIOUS
  <2>2. UNCHANGED ui \/ (Mounted /\ ui' = [ui EXCEPT !.heard = h])
    BY <1>4 DEF DeliverLanguage, IfMounted
  <2> HIDE DEF h
  <2>3. UNCHANGED ui \/ /\ Mounted /\ PageFits(ui') /\ ui'.page = ui.page /\ ui'.crossed = ui.crossed
                        /\ ui'.ack = ui.ack /\ ui'.silent = ui.silent /\ ui'.busy = ui.busy
    BY <1>0, <2>1, <2>2 DEF PageFits, Page, Calm
  <2> QED  BY <1>2, <1>4, <2>3 DEF DeliverLanguage, Came
<1>5. CASE DeliverEnd(c)
  <2>1. net[c].phase # "free" /\ Done(c) /\ OnlyClient /\ ui' = Unmount(ui, "report")
    BY <1>5 DEF DeliverEnd, Came
  <2> QED  BY <1>0, <2>1, Unmounted, CallTaken
<1> QED  BY <1>1, <1>3, <1>4, <1>5

\* An answer that carries a status, and may end what the room shows.
LEMMA StatusComes ==
    ASSUME RoomInv, NEW c \in Calls, DeliverPoll(c) \/ DeliverTurn(c)
    PROVE  RoomInv'
<1>0. ui \in Page /\ PageFits(ui) /\ (ui.stopped => ~ui.stream /\ ui.lit = {}) /\ net[c] \in Call
  BY DEF RoomInv, RoomTypeOK, PageFits
<1>k. {"load", "poll", "turn", "violation"} \subseteq Kinds
  BY DEF Kinds
<1>1. /\ net[c].phase # "free" /\ Done(c) /\ OnlyClient /\ c \notin Slots["violation"]
      /\ ui.page \notin {"load", "media"}
  <2>1. c \in InFlight("poll") \/ c \in InFlight("turn")
    BY DEF DeliverPoll, DeliverTurn, Came, InFlight
  <2>2. ui.page \notin {"load", "media"}
    BY <2>1, <1>k DEF RoomInv, NotYetOpened
  <2>3. c \notin Slots["violation"]
    BY <2>1, <1>k, KindsOfCalls DEF InFlight
  <2> QED  BY <2>1, <2>2, <2>3 DEF DeliverPoll, DeliverTurn, Came
\* What is shown becomes u, or, when the page is gone, only its timers do.
<1>2. ASSUME NEW u \in Page, u.stopped => ~u.stream /\ u.lit = {}, ui.stopped => u.stopped,
             u.page = ui.page, u.crossed = ui.crossed, u.ack = ui.ack /\ u.silent = ui.silent,
             u.busy = ui.busy \/ c \in Slots["turn"],
             ui' = u \/ (~Mounted /\ ui' = [ui EXCEPT !.due = u.due])
      PROVE  RoomInv'
  <2>1. CASE ui' = u
    <3>1. PageFits(ui')
      BY <1>0, <1>1, <1>2, <2>1 DEF PageFits
    <3> QED  BY <1>1, <1>2, <2>1, <3>1, CallTaken
  <2>2. CASE ~Mounted /\ ui' = [ui EXCEPT !.due = u.due]
    <3>1. u.due \in SUBSET {"overlay", "report"}
      BY <1>2 DEF Page
    <3>2. /\ PageFits(ui') /\ ui'.page = ui.page /\ ui'.crossed = ui.crossed /\ ui'.ack = ui.ack
          /\ ui'.silent = ui.silent
          /\ ui'.busy = ui.busy
      BY <1>0, <1>1, <2>2, <3>1 DEF PageFits, Page
    <3> QED  BY <1>1, <3>2, CallTaken
  <2> QED  BY <1>2, <2>1, <2>2
<1>3. CASE DeliverPoll(c)
  <2>1. \/ UNCHANGED ui
        \/ ui' = TakeStatus(ui, c)
        \/ ~Mounted /\ ui' = [ui EXCEPT !.due = TakeStatus(ui, c).due]
    BY <1>3 DEF DeliverPoll
  <2>2. CASE UNCHANGED ui
    BY <1>0, <1>2, <2>2
  <2>3. CASE ~UNCHANGED ui
    <3> DEFINE u == TakeStatus(ui, c)
    <3>1. /\ u \in Page /\ (u.stopped => ~u.stream /\ u.lit = {}) /\ (ui.stopped => u.stopped)
          /\ u.page = ui.page /\ u.crossed = ui.crossed /\ u.ack = ui.ack /\ u.silent = ui.silent /\ u.busy = ui.busy
      BY <1>0, StatusTaken
    <3>2. ui' = u \/ (~Mounted /\ ui' = [ui EXCEPT !.due = u.due])
      BY <2>1, <2>3
    <3> HIDE DEF u
    <3> QED  BY <1>2, <3>1, <3>2
  <2> QED  BY <2>2, <2>3
<1>4. CASE DeliverTurn(c)
  <2> DEFINE back == ui.typed \/ net[c].modality = "text"
             v == [ui EXCEPT !.heard = TRUE, !.busy = FALSE]
             w == [ui EXCEPT !.busy = FALSE, !.typed = back]
             u == TakeStatus(v, c)
  <2>1. c \in Slots["turn"]
    BY <1>4 DEF DeliverTurn, Came
  <2>2. \E x \in {u, w} : ui' = x \/ (~Mounted /\ ui' = [ui EXCEPT !.due = x.due])
    BY <1>4 DEF DeliverTurn
  <2>3. back \in BOOLEAN
    OBVIOUS
  <2> HIDE DEF back
  <2>4. /\ w \in Page /\ (w.stopped => ~w.stream /\ w.lit = {}) /\ (ui.stopped => w.stopped)
        /\ w.page = ui.page /\ w.crossed = ui.crossed /\ w.ack = ui.ack /\ w.silent = ui.silent
    BY <1>0, <2>3 DEF Page
  <2>5. /\ v \in Page /\ (v.stopped => ~v.stream /\ v.lit = {}) /\ v.stopped = ui.stopped
        /\ v.page = ui.page /\ v.crossed = ui.crossed /\ v.ack = ui.ack /\ v.silent = ui.silent
    BY <1>0 DEF Page
  <2> HIDE DEF v, w
  <2>6. /\ u \in Page /\ (u.stopped => ~u.stream /\ u.lit = {}) /\ (ui.stopped => u.stopped)
        /\ u.page = ui.page /\ u.crossed = ui.crossed /\ u.ack = ui.ack /\ u.silent = ui.silent
    BY <1>0, <2>5, StatusTaken
  <2> HIDE DEF u
  <2>7. CASE ui' = u \/ (~Mounted /\ ui' = [ui EXCEPT !.due = u.due])
    BY <1>2, <2>1, <2>6, <2>7
  <2>8. CASE ui' = w \/ (~Mounted /\ ui' = [ui EXCEPT !.due = w.due])
    BY <1>2, <2>1, <2>4, <2>8
  <2> QED  BY <2>2, <2>7, <2>8
<1> QED  BY <1>3, <1>4

\* The answers about violations open the warning dialog, and those of the dialog close it.
LEMMA WarningComes ==
    ASSUME RoomInv, NEW c \in Calls, DeliverViolation(c) \/ DeliverAck(c)
    PROVE  RoomInv'
<1>0. ui \in Page /\ PageFits(ui) /\ net[c] \in Call /\ net[c].status \in Statuses /\ net[c].over \in BOOLEAN
  BY DEF RoomInv, RoomTypeOK, Call
<1>k. {"load", "ack", "violation"} \subseteq Kinds
  BY DEF Kinds
<1>1. /\ net[c].phase # "free" /\ Done(c) /\ OnlyClient /\ ui.page \notin {"load", "media"}
  <2>1. c \in InFlight("violation") \/ c \in InFlight("ack")
    BY DEF DeliverViolation, DeliverAck, Came, InFlight
  <2>2. ui.page \notin {"load", "media"}
    BY <2>1, <1>k DEF RoomInv, NotYetOpened
  <2> QED  BY <2>1, <2>2 DEF DeliverViolation, DeliverAck, Came
<1>2. CASE DeliverViolation(c)
  <2> DEFINE last == net[c].count >= WarningsBeforeTermination
             over == [ui EXCEPT !.quiet = TRUE, !.told = TRUE]
  <2>0. c \in Slots["violation"]
    BY <1>2 DEF DeliverViolation, Came
  <2>1. CASE UNCHANGED ui /\ ~LastWarning(net[c])
    BY <1>0, <1>1, <2>1, CallTaken
  <2>2. CASE net[c].over /\ \/ ui' = over
                            \/ ui' = [over EXCEPT !.due = @ \cup {"overlay"}]
                            \/ ui' = [over EXCEPT !.terminated = @ \/ Mounted]
    <3>1. ~LastWarning(net[c])
      BY <2>2 DEF LastWarning
    <3>2. /\ over \in Page /\ PageFits(over) /\ over.page = ui.page /\ over.crossed = ui.crossed
          /\ over.ack = ui.ack /\ over.silent = ui.silent /\ over.busy = ui.busy
      BY <1>0, <1>1 DEF PageFits, Page
    <3> DEFINE t == over.terminated \/ Mounted
    <3>3. \/ ui' = over \/ ui' = [over EXCEPT !.due = @ \cup {"overlay"}]
          \/ ui' = [over EXCEPT !.terminated = t]
      BY <2>2
    <3>4. t \in BOOLEAN
      OBVIOUS
    <3> HIDE DEF over, t
    <3>5. /\ PageFits(ui') /\ ui'.page = ui.page /\ ui'.crossed = ui.crossed /\ ui'.ack = ui.ack
          /\ ui'.silent = ui.silent
          /\ ui'.busy = ui.busy
      BY <1>1, <3>2, <3>3, <3>4 DEF PageFits, Page
    <3> QED  BY <1>1, <3>1, <3>5, CallTaken
  <2>3. CASE Answered(c) /\ ~net[c].over /\ IfMounted([ui EXCEPT !.ack = @ \/ last])
    <3>1. LastWarning(net[c]) <=> last
      BY <2>3 DEF LastWarning, Answered
    <3> DEFINE a == ui.ack \/ last
    <3>3. \/ Mounted /\ ui' = [ui EXCEPT !.ack = a]
          \/ ~Mounted /\ UNCHANGED ui
      BY <2>3 DEF IfMounted
    <3>4. a \in BOOLEAN /\ (ui.ack => a) /\ (LastWarning(net[c]) => a)
      BY <3>1
    <3> HIDE DEF a
    <3>5. CASE Mounted /\ ui' = [ui EXCEPT !.ack = a]
      <4>1. /\ PageFits(ui') /\ ui'.page = ui.page /\ ui'.crossed = ui.crossed
            /\ ui'.busy = ui.busy /\ ui'.ack = a /\ ui'.silent = ui.silent
        BY <1>0, <1>1, <3>4, <3>5 DEF PageFits, Page
      <4> QED  BY <1>1, <3>4, <4>1, CallTaken
    <3>6. CASE ~Mounted /\ UNCHANGED ui
      BY <1>0, <1>1, <3>6, CallTaken DEF Mounted
    <3> QED  BY <3>3, <3>5, <3>6
  <2> QED  BY <1>2, <2>1, <2>2, <2>3 DEF DeliverViolation, LastWarning, Answered
<1>3. CASE DeliverAck(c)
  <2> DEFINE seen == IF Answered(c) THEN net[c].status ELSE ui.seen
  <2>1. c \in Slots["ack"] /\ net[c].phase \in {"answered", "failed"}
    BY <1>3 DEF DeliverAck, Came
  <2>2. ui.page = "room" => ~paused \/ ui.silent \/ lost > 0
    BY <2>1 DEF RoomInv, AckResumes
  <2>3. ~(c \in Slots["violation"] /\ LastWarning(net[c]))
    BY <2>1, <1>k, KindsOfCalls
  <2>4. \/ Mounted /\ ui' = [ui EXCEPT !.ack = FALSE, !.seen = seen]
        \/ ~Mounted /\ UNCHANGED ui
    BY <1>3 DEF DeliverAck, IfMounted
  <2>5. seen \in Statuses
    BY <1>0 DEF Page
  <2> HIDE DEF seen
  <2>6. CASE Mounted /\ ui' = [ui EXCEPT !.ack = FALSE, !.seen = seen]
    <3>1. /\ PageFits(ui') /\ ui'.page = ui.page /\ ui'.crossed = ui.crossed /\ ~ui'.ack
          /\ ui'.busy = ui.busy /\ ui'.silent = ui.silent
      BY <1>0, <1>1, <2>5, <2>6 DEF PageFits, Page
    <3> QED  BY <1>1, <2>2, <2>3, <3>1, CallTaken
  <2>7. CASE ~Mounted /\ UNCHANGED ui
    BY <1>0, <1>1, <2>7, CallTaken DEF Mounted
  <2> QED  BY <2>4, <2>6, <2>7
<1> QED  BY <1>2, <1>3
-----------------------------------------------------------------------------
(* The steps of the server and of the network                               *)

\* A handler that leaves the clock as it is comes further, or answers.
LEMMA CallComes ==
    ASSUME RoomInv, NEW k \in Kinds \ {"ack"}, NEW c \in Slots[k],
           net[c].phase \notin {"free", "answered"}, NEW q \in Call, q.phase # "free",
           net' = [net EXCEPT ![c] = q], UNCHANGED <<ui, lost, does>>, LifeTypeOK', paused' = paused
    PROVE  RoomInv'
<1> DEFINE v == ui.silent
<1>1. ui \in Page /\ lost \in 0 .. MaxLost /\ v \in BOOLEAN
  BY DEF RoomInv, RoomTypeOK, Page
<1>2. ui' = [ui EXCEPT !.silent = v]
  BY <1>1 DEF Page
<1>3. lost' \in 0 .. MaxLost /\ lost' >= lost
  BY <1>1, RoomAssumption
<1>4. ~LastWarning(net[c]) /\ net[c].phase # "free"
  BY DEF LastWarning
<1>5. InFlight("ack") # {} \/ InFlight("ack") = {}
  OBVIOUS
<1> QED  BY <1>1, <1>2, <1>3, <1>4, CallMoved

\* The session stays as it is, moves on, or ends, or counts a warning.
GoesOn ==
    \/ UNCHANGED lifeVars \/ ToTechnical \/ ToBehavioral \/ Warn
    \/ \E v \in Terminal : Close(v)

LEMMA ClockGoesOn ==
    ASSUME RoomInv, GoesOn
    PROVE  LifeTypeOK' /\ paused' = paused /\ status' \in Statuses /\ warnings' \in Nat
<1>1. LifeTypeOK
  BY DEF RoomInv, RoomTypeOK
<1> QED  BY <1>1 DEF GoesOn, lifeVars, ToTechnical, ToBehavioral, Warn, Close, LifeTypeOK, Statuses,
                     ACTIVE_STATUSES, InProgress, Terminal

\* The three ways of it.
LEMMA HandlerComes ==
    ASSUME RoomInv, NEW k \in Kinds \ {"ack"}, NEW c \in Slots[k],
           net[c].phase \in {"sent", "read", "counted", "matched"},
           NEW phase \in {"sent", "read", "counted", "matched", "answered", "failed"},
           NEW s \in Statuses, NEW n \in Nat,
           \/ Comes(c, phase, s) /\ GoesOn
           \/ Counts(c, phase, n) /\ GoesOn
           \/ Refuse(c)
    PROVE  RoomInv'
<1> DEFINE o == net[c]
           q1 == [o EXCEPT !.phase = phase, !.status = s]
           q2 == [o EXCEPT !.phase = phase, !.count = n]
           q3 == [o EXCEPT !.phase = "failed"]
<1>0. c \in Calls /\ net \in [Calls -> Call] /\ o \in Call
  BY KindsOfCalls DEF RoomInv, RoomTypeOK
<1>1. \A q \in {q1, q2, q3} : q \in Call /\ q.phase # "free"
  <2> HIDE DEF o
  <2> QED  BY <1>0 DEF Call
<1>2. GoesOn /\ UNCHANGED <<ui, lost, does>>
  BY DEF Comes, Counts, Refuse, GoesOn
<1>3. \E q \in {q1, q2, q3} : net' = [net EXCEPT ![c] = q]
  BY <1>0 DEF Comes, Counts, Refuse
<1> HIDE DEF o, q1, q2, q3
<1>4. LifeTypeOK' /\ paused' = paused
  BY <1>2, ClockGoesOn
<1> QED  BY <1>1, <1>2, <1>3, <1>4, CallComes

LEMMA LoseStep == ASSUME RoomInv, NEW c \in Calls, Lose(c)  PROVE RoomInv'
<1> DEFINE q == [net[c] EXCEPT !.phase = "failed"]
           v == ui.silent
<1>0. PICK k \in Kinds : c \in Slots[k]
  BY KindsOfCalls
<1>1. /\ net \in [Calls -> Call] /\ net[c] \in Call /\ lost \in 0 .. MaxLost
      /\ ui \in Page /\ v \in BOOLEAN
  BY DEF RoomInv, RoomTypeOK, Page
<1>2. q \in Call /\ q.phase = "failed"
  BY <1>1 DEF Call
<1>3. /\ net' = [net EXCEPT ![c] = q] /\ UNCHANGED <<ui, does>> /\ lost' = lost + 1 /\ lost < MaxLost
      /\ UNCHANGED lifeVars /\ net[c].phase # "free"
  BY <1>1 DEF Lose
<1> HIDE DEF q
<1>4. q.phase # "free" /\ ui' = [ui EXCEPT !.silent = v]
  BY <1>1, <1>2, <1>3 DEF Page
<1>5. LifeTypeOK' /\ paused' = paused
  BY <1>3 DEF RoomInv, RoomTypeOK, LifeTypeOK, lifeVars
<1>6. lost' \in 0 .. MaxLost /\ lost' >= lost /\ lost' > 0
  BY <1>1, <1>3, RoomAssumption
<1>7. ui.page = "room" /\ paused' /\ ~v => paused /\ ~ui.silent
  BY <1>5
<1> QED  BY <1>0, <1>1, <1>2, <1>3, <1>4, <1>5, <1>6, <1>7, CallMoved

\* The last warning stops the clock, and the answer says so, or the page is not told.
LEMMA PunishStep ==
    ASSUME RoomInv, NEW k \in {"turn", "violation"}, NEW c \in Slots[k], Punish(k, c)
    PROVE  RoomInv'
<1> DEFINE o == net[c]
           told == k = "violation" /\ InFlight("ack") = {}
           back(over) == IF k = "turn" THEN [o EXCEPT !.phase = "matched", !.count = 0]
                         ELSE [o EXCEPT !.phase = "answered", !.over = over]
<1>0. /\ c \in Calls /\ net \in [Calls -> Call] /\ o \in Call /\ o.phase = "counted"
      /\ k \in Kinds \ {"ack"} /\ k # "load" /\ ui \in Page /\ lost \in 0 .. MaxLost
  BY KindsOfCalls DEF Punish, At, RoomInv, RoomTypeOK, Kinds
<1>1. ASSUME NEW over \in BOOLEAN
      PROVE  /\ back(over) \in Call /\ back(over).phase \in {"matched", "answered"}
             /\ k = "violation" => /\ back(over).phase = "answered" /\ back(over).over = over
                                   /\ back(over).count = o.count
             /\ Punished(k, c, over) => net' = [net EXCEPT ![c] = back(over)]
  <2>1. Punished(k, c, over) => net' = [net EXCEPT ![c] = back(over)]
    BY <1>0 DEF Punished
  <2> HIDE DEF o
  <2>2. CASE k = "turn"
    BY <1>0, <2>1, <2>2 DEF Call
  <2>3. CASE k = "violation"
    BY <1>0, <2>1, <2>3 DEF Call
  <2> QED  BY <2>2, <2>3
<1>2. ASSUME NEW over \in BOOLEAN, Punished(k, c, over), GoesOn, UNCHANGED <<ui, lost, does>>
      PROVE  RoomInv'
  <2>1. back(over) \in Call /\ back(over).phase # "free" /\ net' = [net EXCEPT ![c] = back(over)]
    BY <1>1, <1>2
  <2>2. LifeTypeOK' /\ paused' = paused
    BY <1>2, ClockGoesOn
  <2> HIDE DEF back
  <2> QED  BY <1>0, <1>2, <2>1, <2>2, CallComes
<1>3. CASE /\ o.count = WarningsBeforeTermination /\ Pause /\ Punished(k, c, FALSE)
           /\ IfMounted([ui EXCEPT !.silent = @ \/ ~told]) /\ UNCHANGED <<lost, does>>
  <2> DEFINE v == IF Mounted THEN ui.silent \/ ~told ELSE ui.silent
             q == back(FALSE)
  <2>1. v \in BOOLEAN /\ ui' = [ui EXCEPT !.silent = v]
    BY <1>0, <1>3 DEF IfMounted, Page
  <2>2. ui.page = "room" /\ ~v => k = "violation" /\ InFlight("ack") = {}
    BY DEF Mounted
  <2>3. /\ q \in Call /\ q.phase # "free" /\ net' = [net EXCEPT ![c] = q]
        /\ k = "violation" => q.phase = "answered" /\ ~q.over /\ q.count = o.count
    BY <1>1, <1>3
  <2> HIDE DEF v, q
  <2>4. k = "violation" => LastWarning(q)
    BY <1>3, <2>3, RoomAssumption DEF LastWarning
  <2>5. LifeTypeOK'
    BY <1>3 DEF RoomInv, RoomTypeOK, LifeTypeOK, Pause
  <2>6. lost' \in 0 .. MaxLost /\ lost' >= lost
    BY <1>0, <1>3, RoomAssumption
  <2>7. net[c].phase # "free" /\ UNCHANGED does /\ k \in Kinds /\ k # "ack" /\ k # "load"
    BY <1>0, <1>3
  <2> QED  BY <2>1, <2>2, <2>3, <2>4, <2>5, <2>6, <2>7, CallMoved
<1>4. CASE /\ Close("terminated_violations") /\ Punished(k, c, TRUE) /\ UNCHANGED <<ui, lost, does>>
  BY <1>2, <1>4 DEF GoesOn, Terminal
<1>5. CASE Punished(k, c, FALSE) /\ UNCHANGED <<ui, lost, does, lifeVars>>
  BY <1>2, <1>5 DEF GoesOn
<1> QED  BY <1>3, <1>4, <1>5 DEF Punish

LEMMA AckStep == ASSUME RoomInv, NEW c \in Calls, ServeAck(c)  PROVE RoomInv'
<1> DEFINE o == net[c]
           q == [o EXCEPT !.phase = "answered", !.status = status]
           v == FALSE
           k == "ack"
<1>0. /\ net \in [Calls -> Call] /\ o \in Call /\ status \in Statuses /\ lost \in 0 .. MaxLost
      /\ c \in Slots[k] /\ o.phase = "sent" /\ k \in Kinds /\ k # "load" /\ k # "violation" /\ v \in BOOLEAN
  BY DEF ServeAck, At, RoomInv, RoomTypeOK, LifeTypeOK, Statuses, Kinds
<1>1. q \in Call /\ q.phase = "answered"
  <2> HIDE DEF o
  <2> QED  BY <1>0 DEF Call
<1>2. net' = [net EXCEPT ![c] = q] /\ ui' = [ui EXCEPT !.silent = v] /\ UNCHANGED <<lost, does>>
  BY <1>0 DEF ServeAck
<1>3. LifeTypeOK' /\ ~paused'
  BY DEF ServeAck, Unpause, RoomInv, RoomTypeOK, LifeTypeOK
<1>4. lost' \in 0 .. MaxLost /\ lost' >= lost
  BY <1>0, <1>2, RoomAssumption
<1> HIDE DEF q, v, k
<1> QED  BY <1>0, <1>1, <1>2, <1>3, <1>4, CallMoved

LEMMA ServeStep == ASSUME RoomInv, NEW c \in Calls, Serve(c)  PROVE RoomInv'
<1>0. /\ status \in Statuses /\ warnings \in Nat /\ net \in [Calls -> Call]
      /\ net[c].status \in Statuses /\ net[c].count \in Nat
  BY DEF RoomInv, RoomTypeOK, LifeTypeOK, Statuses, Call
<1>s. {"created", "technical_in_progress", "behavioral_in_progress", "completed", "abandoned"} \subseteq Statuses
  BY DEF Statuses, ACTIVE_STATUSES, InProgress, Terminal
<1> DEFINE Further == {"read", "counted", "matched", "answered", "failed"}
\* What a handler does besides the punishment.
<1>1. ASSUME NEW k \in Kinds \ {"ack"}, c \in Slots[k], net[c].phase \in {"sent", "read", "matched"},
             \/ \E phase \in Further : \E s \in Statuses : Comes(c, phase, s) /\ GoesOn
             \/ \E phase \in Further : \E n \in Nat : Counts(c, phase, n) /\ GoesOn
             \/ Refuse(c)
      PROVE  RoomInv'
  <2>0. "read" \in Further /\ 0 \in Nat
    OBVIOUS
  <2>1. ASSUME NEW phase \in Further, NEW s \in Statuses, Comes(c, phase, s), GoesOn
        PROVE  RoomInv'
    BY <1>1, <2>0, <2>1, HandlerComes
  <2>2. ASSUME NEW phase \in Further, NEW n \in Nat, Counts(c, phase, n), GoesOn
        PROVE  RoomInv'
    BY <1>0, <1>1, <2>0, <2>2, HandlerComes
  <2>3. CASE Refuse(c)
    BY <1>0, <1>1, <2>0, <2>3, HandlerComes
  <2> QED  BY <1>1, <2>1, <2>2, <2>3
<1>k. {"load", "poll", "start", "turn", "language", "end", "violation"} \subseteq Kinds \ {"ack"}
  BY DEF Kinds
<1>2. CASE ServeStatus(c)
  <2>1. \E k \in {"load", "poll"} : c \in Slots[k] /\ net[c].phase = "sent"
    BY <1>2 DEF ServeStatus, At
  <2>2. Comes(c, "answered", status) /\ GoesOn
    BY <1>2 DEF ServeStatus, GoesOn
  <2> QED  BY <1>0, <1>1, <1>k, <2>1, <2>2
<1>3. CASE ServeStart(c)
  <2>1. c \in Slots["start"] /\ net[c].phase \in {"sent", "read"}
    BY <1>3 DEF ServeStart, At
  <2>2. \/ \E phase \in Further : \E s \in Statuses : Comes(c, phase, s) /\ GoesOn
        \/ Refuse(c)
    BY <1>0, <1>3, <1>s DEF ServeStart, GoesOn
  <2> QED  BY <1>1, <1>k, <2>1, <2>2
<1>4. CASE TurnBegins(c)
  <2>1. c \in Slots["turn"] /\ net[c].phase \in {"sent", "read"}
    BY <1>4 DEF TurnBegins, At
  <2>2. \E phase \in Further : \E s \in Statuses : Comes(c, phase, s) /\ GoesOn
    BY <1>0, <1>4, <1>s DEF TurnBegins, GoesOn
  <2> QED  BY <1>1, <1>k, <2>1, <2>2
<1>5. CASE VoiceMismatch(c)
  <2>1. CASE Punish("turn", c)
    <3> DEFINE k == "turn"
    <3>1. k \in {"turn", "violation"} /\ c \in Slots[k] /\ Punish(k, c)
      BY <2>1 DEF Punish, At
    <3> HIDE DEF k
    <3> QED  BY <3>1, PunishStep
  <2>2. CASE ~Punish("turn", c)
    <3>1. c \in Slots["turn"] /\ net[c].phase = "read" /\ Warn
      BY <1>5, <2>2 DEF VoiceMismatch, At
    <3>2. warnings' \in Nat /\ GoesOn
      BY <1>0, <3>1 DEF GoesOn, Warn
    <3>3. \E phase \in Further : \E n \in Nat : Counts(c, phase, n) /\ GoesOn
      BY <1>5, <2>2, <3>2 DEF VoiceMismatch
    <3> QED  BY <1>1, <1>k, <3>1, <3>3
  <2> QED  BY <2>1, <2>2
<1>6. CASE TurnEnds(c)
  <2>1. c \in Slots["turn"] /\ net[c].phase \in {"read", "matched"}
    BY <1>6 DEF TurnEnds, At
  <2>2. \/ \E phase \in Further : \E s \in Statuses : Comes(c, phase, s) /\ GoesOn
        \/ Refuse(c)
    BY <1>0, <1>6, <1>s DEF TurnEnds, GoesOn, Terminal
  <2> QED  BY <1>1, <1>k, <2>1, <2>2
<1>7. CASE ServeLanguage(c)
  <2>1. c \in Slots["language"] /\ net[c].phase = "sent"
    BY <1>7 DEF ServeLanguage, At
  <2>2. Refuse(c) \/ (Comes(c, "answered", status) /\ GoesOn)
    BY <1>7 DEF ServeLanguage, GoesOn
  <2> QED  BY <1>0, <1>1, <1>k, <2>1, <2>2
<1>8. CASE ServeEnd(c)
  <2>1. c \in Slots["end"] /\ net[c].phase = "sent"
    BY <1>8 DEF ServeEnd, At
  <2>2. \E s \in Statuses : Comes(c, "answered", s) /\ GoesOn
    BY <1>0, <1>8, <1>s DEF ServeEnd, GoesOn, Terminal
  <2> QED  BY <1>1, <1>k, <2>1, <2>2
<1>9. CASE ServeViolation(c)
  <2>1. CASE Punish("violation", c)
    <3> DEFINE k == "violation"
    <3>1. k \in {"turn", "violation"} /\ c \in Slots[k] /\ Punish(k, c)
      BY <2>1 DEF Punish, At
    <3> HIDE DEF k
    <3> QED  BY <3>1, PunishStep
  <2>2. CASE ~Punish("violation", c)
    <3>1. c \in Slots["violation"] /\ net[c].phase \in {"sent", "read"}
      BY <1>9, <2>2 DEF ServeViolation, At
    <3>2. Warn => warnings' \in Nat
      BY <1>0 DEF Warn
    <3>3. \/ \E phase \in Further : \E n \in Nat : Counts(c, phase, n) /\ GoesOn
          \/ Refuse(c)
      BY <1>0, <1>9, <2>2, <3>2 DEF ServeViolation, GoesOn
    <3> QED  BY <1>1, <1>k, <3>1, <3>3
  <2> QED  BY <2>1, <2>2
<1>10. CASE ServeAck(c)
  BY <1>10, AckStep
<1> QED  BY <1>2, <1>3, <1>4, <1>5, <1>6, <1>7, <1>8, <1>9, <1>10 DEF Serve, ServeTurn

LEMMA ElsewhereStep == ASSUME RoomInv, Elsewhere  PROVE RoomInv'
<1>1. GoesOn
  BY RoomAssumption DEF Elsewhere, GoesOn, Terminal
<1>2. UNCHANGED <<ui, net, lost, does, paused>> /\ LifeTypeOK'
  BY <1>1, ClockGoesOn DEF Elsewhere, clientVars
<1> QED  BY <1>2 DEF RoomInv, RoomTypeOK, PageFits, Calm, NotYetOpened, LoadedOnce, TurnIsAwaited,
                     AckResumes, PausedIsHeard, InFlight, LastWarning

-----------------------------------------------------------------------------
(* The room                                                                 *)

LEMMA InitRoom == RoomInit => RoomInv
<1> SUFFICES ASSUME RoomInit  PROVE RoomInv
  OBVIOUS
<1>1. /\ [Free EXCEPT !.phase = "sent"] \in Call /\ [Free EXCEPT !.phase = "sent"].phase = "sent"
      /\ Free \in Call /\ Free.phase = "free"
  BY FreeType DEF Free, Call, Statuses, Modalities
<1>2. net \in [Calls -> Call] /\ \A c \in Calls : c \notin Slots["load"] => net[c] = Free
  BY <1>1 DEF RoomInit
<1>p. paused \in BOOLEAN
  <2>1. PICK o \in Openings[does] : paused = o.paused
    BY DEF RoomInit
  <2> QED  BY <2>1, RoomAssumption DEF RoomInit
<1>3. /\ ui \in Page /\ ui.page = "load" /\ ui = [Opened EXCEPT !.silent = paused] /\ ui.silent = paused
  BY <1>p, OpenedType DEF RoomInit, Opened, Page
<1>4. LifeTypeOK /\ lost \in 0 .. MaxLost /\ does \in Workloads
  <2>1. PICK o \in Openings[does] : status = o.status /\ warnings = o.warnings /\ paused = o.paused
    BY DEF RoomInit
  <2>2. /\ o.status \in ACTIVE_STATUSES /\ o.warnings \in 0 .. WarningsBeforeTermination
        /\ o.paused \in BOOLEAN
    BY RoomAssumption DEF RoomInit
  <2> QED  BY <2>1, <2>2, RoomAssumption DEF RoomInit, LifeTypeOK
<1>5. PageFits(ui) /\ ~ui.ack
  BY <1>3 DEF PageFits, Calm, Opened
<1>6. \A k \in Kinds \ {"load"} : \A c \in Slots[k] : c \in Calls /\ c \notin Slots["load"]
  BY KindsOfCalls DEF Kinds
<1>7. \A k \in Kinds \ {"load"} : \A c \in Slots[k] : net[c].phase = "free"
  BY <1>1, <1>2, <1>6
<1>8. \A k \in Kinds \ {"load"} : InFlight(k) = {}
  BY <1>7 DEF InFlight
<1>9. {"turn", "ack", "violation"} \subseteq Kinds \ {"load"}
  BY DEF Kinds
<1>10. \A c \in Slots["violation"] \cup Slots["ack"] : net[c].phase = "free"
  BY <1>7, <1>9
<1> QED  BY <1>2, <1>3, <1>4, <1>5, <1>8, <1>9, <1>10
         DEF RoomInv, RoomTypeOK, NotYetOpened, LoadedOnce, TurnIsAwaited, AckResumes, PausedIsHeard, LastWarning

LEMMA NextRoom == RoomInv /\ [RoomNext]_vars => RoomInv'
<1> SUFFICES ASSUME RoomInv, [RoomNext]_vars  PROVE RoomInv'
  OBVIOUS
<1>1. CASE Candidate \/ Browser \/ Poll \/ \E t \in Types : CooldownEnds(t)
  BY <1>1, StepsAlone, StepsThatSend DEF Candidate, Browser
<1>2. ASSUME NEW c \in Calls, Serve(c) \/ Deliver(c) \/ Lose(c)
      PROVE  RoomInv'
  BY <1>2, ServeStep, LoseStep, AnswerToTheRoom, StatusComes, WarningComes DEF Deliver
<1>3. CASE Elsewhere
  BY <1>3, ElsewhereStep
<1>4. CASE UNCHANGED vars
  BY <1>4 DEF RoomInv, RoomTypeOK, LifeTypeOK, PageFits, Calm, NotYetOpened, LoadedOnce, TurnIsAwaited,
              AckResumes, PausedIsHeard, InFlight, LastWarning, vars, lifeVars, clientVars
<1> QED  BY <1>1, <1>2, <1>3, <1>4 DEF RoomNext

LEMMA RoomKeepsOneTurn == RoomInv => OneTurnAtATime
<1> SUFFICES ASSUME RoomInv, ~ui.crossed  PROVE Cardinality(InFlight("turn")) <= 1
  BY DEF OneTurnAtATime
<1> DEFINE T == InFlight("turn")
<1>1. \A c, d \in T : c = d
  BY DEF RoomInv, TurnIsAwaited
<1> HIDE DEF T
<1>2. ASSUME NEW c \in T  PROVE T = {c}
  BY <1>1, <1>2
<1>3. Cardinality(T) = 0 \/ Cardinality(T) = 1
  BY <1>2, FS_EmptySet, FS_Singleton
<1>4. Cardinality(T) <= 1
  BY <1>3
<1> QED  BY <1>4 DEF T

\* Two turns of an interview are never in flight at once, whatever is typed, spoken and
\* submitted and in whatever order the answers come, unless a recording was submitted over
\* a turn by a handler that does not see it.
THEOREM OneTurnAtATimeInvariant == RoomSpec => []OneTurnAtATime
BY RoomKeepsOneTurn, InitRoom, NextRoom, PTL DEF RoomSpec

-----------------------------------------------------------------------------
(* What the pages around an interview keep                                  *)

Checking == Interview!StepName(page.setup.step) = "System check"

\* What the server answers is of its type.
AnswerFits(k, c) ==
    Interview!Ok(c) => /\ k = "home" => c.ans \in Interview!Server
                       /\ k = "entitlement" => c.ans \in SUBSET Grants
                       /\ k = "profile" => c.ans \in BOOLEAN
                       /\ k = "ping" => c.ans \in {"good", "slow"}
                       /\ k = "report" => c.ans \in {"pending", "ready", "no_data", "failed"}

\* What a page waits for before it shows, or goes elsewhere, was asked by that page.
CallsFit ==
    /\ DOMAIN net = Interview!Kinds
    /\ \A k \in Interview!Kinds : \A c \in net[k] : AnswerFits(k, c)
    /\ \A c, d \in net["entitlement"] : c = d
    /\ net["entitlement"] # {} => page.at = "setup" /\ ~page.setup.loaded
    /\ net["order"] # {} => page.at = "home"

\* The wizard does not move before the grants are there.
StepFits ==
    /\ page.setup.step \in 1 .. Len(Interview!Steps)
    /\ ~page.setup.loaded => page.setup.step = 1

\* There is a stream, or one is asked for, only while the step is shown, and one at a time;
\* a device that is being switched outlives the stream only of a step that was left.
MediaFits(m, checking) ==
    /\ ~m.strayed => m.orphan = {}
    /\ m.lit # {} => m.stream
    /\ m.stream => "here" \notin m.asking
    /\ m.stream \/ "here" \in m.asking => checking
    /\ m.switching # "none" /\ ~m.stream => m.strayed

PagesInv ==
    /\ page \in Interview!Page /\ server \in Interview!Server
    /\ CallsFit /\ StepFits /\ MediaFits(page.media, Checking)

-----------------------------------------------------------------------------
(* Calls of the pages                                                       *)

LEMMA PageCallTaken ==
    ASSUME CallsFit, NEW k \in Interview!Kinds, NEW c \in net[k], Interview!Take(k, c),
           page'.at = page.at, page'.setup.loaded = page.setup.loaded \/ k = "entitlement"
    PROVE  CallsFit'
<1>1. \A j \in Interview!Kinds : net'[j] = IF j = k THEN net[k] \ {c} ELSE net[j]
  BY DEF CallsFit, Interview!Take, Interview!Without
<1>2. DOMAIN net' = Interview!Kinds
  BY DEF CallsFit, Interview!Take, Interview!Without
<1>3. \A j \in Interview!Kinds : net'[j] \subseteq net[j]
  BY <1>1
<1>4. {"entitlement", "order"} \subseteq Interview!Kinds
  BY DEF Interview!Kinds
<1>5. k = "entitlement" => net'["entitlement"] = {}
  BY <1>1, <1>4 DEF CallsFit
<1>6. \A j \in Interview!Kinds : \A d \in net'[j] : AnswerFits(j, d)
  BY <1>3 DEF CallsFit
<1> QED  BY <1>2, <1>3, <1>4, <1>5, <1>6 DEF CallsFit

LEMMA PageCallSent ==
    ASSUME CallsFit, NEW k \in Interview!Kinds \ {"entitlement"}, NEW to,
           net' = Interview!Asking(net, k, to), k = "order" => page.at = "home",
           page'.at = page.at, page'.setup.loaded = page.setup.loaded
    PROVE  CallsFit'
<1>1. DOMAIN net' = Interview!Kinds
  BY DEF CallsFit, Interview!Asking
<1>2. \A j \in Interview!Kinds : net'[j] = IF j = k THEN net[j] \cup {Interview!Sent(to)} ELSE net[j]
  BY DEF CallsFit, Interview!Asking
<1>3. \A j \in Interview!Kinds : AnswerFits(j, Interview!Sent(to))
  BY DEF Interview!Ok, Interview!Sent, AnswerFits
<1>4. \A j \in Interview!Kinds : \A d \in net'[j] : AnswerFits(j, d)
  BY <1>2, <1>3 DEF CallsFit
<1>5. {"entitlement", "order"} \subseteq Interview!Kinds
  BY DEF Interview!Kinds
<1> QED  BY <1>1, <1>2, <1>4, <1>5 DEF CallsFit

LEMMA PageCallMoved ==
    ASSUME CallsFit, NEW k \in Interview!Kinds, NEW c \in net[k], NEW q, AnswerFits(k, q),
           net' = [net EXCEPT ![k] = (@ \ {c}) \cup {q}], UNCHANGED page
    PROVE  CallsFit'
<1>1. DOMAIN net' = Interview!Kinds
  BY DEF CallsFit
<1>2. \A j \in Interview!Kinds : net'[j] = IF j = k THEN (net[k] \ {c}) \cup {q} ELSE net[j]
  BY DEF CallsFit
<1>3. \A j \in Interview!Kinds : \A d \in net'[j] : AnswerFits(j, d)
  BY <1>2 DEF CallsFit
<1>4. {"entitlement", "order"} \subseteq Interview!Kinds
  BY DEF Interview!Kinds
<1>5. \A j \in Interview!Kinds : net'[j] # {} => net[j] # {}
  BY <1>2
<1>6. \A d, e \in net'["entitlement"] : d = e
  BY <1>2, <1>4 DEF CallsFit
<1> QED  BY <1>1, <1>3, <1>4, <1>5, <1>6 DEF CallsFit

-----------------------------------------------------------------------------
(* Steps of the wizard                                                      *)

SameStep ==
    /\ page'.at = page.at /\ page'.setup.step = page.setup.step
    /\ page'.setup.grants = page.setup.grants /\ page'.setup.loaded = page.setup.loaded

LEMMA StepKept == ASSUME StepFits, SameStep  PROVE StepFits' /\ (Checking' <=> Checking)
<1>1. Interview!Steps' = Interview!Steps
  BY DEF SameStep, Interview!Steps
<1> QED  BY <1>1 DEF StepFits, SameStep, Checking, Interview!StepName

\* A step that changes nothing of the wizard's place, nor of the devices.
LEMMA PageKept ==
    ASSUME PagesInv, page' \in Interview!Page, SameStep, page'.media = page.media,
           server' \in Interview!Server, CallsFit'
    PROVE  PagesInv'
BY StepKept DEF PagesInv, MediaFits

LEMMA DevicesKept ==
    ASSUME PagesInv, page' \in Interview!Page, SameStep, MediaFits(page'.media, Checking),
           server' \in Interview!Server, CallsFit'
    PROVE  PagesInv'
BY StepKept DEF PagesInv, MediaFits

\* The step that is shown decides what becomes of the devices.
LEMMA DevicesFollow ==
    ASSUME NEW m \in Interview!Media, NEW was, NEW is, MediaFits(m, was = "System check")
    PROVE  /\ Interview!MediaFor(m, was, is) \in Interview!Media
           /\ MediaFits(Interview!MediaFor(m, was, is), is = "System check")
<1> DEFINE e == Interview!Entered(m)
           l == Interview!Left(m)
<1>1. e \in Interview!Media /\ (~(was = "System check") => MediaFits(e, TRUE))
  BY Zenon DEF Interview!Entered, Interview!Media, MediaFits
<1>2. l \in Interview!Media /\ MediaFits(l, FALSE)
  <2> DEFINE a == IF "here" \in m.asking THEN {"left"} ELSE m.asking
             s == m.strayed \/ m.switching # Interview!None
  <2>1. a \in SUBSET {"here", "left"} /\ "here" \notin a /\ s \in BOOLEAN
    BY Zenon DEF Interview!Media
  <2>2. l = [m EXCEPT !.asking = a, !.stream = FALSE, !.lit = {}, !.strayed = s]
    BY Zenon DEF Interview!Left
  <2>3. (m.switching # "none" => s) /\ (~s => ~m.strayed)
    BY Zenon DEF Interview!None
  <2> HIDE DEF a, s, l
  <2> QED  BY <2>1, <2>2, <2>3, Zenon DEF Interview!Media, MediaFits
<1> HIDE DEF e, l
<1>3. CASE was = is
  BY <1>3, Zenon DEF Interview!MediaFor
<1>4. CASE was # is /\ is = "System check"
  BY <1>1, <1>4, Zenon DEF Interview!MediaFor, e
<1>5. CASE was # is /\ is # "System check"
  BY <1>2, <1>5, Zenon DEF Interview!MediaFor, MediaFits, l
<1> QED  BY <1>3, <1>4, <1>5, Zenon
-----------------------------------------------------------------------------
(* What a step leaves of the page                                           *)

LEMMA InItsPlace ==
    ASSUME page \in Interview!Page
    PROVE  /\ \A h \in Interview!Home : page' = Interview!InHome(h) =>
                  page' \in Interview!Page /\ SameStep /\ page'.media = page.media
           /\ \A r \in Interview!Report : page' = Interview!InReport(r) =>
                  page' \in Interview!Page /\ SameStep /\ page'.media = page.media
           /\ \A m \in Interview!Media : page' = Interview!InMedia(m) =>
                  page' \in Interview!Page /\ SameStep /\ page'.media = m
           /\ \A s \in Interview!Setup :
                  /\ page' = Interview!InSetup(s)
                  /\ s.step = page.setup.step /\ s.grants = page.setup.grants
                  /\ s.loaded = page.setup.loaded
                  => page' \in Interview!Page /\ SameStep /\ page'.media = page.media
BY DEF Interview!Page, Interview!InHome, Interview!InReport, Interview!InMedia, Interview!InSetup, SameStep

LEMMA FirstPages ==
    /\ Interview!HomeFirst \in Interview!Home /\ Interview!SetupFirst \in Interview!Setup
    /\ Interview!ReportFirst \in Interview!Report /\ Interview!MediaFirst \in Interview!Media
    /\ Interview!NoChoice \in Interview!Choice
    /\ Interview!SetupFirst.step = 1 /\ ~Interview!SetupFirst.loaded
<1>1. Interview!NoChoice \in Interview!Choice
  BY DEF Interview!NoChoice, Interview!Choice
<1>2. Interview!SetupFirst \in Interview!Setup
  BY <1>1 DEF Interview!SetupFirst, Interview!Setup
<1> QED  BY <1>1, <1>2 DEF Interview!HomeFirst, Interview!Home, Interview!None, Interview!SetupFirst,
      Interview!ReportFirst, Interview!Report, Interview!MediaFirst, Interview!Media

\* The wizard begins with its packs or its topics.
LEMMA StepNames ==
    \A s : \/ s = <<"Pack", "Topic", "Resume", "System check", "Instructions">>
          \/ s = <<"Topic", "Resume", "System check", "Instructions">>
          => Len(s) \in Nat /\ 1 \in 1 .. Len(s) /\ s[1] # "System check"
<1>1. ASSUME NEW s, s = <<"Pack", "Topic", "Resume", "System check", "Instructions">>
      PROVE  Len(s) = 5 /\ s[1] # "System check"
  BY <1>1, Zenon
<1>2. ASSUME NEW s, s = <<"Topic", "Resume", "System check", "Instructions">>
      PROVE  Len(s) = 4 /\ s[1] # "System check"
  BY <1>2, Zenon
<1>3. \A n \in {4, 5} : n \in Nat /\ 1 \in 1 .. n
  OBVIOUS
<1> QED  BY <1>1, <1>2, <1>3, Zenon

\* Going to another page drops what the page before had in flight.
LEMMA PageGone ==
    ASSUME PagesInv, NEW p \in Interview!Page, NEW at \in {"home", "setup", "report", "room", "checkout"},
           Interview!Goes(p, at), MediaFits(p.media, FALSE), server' \in Interview!Server
    PROVE  PagesInv'
<1>1. page' \in Interview!Page /\ page'.at = at /\ page'.setup = Interview!SetupFirst /\ page'.media = p.media
  BY FirstPages DEF Interview!Goes, Interview!Page
<1>2. StepFits' /\ ~Checking'
  <2>1. page'.setup.step = 1 /\ ~page'.setup.loaded
    BY <1>1, FirstPages
  <2> DEFINE s == Interview!Steps'
  <2>2. \/ s = <<"Pack", "Topic", "Resume", "System check", "Instructions">>
        \/ s = <<"Topic", "Resume", "System check", "Instructions">>
    BY Zenon DEF Interview!Steps
  <2>s. 1 \in 1 .. Len(s) /\ s[1] # "System check"
    <3> HIDE DEF s
    <3> QED  BY <2>2, StepNames, Zenon
  <2>3. ~Checking'
    BY <2>1, <2>s, Zenon DEF Checking, Interview!StepName, Interview!None
  <2>4. page'.setup.step \in 1 .. Len(s)
    BY <2>1, <2>s, Zenon
  <2> QED  BY <2>1, <2>3, <2>4 DEF StepFits
<1>3. CallsFit'
  <2> DEFINE kinds == IF at = "home" THEN Interview!HomeCalls ELSE IF at = "setup" THEN Interview!SetupCalls
                      ELSE IF at = "report" THEN {"report"} ELSE {}
             kept == {c \in net["create"] : c.phase = "sent"}
             sent == {Interview!Sent(Interview!None)}
  <2>1. net' = [Interview!Loading(kinds) EXCEPT !["create"] = kept]
    BY DEF Interview!Goes
  <2>2. /\ "order" \notin kinds /\ ("entitlement" \in kinds => at = "setup")
        /\ {"create", "order", "entitlement"} \subseteq Interview!Kinds
    BY DEF Interview!HomeCalls, Interview!SetupCalls, Interview!Kinds
  <2> HIDE DEF kinds
  <2>3. /\ DOMAIN net' = Interview!Kinds
        /\ \A k \in Interview!Kinds : net'[k] = IF k = "create" THEN kept ELSE IF k \in kinds THEN sent ELSE {}
    BY <2>1 DEF Interview!Loading
  <2>4. \A k \in Interview!Kinds : AnswerFits(k, Interview!Sent(Interview!None))
    BY DEF AnswerFits, Interview!Ok, Interview!Sent
  <2>5. \A c \in kept : AnswerFits("create", c)
    BY <2>2 DEF CallsFit, PagesInv
  <2>6. net'["order"] = {} /\ net'["entitlement"] \subseteq sent /\ (net'["entitlement"] # {} => at = "setup")
    BY <2>2, <2>3
  <2> HIDE DEF kept
  <2>7. \A k \in Interview!Kinds : \A c \in net'[k] : AnswerFits(k, c)
    BY <2>3, <2>4, <2>5
  <2>8. ~page'.setup.loaded
    BY <1>1, FirstPages
  <2> QED  BY <1>1, <2>3, <2>6, <2>7, <2>8 DEF CallsFit
<1> QED  BY <1>1, <1>2, <1>3 DEF PagesInv, MediaFits
-----------------------------------------------------------------------------
(* The steps of the pages                                                   *)

LEMMA NotInTheWizard ==
    /\ page.at # "setup" => ~Checking
    /\ PagesInv /\ ~page.setup.loaded => ~Checking
<1>1. page.at # "setup" => ~Checking
  BY DEF Checking, Interview!StepName, Interview!None
<1>2. ASSUME PagesInv, ~page.setup.loaded  PROVE ~Checking
  <2>1. page.setup.step = 1
    BY <1>2 DEF PagesInv, StepFits
  <2> DEFINE s == Interview!Steps
  <2>2. \/ s = <<"Pack", "Topic", "Resume", "System check", "Instructions">>
        \/ s = <<"Topic", "Resume", "System check", "Instructions">>
    BY Zenon DEF Interview!Steps
  <2>3. s[1] # "System check"
    <3> HIDE DEF s
    <3> QED  BY <2>2, StepNames, Zenon
  <2> QED  BY <2>1, <2>3, Zenon DEF Checking, Interview!StepName, Interview!None
<1> QED  BY <1>1, <1>2

LEMMA HomeSteps ==
    ASSUME PagesInv,
           \/ Interview!DeliverHome \/ Interview!DeliverPacks \/ Interview!StartNew \/ Interview!Resume
           \/ Interview!OpenRow \/ Interview!DeliverOrder
           \/ \E p \in ShopPacks : Interview!BuyRazorpay(p)
    PROVE  PagesInv'
<1>0. /\ page \in Interview!Page /\ page.home \in Interview!Home /\ server \in Interview!Server
      /\ CallsFit /\ MediaFits(page.media, Checking)
  BY DEF PagesInv, Interview!Page
<1>k. {"home", "packs", "order"} \subseteq Interview!Kinds \ {"entitlement"}
  BY DEF Interview!Kinds
<1>1. CASE Interview!DeliverHome
  <2>1. PICK c \in net["home"] :
            /\ Interview!Take("home", c) /\ Interview!OnlyPage
            /\ page' = Interview!InHome(
                 IF Interview!Ok(c)
                 THEN [page.home EXCEPT !.loading = FALSE, !.left = c.ans.left, !.seen = c.ans.session,
                                        !.hasReport = c.ans.report # "pending"]
                 ELSE [page.home EXCEPT !.loading = FALSE])
    BY <1>1, Zenon DEF Interview!DeliverHome, Interview!Came
  <2>2. Interview!Ok(c) => c.ans.left \in Nat /\ c.ans.session \in {Interview!None, Interview!ACTIVE, "ended"}
    BY <1>0, <1>k DEF CallsFit, AnswerFits, Interview!Server
  <2>3. PICK h \in Interview!Home : page' = Interview!InHome(h)
    BY <1>0, <2>1, <2>2 DEF Interview!Home
  <2>4. page' \in Interview!Page /\ SameStep /\ page'.media = page.media
    BY <1>0, <2>3, InItsPlace
  <2>5. CallsFit'
    BY <1>0, <1>k, <2>1, <2>4, PageCallTaken DEF SameStep
  <2> QED  BY <1>0, <2>1, <2>4, <2>5, PageKept DEF Interview!OnlyPage
<1>2. CASE Interview!DeliverPacks
  <2>1. PICK c \in net["packs"] :
            /\ Interview!Take("packs", c) /\ Interview!OnlyPage
            /\ page' = Interview!InHome([page.home EXCEPT !.packs = Interview!Ok(c)])
    BY <1>2 DEF Interview!DeliverPacks, Interview!Came
  <2>2. Interview!Ok(c) \in BOOLEAN
    BY DEF Interview!Ok
  <2>3. PICK h \in Interview!Home : page' = Interview!InHome(h)
    BY <1>0, <2>1, <2>2 DEF Interview!Home
  <2>4. page' \in Interview!Page /\ SameStep /\ page'.media = page.media
    BY <1>0, <2>3, InItsPlace
  <2>5. CallsFit'
    BY <1>0, <1>k, <2>1, <2>4, PageCallTaken DEF SameStep
  <2> QED  BY <1>0, <2>1, <2>4, <2>5, PageKept DEF Interview!OnlyPage
\* From the overview one goes where one goes with no device taken.
<1>3. ASSUME NEW at \in {"home", "setup", "report", "room", "checkout"}, page.at # "setup",
             Interview!Goes(page, at), Interview!OnlyPage
      PROVE  PagesInv'
  <2>1. MediaFits(page.media, FALSE)
    BY <1>0, <1>3, NotInTheWizard DEF MediaFits
  <2> QED  BY <1>0, <1>3, <2>1, PageGone DEF Interview!OnlyPage
<1>4. CASE Interview!StartNew \/ Interview!Resume \/ Interview!OpenRow
  BY <1>3, <1>4 DEF Interview!StartNew, Interview!Resume, Interview!OpenRow, Interview!CanStartNew,
                    Interview!CanResume, Interview!HomeShown
<1>5. CASE Interview!DeliverOrder
  <2>1. PICK c \in net["order"] :
            /\ IF Interview!Ok(c) THEN Interview!Goes(page, "checkout")
               ELSE /\ Interview!Take("order", c)
                    /\ page' = Interview!InHome([page.home EXCEPT !.buying = Interview!None])
            /\ Interview!OnlyPage
    BY <1>5 DEF Interview!DeliverOrder, Interview!Came
  <2>2. CASE Interview!Ok(c)
    BY <1>0, <1>3, <2>1, <2>2 DEF CallsFit
  <2>3. CASE ~Interview!Ok(c)
    <3>1. PICK h \in Interview!Home : page' = Interview!InHome(h)
      BY <1>0, <2>1, <2>3 DEF Interview!Home
    <3>2. page' \in Interview!Page /\ SameStep /\ page'.media = page.media
      BY <1>0, <3>1, InItsPlace
    <3>3. CallsFit'
      BY <1>0, <1>k, <2>1, <2>3, <3>2, PageCallTaken DEF SameStep
    <3> QED  BY <1>0, <2>1, <3>2, <3>3, PageKept DEF Interview!OnlyPage
  <2> QED  BY <2>2, <2>3
<1>6. ASSUME NEW p \in ShopPacks, Interview!BuyRazorpay(p)
      PROVE  PagesInv'
  <2>1. PICK h \in Interview!Home : page' = Interview!InHome(h)
    BY <1>0, <1>6 DEF Interview!BuyRazorpay, Interview!Home
  <2>2. page' \in Interview!Page /\ SameStep /\ page'.media = page.media
    BY <1>0, <2>1, InItsPlace
  <2>3. CallsFit'
    BY <1>0, <1>k, <1>6, <2>2, PageCallSent
       DEF SameStep, Interview!BuyRazorpay, Interview!Ask, Interview!PaywallShown, Interview!HomeShown
  <2> QED  BY <1>0, <1>6, <2>2, <2>3, PageKept DEF Interview!BuyRazorpay, Interview!OnlyPage
<1> QED  BY <1>1, <1>2, <1>4, <1>5, <1>6

LEMMA ReportSteps ==
    ASSUME PagesInv,
           \/ Interview!DeliverReport \/ Interview!PollDue \/ Interview!RetryPolling
           \/ Interview!ViewEvidence \/ Interview!DeliverEvidence \/ Interview!DownloadPdf
           \/ Interview!DeliverPdf \/ Interview!LeaveReport
    PROVE  PagesInv'
<1>0. /\ page \in Interview!Page /\ page.report \in Interview!Report /\ server \in Interview!Server
      /\ CallsFit /\ MediaFits(page.media, Checking)
  BY DEF PagesInv, Interview!Page
<1>k. {"report", "evidence", "pdf"} \subseteq Interview!Kinds \ {"entitlement", "order"}
  BY DEF Interview!Kinds
\* What the report shows changes, with a call that comes or goes.
<1>1. ASSUME NEW r \in Interview!Report, page' = Interview!InReport(r), Interview!OnlyPage,
             NEW k \in {"report", "evidence", "pdf"},
             \/ UNCHANGED net
             \/ net' = Interview!Asking(net, k, Interview!None)
             \/ \E c \in net[k] : Interview!Take(k, c)
      PROVE  PagesInv'
  <2>1. page' \in Interview!Page /\ SameStep /\ page'.media = page.media
    BY <1>0, <1>1, InItsPlace
  <2>2. CASE UNCHANGED net
    <3>1. CallsFit'
      BY <1>0, <2>1, <2>2 DEF CallsFit, SameStep
    <3> QED  BY <1>0, <1>1, <2>1, <3>1, PageKept DEF Interview!OnlyPage
  <2>3. CASE net' = Interview!Asking(net, k, Interview!None)
    <3>1. CallsFit'
      BY <1>0, <1>k, <1>1, <2>1, <2>3, PageCallSent DEF SameStep
    <3> QED  BY <1>0, <1>1, <2>1, <3>1, PageKept DEF Interview!OnlyPage
  <2>4. ASSUME NEW c \in net[k], Interview!Take(k, c)  PROVE PagesInv'
    <3>1. CallsFit'
      BY <1>0, <1>k, <1>1, <2>1, <2>4, PageCallTaken DEF SameStep
    <3> QED  BY <1>0, <1>1, <2>1, <3>1, PageKept DEF Interview!OnlyPage
  <2> QED  BY <1>1, <2>2, <2>3, <2>4
<1>2. CASE Interview!DeliverReport
  <2>1. PICK c \in net["report"] :
            /\ Interview!Take("report", c) /\ Interview!OnlyPage
            /\ page' = Interview!InReport(
                 IF ~Interview!Ok(c) THEN [page.report EXCEPT !.status = "error"]
                 ELSE IF c.ans # "pending" THEN [page.report EXCEPT !.status = c.ans]
                 ELSE IF page.report.attempts >= MAX_POLL_ATTEMPTS
                      THEN [page.report EXCEPT !.status = "stalled"]
                      ELSE [page.report EXCEPT !.due = TRUE])
    BY <1>2 DEF Interview!DeliverReport, Interview!Came
  <2>2. Interview!Ok(c) => c.ans \in {"pending", "ready", "no_data", "failed"}
    BY <1>0, <1>k DEF CallsFit, AnswerFits
  <2>3. PICK r \in Interview!Report : page' = Interview!InReport(r)
    BY <1>0, <2>1, <2>2 DEF Interview!Report
  <2> QED  BY <1>1, <2>1, <2>3
<1>3. CASE Interview!PollDue
  <2> DEFINE n == page.report.attempts + 1
             r == [page.report EXCEPT !.due = FALSE, !.attempts = n]
  <2>1. page' = Interview!InReport(r)
    BY <1>3 DEF Interview!PollDue
  <2>2. n \in Nat
    BY <1>0 DEF Interview!Report
  <2>3. r \in Interview!Report
    <3> HIDE DEF n
    <3> QED  BY <1>0, <2>2 DEF Interview!Report
  <2> HIDE DEF r
  <2> QED  BY <1>1, <1>3, <2>1, <2>3 DEF Interview!PollDue
<1>4. CASE Interview!RetryPolling
  <2>1. PICK r \in Interview!Report : page' = Interview!InReport(r)
    BY <1>0, <1>4 DEF Interview!RetryPolling, Interview!Stays, Interview!Report
  <2> QED  BY <1>1, <1>4, <2>1 DEF Interview!RetryPolling, Interview!Stays
<1>5. CASE Interview!ViewEvidence \/ Interview!DownloadPdf
  <2>1. PICK r \in Interview!Report : page' = Interview!InReport(r)
    BY <1>0, <1>5 DEF Interview!ViewEvidence, Interview!DownloadPdf, Interview!Report
  <2> QED  BY <1>1, <1>5, <2>1 DEF Interview!ViewEvidence, Interview!DownloadPdf, Interview!Ask
<1>6. CASE Interview!DeliverEvidence \/ Interview!DeliverPdf
  <2>1. PICK r \in Interview!Report : page' = Interview!InReport(r)
    BY <1>0, <1>6 DEF Interview!DeliverEvidence, Interview!DeliverPdf, Interview!Report
  <2> QED  BY <1>1, <1>6, <2>1 DEF Interview!DeliverEvidence, Interview!DeliverPdf, Interview!Came
<1>7. CASE Interview!LeaveReport
  <2>1. MediaFits(page.media, FALSE)
    BY <1>0, <1>7, NotInTheWizard DEF MediaFits, Interview!LeaveReport
  <2> QED  BY <1>0, <1>7, <2>1, PageGone DEF Interview!LeaveReport, Interview!OnlyPage
<1> QED  BY <1>2, <1>3, <1>4, <1>5, <1>6, <1>7

\* What the wizard shows changes, with a call that comes or goes.
LEMMA WizardShows ==
    ASSUME PagesInv, NEW s \in Interview!Setup, page' = Interview!InSetup(s), Interview!OnlyPage,
           s.step = page.setup.step, s.grants = page.setup.grants, s.loaded = page.setup.loaded,
           NEW k \in Interview!Kinds \ {"entitlement", "order"}, NEW to,
           \/ UNCHANGED net
           \/ net' = Interview!Asking(net, k, to)
           \/ \E c \in net[k] : Interview!Take(k, c)
    PROVE  PagesInv'
<1>0. page \in Interview!Page /\ server \in Interview!Server /\ CallsFit
  BY DEF PagesInv
<1>1. page' \in Interview!Page /\ SameStep /\ page'.media = page.media
  BY <1>0, InItsPlace
<1>2. CASE UNCHANGED net
  <2>1. CallsFit'
    BY <1>0, <1>1, <1>2 DEF CallsFit, SameStep
  <2> QED  BY <1>0, <1>1, <2>1, PageKept DEF Interview!OnlyPage
<1>3. CASE net' = Interview!Asking(net, k, to)
  <2>1. CallsFit'
    BY <1>0, <1>1, <1>3, PageCallSent DEF SameStep
  <2> QED  BY <1>0, <1>1, <2>1, PageKept DEF Interview!OnlyPage
<1>4. ASSUME NEW c \in net[k], Interview!Take(k, c)  PROVE PagesInv'
  <2>1. CallsFit'
    BY <1>0, <1>1, <1>4, PageCallTaken DEF SameStep
  <2> QED  BY <1>0, <1>1, <2>1, PageKept DEF Interview!OnlyPage
<1> QED  BY <1>2, <1>3, <1>4

\* What is chosen with a pack is something packs offer.
LEMMA PackOffers ==
    ASSUME NEW ch \in Interview!Choice, NEW g \in Grants
    PROVE  Interview!SelectGrant(ch, g) \in Interview!Choice
<1> DEFINE cfg == PackConfig[g]
           topic == IF ch.topic \in Interview!ToSet(cfg.topics) THEN ch.topic ELSE Interview!First(cfg.topics)
           level == IF ch.seniority \in Interview!ToSet(cfg.levels) THEN ch.seniority
                    ELSE Interview!First(cfg.levels)
<1>1. /\ cfg.topics \in Seq(Interview!Topics) /\ cfg.levels \in Seq(Interview!Levels)
      /\ cfg.behavioral \in BOOLEAN
  BY PackAssumption
<1>2. \A T, q : q \in Seq(T) => Interview!First(q) \in T \cup {Interview!None}
  BY DEF Interview!First
<1>3. topic \in Interview!Topics \cup {Interview!None} /\ level \in Interview!Levels \cup {Interview!None}
  BY <1>1, <1>2 DEF Interview!Choice
<1>4. Interview!SelectGrant(ch, g)
        = [ch EXCEPT !.grant = g, !.topic = topic, !.seniority = level,
                     !.behavioral = cfg.behavioral, !.subTopic = Interview!None]
  BY DEF Interview!SelectGrant
<1> HIDE DEF cfg, topic, level
<1> QED  BY <1>1, <1>3, <1>4 DEF Interview!Choice

LEMMA ChoiceSteps ==
    ASSUME PagesInv,
           \/ \E g \in Grants : Interview!PickGrant(g)
           \/ \E t \in Interview!Topics : Interview!PickTopic(t)
           \/ \E s \in Interview!SubTopics \cup {Interview!None} : Interview!PickSubTopic(s)
           \/ \E l \in Interview!Levels : Interview!PickSeniority(l)
           \/ Interview!SwitchBehavioral
    PROVE  PagesInv'
<1>0. page.setup \in Interview!Setup /\ page.setup.choice \in Interview!Choice
  BY DEF PagesInv, Interview!Page, Interview!Setup
<1>k. "ping" \in Interview!Kinds \ {"entitlement", "order"}
  BY DEF Interview!Kinds
\* Another choice for the same pack, topic and devices.
<1>1. ASSUME NEW ch \in Interview!Choice,
             Interview!Stays(Interview!InSetup([page.setup EXCEPT !.choice = ch]))
      PROVE  PagesInv'
  <2> DEFINE s == [page.setup EXCEPT !.choice = ch]
  <2>1. /\ s \in Interview!Setup
        /\ s.step = page.setup.step /\ s.grants = page.setup.grants /\ s.loaded = page.setup.loaded
    BY <1>0, <1>1 DEF Interview!Setup
  <2>2. page' = Interview!InSetup(s) /\ UNCHANGED net /\ Interview!OnlyPage
    BY <1>1 DEF Interview!Stays
  <2> HIDE DEF s
  <2> QED  BY <1>k, <2>1, <2>2, WizardShows
<1>2. ASSUME NEW g \in Grants, Interview!PickGrant(g)  PROVE PagesInv'
  <2>1. Interview!SelectGrant(page.setup.choice, g) \in Interview!Choice
    BY <1>0, PackOffers
  <2> QED  BY <1>1, <1>2, <2>1 DEF Interview!PickGrant
<1>3. ASSUME NEW t \in Interview!Topics, Interview!PickTopic(t)  PROVE PagesInv'
  <2> DEFINE next == [page.setup.choice EXCEPT !.topic = t]
             sub == IF next.subTopic \in Interview!SubTopicOptions(next) THEN next.subTopic ELSE Interview!None
  <2>1. next \in Interview!Choice
    BY <1>0 DEF Interview!Choice
  <2>2. Interview!SelectTopic(page.setup.choice, t) = [next EXCEPT !.subTopic = sub]
    BY DEF Interview!SelectTopic
  <2>3. sub \in Interview!SubTopics \cup {Interview!None}
    BY <2>1 DEF Interview!Choice
  <2>4. Interview!SelectTopic(page.setup.choice, t) \in Interview!Choice
    <3> HIDE DEF next, sub
    <3> QED  BY <2>1, <2>2, <2>3 DEF Interview!Choice
  <2> QED  BY <1>1, <1>3, <2>4 DEF Interview!PickTopic
<1>4. ASSUME NEW x \in Interview!SubTopics \cup {Interview!None}, Interview!PickSubTopic(x)  PROVE PagesInv'
  <2> DEFINE ch == [page.setup.choice EXCEPT !.subTopic = x]
  <2>1. ch \in Interview!Choice
    BY <1>0 DEF Interview!Choice
  <2>2. Interview!Stays(Interview!InSetup([page.setup EXCEPT !.choice = ch]))
    BY <1>4 DEF Interview!PickSubTopic
  <2> QED  BY <1>1, <2>1, <2>2
<1>5. ASSUME NEW l \in Interview!Levels, Interview!PickSeniority(l)  PROVE PagesInv'
  <2> DEFINE ch == [page.setup.choice EXCEPT !.seniority = l]
  <2>1. ch \in Interview!Choice
    BY <1>0 DEF Interview!Choice
  <2>2. Interview!Stays(Interview!InSetup([page.setup EXCEPT !.choice = ch]))
    BY <1>5 DEF Interview!PickSeniority
  <2> QED  BY <1>1, <2>1, <2>2
<1>6. CASE Interview!SwitchBehavioral
  <2> DEFINE ch == [page.setup.choice EXCEPT !.behavioral = ~page.setup.choice.behavioral]
  <2>1. ch \in Interview!Choice
    BY <1>0 DEF Interview!Choice
  <2>2. Interview!Stays(Interview!InSetup([page.setup EXCEPT !.choice = ch]))
    BY <1>6 DEF Interview!SwitchBehavioral
  <2> QED  BY <1>1, <2>1, <2>2
<1> QED  BY <1>2, <1>3, <1>4, <1>5, <1>6

LEMMA FormSteps ==
    ASSUME PagesInv,
           \/ Interview!DeliverProfile \/ Interview!UploadAnother
           \/ Interview!SaveProfile \/ Interview!DeliverSave
           \/ \E m \in {Interview!None, "file", "text"} : Interview!ChooseMaterial(m)
           \/ Interview!AckInstructions \/ Interview!OpenConsent \/ Interview!CloseConsent
           \/ Interview!ConfirmAndStart \/ Interview!DeliverHistory
    PROVE  PagesInv'
<1>0. /\ page.setup \in Interview!Setup
      /\ \A c \in net["profile"] : Interview!Ok(c) => c.ans \in BOOLEAN
  <2>1. "profile" \in Interview!Kinds
    BY DEF Interview!Kinds
  <2> QED  BY <2>1 DEF PagesInv, Interview!Page, CallsFit, AnswerFits
<1>k. {"profile", "save", "create", "history", "ping"} \subseteq Interview!Kinds \ {"entitlement", "order"}
  BY DEF Interview!Kinds
\* Another state of the form, with the wizard where it is.
<1>1. ASSUME NEW s \in Interview!Setup, page' = Interview!InSetup(s), Interview!OnlyPage,
             s.step = page.setup.step, s.grants = page.setup.grants, s.loaded = page.setup.loaded,
             NEW k \in {"profile", "save", "create", "history", "ping"},
             \/ UNCHANGED net
             \/ \E to : net' = Interview!Asking(net, k, to)
             \/ \E c \in net[k] : Interview!Take(k, c)
      PROVE  PagesInv'
  <2>1. ASSUME NEW to, net' = Interview!Asking(net, k, to)  PROVE PagesInv'
    BY <1>k, <1>1, <2>1, WizardShows
  <2>2. CASE UNCHANGED net \/ \E c \in net[k] : Interview!Take(k, c)
    BY <1>k, <1>1, <2>2, WizardShows
  <2> QED  BY <1>1, <2>1, <2>2
<1>2. CASE Interview!DeliverProfile
  <2>1. PICK c \in net["profile"] :
            /\ Interview!Take("profile", c) /\ Interview!OnlyPage
            /\ page' = Interview!InSetup([page.setup EXCEPT !.profileLoading = FALSE,
                                             !.profile = IF Interview!Ok(c) THEN c.ans ELSE FALSE])
    BY <1>2, Zenon DEF Interview!DeliverProfile, Interview!Came
  <2> DEFINE p == IF Interview!Ok(c) THEN c.ans ELSE FALSE
             s == [page.setup EXCEPT !.profileLoading = FALSE, !.profile = p]
  <2>2. p \in BOOLEAN
    BY <1>0
  <2>3. page' = Interview!InSetup(s)
    BY <2>1
  <2>4. /\ s \in Interview!Setup
        /\ s.step = page.setup.step /\ s.grants = page.setup.grants /\ s.loaded = page.setup.loaded
    <3> HIDE DEF p
    <3> QED  BY <1>0, <2>2 DEF Interview!Setup
  <2> HIDE DEF s
  <2> QED  BY <1>1, <2>1, <2>3, <2>4
<1>3. CASE Interview!UploadAnother
  <2> DEFINE s == [page.setup EXCEPT !.useUpload = ~page.setup.useUpload]
  <2>1. /\ s \in Interview!Setup
        /\ s.step = page.setup.step /\ s.grants = page.setup.grants /\ s.loaded = page.setup.loaded
    BY <1>0 DEF Interview!Setup
  <2>2. page' = Interview!InSetup(s) /\ UNCHANGED net /\ Interview!OnlyPage
    BY <1>3 DEF Interview!UploadAnother, Interview!Stays
  <2> HIDE DEF s
  <2> QED  BY <1>1, <2>1, <2>2
<1>4. CASE Interview!SaveProfile
  <2> DEFINE s == [page.setup EXCEPT !.saving = TRUE]
  <2>1. /\ s \in Interview!Setup
        /\ s.step = page.setup.step /\ s.grants = page.setup.grants /\ s.loaded = page.setup.loaded
    BY <1>0 DEF Interview!Setup
  <2>2. page' = Interview!InSetup(s) /\ Interview!OnlyPage /\ \E to : net' = Interview!Asking(net, "save", to)
    BY <1>4 DEF Interview!SaveProfile, Interview!Ask
  <2> HIDE DEF s
  <2> QED  BY <1>1, <2>1, <2>2
<1>5. CASE Interview!DeliverSave
  <2>1. PICK c \in net["save"] :
            /\ Interview!Take("save", c) /\ Interview!OnlyPage
            /\ page' = Interview!InSetup(IF Interview!Ok(c)
                          THEN [page.setup EXCEPT !.saving = FALSE, !.profile = TRUE, !.useUpload = FALSE]
                          ELSE [page.setup EXCEPT !.saving = FALSE])
    BY <1>5 DEF Interview!DeliverSave, Interview!Came
  <2>2. PICK s \in Interview!Setup :
            /\ page' = Interview!InSetup(s)
            /\ s.step = page.setup.step /\ s.grants = page.setup.grants /\ s.loaded = page.setup.loaded
    <3>1. CASE Interview!Ok(c)
      <4> DEFINE s == [page.setup EXCEPT !.saving = FALSE, !.profile = TRUE, !.useUpload = FALSE]
      <4>1. /\ s \in Interview!Setup
            /\ s.step = page.setup.step /\ s.grants = page.setup.grants /\ s.loaded = page.setup.loaded
        BY <1>0 DEF Interview!Setup
      <4>2. page' = Interview!InSetup(s)
        BY <2>1, <3>1
      <4> HIDE DEF s
      <4> QED  BY <4>1, <4>2
    <3>2. CASE ~Interview!Ok(c)
      <4> DEFINE s == [page.setup EXCEPT !.saving = FALSE]
      <4>1. /\ s \in Interview!Setup
            /\ s.step = page.setup.step /\ s.grants = page.setup.grants /\ s.loaded = page.setup.loaded
        BY <1>0 DEF Interview!Setup
      <4>2. page' = Interview!InSetup(s)
        BY <2>1, <3>2
      <4> HIDE DEF s
      <4> QED  BY <4>1, <4>2
    <3> QED  BY <3>1, <3>2
  <2> QED  BY <1>1, <2>1, <2>2
<1>6. ASSUME NEW m \in {Interview!None, "file", "text"}, Interview!ChooseMaterial(m)  PROVE PagesInv'
  <2> DEFINE s == [page.setup EXCEPT !.material = m]
  <2>1. /\ s \in Interview!Setup
        /\ s.step = page.setup.step /\ s.grants = page.setup.grants /\ s.loaded = page.setup.loaded
    BY <1>0 DEF Interview!Setup
  <2>2. page' = Interview!InSetup(s) /\ UNCHANGED net /\ Interview!OnlyPage
    BY <1>6 DEF Interview!ChooseMaterial, Interview!Stays
  <2> HIDE DEF s
  <2> QED  BY <1>1, <2>1, <2>2
<1>7. CASE Interview!AckInstructions
  <2> DEFINE s == [page.setup EXCEPT !.instructionsAck = ~page.setup.instructionsAck]
  <2>1. /\ s \in Interview!Setup
        /\ s.step = page.setup.step /\ s.grants = page.setup.grants /\ s.loaded = page.setup.loaded
    BY <1>0 DEF Interview!Setup
  <2>2. page' = Interview!InSetup(s) /\ UNCHANGED net /\ Interview!OnlyPage
    BY <1>7 DEF Interview!AckInstructions, Interview!Stays
  <2> HIDE DEF s
  <2> QED  BY <1>1, <2>1, <2>2
<1>8. ASSUME NEW o \in BOOLEAN, Interview!Stays(Interview!InSetup([page.setup EXCEPT !.consentOpen = o]))
      PROVE  PagesInv'
  <2> DEFINE s == [page.setup EXCEPT !.consentOpen = o]
  <2>1. /\ s \in Interview!Setup
        /\ s.step = page.setup.step /\ s.grants = page.setup.grants /\ s.loaded = page.setup.loaded
    BY <1>0 DEF Interview!Setup
  <2>2. page' = Interview!InSetup(s) /\ UNCHANGED net /\ Interview!OnlyPage
    BY <1>8 DEF Interview!Stays
  <2> HIDE DEF s
  <2> QED  BY <1>1, <2>1, <2>2
<1>9. CASE Interview!OpenConsent \/ Interview!CloseConsent
  BY <1>8, <1>9 DEF Interview!OpenConsent, Interview!CloseConsent
<1>10. CASE Interview!ConfirmAndStart
  <2> DEFINE s == [page.setup EXCEPT !.creating = TRUE, !.consentOpen = FALSE]
  <2>1. /\ s \in Interview!Setup
        /\ s.step = page.setup.step /\ s.grants = page.setup.grants /\ s.loaded = page.setup.loaded
    BY <1>0 DEF Interview!Setup
  <2>2. page' = Interview!InSetup(s) /\ Interview!OnlyPage
    BY <1>10 DEF Interview!ConfirmAndStart
  <2>3. \E to : net' = Interview!Asking(net, "create", to)
    BY <1>10 DEF Interview!ConfirmAndStart, Interview!Ask
  <2> HIDE DEF s
  <2> QED  BY <1>1, <2>1, <2>2, <2>3
<1>11. CASE Interview!DeliverHistory
  <2>1. PICK c \in net["history"] :
            /\ Interview!Take("history", c) /\ Interview!OnlyPage
            /\ page' = Interview!InSetup([page.setup EXCEPT !.creating = FALSE,
                                              !.offered = Interview!Heard(c) = Interview!ACTIVE])
    BY <1>11, Zenon DEF Interview!DeliverHistory, Interview!Came
  <2> DEFINE o == (Interview!Heard(c) = Interview!ACTIVE)
             s == [page.setup EXCEPT !.creating = FALSE, !.offered = o]
  <2>2. page' = Interview!InSetup(s) /\ o \in BOOLEAN
    BY <2>1
  <2>3. /\ s \in Interview!Setup
        /\ s.step = page.setup.step /\ s.grants = page.setup.grants /\ s.loaded = page.setup.loaded
    <3> HIDE DEF o
    <3> QED  BY <1>0, <2>2 DEF Interview!Setup
  <2> HIDE DEF s
  <2> QED  BY <1>1, <2>1, <2>2, <2>3
<1> QED  BY <1>2, <1>3, <1>4, <1>5, <1>6, <1>7, <1>9, <1>10, <1>11

\* The grants come, and the wizard begins with its first step.
LEMMA EntitlementStep == ASSUME PagesInv, Interview!DeliverEntitlement  PROVE PagesInv'
<1>0. /\ page \in Interview!Page /\ page.setup \in Interview!Setup /\ server \in Interview!Server
      /\ CallsFit /\ StepFits /\ MediaFits(page.media, Checking)
  BY DEF PagesInv, Interview!Page
<1>k. "entitlement" \in Interview!Kinds
  BY DEF Interview!Kinds
<1>1. PICK c \in net["entitlement"] :
         LET listed == IF Interview!Ok(c) THEN c.ans ELSE {}
             owned  == IF listed = {} /\ Interview!Ok(c) /\ Interview!Admin
                       THEN {CHOOSE g \in Grants : TRUE} ELSE listed
             s      == [page.setup EXCEPT !.loaded = TRUE, !.grants = owned]
         IN  /\ IF owned = {} THEN Interview!Goes(page, "home")
                ELSE /\ Interview!Take("entitlement", c)
                     /\ page' = Interview!InSetup(
                          IF Interview!Cardinality(owned) = 1
                          THEN [s EXCEPT !.choice = Interview!SelectGrant(@, CHOOSE g \in owned : TRUE)]
                          ELSE s)
             /\ Interview!OnlyPage
  BY Zenon DEF Interview!DeliverEntitlement, Interview!Came
<1> DEFINE listed == IF Interview!Ok(c) THEN c.ans ELSE {}
           owned  == IF listed = {} /\ Interview!Ok(c) /\ Interview!Admin
                     THEN {CHOOSE g \in Grants : TRUE} ELSE listed
           one    == IF Interview!Cardinality(owned) = 1
                     THEN Interview!SelectGrant(page.setup.choice, CHOOSE g \in owned : TRUE)
                     ELSE page.setup.choice
           s      == [page.setup EXCEPT !.loaded = TRUE, !.grants = owned, !.choice = one]
<1>2. server' = server /\ page.at = "setup" /\ ~page.setup.loaded /\ page.setup.step = 1 /\ ~Checking
  BY <1>0, <1>1, NotInTheWizard DEF Interview!OnlyPage, CallsFit, StepFits
<1>3. owned \in SUBSET Grants
  <2>1. listed \in SUBSET Grants
    BY <1>0, <1>k DEF CallsFit, AnswerFits
  <2>2. (CHOOSE g \in Grants : TRUE) \in Grants
    BY PackAssumption
  <2> QED  BY <2>1, <2>2
<1>4. CASE owned = {}
  <2>1. Interview!Goes(page, "home")
    BY <1>1, <1>4
  <2>2. MediaFits(page.media, FALSE)
    BY <1>0, <1>2 DEF MediaFits
  <2> QED  BY <1>0, <1>2, <2>1, <2>2, PageGone
<1>5. CASE owned # {}
  <2>1. one \in Interview!Choice
    <3>1. (CHOOSE g \in owned : TRUE) \in Grants
      BY <1>3, <1>5
    <3>2. page.setup.choice \in Interview!Choice
      BY <1>0 DEF Interview!Setup
    <3> HIDE DEF owned
    <3> QED  BY <3>1, <3>2, PackOffers
  <2>2. Interview!Take("entitlement", c) /\ page' = Interview!InSetup(s)
    BY <1>0, <1>1, <1>5 DEF Interview!Setup
  <2>3. s \in Interview!Setup /\ s.step = 1 /\ s.loaded
    <3> HIDE DEF owned, one
    <3> QED  BY <1>0, <1>2, <1>3, <2>1 DEF Interview!Setup
  <2> HIDE DEF s
  <2>4. page' \in Interview!Page /\ page'.at = page.at /\ page'.setup = s /\ page'.media = page.media
    BY <1>0, <2>2, <2>3 DEF Interview!InSetup, Interview!Page
  <2>5. StepFits' /\ ~Checking'
    <3> DEFINE q == Interview!Steps'
    <3>1. \/ q = <<"Pack", "Topic", "Resume", "System check", "Instructions">>
          \/ q = <<"Topic", "Resume", "System check", "Instructions">>
      BY Zenon DEF Interview!Steps
    <3>2. 1 \in 1 .. Len(q) /\ q[1] # "System check"
      <4> HIDE DEF q
      <4> QED  BY <3>1, StepNames, Zenon
    <3>3. ~Checking'
      BY <2>3, <2>4, <3>2, Zenon DEF Checking, Interview!StepName, Interview!None
    <3>4. page'.setup.step \in 1 .. Len(q) /\ page'.setup.loaded
      BY <2>3, <2>4, <3>2, Zenon
    <3> QED  BY <3>3, <3>4 DEF StepFits
  <2>6. CallsFit'
    BY <1>0, <1>k, <2>2, <2>4, PageCallTaken
  <2> QED  BY <1>0, <1>2, <2>4, <2>5, <2>6 DEF PagesInv, MediaFits
<1> QED  BY <1>4, <1>5

\* Next and Back; the devices come and go with the step.
LEMMA MoveSteps == ASSUME PagesInv, Interview!NextStep \/ Interview!BackStep  PROVE PagesInv'
<1>0. /\ page \in Interview!Page /\ page.setup \in Interview!Setup /\ page.media \in Interview!Media
      /\ server \in Interview!Server /\ CallsFit /\ StepFits /\ MediaFits(page.media, Checking)
  BY DEF PagesInv, Interview!Page
<1> DEFINE here == page.setup.step
           len == Len(Interview!Steps)
<1>1. here \in 1 .. len /\ len \in Nat
  <2>1. \/ Interview!Steps = <<"Pack", "Topic", "Resume", "System check", "Instructions">>
        \/ Interview!Steps = <<"Topic", "Resume", "System check", "Instructions">>
    BY Zenon DEF Interview!Steps
  <2> QED  BY <1>0, <2>1, StepNames, Zenon DEF StepFits
<1>2. \/ Interview!NextStep /\ here < len /\ Interview!ToStep(here + 1)
      \/ Interview!BackStep /\ here > 1 /\ Interview!ToStep(here - 1)
  BY DEF Interview!NextStep, Interview!BackStep
<1> HIDE DEF here, len
<1>3. PICK n \in 1 .. len : Interview!ToStep(n)
  BY <1>1, <1>2
<1> USE DEF here, len
<1>4. page.at = "setup" /\ page.setup.loaded
  BY <1>2 DEF Interview!NextStep, Interview!BackStep, Interview!SetupShown
<1> DEFINE was == Interview!StepName(page.setup.step)
           is == Interview!StepName(n)
           m == Interview!MediaFor(page.media, was, is)
<1>5. m \in Interview!Media /\ MediaFits(m, is = "System check")
  BY <1>0, DevicesFollow, Zenon DEF Checking
<1>6. /\ page' = [page EXCEPT !.setup.step = n, !.media = m]
      /\ net' = IF is = "System check" THEN Interview!Asking(net, "ping", Interview!None) ELSE net
      /\ Interview!OnlyPage
  BY <1>3, Zenon DEF Interview!ToStep
<1> HIDE DEF m, was, is
<1>7. /\ page' \in Interview!Page /\ page'.at = page.at /\ page'.media = m
      /\ page'.setup.step = n /\ page'.setup.grants = page.setup.grants
      /\ page'.setup.loaded = page.setup.loaded
  <2>1. n \in Nat
    BY <1>1
  <2> DEFINE s == [page.setup EXCEPT !.step = n]
  <2>2. s \in Interview!Setup /\ s.step = n /\ s.grants = page.setup.grants /\ s.loaded = page.setup.loaded
    BY <1>0, <2>1 DEF Interview!Setup
  <2>3. page' = [page EXCEPT !.setup = s, !.media = m]
    BY <1>6, Zenon
  <2> HIDE DEF s
  <2> QED  BY <1>0, <1>5, <2>2, <2>3, Zenon DEF Interview!Page
<1>8. Interview!Steps' = Interview!Steps
  BY <1>7 DEF Interview!Steps
<1>9. StepFits'
  BY <1>3, <1>4, <1>7, <1>8 DEF StepFits
<1>10. Checking' <=> is = "System check"
  BY <1>7, <1>8 DEF Checking, is, Interview!StepName
<1>11. CallsFit'
  <2>1. CASE is = "System check"
    <3>1. "ping" \in Interview!Kinds \ {"entitlement"}
      BY DEF Interview!Kinds
    <3> QED  BY <1>0, <1>6, <1>7, <2>1, <3>1, PageCallSent, Zenon
  <2>2. CASE is # "System check"
    BY <1>0, <1>6, <1>7, <2>2, Zenon DEF CallsFit
  <2> QED  BY <2>1, <2>2, Zenon
<1> QED  BY <1>0, <1>5, <1>6, <1>7, <1>9, <1>10, <1>11, Zenon DEF PagesInv, MediaFits, Interview!OnlyPage

\* The wizard is left, with what becomes of the devices then.
LEMMA LeaveSteps ==
    ASSUME PagesInv, Interview!LeaveSetup \/ Interview!TakeOffer
    PROVE  PagesInv'
<1>0. /\ page \in Interview!Page /\ page.media \in Interview!Media /\ server \in Interview!Server
      /\ MediaFits(page.media, Checking)
  BY DEF PagesInv, Interview!Page
<1> DEFINE m == Interview!MediaFor(page.media, Interview!StepName(page.setup.step), Interview!None)
           p == [page EXCEPT !.media = m]
<1>1. m \in Interview!Media /\ MediaFits(m, FALSE)
  <2>1. Interview!None # "System check"
    BY DEF Interview!None
  <2> QED  BY <1>0, <2>1, DevicesFollow, Zenon DEF Checking
<1>2. \E at \in {"home", "room"} : Interview!Goes(p, at)
  BY DEF Interview!LeaveSetup, Interview!TakeOffer
<1>3. server' = server
  BY DEF Interview!LeaveSetup, Interview!TakeOffer, Interview!OnlyPage
<1> HIDE DEF m
<1>4. p \in Interview!Page /\ p.media = m
  BY <1>0, <1>1 DEF Interview!Page
<1> HIDE DEF p
<1> QED  BY <1>0, <1>1, <1>2, <1>3, <1>4, PageGone

LEMMA CreateStep == ASSUME PagesInv, Interview!DeliverCreate  PROVE PagesInv'
<1>0. /\ page \in Interview!Page /\ page.media \in Interview!Media /\ page.setup \in Interview!Setup
      /\ server \in Interview!Server /\ CallsFit /\ MediaFits(page.media, Checking)
  BY DEF PagesInv, Interview!Page
<1>k. {"create", "history"} \subseteq Interview!Kinds \ {"entitlement", "order"}
  BY DEF Interview!Kinds
<1> DEFINE m == Interview!MediaFor(page.media, Interview!StepName(page.setup.step), Interview!None)
           p == [page EXCEPT !.media = m]
<1>1. Interview!OnlyPage /\ server' = server
  BY DEF Interview!DeliverCreate, Interview!OnlyPage
<1>2. PICK c \in net["create"] :
         \/ Interview!Take("create", c) /\ UNCHANGED page
         \/ Interview!Goes(p, "room")
         \/ /\ net' = Interview!Asking(Interview!Without(net, "create", c), "history", Interview!None)
            /\ page' = Interview!InSetup([page.setup EXCEPT !.consentOpen = FALSE])
         \/ /\ Interview!Take("create", c)
            /\ page' = Interview!InSetup([page.setup EXCEPT !.consentOpen = FALSE, !.creating = FALSE])
  BY DEF Interview!DeliverCreate, Interview!Came
<1>3. CASE Interview!Take("create", c) /\ UNCHANGED page
  <2>1. CallsFit'
    BY <1>0, <1>k, <1>3, PageCallTaken
  <2>2. SameStep
    BY <1>3 DEF SameStep
  <2> QED  BY <1>0, <1>1, <1>3, <2>1, <2>2, PageKept
<1>4. CASE Interview!Goes(p, "room")
  <2>1. m \in Interview!Media /\ MediaFits(m, FALSE)
    <3>1. Interview!None # "System check"
      BY DEF Interview!None
    <3> QED  BY <1>0, <3>1, DevicesFollow, Zenon DEF Checking
  <2> HIDE DEF m
  <2>2. p \in Interview!Page /\ p.media = m
    BY <1>0, <2>1 DEF Interview!Page
  <2> HIDE DEF p
  <2> QED  BY <1>0, <1>1, <1>4, <2>1, <2>2, PageGone
\* A conflict: the sessions are asked for.
<1>5. CASE /\ net' = Interview!Asking(Interview!Without(net, "create", c), "history", Interview!None)
           /\ page' = Interview!InSetup([page.setup EXCEPT !.consentOpen = FALSE])
  <2> DEFINE s == [page.setup EXCEPT !.consentOpen = FALSE]
  <2>1. /\ s \in Interview!Setup
        /\ s.step = page.setup.step /\ s.grants = page.setup.grants /\ s.loaded = page.setup.loaded
    BY <1>0 DEF Interview!Setup
  <2>2. page' = Interview!InSetup(s)
    BY <1>5
  <2> HIDE DEF s
  <2>3. page' \in Interview!Page /\ SameStep /\ page'.media = page.media
    BY <1>0, <2>1, <2>2, InItsPlace
  <2> DEFINE sent == Interview!Sent(Interview!None)
  <2>4. /\ DOMAIN net' = Interview!Kinds
        /\ \A j \in Interview!Kinds : net'[j] \subseteq net[j] \cup (IF j = "history" THEN {sent} ELSE {})
    BY <1>0, <1>5 DEF CallsFit, Interview!Asking, Interview!Without
  <2>5. \A j \in Interview!Kinds : AnswerFits(j, sent)
    BY DEF AnswerFits, Interview!Ok, Interview!Sent
  <2> HIDE DEF sent
  <2>6. \A j \in Interview!Kinds : \A d \in net'[j] : AnswerFits(j, d)
    BY <1>0, <2>4, <2>5 DEF CallsFit
  <2>7. {"entitlement", "order"} \subseteq Interview!Kinds \ {"history"}
    BY DEF Interview!Kinds
  <2>8. net'["entitlement"] \subseteq net["entitlement"] /\ net'["order"] \subseteq net["order"]
    BY <2>4, <2>7
  <2>9. CallsFit'
    BY <1>0, <2>3, <2>4, <2>6, <2>8 DEF CallsFit, SameStep
  <2> QED  BY <1>0, <1>1, <2>3, <2>9, PageKept
<1>6. CASE /\ Interview!Take("create", c)
           /\ page' = Interview!InSetup([page.setup EXCEPT !.consentOpen = FALSE, !.creating = FALSE])
  <2> DEFINE s == [page.setup EXCEPT !.consentOpen = FALSE, !.creating = FALSE]
  <2>1. /\ s \in Interview!Setup
        /\ s.step = page.setup.step /\ s.grants = page.setup.grants /\ s.loaded = page.setup.loaded
    BY <1>0 DEF Interview!Setup
  <2>2. page' = Interview!InSetup(s)
    BY <1>6
  <2> HIDE DEF s
  <2> QED  BY <1>1, <1>k, <1>6, <2>1, <2>2, WizardShows
<1> QED  BY <1>2, <1>3, <1>4, <1>5, <1>6

LEMMA DeviceSteps ==
    ASSUME PagesInv,
           \/ Interview!MediaGranted \/ Interview!MediaRefused \/ Interview!MicHeard
           \/ Interview!DeviceSwitched \/ Interview!DeviceRefused
           \/ \E d \in Interview!Devices : Interview!SwitchDevice(d)
           \/ Interview!NetworkCheck \/ Interview!DeliverPing
    PROVE  PagesInv'
<1>0. /\ page \in Interview!Page /\ page.media \in Interview!Media /\ server \in Interview!Server
      /\ CallsFit /\ MediaFits(page.media, Checking)
  BY DEF PagesInv, Interview!Page
<1>k. "ping" \in Interview!Kinds \ {"entitlement", "order"}
  BY DEF Interview!Kinds
\* The devices change, with a ping that goes out or comes back.
<1>1. ASSUME NEW m \in Interview!Media, page' = Interview!InMedia(m), Interview!OnlyPage,
             MediaFits(m, Checking),
             \/ UNCHANGED net
             \/ net' = Interview!Asking(net, "ping", Interview!None)
             \/ \E c \in net["ping"] : Interview!Take("ping", c)
      PROVE  PagesInv'
  <2>1. page' \in Interview!Page /\ SameStep /\ page'.media = m
    BY <1>0, <1>1, InItsPlace
  <2>2. CASE UNCHANGED net
    <3>1. CallsFit'
      BY <1>0, <2>1, <2>2 DEF CallsFit, SameStep
    <3> QED  BY <1>0, <1>1, <2>1, <3>1, DevicesKept DEF Interview!OnlyPage
  <2>3. CASE net' = Interview!Asking(net, "ping", Interview!None)
    <3>1. CallsFit'
      BY <1>0, <1>k, <2>1, <2>3, PageCallSent DEF SameStep
    <3> QED  BY <1>0, <1>1, <2>1, <3>1, DevicesKept DEF Interview!OnlyPage
  <2>4. ASSUME NEW c \in net["ping"], Interview!Take("ping", c)  PROVE PagesInv'
    <3>1. CallsFit'
      BY <1>0, <1>k, <2>1, <2>4, PageCallTaken DEF SameStep
    <3> QED  BY <1>0, <1>1, <2>1, <3>1, DevicesKept DEF Interview!OnlyPage
  <2> QED  BY <1>1, <2>2, <2>3, <2>4
\* The stream that was asked for comes: to the step that is shown, or to be stopped.
<1>2. CASE Interview!MediaGranted
  <2>1. PICK a \in page.media.asking :
            Interview!Stays(Interview!InMedia([page.media EXCEPT !.asking = @ \ {a},
                !.stream = IF a = "here" THEN TRUE ELSE @,
                !.orphan = IF a = "here" THEN @ \cup page.media.lit ELSE @,
                !.lit = IF a = "here" THEN Interview!Devices ELSE @]))
    BY <1>2, Zenon DEF Interview!MediaGranted
  <2>2. CASE a = "here"
    <3> DEFINE m == [page.media EXCEPT !.asking = page.media.asking \ {"here"}, !.stream = TRUE,
                                       !.orphan = page.media.orphan \cup page.media.lit,
                                       !.lit = Interview!Devices]
    <3>1. page' = Interview!InMedia(m) /\ UNCHANGED net /\ Interview!OnlyPage
      BY <2>1, <2>2 DEF Interview!Stays
    <3>2. m \in Interview!Media
      BY <1>0 DEF Interview!Media
    <3>3. MediaFits(m, Checking)
      BY <1>0, <2>2 DEF MediaFits, Interview!Media
    <3> HIDE DEF m
    <3> QED  BY <1>1, <3>1, <3>2, <3>3
  <2>3. CASE a # "here"
    <3> DEFINE m == [page.media EXCEPT !.asking = page.media.asking \ {a}]
    <3>1. page' = Interview!InMedia(m) /\ UNCHANGED net /\ Interview!OnlyPage
      BY <1>0, <2>1, <2>3 DEF Interview!Stays, Interview!Media
    <3>2. m \in Interview!Media
      BY <1>0 DEF Interview!Media
    <3>3. MediaFits(m, Checking)
      BY <1>0, <2>3 DEF MediaFits, Interview!Media
    <3> HIDE DEF m
    <3> QED  BY <1>1, <3>1, <3>2, <3>3
  <2> QED  BY <2>2, <2>3
<1>3. CASE Interview!MediaRefused
  <2>1. PICK a \in page.media.asking :
            Interview!Stays(Interview!InMedia([page.media EXCEPT !.asking = @ \ {a}, !.camError = TRUE]))
    BY <1>3, Zenon DEF Interview!MediaRefused
  <2> DEFINE m == [page.media EXCEPT !.asking = page.media.asking \ {a}, !.camError = TRUE]
  <2>2. page' = Interview!InMedia(m) /\ UNCHANGED net /\ Interview!OnlyPage
    BY <2>1 DEF Interview!Stays
  <2>3. m \in Interview!Media
    BY <1>0 DEF Interview!Media
  <2>4. MediaFits(m, Checking)
    BY <1>0 DEF MediaFits, Interview!Media
  <2> HIDE DEF m
  <2> QED  BY <1>1, <2>2, <2>3, <2>4
<1>4. CASE Interview!MicHeard
  <2> DEFINE m == [page.media EXCEPT !.micOk = TRUE]
  <2>1. page' = Interview!InMedia(m) /\ UNCHANGED net /\ Interview!OnlyPage
    BY <1>4 DEF Interview!MicHeard, Interview!Stays
  <2>2. m \in Interview!Media
    BY <1>0 DEF Interview!Media
  <2>3. MediaFits(m, Checking)
    BY <1>0 DEF MediaFits, Interview!Media
  <2> HIDE DEF m
  <2> QED  BY <1>1, <2>1, <2>2, <2>3
<1>5. ASSUME NEW d \in Interview!Devices, Interview!SwitchDevice(d)  PROVE PagesInv'
  <2> DEFINE m == [page.media EXCEPT !.switching = d]
  <2>1. page' = Interview!InMedia(m) /\ UNCHANGED net /\ Interview!OnlyPage /\ page.media.stream
    BY <1>5, Zenon DEF Interview!SwitchDevice, Interview!Stays
  <2>2. m \in Interview!Media
    BY <1>0 DEF Interview!Media
  <2>3. MediaFits(m, Checking)
    BY <1>0, <2>1 DEF MediaFits, Interview!Media
  <2> HIDE DEF m
  <2> QED  BY <1>1, <2>1, <2>2, <2>3
\* The new track joins the stream, or, where there is none any more, is nobody's.
<1>6. CASE Interview!DeviceSwitched
  <2> DEFINE d == page.media.switching
  <2>0. d \in Interview!Devices
    BY <1>0, <1>6 DEF Interview!DeviceSwitched, Interview!Media
  <2>1. CASE page.media.stream
    <3> DEFINE ok == IF d = "mic" THEN FALSE ELSE page.media.micOk
               m == [page.media EXCEPT !.switching = Interview!None, !.lit = page.media.lit \cup {d},
                                       !.micOk = ok]
    <3>1. page' = Interview!InMedia(m) /\ UNCHANGED net /\ Interview!OnlyPage
      BY <1>6, <2>1 DEF Interview!DeviceSwitched, Interview!Stays
    <3>2. ok \in BOOLEAN
      BY <1>0 DEF Interview!Media
    <3> HIDE DEF ok
    <3>3. m \in Interview!Media
      BY <1>0, <2>0, <3>2 DEF Interview!Media
    <3>4. MediaFits(m, Checking)
      BY <1>0, <2>1 DEF MediaFits, Interview!Media, Interview!None
    <3> HIDE DEF m
    <3> QED  BY <1>1, <3>1, <3>3, <3>4
  <2>2. CASE ~page.media.stream
    <3> DEFINE m == [page.media EXCEPT !.switching = Interview!None,
                                       !.orphan = page.media.orphan \cup {d}]
    <3>1. page' = Interview!InMedia(m) /\ UNCHANGED net /\ Interview!OnlyPage
      BY <1>6, <2>2 DEF Interview!DeviceSwitched, Interview!Stays
    <3>2. m \in Interview!Media
      BY <1>0, <2>0 DEF Interview!Media
    <3>3. d # "none"
      BY <2>0 DEF Interview!Devices
    <3>4. MediaFits(m, Checking)
      BY <1>0, <2>2, <3>3 DEF MediaFits, Interview!Media, Interview!None
    <3> HIDE DEF m
    <3> QED  BY <1>1, <3>1, <3>2, <3>4
  <2> QED  BY <2>1, <2>2
<1>7. CASE Interview!DeviceRefused
  <2> DEFINE m == [page.media EXCEPT !.switching = Interview!None]
  <2>1. page' = Interview!InMedia(m) /\ UNCHANGED net /\ Interview!OnlyPage
    BY <1>7 DEF Interview!DeviceRefused, Interview!Stays
  <2>2. m \in Interview!Media
    BY <1>0 DEF Interview!Media
  <2>3. MediaFits(m, Checking)
    BY <1>0 DEF MediaFits, Interview!Media, Interview!None
  <2> HIDE DEF m
  <2> QED  BY <1>1, <2>1, <2>2, <2>3
<1>8. ASSUME NEW v \in {"checking", "good", "slow", "down"},
             page' = Interview!InMedia([page.media EXCEPT !.netStatus = v]), Interview!OnlyPage,
             \/ net' = Interview!Asking(net, "ping", Interview!None)
             \/ \E c \in net["ping"] : Interview!Take("ping", c)
      PROVE  PagesInv'
  <2> DEFINE m == [page.media EXCEPT !.netStatus = v]
  <2>1. m \in Interview!Media /\ page' = Interview!InMedia(m)
    BY <1>0, <1>8 DEF Interview!Media
  <2>2. MediaFits(m, Checking)
    BY <1>0 DEF MediaFits, Interview!Media
  <2> HIDE DEF m
  <2> QED  BY <1>1, <1>8, <2>1, <2>2
<1>9. CASE Interview!NetworkCheck
  BY <1>8, <1>9, Zenon DEF Interview!NetworkCheck, Interview!Ask
<1>10. CASE Interview!DeliverPing
  <2>1. PICK c \in net["ping"] :
            /\ Interview!Take("ping", c) /\ Interview!OnlyPage
            /\ page' = Interview!InMedia([page.media EXCEPT !.netStatus =
                                              IF Interview!Ok(c) THEN c.ans ELSE "down"])
    BY <1>10 DEF Interview!DeliverPing, Interview!Came
  <2> DEFINE v == IF Interview!Ok(c) THEN c.ans ELSE "down"
  <2>2. v \in {"checking", "good", "slow", "down"}
    BY <1>0, <1>k DEF CallsFit, AnswerFits
  <2>3. page' = Interview!InMedia([page.media EXCEPT !.netStatus = v])
    BY <2>1
  <2> HIDE DEF v
  <2> QED  BY <1>8, <2>1, <2>2, <2>3
<1> QED  BY <1>2, <1>3, <1>4, <1>5, <1>6, <1>7, <1>9, <1>10

\* The server answers or refuses; a call or its answer is lost.
LEMMA ServerSteps ==
    ASSUME PagesInv,
           \/ Interview!ServeReads \/ Interview!ServeCreate
           \/ Interview!Elsewhere \/ Interview!Lose
    PROVE  PagesInv'
<1>0. /\ page \in Interview!Page /\ server \in Interview!Server /\ CallsFit
      /\ server.left \in Nat /\ server.session \in {Interview!None, Interview!ACTIVE, "ended"}
      /\ server.report \in {"pending", "ready", "no_data", "failed"}
  BY DEF PagesInv, Interview!Server
<1>1. ASSUME server' \in Interview!Server, UNCHANGED page, CallsFit'  PROVE PagesInv'
  BY <1>0, <1>1, PageKept DEF SameStep
<1>2. ASSUME NEW k \in Interview!Kinds, NEW c \in net[k], NEW v,
             AnswerFits(k, [to |-> c.to, phase |-> "answered", ans |-> v]),
             Interview!Answer(k, c, v), UNCHANGED page, server' \in Interview!Server
      PROVE  PagesInv'
  <2> DEFINE q == [to |-> c.to, phase |-> "answered", ans |-> v]
  <2>1. net' = [net EXCEPT ![k] = (@ \ {c}) \cup {q}]
    BY <1>2 DEF Interview!Answer
  <2> HIDE DEF q
  <2>2. AnswerFits(k, q)
    BY <1>2 DEF q
  <2>3. CallsFit'
    BY <1>0, <1>2, <2>1, <2>2, PageCallMoved
  <2> QED  BY <1>1, <1>2, <2>3
<1>3. ASSUME NEW k \in Interview!Kinds, NEW c \in net[k],
             Interview!Refuse(k, c), UNCHANGED page, server' \in Interview!Server
      PROVE  PagesInv'
  <2> DEFINE q == [to |-> c.to, phase |-> "failed"]
  <2>1. net' = [net EXCEPT ![k] = (@ \ {c}) \cup {q}]
    BY <1>3 DEF Interview!Refuse
  <2>2. AnswerFits(k, q)
    BY DEF AnswerFits, Interview!Ok
  <2> HIDE DEF q
  <2>3. CallsFit'
    BY <1>0, <1>3, <2>1, <2>2, PageCallMoved
  <2> QED  BY <1>1, <1>3, <2>3
<1>4. CASE Interview!ServeReads
  <2>0. UNCHANGED page /\ server' \in Interview!Server
    BY <1>0, <1>4 DEF Interview!ServeReads, Interview!OnlyNet
  \* Any of these calls may be answered with what it does not matter, or refused.
  <2>1. ASSUME NEW k \in {"packs", "evidence", "pdf", "order", "save", "history"}, NEW c \in net[k], NEW v,
               Interview!Answer(k, c, v) \/ Interview!Refuse(k, c)
        PROVE  PagesInv'
    <3>1. k \in Interview!Kinds
      BY DEF Interview!Kinds
    <3>2. AnswerFits(k, [to |-> c.to, phase |-> "answered", ans |-> v])
      BY DEF AnswerFits
    <3>3. c \in net[k]
      BY <2>1
    <3> QED  BY <1>2, <1>3, <2>0, <2>1, <3>1, <3>2, <3>3
  <2>2. ASSUME NEW c \in net["home"], Interview!Answer("home", c, server)  PROVE PagesInv'
    <3>1. AnswerFits("home", [to |-> c.to, phase |-> "answered", ans |-> server])
      BY <1>0 DEF AnswerFits
    <3>2. "home" \in Interview!Kinds
      BY DEF Interview!Kinds
    <3> QED  BY <1>2, <2>0, <2>2, <3>1, <3>2
  <2>3. ASSUME NEW c \in net["entitlement"], NEW gs \in SUBSET Grants,
               Interview!Answer("entitlement", c, gs)
        PROVE  PagesInv'
    <3>1. AnswerFits("entitlement", [to |-> c.to, phase |-> "answered", ans |-> gs])
      BY DEF AnswerFits
    <3>2. "entitlement" \in Interview!Kinds
      BY DEF Interview!Kinds
    <3> QED  BY <1>2, <2>0, <2>3, <3>1, <3>2
  <2>4. ASSUME NEW c \in net["profile"], NEW b \in BOOLEAN, Interview!Answer("profile", c, b)  PROVE PagesInv'
    <3>1. AnswerFits("profile", [to |-> c.to, phase |-> "answered", ans |-> b])
      BY DEF AnswerFits
    <3>2. "profile" \in Interview!Kinds
      BY DEF Interview!Kinds
    <3> QED  BY <1>2, <2>0, <2>4, <3>1, <3>2
  <2>5. ASSUME NEW c \in net["ping"], NEW v \in {"good", "slow"},
               Interview!Answer("ping", c, v) \/ Interview!Refuse("ping", c)
        PROVE  PagesInv'
    <3>1. AnswerFits("ping", [to |-> c.to, phase |-> "answered", ans |-> v])
      BY DEF AnswerFits
    <3>2. "ping" \in Interview!Kinds
      BY DEF Interview!Kinds
    <3> QED  BY <1>2, <1>3, <2>0, <2>5, <3>1, <3>2
  <2>6. ASSUME NEW c \in net["report"], Interview!Answer("report", c, server.report)  PROVE PagesInv'
    <3>1. AnswerFits("report", [to |-> c.to, phase |-> "answered", ans |-> server.report])
      BY <1>0 DEF AnswerFits
    <3>2. "report" \in Interview!Kinds
      BY DEF Interview!Kinds
    <3> QED  BY <1>2, <2>0, <2>6, <3>1, <3>2
  <2>7. \/ \E c \in net["home"] : Interview!Answer("home", c, server)
        \/ \E k \in {"packs", "evidence", "pdf", "order", "save", "history"} : \E c \in net[k] : \E v :
              Interview!Answer(k, c, v) \/ Interview!Refuse(k, c)
        \/ \E c \in net["entitlement"] : \E gs \in SUBSET Grants : Interview!Answer("entitlement", c, gs)
        \/ \E c \in net["profile"] : \E b \in BOOLEAN : Interview!Answer("profile", c, b)
        \/ \E c \in net["ping"] : \E v \in {"good", "slow"} :
              Interview!Answer("ping", c, v) \/ Interview!Refuse("ping", c)
        \/ \E c \in net["report"] : Interview!Answer("report", c, server.report)
    <3>1. (CHOOSE g \in Grants : TRUE) \in Grants
      BY PackAssumption
    <3>2. \A gs : gs \in (IF server.left = 0 THEN {{}}
                          ELSE IF "packs" \in does THEN SUBSET Grants \ {{}}
                          ELSE {{CHOOSE g \in Grants : TRUE}}) => gs \in SUBSET Grants
      BY <3>1
    <3>3. \A b : b \in (IF "cv" \in does THEN BOOLEAN ELSE {FALSE}) => b \in BOOLEAN
      OBVIOUS
    <3>4. CASE \E c \in Interview!Asked("home") : Interview!Answer("home", c, server)
      BY <3>4 DEF Interview!Asked
    <3>5. CASE \E k \in {"packs", "evidence", "pdf"} : \E c \in Interview!Asked(k) : Interview!Answer(k, c, TRUE)
      BY <3>5, Zenon DEF Interview!Asked
    <3>6. CASE \E c \in Interview!Asked("order") :
                  Interview!Answer("order", c, TRUE) \/ Interview!Refuse("order", c)
      BY <3>6, Zenon DEF Interview!Asked
    <3>7. CASE \E c \in Interview!Asked("entitlement") :
                  \E gs \in IF server.left = 0 THEN {{}}
                            ELSE IF "packs" \in does THEN SUBSET Grants \ {{}}
                            ELSE {{CHOOSE g \in Grants : TRUE}} :
                      Interview!Answer("entitlement", c, gs)
      <4>1. PICK c \in Interview!Asked("entitlement") :
                  \E gs \in IF server.left = 0 THEN {{}}
                            ELSE IF "packs" \in does THEN SUBSET Grants \ {{}}
                            ELSE {{CHOOSE g \in Grants : TRUE}} :
                      Interview!Answer("entitlement", c, gs)
        BY <3>7
      <4>2. \E gs \in SUBSET Grants : Interview!Answer("entitlement", c, gs)
        BY <3>2, <4>1
      <4> QED  BY <4>1, <4>2 DEF Interview!Asked
    <3>8. CASE \E c \in Interview!Asked("profile") :
                  \E b \in IF "cv" \in does THEN BOOLEAN ELSE {FALSE} : Interview!Answer("profile", c, b)
      BY <3>3, <3>8, Zenon DEF Interview!Asked
    <3>9. CASE \E c \in Interview!Asked("save") :
                  Interview!Answer("save", c, TRUE) \/ Interview!Refuse("save", c)
      BY <3>9, Zenon DEF Interview!Asked
    <3>10. CASE \E c \in Interview!Asked("history") : Interview!Answer("history", c, server.session)
      BY <3>10, Zenon DEF Interview!Asked
    <3>11. CASE \E c \in Interview!Asked("ping") :
                  \/ Interview!Answer("ping", c, "good")
                  \/ Interview!Answer("ping", c, "slow") \/ Interview!Refuse("ping", c)
      BY <3>11, Zenon DEF Interview!Asked
    <3>12. CASE \E c \in Interview!Asked("report") : Interview!Answer("report", c, server.report)
      BY <3>12, Zenon DEF Interview!Asked
    <3> QED  BY <1>4, <3>4, <3>5, <3>6, <3>7, <3>8, <3>9, <3>10, <3>11, <3>12 DEF Interview!ServeReads
  <2> QED  BY <2>1, <2>2, <2>3, <2>4, <2>5, <2>6, <2>7
<1>5. CASE Interview!ServeCreate
  <2>1. PICK c \in net["create"] :
          /\ \/ \E v : Interview!Answer("create", c, v)
             \/ Interview!Refuse("create", c)
          /\ \/ UNCHANGED server
             \/ /\ server.left > 0 \/ Interview!Admin
                /\ server' = [server EXCEPT !.session = Interview!ACTIVE,
                                            !.left = IF Interview!Admin THEN @ ELSE @ - 1]
          /\ UNCHANGED page
    BY <1>5 DEF Interview!ServeCreate, Interview!Asked
  <2>2. server' \in Interview!Server
    <3>1. CASE server' = server
      BY <1>0, <3>1
    <3>2. CASE /\ server.left > 0 \/ Interview!Admin
               /\ server' = [server EXCEPT !.session = Interview!ACTIVE,
                                           !.left = IF Interview!Admin THEN @ ELSE @ - 1]
      <4> DEFINE n == IF Interview!Admin THEN server.left ELSE server.left - 1
      <4>1. n \in Nat
        BY <1>0, <3>2
      <4>2. server' = [server EXCEPT !.session = Interview!ACTIVE, !.left = n]
        BY <3>2
      <4> HIDE DEF n
      <4> QED  BY <1>0, <4>1, <4>2 DEF Interview!Server
    <3> QED  BY <2>1, <3>1, <3>2
  <2>3. "create" \in Interview!Kinds
    BY DEF Interview!Kinds
  <2>4. ASSUME NEW v, Interview!Answer("create", c, v)  PROVE PagesInv'
    <3>1. AnswerFits("create", [to |-> c.to, phase |-> "answered", ans |-> v])
      BY DEF AnswerFits
    <3> QED  BY <1>2, <2>1, <2>2, <2>3, <2>4, <3>1
  <2>5. CASE Interview!Refuse("create", c)
    BY <1>3, <2>1, <2>2, <2>3, <2>5
  <2> QED  BY <2>1, <2>4, <2>5
<1>6. CASE Interview!Elsewhere
  <2>1. UNCHANGED <<page, net>>
    BY <1>6 DEF Interview!Elsewhere
  <2>2. \/ /\ server.left > 0
           /\ server' = [server EXCEPT !.session = Interview!ACTIVE, !.left = @ - 1]
        \/ server' = [server EXCEPT !.session = "ended"]
        \/ \E r \in {"ready", "no_data", "failed"} : server' = [server EXCEPT !.report = r]
    BY <1>6 DEF Interview!Elsewhere
  <2>3. server' \in Interview!Server
    <3>1. CASE /\ server.left > 0
               /\ server' = [server EXCEPT !.session = Interview!ACTIVE, !.left = @ - 1]
      <4> DEFINE n == server.left - 1
      <4>1. n \in Nat
        BY <1>0, <3>1
      <4>2. server' = [server EXCEPT !.session = Interview!ACTIVE, !.left = n]
        BY <3>1
      <4> HIDE DEF n
      <4> QED  BY <1>0, <4>1, <4>2 DEF Interview!Server
    <3>2. CASE server' = [server EXCEPT !.session = "ended"]
      BY <1>0, <3>2 DEF Interview!Server
    <3>3. CASE \E r \in {"ready", "no_data", "failed"} : server' = [server EXCEPT !.report = r]
      BY <1>0, <3>3 DEF Interview!Server
    <3> QED  BY <2>2, <3>1, <3>2, <3>3
  <2>4. CallsFit'
    BY <1>0, <2>1 DEF CallsFit
  <2> QED  BY <1>1, <2>1, <2>3, <2>4
<1>7. CASE Interview!Lose
  BY <1>0, <1>3, <1>7 DEF Interview!Lose, Interview!Lost
<1> QED  BY <1>4, <1>5, <1>6, <1>7

LEMMA InitPages == Interview!InterviewInit => PagesInv
<1> SUFFICES ASSUME Interview!InterviewInit  PROVE PagesInv
  OBVIOUS
<1>1. PICK at \in {"report", "home"} :
         /\ page = [at |-> at, home |-> Interview!HomeFirst, setup |-> Interview!SetupFirst,
                    media |-> Interview!MediaFirst, report |-> Interview!ReportFirst]
         /\ net = Interview!Loading(IF at = "home" THEN Interview!HomeCalls ELSE {"report"})
  BY DEF Interview!InterviewInit
<1>2. page \in Interview!Page
  BY <1>1, FirstPages DEF Interview!Page
<1>3. server \in Interview!Server
  <2> DEFINE n == IF does \cap {"buy", "admin"} = {} THEN 1 ELSE 0
             x == IF "report" \in does THEN "ended"
                  ELSE IF "resume" \in does THEN Interview!ACTIVE ELSE Interview!None
  <2>1. n \in Nat /\ x \in {Interview!None, Interview!ACTIVE, "ended"}
    OBVIOUS
  <2>2. server = [left |-> n, session |-> x, report |-> "pending"]
    BY DEF Interview!InterviewInit
  <2> HIDE DEF n, x
  <2> QED  BY <2>1, <2>2 DEF Interview!Server
<1>4. CallsFit
  <2> DEFINE kinds == IF at = "home" THEN Interview!HomeCalls ELSE {"report"}
             sent == {Interview!Sent(Interview!None)}
  <2>1. "entitlement" \notin kinds /\ "order" \notin kinds /\ {"entitlement", "order"} \subseteq Interview!Kinds
    BY DEF Interview!HomeCalls, Interview!Kinds
  <2>2. /\ DOMAIN net = Interview!Kinds
        /\ \A k \in Interview!Kinds : net[k] = IF k \in kinds THEN sent ELSE {}
    BY <1>1 DEF Interview!Loading
  <2> HIDE DEF kinds
  <2>3. \A k \in Interview!Kinds : AnswerFits(k, Interview!Sent(Interview!None))
    BY DEF AnswerFits, Interview!Ok, Interview!Sent
  <2>4. net["entitlement"] = {} /\ net["order"] = {}
    BY <2>1, <2>2
  <2>5. \A k \in Interview!Kinds : \A c \in net[k] : AnswerFits(k, c)
    BY <2>2, <2>3
  <2> QED  BY <2>2, <2>4, <2>5 DEF CallsFit
<1>5. StepFits
  <2> DEFINE s == Interview!Steps
  <2>1. \/ s = <<"Pack", "Topic", "Resume", "System check", "Instructions">>
        \/ s = <<"Topic", "Resume", "System check", "Instructions">>
    BY Zenon DEF Interview!Steps
  <2>2. 1 \in 1 .. Len(s)
    <3> HIDE DEF s
    <3> QED  BY <2>1, StepNames, Zenon
  <2>3. page.setup.step = 1
    BY <1>1, FirstPages
  <2> QED  BY <2>2, <2>3 DEF StepFits
<1>6. MediaFits(page.media, Checking)
  BY <1>1 DEF MediaFits, Interview!MediaFirst, Interview!None
<1> QED  BY <1>2, <1>3, <1>4, <1>5, <1>6 DEF PagesInv

LEMMA NextPages == PagesInv /\ [Interview!InterviewNext]_<<page, server, net, lost, does>> => PagesInv'
<1> SUFFICES ASSUME PagesInv, [Interview!InterviewNext]_<<page, server, net, lost, does>>  PROVE PagesInv'
  OBVIOUS
<1>1. CASE UNCHANGED <<page, server, net, lost, does>>
  <2>1. CallsFit' /\ SameStep /\ page' \in Interview!Page /\ server' \in Interview!Server
    BY <1>1 DEF PagesInv, CallsFit, SameStep
  <2> QED  BY <1>1, <2>1, PageKept
<1>2. CASE Interview!InterviewNext
  BY <1>2, HomeSteps, EntitlementStep, ChoiceSteps, FormSteps, MoveSteps, LeaveSteps, DeviceSteps,
     CreateStep, ReportSteps, ServerSteps
     DEF Interview!InterviewNext
<1> QED  BY <1>1, <1>2

-----------------------------------------------------------------------------
(* While a page is the behaviour's, a step of the client is one of the page's *)

LEMMA RoomIsAlone ==
    /\ WebInit /\ which = "room" => RoomInit
    /\ [WebNext]_webVars /\ which = "room" => (which = "room")' /\ [RoomNext]_vars
    /\ [WebNext]_webVars /\ ~(which = "room") => ~(which = "room")'
BY DEF WebInit, WebNext, webVars, OnRoom, OnPage

LEMMA InterviewIsAlone ==
    /\ WebInit /\ which = "interview" => Interview!InterviewInit
    /\ [WebNext]_webVars /\ which = "interview"
           => (which = "interview")' /\ [Interview!InterviewNext]_<<page, server, net, lost, does>>
    /\ [WebNext]_webVars /\ ~(which = "interview") => ~(which = "interview")'
BY DEF WebInit, WebNext, webVars, vars, lifeVars, clientVars, OnRoom, OnPage

LEMMA ContestIsAlone ==
    /\ WebInit /\ which = "contest" => Contest!ContestInit
    /\ [WebNext]_webVars /\ which = "contest"
           => (which = "contest")' /\ [Contest!ContestNext]_<<page, server, net, lost, does>>
    /\ [WebNext]_webVars /\ ~(which = "contest") => ~(which = "contest")'
BY DEF WebInit, WebNext, webVars, vars, lifeVars, clientVars, OnRoom, OnPage

-----------------------------------------------------------------------------
(* The client keeps what its pages keep                                     *)

\* While the server has an interview paused for a last warning that a detector reported to
\* it, the candidate is looking at the dialog that resumes it, unless an answer about a
\* violation is on its way or a call was lost: in whatever order the calls of the room are
\* answered, however late a handler writes, whatever the candidate, the detectors and other
\* windows do.  (What stops the clock where the page does not look is silent: a voice that
\* does not match, a reload, a warning that overtakes an acknowledgement.)
THEOREM PausedInterviewIsShownInApp == WebSpec => []PausedInterviewIsShown
<1>1. RoomInv => PausedIsShown
  <2> SUFFICES ASSUME RoomInv, paused, Active, ui.page = "room", InFlight("violation") = {}, lost = 0, ~ui.silent
               PROVE  ui.ack
    BY DEF PausedIsShown
  <2>1. \A c \in Slots["violation"] : ~LastWarning(net[c])
    BY DEF InFlight, LastWarning
  <2> QED  BY <2>1 DEF RoomInv, PausedIsHeard
<1>2. (which = "room" => PausedIsShown) => PausedInterviewIsShown
  BY DEF PausedInterviewIsShown
<1> QED  BY <1>1, <1>2, RoomIsAlone, InitRoom, NextRoom, PTL DEF WebSpec

\* However many contestants join the teams of a contest at once, and whichever of their
\* requests are lost or retried, no team comes to have more members than it may.
THEOREM TeamsFitInApp == WebSpec => []TeamsFit
<1>1. Contest!ContestSpec => []Contest!TeamsFit
  BY ContestAssumption, Contest!TeamsFitInvariant DEF Contest!Assumptions
<1>2. (which = "contest" => Contest!TeamsFit) => TeamsFit
  BY DEF TeamsFit
<1> QED  BY <1>1, <1>2, ContestIsAlone, PTL DEF WebSpec, Contest!ContestSpec, Contest!contestVars

\* The camera and the microphone are off once the page that took them is done with them:
\* however the candidate walks through the wizard and leaves it, whenever the browser grants
\* what was asked for, unless the step was left while a device was being switched.
THEOREM MediaReleasedInApp == WebSpec => []MediaReleased
<1>1. RoomInv => CameraOffAfterStop
  BY DEF RoomInv, PageFits, CameraOffAfterStop
<1>2. PagesInv => Interview!SetupMediaReleased
  BY Zenon DEF PagesInv, MediaFits, Checking, Interview!SetupMediaReleased
<1>3. (which = "room" => CameraOffAfterStop) /\ (which = "interview" => Interview!SetupMediaReleased)
          => MediaReleased
  BY DEF MediaReleased
<1>4. WebSpec => [](which = "room" => CameraOffAfterStop)
  BY <1>1, RoomIsAlone, InitRoom, NextRoom, PTL DEF WebSpec
<1>5. WebSpec => [](which = "interview" => Interview!SetupMediaReleased)
  BY <1>2, InterviewIsAlone, InitPages, NextPages, PTL DEF WebSpec
<1> QED  BY <1>3, <1>4, <1>5, PTL

-----------------------------------------------------------------------------
(* What the practice page keeps                                             *)

\* What is in the editor is in a language of its problem.
EditorFits ==
    Practice!CodeView(page.problem) =>
        /\ page.language \in Practice!Languages(page.problem)
        /\ page.code \in {Practice!Typed, Practice!Blank, Practice!Starter(page.problem, page.language)}

SolutionFits(to) ==
    /\ Practice!Type(to.of) \in {"code", "sql"}
    /\ to.language \in Practice!Languages(to.of)
    /\ to.code \in {Practice!Typed, Practice!Blank, Practice!Starter(to.of, to.language)}

PracticeCallFits(k, c) ==
    /\ k = "list" /\ Practice!Ok(c) => c.ans \subseteq Practice!Ids
    /\ k = "problem" => c.to \in Practice!Ids
    /\ k \in {"run", "submit"} => SolutionFits(c.to)

PracticeCallsFit ==
    /\ DOMAIN net = Practice!Kinds
    /\ \A k \in Practice!Kinds : \A c \in net[k] : PracticeCallFits(k, c)

\* The buttons are disabled while a submission is out, or its diagram is drawn first.
SubmissionIsAwaited ==
    /\ page.exporting # Practice!None => page.submitting /\ \A k \in Practice!Graded : net[k] = {}
    /\ page.submitting <=> (page.exporting # Practice!None \/ \E k \in Practice!Graded : net[k] # {})
    /\ \A k, j \in Practice!Graded : \A c \in net[k], d \in net[j] : k = j /\ c = d

PracticeInv == page \in Practice!Page /\ EditorFits /\ PracticeCallsFit /\ SubmissionIsAwaited

\* A step that leaves the submissions alone.
NothingSubmitted ==
    /\ page'.submitting = page.submitting /\ page'.exporting = page.exporting
    /\ \A k \in Practice!Graded : net'[k] = net[k]

LEMMA SubmissionsKept == ASSUME SubmissionIsAwaited, NothingSubmitted  PROVE SubmissionIsAwaited'
BY DEF SubmissionIsAwaited, NothingSubmitted

SameEditor ==
    page'.problem = page.problem /\ page'.language = page.language /\ page'.code = page.code

LEMMA EditorKept == ASSUME EditorFits, SameEditor  PROVE EditorFits'
BY DEF EditorFits, SameEditor

LEMMA PracticeTaken ==
    ASSUME PracticeCallsFit, NEW k \in Practice!Kinds, NEW c \in net[k], Practice!Take(k, c)
    PROVE  PracticeCallsFit' /\ \A j \in Practice!Kinds : net'[j] = IF j = k THEN net[k] \ {c} ELSE net[j]
<1>1. \A j \in Practice!Kinds : net'[j] = IF j = k THEN net[k] \ {c} ELSE net[j]
  BY DEF PracticeCallsFit, Practice!Take, Practice!Without
<1>2. DOMAIN net' = Practice!Kinds
  BY DEF PracticeCallsFit, Practice!Take, Practice!Without
<1> QED  BY <1>1, <1>2 DEF PracticeCallsFit

LEMMA PracticeSent ==
    ASSUME PracticeCallsFit, NEW k \in Practice!Kinds, NEW to, net' = Practice!Asking(net, k, to),
           PracticeCallFits(k, Practice!Sent(to))
    PROVE  /\ PracticeCallsFit'
           /\ \A j \in Practice!Kinds :
                 net'[j] = IF j = k THEN net[j] \cup {Practice!Sent(to)} ELSE net[j]
<1>1. \A j \in Practice!Kinds : net'[j] = IF j = k THEN net[j] \cup {Practice!Sent(to)} ELSE net[j]
  BY DEF PracticeCallsFit, Practice!Asking
<1>2. DOMAIN net' = Practice!Kinds
  BY DEF PracticeCallsFit, Practice!Asking
<1> QED  BY <1>1, <1>2 DEF PracticeCallsFit

LEMMA PracticeMoved ==
    ASSUME PracticeInv, NEW k \in Practice!Kinds, NEW c \in net[k], NEW q, PracticeCallFits(k, q),
           net' = [net EXCEPT ![k] = (@ \ {c}) \cup {q}], UNCHANGED page
    PROVE  PracticeInv'
<1>1. \A j \in Practice!Kinds : net'[j] = IF j = k THEN (net[k] \ {c}) \cup {q} ELSE net[j]
  BY DEF PracticeInv, PracticeCallsFit
<1>2. DOMAIN net' = Practice!Kinds
  BY DEF PracticeInv, PracticeCallsFit
<1>3. PracticeCallsFit'
  BY <1>1, <1>2 DEF PracticeInv, PracticeCallsFit
<1>4. Practice!Graded \subseteq Practice!Kinds
  BY DEF Practice!Kinds
<1>5. \A j \in Practice!Graded : net'[j] # {} <=> net[j] # {}
  BY <1>1, <1>4
<1>6. \A j, i \in Practice!Graded : \A d \in net'[j], e \in net'[i] : j = i /\ d = e
  BY <1>1, <1>4 DEF PracticeInv, SubmissionIsAwaited
<1>7. SubmissionIsAwaited'
  BY <1>5, <1>6 DEF PracticeInv, SubmissionIsAwaited
<1> QED  BY <1>3, <1>7, EditorKept DEF PracticeInv, SameEditor

LEMMA PracticeKinds ==
    /\ Practice!Kinds = {"submit", "mcq", "design", "list", "problem", "run", "submissions"}
    /\ Practice!Graded = {"submit", "mcq", "design"}
BY DEF Practice!Kinds, Practice!Graded

LEMMA SelectedType ==
    ASSUME PracticeInv, NEW p \in Practice!Ids
    PROVE  /\ Practice!Selected(p) \in Practice!Page
           /\ Practice!Selected(p).problem = page.problem /\ Practice!Selected(p).language = page.language
           /\ Practice!Selected(p).code = page.code /\ Practice!Selected(p).submitting = page.submitting
           /\ Practice!Selected(p).exporting = page.exporting
BY Zenon DEF PracticeInv, Practice!Selected, Practice!Page

LEMMA PracticeReads ==
    ASSUME PracticeInv,
           \/ Practice!DeliverList \/ Practice!DeliverRun \/ Practice!DeliverSubmissions
           \/ \E p \in Practice!Ids : Practice!SelectProblem(p)
           \/ \E t \in {"description", "submissions"} : Practice!OpenTab(t)
    PROVE  PracticeInv'
<1>0. page \in Practice!Page /\ EditorFits /\ PracticeCallsFit /\ SubmissionIsAwaited
  BY DEF PracticeInv
<1>k. {"list", "problem", "run", "submissions"} \subseteq Practice!Kinds \ Practice!Graded
      /\ Practice!Graded \subseteq Practice!Kinds
  BY PracticeKinds
<1>1. ASSUME page' \in Practice!Page, SameEditor, PracticeCallsFit', NothingSubmitted
      PROVE  PracticeInv'
  BY <1>0, <1>1, EditorKept, SubmissionsKept DEF PracticeInv
<1>2. ASSUME NEW k \in {"list", "problem", "run", "submissions"}, NEW c \in net[k], Practice!Take(k, c),
             page' \in Practice!Page, SameEditor,
             page'.submitting = page.submitting, page'.exporting = page.exporting
      PROVE  PracticeInv'
  <2>1. PracticeCallsFit' /\ \A j \in Practice!Kinds : net'[j] = IF j = k THEN net[k] \ {c} ELSE net[j]
    BY <1>0, <1>2, <1>k, PracticeTaken
  <2>2. NothingSubmitted
    BY <1>2, <1>k, <2>1 DEF NothingSubmitted
  <2> QED  BY <1>1, <1>2, <2>1, <2>2
<1>3. ASSUME NEW k \in {"problem", "submissions"}, NEW to, k = "problem" => to \in Practice!Ids,
             net' = Practice!Asking(net, k, to),
             page' \in Practice!Page, SameEditor,
             page'.submitting = page.submitting, page'.exporting = page.exporting
      PROVE  PracticeInv'
  <2>0. PracticeCallFits(k, Practice!Sent(to))
    BY <1>3 DEF PracticeCallFits, Practice!Sent
  <2>1. /\ PracticeCallsFit'
        /\ \A j \in Practice!Kinds : net'[j] = IF j = k THEN net[j] \cup {Practice!Sent(to)} ELSE net[j]
    BY <1>0, <1>3, <1>k, <2>0, PracticeSent
  <2>2. NothingSubmitted
    BY <1>3, <1>k, <2>1 DEF NothingSubmitted
  <2> QED  BY <1>1, <1>3, <2>1, <2>2
<1>4. CASE Practice!DeliverList
  <2>1. PICK c \in net["list"] :
           \/ /\ Practice!Ok(c)
              /\ \E p \in c.ans : /\ page' = [Practice!Selected(p) EXCEPT !.listed = TRUE]
                                  /\ net' = Practice!Asking(Practice!Without(net, "list", c), "problem", p)
           \/ /\ Practice!Take("list", c)
              /\ page' = [page EXCEPT !.loadingProblem = FALSE, !.error = ~Practice!Ok(c)]
    BY <1>4, Zenon DEF Practice!DeliverList, Practice!Came
  <2>2. CASE Practice!Take("list", c) /\ page' = [page EXCEPT !.loadingProblem = FALSE, !.error = ~Practice!Ok(c)]
    <3>1. Practice!Ok(c) \in BOOLEAN
      BY DEF Practice!Ok
    <3>2. page' \in Practice!Page /\ SameEditor /\ page'.submitting = page.submitting
          /\ page'.exporting = page.exporting
      BY <1>0, <2>2, <3>1 DEF Practice!Page, SameEditor
    <3> QED  BY <1>2, <2>2, <3>2
  <2>3. ASSUME Practice!Ok(c), NEW p \in c.ans, page' = [Practice!Selected(p) EXCEPT !.listed = TRUE],
               net' = Practice!Asking(Practice!Without(net, "list", c), "problem", p)
        PROVE  PracticeInv'
    <3>1. p \in Practice!Ids
      BY <1>0, <1>k, <2>3 DEF PracticeCallsFit, PracticeCallFits
    <3>2. page' \in Practice!Page /\ SameEditor /\ page'.submitting = page.submitting
          /\ page'.exporting = page.exporting
      BY ZenonT(60), <2>3, <3>1, SelectedType DEF Practice!Page, SameEditor
    <3>3. DOMAIN net' = Practice!Kinds
      BY <1>0, <2>3 DEF PracticeCallsFit, Practice!Asking, Practice!Without
    <3>4. \A j \in Practice!Kinds :
             net'[j] = IF j = "problem" THEN net[j] \cup {Practice!Sent(p)}
                       ELSE IF j = "list" THEN net[j] \ {c} ELSE net[j]
      BY <1>0, <1>k, <2>3 DEF PracticeCallsFit, Practice!Asking, Practice!Without
    <3>5. PracticeCallFits("problem", Practice!Sent(p))
      BY <3>1 DEF PracticeCallFits, Practice!Sent
    <3>6. PracticeCallsFit'
      BY <1>0, <3>3, <3>4, <3>5 DEF PracticeCallsFit
    <3>7. NothingSubmitted
      BY <1>k, <3>2, <3>4 DEF NothingSubmitted
    <3> QED  BY <1>1, <3>2, <3>6, <3>7
  <2> QED  BY <2>1, <2>2, <2>3
<1>5. ASSUME NEW p \in Practice!Ids, Practice!SelectProblem(p)
      PROVE  PracticeInv'
  <2>1. page' \in Practice!Page /\ SameEditor /\ page'.submitting = page.submitting
        /\ page'.exporting = page.exporting
    BY <1>5, SelectedType DEF Practice!SelectProblem, SameEditor
  <2> QED  BY <1>3, <1>5, <2>1 DEF Practice!SelectProblem
<1>6. CASE Practice!DeliverRun
  <2>1. PICK c \in net["run"] :
           /\ Practice!Take("run", c)
           /\ \/ page' = [page EXCEPT !.running = FALSE, !.result = "run"]
              \/ page' = [page EXCEPT !.running = FALSE, !.error = TRUE]
    BY <1>6 DEF Practice!DeliverRun, Practice!Came
  <2>2. page' \in Practice!Page /\ SameEditor /\ page'.submitting = page.submitting
        /\ page'.exporting = page.exporting
    BY <1>0, <2>1 DEF Practice!Page, SameEditor
  <2> QED  BY <1>2, <2>1, <2>2
<1>7. CASE Practice!DeliverSubmissions
  <2>1. PICK c \in net["submissions"] :
           /\ Practice!Take("submissions", c)
           /\ \E s \in {"listed", page.submissions} :
                 page' = [page EXCEPT !.loadingSubmissions = FALSE, !.submissions = s]
    BY <1>7, Zenon DEF Practice!DeliverSubmissions, Practice!Came
  <2>2. page' \in Practice!Page /\ SameEditor /\ page'.submitting = page.submitting
        /\ page'.exporting = page.exporting
    BY <1>0, <2>1 DEF Practice!Page, SameEditor
  <2> QED  BY <1>2, <2>1, <2>2
<1>8. ASSUME NEW t \in {"description", "submissions"}, Practice!OpenTab(t)
      PROVE  PracticeInv'
  <2>1. \/ page' = [page EXCEPT !.tab = t, !.loadingSubmissions = TRUE]
           /\ net' = Practice!Asking(net, "submissions", page.problem)
        \/ page' = [page EXCEPT !.tab = t] /\ UNCHANGED net
    BY <1>8 DEF Practice!OpenTab, Practice!Ask
  <2>2. page' \in Practice!Page /\ SameEditor /\ page'.submitting = page.submitting
        /\ page'.exporting = page.exporting
    BY ZenonT(60), <1>0, <2>1 DEF Practice!Page, SameEditor
  <2>3. CASE UNCHANGED net
    <3>1. PracticeCallsFit' /\ NothingSubmitted
      BY <1>0, <2>2, <2>3 DEF PracticeCallsFit, NothingSubmitted
    <3> QED  BY <1>1, <2>2, <3>1
  <2> QED  BY <1>3, <2>1, <2>2, <2>3
<1> QED  BY <1>4, <1>5, <1>6, <1>7, <1>8

LEMMA StarterIsThere ==
    ASSUME NEW p \in Practice!Ids, Problems[p].languages # <<>>
    PROVE  /\ Head(Problems[p].languages) \in Practice!Languages(p)
           /\ Practice!Languages(p) \subseteq Practice!AllLanguages
<1> DEFINE s == Problems[p].languages
<1>1. s \in Seq(Practice!AllLanguages) /\ s # <<>>
  BY ProblemAssumption
<1>2. 1 \in DOMAIN s /\ Head(s) = s[1]
  <2> HIDE DEF s
  <2> QED  BY <1>1
<1>3. Head(s) \in Practice!Languages(p)
  BY <1>2 DEF Practice!Languages
<1>4. Practice!Languages(p) \subseteq Practice!AllLanguages
  BY DEF Practice!AllLanguages
<1> QED  BY <1>3, <1>4

LEMMA PracticeEditor ==
    ASSUME PracticeInv,
           \/ Practice!DeliverProblem \/ Practice!Type_ \/ Practice!ResetStarter \/ Practice!Run
           \/ Practice!PickOption \/ Practice!WriteDesign
           \/ \E l \in Practice!AllLanguages : Practice!ChangeLanguage(l)
    PROVE  PracticeInv'
<1>0. page \in Practice!Page /\ EditorFits /\ PracticeCallsFit /\ SubmissionIsAwaited
  BY DEF PracticeInv
<1>k. {"problem", "run"} \subseteq Practice!Kinds \ Practice!Graded /\ Practice!Graded \subseteq Practice!Kinds
  BY PracticeKinds
<1>1. ASSUME page' \in Practice!Page, EditorFits', UNCHANGED net,
             page'.submitting = page.submitting, page'.exporting = page.exporting
      PROVE  PracticeInv'
  <2>1. PracticeCallsFit' /\ NothingSubmitted
    BY <1>0, <1>1 DEF PracticeCallsFit, NothingSubmitted
  <2> QED  BY <1>0, <1>1, <2>1, SubmissionsKept DEF PracticeInv
<1>2. CASE Practice!DeliverProblem
  <2>1. PICK c \in net["problem"] :
           /\ Practice!Take("problem", c)
           /\ \/ page' = [page EXCEPT !.error = TRUE, !.loadingProblem = FALSE]
              \/ /\ Problems[c.to].languages = <<>>
                 /\ \E t \in {page.tab, "description"} :
                       page' = [page EXCEPT !.problem = c.to, !.loadingProblem = FALSE,
                                   !.language = "python", !.code = Practice!Blank, !.tab = t]
              \/ /\ Problems[c.to].languages # <<>>
                 /\ \E t \in {page.tab, "description"} :
                       page' = [page EXCEPT !.problem = c.to, !.loadingProblem = FALSE,
                                   !.language = Head(Problems[c.to].languages),
                                   !.code = Practice!Starter(c.to, Head(Problems[c.to].languages)), !.tab = t]
    <3>1. PICK c \in net["problem"] :
           /\ Practice!Take("problem", c)
           /\ page' = IF ~Practice!Ok(c) THEN [page EXCEPT !.error = TRUE, !.loadingProblem = FALSE]
                      ELSE LET first == IF Problems[c.to].languages = <<>> THEN "python"
                                        ELSE Head(Problems[c.to].languages)
                           IN  [page EXCEPT !.problem = c.to, !.loadingProblem = FALSE,
                                  !.language = first,
                                  !.code = IF Problems[c.to].languages = <<>> THEN Practice!Blank
                                           ELSE Practice!Starter(c.to, first),
                                  !.tab = IF Practice!CodeView(c.to) THEN page.tab ELSE "description"]
      BY <1>2, Zenon DEF Practice!DeliverProblem, Practice!Came
    <3>2. PICK t \in {page.tab, "description"} : t = IF Practice!CodeView(c.to) THEN page.tab ELSE "description"
      OBVIOUS
    <3> QED  BY <3>1, <3>2, Zenon
  <2>2. c.to \in Practice!Ids
    BY <1>0, <1>k DEF PracticeCallsFit, PracticeCallFits
  <2>3. /\ page' \in Practice!Page /\ EditorFits'
        /\ page'.submitting = page.submitting /\ page'.exporting = page.exporting
    <3>1. CASE page' = [page EXCEPT !.error = TRUE, !.loadingProblem = FALSE]
      <4>1. /\ page' \in Practice!Page /\ SameEditor
            /\ page'.submitting = page.submitting /\ page'.exporting = page.exporting
        BY <1>0, <3>1 DEF Practice!Page, SameEditor
      <4> QED  BY <1>0, <4>1, EditorKept
    <3>2. ASSUME Problems[c.to].languages = <<>>, NEW t \in {page.tab, "description"},
                 page' = [page EXCEPT !.problem = c.to, !.loadingProblem = FALSE,
                                   !.language = "python", !.code = Practice!Blank, !.tab = t]
          PROVE  /\ page' \in Practice!Page /\ EditorFits'
                 /\ page'.submitting = page.submitting /\ page'.exporting = page.exporting
      <4>1. Practice!Blank \in Practice!Codes
        BY DEF Practice!Codes
      <4>2. ~Practice!CodeView(c.to)
        BY <2>2, <3>2, ProblemAssumption
      <4> QED  BY <1>0, <2>2, <3>2, <4>1, <4>2 DEF Practice!Page, EditorFits
    <3>3. ASSUME Problems[c.to].languages # <<>>, NEW t \in {page.tab, "description"},
                 page' = [page EXCEPT !.problem = c.to, !.loadingProblem = FALSE,
                                   !.language = Head(Problems[c.to].languages),
                                   !.code = Practice!Starter(c.to, Head(Problems[c.to].languages)), !.tab = t]
          PROVE  /\ page' \in Practice!Page /\ EditorFits'
                 /\ page'.submitting = page.submitting /\ page'.exporting = page.exporting
      <4> DEFINE l == Head(Problems[c.to].languages)
      <4>1. l \in Practice!Languages(c.to) /\ l \in Practice!AllLanguages
        BY <2>2, <3>3, StarterIsThere
      <4>2. Practice!Starter(c.to, l) \in Practice!Codes
        BY <2>2, <4>1 DEF Practice!Codes
      <4> HIDE DEF l
      <4> QED  BY <1>0, <2>2, <3>3, <4>1, <4>2 DEF Practice!Page, EditorFits, l
    <3> QED  BY <2>1, <3>1, <3>2, <3>3
  <2>4. PracticeCallsFit' /\ \A j \in Practice!Kinds : net'[j] = IF j = "problem" THEN net[j] \ {c} ELSE net[j]
    <3>1. "problem" \in Practice!Kinds /\ Practice!Take("problem", c)
      BY <1>k, <2>1
    <3> QED  BY <1>0, <3>1, PracticeTaken
  <2>5. NothingSubmitted
    BY <1>k, <2>3, <2>4 DEF NothingSubmitted
  <2> QED  BY <1>0, <2>3, <2>4, <2>5, SubmissionsKept DEF PracticeInv
<1>3. CASE Practice!Type_
  <2>1. PICK c \in {Practice!Typed, Practice!Blank} : page' = [page EXCEPT !.code = c] /\ UNCHANGED net
    BY <1>3 DEF Practice!Type_, Practice!Stays
  <2>2. c \in Practice!Codes
    BY DEF Practice!Codes
  <2>3. /\ page' \in Practice!Page /\ EditorFits'
        /\ page'.submitting = page.submitting /\ page'.exporting = page.exporting
    BY <1>0, <2>1, <2>2 DEF Practice!Page, EditorFits
  <2> QED  BY <1>1, <2>1, <2>3
<1>4. CASE Practice!ResetStarter
  <2>1. /\ Practice!CodeView(page.problem) /\ UNCHANGED net
        /\ page' = [page EXCEPT !.code = Practice!Starter(page.problem, page.language)]
    BY <1>4 DEF Practice!ResetStarter, Practice!Stays
  <2>2. page.problem \in Practice!Ids
    BY <1>0, <2>1 DEF Practice!Page, Practice!CodeView, Practice!None
  <2>3. page.language \in Practice!Languages(page.problem)
    BY <1>0, <2>1 DEF EditorFits
  <2>4. Practice!Starter(page.problem, page.language) \in Practice!Codes
    BY <2>2, <2>3 DEF Practice!Codes, Practice!AllLanguages
  <2>5. /\ page' \in Practice!Page /\ EditorFits'
        /\ page'.submitting = page.submitting /\ page'.exporting = page.exporting
    BY <1>0, <2>1, <2>4 DEF Practice!Page, EditorFits
  <2> QED  BY <1>1, <2>1, <2>5
<1>5. CASE Practice!Run
  <2>1. /\ Practice!CodeView(page.problem)
        /\ net' = Practice!Asking(net, "run", Practice!Solution)
        /\ page' = [page EXCEPT !.running = TRUE, !.result = Practice!None, !.error = FALSE]
    BY <1>5 DEF Practice!Run, Practice!CanRun, Practice!Ask
  <2>2. PracticeCallFits("run", Practice!Sent(Practice!Solution))
    BY <1>0, <2>1 DEF PracticeCallFits, SolutionFits, Practice!Sent, Practice!Solution, EditorFits,
                      Practice!CodeView
  <2>3. /\ PracticeCallsFit'
        /\ \A j \in Practice!Kinds :
              net'[j] = IF j = "run" THEN net[j] \cup {Practice!Sent(Practice!Solution)} ELSE net[j]
    BY <1>0, <1>k, <2>1, <2>2, PracticeSent
  <2>4. /\ page' \in Practice!Page /\ SameEditor
        /\ page'.submitting = page.submitting /\ page'.exporting = page.exporting
    BY <1>0, <2>1 DEF Practice!Page, SameEditor
  <2>5. NothingSubmitted
    BY <1>k, <2>3, <2>4 DEF NothingSubmitted
  <2> QED  BY <1>0, <2>3, <2>4, <2>5, EditorKept, SubmissionsKept DEF PracticeInv
<1>6. CASE Practice!PickOption \/ Practice!WriteDesign
  <2>1. UNCHANGED net /\ (\/ page' = [page EXCEPT !.selectedOption = TRUE]
                          \/ page' = [page EXCEPT !.designAnswer = ~page.designAnswer])
    BY <1>6 DEF Practice!PickOption, Practice!WriteDesign, Practice!Stays
  <2>2. /\ page' \in Practice!Page /\ SameEditor
        /\ page'.submitting = page.submitting /\ page'.exporting = page.exporting
    BY <1>0, <2>1 DEF Practice!Page, SameEditor
  <2> QED  BY <1>0, <1>1, <2>1, <2>2, EditorKept
<1>7. ASSUME NEW l \in Practice!AllLanguages, Practice!ChangeLanguage(l)
      PROVE  PracticeInv'
  <2>1. PICK code \in {Practice!Starter(page.problem, l), page.code} :
           /\ Practice!CodeView(page.problem) /\ l \in Practice!Languages(page.problem)
           /\ code = IF page.code \in {Practice!Blank, Practice!Starter(page.problem, page.language)}
                     THEN Practice!Starter(page.problem, l) ELSE page.code
           /\ page' = [page EXCEPT !.language = l, !.code = code] /\ UNCHANGED net
    <3>1. PICK code : code = IF page.code \in {Practice!Blank, Practice!Starter(page.problem, page.language)}
                             THEN Practice!Starter(page.problem, l) ELSE page.code
      OBVIOUS
    <3> QED  BY <1>7, <3>1, Zenon DEF Practice!ChangeLanguage, Practice!LanguageShown, Practice!Stays
  <2>2. page.problem \in Practice!Ids
    BY <1>0, <2>1 DEF Practice!Page, Practice!CodeView, Practice!None
  <2>3. Practice!Starter(page.problem, l) \in Practice!Codes
    BY <2>2 DEF Practice!Codes
  <2>4. code \in {Practice!Typed, Practice!Blank, Practice!Starter(page.problem, l)}
    BY <1>0, <2>1 DEF EditorFits
  <2>5. code \in Practice!Codes
    BY <1>0, <2>1, <2>3 DEF Practice!Page
  <2>6. /\ page' \in Practice!Page /\ EditorFits'
        /\ page'.submitting = page.submitting /\ page'.exporting = page.exporting
    BY <1>0, <2>1, <2>4, <2>5 DEF Practice!Page, EditorFits
  <2> QED  BY <1>1, <2>1, <2>6
<1> QED  BY <1>2, <1>3, <1>4, <1>5, <1>6, <1>7

LEMMA PracticeSubmits ==
    ASSUME PracticeInv,
           Practice!Submit \/ Practice!SubmitMcq \/ Practice!SubmitDesign \/ Practice!DiagramExported
    PROVE  PracticeInv'
<1>0. page \in Practice!Page /\ EditorFits /\ PracticeCallsFit /\ SubmissionIsAwaited
  BY DEF PracticeInv
<1>k. Practice!Graded \subseteq Practice!Kinds
  BY PracticeKinds
<1>1. ASSUME NEW k \in Practice!Graded, NEW to, k = "submit" => SolutionFits(to),
             net' = Practice!Asking(net, k, to), \A j \in Practice!Graded : net[j] = {},
             page' \in Practice!Page, SameEditor, page'.submitting, page'.exporting = Practice!None
      PROVE  PracticeInv'
  <2>1. PracticeCallFits(k, Practice!Sent(to))
    BY <1>1, PracticeKinds DEF PracticeCallFits, Practice!Sent, Practice!Ok
  <2>2. /\ PracticeCallsFit'
        /\ \A j \in Practice!Kinds : net'[j] = IF j = k THEN net[j] \cup {Practice!Sent(to)} ELSE net[j]
    BY <1>0, <1>k, <1>1, <2>1, PracticeSent
  <2>3. \A j \in Practice!Graded : net'[j] = IF j = k THEN {Practice!Sent(to)} ELSE {}
    BY <1>k, <1>1, <2>2
  <2>4. SubmissionIsAwaited'
    BY <1>1, <2>3 DEF SubmissionIsAwaited
  <2> QED  BY <1>0, <1>1, <2>2, <2>4, EditorKept DEF PracticeInv
<1>2. ~page.submitting => page.exporting = Practice!None /\ \A j \in Practice!Graded : net[j] = {}
  BY <1>0 DEF SubmissionIsAwaited
<1>3. CASE Practice!Submit
  <2>1. /\ Practice!CodeView(page.problem) /\ ~page.submitting
        /\ net' = Practice!Asking(net, "submit", Practice!Solution)
        /\ page' = [page EXCEPT !.submitting = TRUE, !.result = Practice!None, !.error = FALSE]
    BY <1>3 DEF Practice!Submit, Practice!CanRun, Practice!Ask
  <2>2. SolutionFits(Practice!Solution)
    BY <1>0, <2>1 DEF SolutionFits, Practice!Solution, EditorFits, Practice!CodeView
  <2>3. page' \in Practice!Page /\ SameEditor /\ page'.submitting /\ page'.exporting = page.exporting
    BY <1>0, <2>1 DEF Practice!Page, SameEditor
  <2> QED  BY <1>1, <1>2, <2>1, <2>2, <2>3, PracticeKinds
<1>4. CASE Practice!SubmitMcq
  <2>1. /\ ~page.submitting /\ net' = Practice!Asking(net, "mcq", page.problem)
        /\ page' = [page EXCEPT !.submitting = TRUE, !.error = FALSE]
    BY <1>4 DEF Practice!SubmitMcq, Practice!CanSubmitMcq, Practice!Ask
  <2>3. page' \in Practice!Page /\ SameEditor /\ page'.submitting /\ page'.exporting = page.exporting
    BY <1>0, <2>1 DEF Practice!Page, SameEditor
  <2> QED  BY <1>1, <1>2, <2>1, <2>3, PracticeKinds
<1>5. CASE Practice!SubmitDesign
  <2> DEFINE p == [page EXCEPT !.submitting = TRUE, !.error = FALSE, !.designResult = FALSE]
  <2>1. /\ ~page.submitting /\ page.problem # Practice!None
        /\ \/ page' = [p EXCEPT !.exporting = page.problem] /\ UNCHANGED net
           \/ page' = p /\ net' = Practice!Asking(net, "design", page.problem)
    BY <1>5 DEF Practice!SubmitDesign, Practice!CanSubmitDesign, Practice!DesignView
  <2>2. /\ p \in Practice!Page /\ p.submitting /\ p.exporting = page.exporting /\ p.problem = page.problem
        /\ p.language = page.language /\ p.code = page.code
    BY <1>0 DEF Practice!Page
  <2> HIDE DEF p
  <2>3. CASE page' = [p EXCEPT !.exporting = page.problem] /\ UNCHANGED net
    <3>1. /\ page' \in Practice!Page /\ SameEditor /\ page'.submitting /\ page'.exporting # Practice!None
      BY <1>0, <2>1, <2>2, <2>3 DEF Practice!Page, SameEditor
    <3>2. SubmissionIsAwaited'
      BY <1>2, <2>1, <2>3, <3>1 DEF SubmissionIsAwaited
    <3>3. PracticeCallsFit'
      BY <1>0, <2>3 DEF PracticeCallsFit
    <3> QED  BY <1>0, <3>1, <3>2, <3>3, EditorKept DEF PracticeInv
  <2>4. CASE page' = p /\ net' = Practice!Asking(net, "design", page.problem)
    <3>1. page' \in Practice!Page /\ SameEditor /\ page'.submitting /\ page'.exporting = Practice!None
      BY <1>2, <2>1, <2>2, <2>4 DEF SameEditor
    <3> QED  BY <1>1, <1>2, <2>1, <2>4, <3>1, PracticeKinds
  <2> QED  BY <2>1, <2>3, <2>4
<1>6. CASE Practice!DiagramExported
  <2>1. /\ page.exporting # Practice!None /\ net' = Practice!Asking(net, "design", page.exporting)
        /\ page' = [page EXCEPT !.exporting = Practice!None]
    BY <1>6 DEF Practice!DiagramExported
  <2>2. page.submitting /\ \A j \in Practice!Graded : net[j] = {}
    BY <1>0, <2>1 DEF SubmissionIsAwaited
  <2>3. page' \in Practice!Page /\ SameEditor /\ page'.submitting /\ page'.exporting = Practice!None
    BY <1>0, <2>1, <2>2 DEF Practice!Page, SameEditor
  <2> QED  BY <1>1, <2>1, <2>2, <2>3, PracticeKinds
<1> QED  BY <1>3, <1>4, <1>5, <1>6

LEMMA PracticeGraded ==
    ASSUME PracticeInv, Practice!DeliverSubmit \/ Practice!DeliverMcq \/ Practice!DeliverDesign
    PROVE  PracticeInv'
<1>0. page \in Practice!Page /\ EditorFits /\ PracticeCallsFit /\ SubmissionIsAwaited
  BY DEF PracticeInv
<1> DEFINE Heard(k, c) ==
         /\ Practice!Take(k, c)
         /\ \/ \E r \in {"contest", "submit"} :
                 page' = [page EXCEPT !.submitting = FALSE, !.submissions = Practice!None, !.result = r]
            \/ page' = [page EXCEPT !.submitting = FALSE, !.mcqResult = TRUE]
            \/ page' = [page EXCEPT !.submitting = FALSE, !.designResult = TRUE]
            \/ page' = [page EXCEPT !.submitting = FALSE, !.error = TRUE]
<1>a. PICK k \in Practice!Graded : \E c \in net[k] : Heard(k, c)
  <2>1. CASE Practice!DeliverSubmit
    <3>1. PICK c \in net["submit"] :
             /\ Practice!Take("submit", c)
             /\ page' = IF Practice!Ok(c)
                   THEN [page EXCEPT !.submitting = FALSE, !.submissions = Practice!None,
                             !.result = IF Practice!InContest(c.to.of) THEN "contest" ELSE "submit"]
                   ELSE [page EXCEPT !.submitting = FALSE, !.error = TRUE]
      BY <2>1, Zenon DEF Practice!DeliverSubmit, Practice!Came
    <3>2. PICK r \in {"contest", "submit"} : r = IF Practice!InContest(c.to.of) THEN "contest" ELSE "submit"
      OBVIOUS
    <3> QED  BY <3>1, <3>2, PracticeKinds
  <2>2. CASE Practice!DeliverMcq
    BY <2>2, PracticeKinds DEF Practice!DeliverMcq, Practice!Came
  <2>3. CASE Practice!DeliverDesign
    BY <2>3, PracticeKinds DEF Practice!DeliverDesign, Practice!Came
  <2> QED  BY <2>1, <2>2, <2>3
<1>1. PICK c \in net[k] : Heard(k, c)
  BY <1>a
<1>2. Practice!Graded \subseteq Practice!Kinds
  BY PracticeKinds
<1>3. PracticeCallsFit' /\ \A j \in Practice!Kinds : net'[j] = IF j = k THEN net[k] \ {c} ELSE net[j]
  BY <1>0, <1>1, <1>2, PracticeTaken
<1>4. page' \in Practice!Page /\ SameEditor /\ ~page'.submitting /\ page'.exporting = page.exporting
  BY <1>0, <1>1, ZenonT(60) DEF Practice!Page, SameEditor
<1>5. page.exporting = Practice!None /\ \A j \in Practice!Graded : net'[j] = {}
  BY <1>0, <1>1, <1>2, <1>3 DEF SubmissionIsAwaited
<1>6. SubmissionIsAwaited'
  BY <1>4, <1>5 DEF SubmissionIsAwaited
<1> QED  BY <1>0, <1>3, <1>4, <1>6, EditorKept DEF PracticeInv

LEMMA PracticeServer ==
    ASSUME PracticeInv, Practice!ServeReads \/ Practice!ServeGraded \/ Practice!Lose
    PROVE  PracticeInv'
<1>0. PracticeCallsFit
  BY DEF PracticeInv
<1>1. ASSUME NEW k \in Practice!Kinds, NEW c \in net[k], NEW v, UNCHANGED page,
             k = "list" => v \subseteq Practice!Ids,
             Practice!Answer(k, c, v) \/ Practice!Refuse(k, c)
      PROVE  PracticeInv'
  <2> DEFINE a == [to |-> c.to, phase |-> "answered", ans |-> v]
             f == [to |-> c.to, phase |-> "failed"]
  <2>1. PracticeCallFits(k, a) /\ PracticeCallFits(k, f)
    BY <1>0, <1>1 DEF PracticeCallsFit, PracticeCallFits, Practice!Ok
  <2>2. PICK q \in {a, f} : net' = [net EXCEPT ![k] = (@ \ {c}) \cup {q}]
    BY <1>1 DEF Practice!Answer, Practice!Refuse
  <2> HIDE DEF a, f
  <2> QED  BY <1>1, <2>1, <2>2, PracticeMoved
<1>2. PICK k \in Practice!Kinds : \E c \in net[k] : \E v :
         /\ UNCHANGED page /\ (k = "list" => v \subseteq Practice!Ids)
         /\ Practice!Answer(k, c, v) \/ Practice!Refuse(k, c)
  <2>1. CASE Practice!ServeReads
    <3>1. Practice!Offered \subseteq Practice!Ids
      BY DEF Practice!Offered
    <3> QED  BY <2>1, <3>1, PracticeKinds DEF Practice!ServeReads, Practice!Asked, Practice!OnlyNet
  <2>2. CASE Practice!ServeGraded
    BY <2>2, PracticeKinds DEF Practice!ServeGraded, Practice!Asked, Practice!OnlyNet
  <2>3. CASE Practice!Lose
    <3>1. PICK k \in Practice!Kinds : \E c \in net[k] : Practice!Refuse(k, c) /\ UNCHANGED page
      BY <2>3 DEF Practice!Lose, Practice!Lost
    <3>2. {} \subseteq Practice!Ids
      OBVIOUS
    <3> QED  BY <3>1, <3>2
  <2> QED  BY <2>1, <2>2, <2>3
<1> QED  BY <1>1, <1>2

LEMMA InitPractice == Practice!PracticeInit => PracticeInv
<1> SUFFICES ASSUME Practice!PracticeInit  PROVE PracticeInv
  OBVIOUS
<1>1. page = Practice!PageFirst
      /\ net = [Practice!NoCalls(Practice!Kinds) EXCEPT !["list"] = {Practice!Sent(Practice!None)}]
  BY DEF Practice!PracticeInit
<1>2. page \in Practice!Page
  BY <1>1 DEF Practice!PageFirst, Practice!Page, Practice!Codes
<1>3. EditorFits
  BY <1>1 DEF EditorFits, Practice!PageFirst, Practice!CodeView
<1>4. /\ DOMAIN net = Practice!Kinds
      /\ \A k \in Practice!Kinds : net[k] = IF k = "list" THEN {Practice!Sent(Practice!None)} ELSE {}
  BY <1>1 DEF Practice!NoCalls
<1>5. PracticeCallFits("list", Practice!Sent(Practice!None))
  BY DEF PracticeCallFits, Practice!Ok, Practice!Sent
<1>6. PracticeCallsFit
  BY <1>4, <1>5 DEF PracticeCallsFit
<1>7. \A k \in Practice!Graded : net[k] = {}
  BY <1>4, PracticeKinds
<1>8. SubmissionIsAwaited
  BY <1>1, <1>7 DEF SubmissionIsAwaited, Practice!PageFirst
<1> QED  BY <1>2, <1>3, <1>6, <1>8 DEF PracticeInv

LEMMA NextPractice == PracticeInv /\ [Practice!PracticeNext]_<<page, net, lost, does>> => PracticeInv'
<1> SUFFICES ASSUME PracticeInv, [Practice!PracticeNext]_<<page, net, lost, does>>  PROVE PracticeInv'
  OBVIOUS
<1>1. CASE UNCHANGED <<page, net, lost, does>>
  BY <1>1, EditorKept, SubmissionsKept DEF PracticeInv, PracticeCallsFit, SameEditor, NothingSubmitted
<1>2. CASE Practice!PracticeNext
  BY <1>2, PracticeReads, PracticeEditor, PracticeSubmits, PracticeGraded, PracticeServer
     DEF Practice!PracticeNext
<1> QED  BY <1>1, <1>2

\* The pages' modules count alike.
LEMMA OneCardinality ==
    ASSUME NEW S
    PROVE  /\ Practice!Cardinality(S) = Cardinality(S)
           /\ Session!Cardinality(S) = Cardinality(S)
           /\ Chat!Cardinality(S) = Cardinality(S)
BY DEF Practice!Cardinality, Session!Cardinality, Chat!Cardinality, Cardinality

LEMMA PracticeKeeps == PracticeInv => Practice!OneSubmission /\ Practice!SolutionFitsProblem
<1> SUFFICES ASSUME PracticeInv  PROVE Practice!OneSubmission /\ Practice!SolutionFitsProblem
  OBVIOUS
<1> DEFINE out == UNION {{<<k, c>> : c \in net[k]} : k \in Practice!Graded}
<1>1. Cardinality(out) <= 1
  <2>1. \A x, y \in out : x = y
    BY DEF PracticeInv, SubmissionIsAwaited
  <2>2. CASE out = {}
    BY <2>2, FS_EmptySet
  <2>3. CASE out # {}
    <3>1. PICK x \in out : out = {x}
      BY <2>1, <2>3
    <3> HIDE DEF out
    <3> QED  BY <3>1, FS_Singleton
  <2> QED  BY <2>2, <2>3
<1>2. Practice!OneSubmission
  <2>1. Practice!Cardinality(out) <= 1
    <3> HIDE DEF out
    <3> QED  BY <1>1, OneCardinality
  <2> QED  BY <2>1 DEF Practice!OneSubmission, Practice!InFlight, PracticeInv, SubmissionIsAwaited
<1>3. Practice!SolutionFitsProblem
  BY PracticeKinds DEF Practice!SolutionFitsProblem, PracticeInv, PracticeCallsFit, PracticeCallFits, SolutionFits
<1> QED  BY <1>2, <1>3

-----------------------------------------------------------------------------
(* What the billing page keeps                                              *)

BillingCallFits(k, c) ==
    /\ k = "pricing" => c \in Billing!Call(k, [forced: BOOLEAN, waited: BOOLEAN], Billing!Versions)
    /\ k = "validate" => /\ c.to \in Billing!Codes
                         /\ Billing!Ok(c) => c.ans \subseteq CodePacks[c.to]
    /\ k = "order" /\ c.to.code # Billing!None => c.to.pack \in CodePacks[c.to.code]

BillingCallsFit ==
    /\ DOMAIN net = Billing!Kinds
    /\ \A k \in Billing!Kinds : \A c \in net[k] : BillingCallFits(k, c)

\* The discounts that are shown are of the code that is applied.
DiscountsFit ==
    IF page.applied = Billing!None THEN page.discounts = {}
                                   ELSE page.discounts \subseteq CodePacks[page.applied]

BillingInv == page \in Billing!Page /\ server \in Billing!Server /\ DiscountsFit /\ BillingCallsFit

LEMMA BillingKinds == Billing!Kinds = {"pricing", "validate", "order", "payg", "status", "wallet"}
BY DEF Billing!Kinds

LEMMA BillingTaken ==
    ASSUME BillingCallsFit, NEW k \in Billing!Kinds, NEW c \in net[k], Billing!Take(k, c)
    PROVE  BillingCallsFit'
<1>1. DOMAIN net' = Billing!Kinds /\ \A j \in Billing!Kinds : net'[j] \subseteq net[j]
  BY DEF BillingCallsFit, Billing!Take, Billing!Without
<1> QED  BY <1>1 DEF BillingCallsFit

LEMMA BillingSent ==
    ASSUME BillingCallsFit, NEW k \in Billing!Kinds, NEW to, net' = Billing!Asking(net, k, to),
           BillingCallFits(k, Billing!Sent(to))
    PROVE  BillingCallsFit'
<1>1. DOMAIN net' = Billing!Kinds
      /\ \A j \in Billing!Kinds : net'[j] \subseteq IF j = k THEN net[j] \cup {Billing!Sent(to)} ELSE net[j]
  BY DEF BillingCallsFit, Billing!Asking
<1> QED  BY <1>1 DEF BillingCallsFit

LEMMA BillingMoved ==
    ASSUME BillingCallsFit, NEW k \in Billing!Kinds, NEW c \in net[k], NEW q, BillingCallFits(k, q),
           net' = [net EXCEPT ![k] = (@ \ {c}) \cup {q}]
    PROVE  BillingCallsFit'
<1>1. DOMAIN net' = Billing!Kinds
      /\ \A j \in Billing!Kinds : net'[j] \subseteq IF j = k THEN net[j] \cup {q} ELSE net[j]
  BY DEF BillingCallsFit
<1> QED  BY <1>1 DEF BillingCallsFit

LEMMA FreshBilling ==
    ASSUME NEW at \in Billing!Places, NEW cache \in Billing!Versions \cup {0}
    PROVE  /\ Billing!Fresh(at, cache) \in Billing!Page
           /\ Billing!Fresh(at, cache).applied = Billing!None /\ Billing!Fresh(at, cache).discounts = {}
BY ShopAssumption DEF Billing!Fresh, Billing!Page

LEMMA PricingCalls ==
    /\ BillingCallFits("pricing", Billing!Sent(Billing!Shared))
    /\ BillingCallFits("pricing", Billing!Sent(Billing!Forced))
BY DEF BillingCallFits, Billing!Sent, Billing!Shared, Billing!Forced, Billing!Call

LEMMA OpensBilling ==
    ASSUME BillingInv, NEW n, DOMAIN n = Billing!Kinds,
           \A k \in Billing!Kinds : \A c \in n[k] : BillingCallFits(k, c), Billing!ToBilling(n)
    PROVE  BillingInv'
<1>1. page' = Billing!Fresh("billing", page.cache) /\ server' = server
  BY DEF Billing!ToBilling, Billing!Same
<1>2. page.cache \in Billing!Versions \cup {0}
  BY DEF BillingInv, Billing!Page
<1>3. page' \in Billing!Page /\ DiscountsFit'
  BY <1>1, <1>2, FreshBilling DEF DiscountsFit, Billing!Places
<1>4. /\ DOMAIN net' = Billing!Kinds
      /\ \A j \in Billing!Kinds :
            net'[j] \subseteq IF j = "pricing"
                              THEN n[j] \cup {Billing!Sent(Billing!Shared), Billing!Sent(Billing!Forced)}
                              ELSE n[j]
  BY BillingKinds DEF Billing!ToBilling, Billing!Asking
<1>5. BillingCallsFit'
  BY <1>4, PricingCalls DEF BillingCallsFit
<1> QED  BY <1>1, <1>3, <1>5 DEF BillingInv

LEMMA BillingVisits ==
    ASSUME BillingInv,
           \/ Billing!OpenBilling \/ Billing!Leave \/ Billing!Checkout \/ Billing!Outcome
           \/ Billing!OpenWallet \/ Billing!GoRecharge
    PROVE  BillingInv'
<1>0. page \in Billing!Page /\ server \in Billing!Server /\ BillingCallsFit
      /\ page.cache \in Billing!Versions \cup {0} /\ 0 \in Billing!Versions \cup {0}
  BY DEF BillingInv, Billing!Page
<1>1. ASSUME NEW at \in Billing!Places, NEW cache \in Billing!Versions \cup {0},
             page' = Billing!Fresh(at, cache), server' \in Billing!Server, BillingCallsFit'
      PROVE  BillingInv'
  BY <1>1, FreshBilling DEF BillingInv, DiscountsFit
<1>2. DOMAIN Billing!NoCalls(Billing!Kinds) = Billing!Kinds
      /\ \A k \in Billing!Kinds : Billing!NoCalls(Billing!Kinds)[k] = {}
  BY DEF Billing!NoCalls
<1>3. {"billing", "away", "confirm", "wallet"} \subseteq Billing!Places
  BY DEF Billing!Places
<1>4. \A to : BillingCallFits("status", Billing!Sent(to)) /\ BillingCallFits("wallet", Billing!Sent(to))
  BY DEF BillingCallFits
<1>5. CASE Billing!OpenBilling \/ Billing!GoRecharge
  BY <1>0, <1>5, OpensBilling DEF Billing!OpenBilling, Billing!GoRecharge, BillingCallsFit
<1>6. CASE Billing!Leave
  <2>1. page' = Billing!Fresh("away", page.cache) /\ server' = server /\ net' = Billing!Quiescent(net)
    BY <1>6 DEF Billing!Leave, Billing!Same
  <2>2. ASSUME NEW c \in net["pricing"]
        PROVE  BillingCallFits("pricing", [c EXCEPT !.to.waited = FALSE])
    <3>1. c \in Billing!Call("pricing", [forced: BOOLEAN, waited: BOOLEAN], Billing!Versions)
      BY <1>0, BillingKinds DEF BillingCallsFit, BillingCallFits
    <3>2. [c EXCEPT !.to.waited = FALSE]
             \in Billing!Call("pricing", [forced: BOOLEAN, waited: BOOLEAN], Billing!Versions)
      BY <3>1 DEF Billing!Call
    <3> QED  BY <3>2 DEF BillingCallFits
  <2>3. DOMAIN net' = Billing!Kinds
        /\ \A k \in Billing!Kinds :
              net'[k] = IF k = "pricing" THEN {[c EXCEPT !.to.waited = FALSE] : c \in net["pricing"]} ELSE {}
    BY <2>1 DEF Billing!Quiescent
  <2>4. BillingCallsFit'
    BY <2>2, <2>3 DEF BillingCallsFit
  <2> QED  BY <1>0, <1>1, <1>3, <2>1, <2>4
<1>7. CASE Billing!Checkout
  <2>1. /\ server' = server \/ \E l \in {"paid", "cancelled", "created"} : server' = [server EXCEPT !.link = l]
        /\ \/ page' = Billing!Fresh("confirm", 0) /\ net' = [net EXCEPT !["status"] = {Billing!Sent(0)}]
           \/ page' = Billing!Fresh("away", 0) /\ UNCHANGED net
    BY <1>7 DEF Billing!Checkout
  <2>2. server' \in Billing!Server
    BY <1>0, <2>1 DEF Billing!Server
  <2>3. DOMAIN net' = Billing!Kinds
        /\ \A k \in Billing!Kinds : net'[k] \subseteq IF k = "status" THEN net[k] \cup {Billing!Sent(0)} ELSE net[k]
    BY <1>0, <2>1 DEF BillingCallsFit
  <2>4. BillingCallsFit'
    BY <1>0, <1>4, <2>3 DEF BillingCallsFit
  <2> QED  BY <1>0, <1>1, <1>3, <2>1, <2>2, <2>4
<1>8. CASE Billing!Outcome
  <2>1. CASE Billing!ToBilling(Billing!NoCalls(Billing!Kinds))
    BY <1>2, <2>1, OpensBilling
  <2>2. ASSUME NEW at \in {"wallet", "away"}, page' = Billing!Fresh(at, page.cache), Billing!Same,
               \/ net' = [Billing!NoCalls(Billing!Kinds) EXCEPT !["wallet"] = {Billing!Sent(TRUE)}]
               \/ net' = Billing!NoCalls(Billing!Kinds)
        PROVE  BillingInv'
    <3>1. DOMAIN net' = Billing!Kinds
          /\ \A k \in Billing!Kinds : net'[k] \subseteq IF k = "wallet" THEN {Billing!Sent(TRUE)} ELSE {}
      BY <1>2, <2>2
    <3>2. BillingCallsFit'
      BY <1>4, <3>1 DEF BillingCallsFit
    <3> QED  BY <1>0, <1>1, <1>3, <2>2, <3>2 DEF Billing!Same
  <2> QED  BY <1>8, <2>1, <2>2 DEF Billing!Outcome
<1>9. CASE Billing!OpenWallet
  <2>1. page' = Billing!Fresh("wallet", page.cache) /\ server' = server
        /\ net' = Billing!Asking(net, "wallet", TRUE)
    BY <1>9 DEF Billing!OpenWallet, Billing!Ask, Billing!Same
  <2>2. BillingCallsFit'
    BY <1>0, <1>4, <2>1, BillingSent, BillingKinds
  <2> QED  BY <1>0, <1>1, <1>3, <2>1, <2>2
<1> QED  BY <1>5, <1>6, <1>7, <1>8, <1>9

LEMMA BillingAnswers ==
    ASSUME BillingInv,
           \/ Billing!DeliverPricing \/ Billing!DeliverCode \/ Billing!DeliverOrder
           \/ Billing!DeliverStatus \/ Billing!DeliverWallet
    PROVE  BillingInv'
<1>0. page \in Billing!Page /\ server \in Billing!Server /\ BillingCallsFit /\ DiscountsFit
  BY DEF BillingInv
<1>1. ASSUME page' \in Billing!Page, DiscountsFit', UNCHANGED server, BillingCallsFit'  PROVE BillingInv'
  BY <1>0, <1>1 DEF BillingInv
<1>2. ASSUME page' \in Billing!Page, page'.applied = page.applied, page'.discounts = page.discounts
      PROVE  DiscountsFit'
  BY <1>0, <1>2 DEF DiscountsFit
<1>3. CASE Billing!DeliverPricing
  <2>1. PICK c \in net["pricing"] :
           /\ Billing!Take("pricing", c) /\ UNCHANGED server
           /\ page' = [page EXCEPT
                !.cache = IF Billing!Ok(c) THEN c.ans ELSE @,
                !.pricing = IF Billing!Ok(c) /\ c.to.waited THEN c.ans ELSE @,
                !.error = @ \/ (~Billing!Ok(c) /\ c.to.waited)]
    BY <1>3, Zenon DEF Billing!DeliverPricing, Billing!Came, Billing!Same
  <2>2. c \in Billing!Call("pricing", [forced: BOOLEAN, waited: BOOLEAN], Billing!Versions)
    BY <1>0, BillingKinds DEF BillingCallsFit, BillingCallFits
  <2>3. PICK cache, pricing, e :
           /\ cache = IF Billing!Ok(c) THEN c.ans ELSE page.cache
           /\ pricing = IF Billing!Ok(c) /\ c.to.waited THEN c.ans ELSE page.pricing
           /\ e = (page.error \/ (~Billing!Ok(c) /\ c.to.waited))
    OBVIOUS
  <2>4. Billing!Ok(c) => c.ans \in Billing!Versions
    BY <2>2 DEF Billing!Ok, Billing!Call
  <2>5. /\ cache \in Billing!Versions \cup {0} /\ pricing \in Billing!Versions \cup {0}
        /\ e \in BOOLEAN
    BY <1>0, <2>3, <2>4 DEF Billing!Page, Billing!Ok
  <2>6. page' = [page EXCEPT !.cache = cache, !.pricing = pricing, !.error = e]
    BY <2>1, <2>3
  <2>7. page' \in Billing!Page /\ page'.applied = page.applied /\ page'.discounts = page.discounts
    BY <1>0, <2>5, <2>6 DEF Billing!Page
  <2> QED  BY <1>0, <1>1, <1>2, <2>1, <2>7, BillingTaken, BillingKinds
<1>4. CASE Billing!DeliverCode
  <2>1. PICK c \in net["validate"] :
           /\ Billing!Take("validate", c) /\ UNCHANGED server
           /\ \/ Billing!Ok(c) /\ page' = [page EXCEPT !.applying = FALSE, !.discounts = c.ans, !.applied = c.to]
              \/ page' = [page EXCEPT !.applying = FALSE, !.discounts = {}, !.applied = Billing!None]
    BY <1>4, Zenon DEF Billing!DeliverCode, Billing!Came, Billing!Same
  <2>2. c.to \in Billing!Codes /\ (Billing!Ok(c) => c.ans \subseteq CodePacks[c.to])
    BY <1>0, BillingKinds DEF BillingCallsFit, BillingCallFits
  <2>3. Billing!Ok(c) => c.ans \subseteq ShopPacks
    BY <2>2, ShopAssumption
  <2>4. CASE Billing!Ok(c) /\ page' = [page EXCEPT !.applying = FALSE, !.discounts = c.ans, !.applied = c.to]
    <3>1. page' \in Billing!Page /\ page'.applied = c.to /\ page'.discounts = c.ans
      BY <1>0, <2>2, <2>3, <2>4 DEF Billing!Page
    <3>2. DiscountsFit'
      BY <2>2, <2>4, <3>1, ShopAssumption DEF DiscountsFit
    <3> QED  BY <1>0, <1>1, <2>1, <3>1, <3>2, BillingTaken, BillingKinds
  <2>5. CASE page' = [page EXCEPT !.applying = FALSE, !.discounts = {}, !.applied = Billing!None]
    <3>1. page' \in Billing!Page /\ page'.applied = Billing!None /\ page'.discounts = {}
      BY <1>0, <2>5 DEF Billing!Page
    <3> QED  BY <1>0, <1>1, <2>1, <3>1, BillingTaken, BillingKinds DEF DiscountsFit
  <2> QED  BY <2>1, <2>4, <2>5
<1>5. CASE Billing!DeliverOrder
  <2>1. PICK k \in {"order", "payg"} : \E c \in net[k] :
           \/ page' = Billing!Fresh("checkout", 0) /\ net' = Billing!NoCalls(Billing!Kinds)
           \/ /\ Billing!Take(k, c)
              /\ \/ page' = [page EXCEPT !.buying = Billing!None]
                 \/ page' = [page EXCEPT !.busy = FALSE]
    BY <1>5 DEF Billing!DeliverOrder, Billing!Came
  <2>2. UNCHANGED server
    BY <1>5 DEF Billing!DeliverOrder, Billing!Same
  <2>3. CASE page' = Billing!Fresh("checkout", 0) /\ net' = Billing!NoCalls(Billing!Kinds)
    <3>1. page' \in Billing!Page /\ DiscountsFit'
      BY <2>3, FreshBilling DEF DiscountsFit, Billing!Places
    <3>2. BillingCallsFit'
      BY <2>3 DEF BillingCallsFit, Billing!NoCalls
    <3> QED  BY <1>1, <2>2, <3>1, <3>2
  <2>4. ASSUME NEW c \in net[k], Billing!Take(k, c),
               page' = [page EXCEPT !.buying = Billing!None] \/ page' = [page EXCEPT !.busy = FALSE]
        PROVE  BillingInv'
    <3>1. page' \in Billing!Page /\ page'.applied = page.applied /\ page'.discounts = page.discounts
      BY <1>0, <2>4 DEF Billing!Page
    <3> QED  BY <1>0, <1>1, <1>2, <2>2, <2>4, <3>1, BillingTaken, BillingKinds
  <2> QED  BY <2>1, <2>3, <2>4
<1>6. CASE Billing!DeliverStatus
  <2>1. PICK c \in net["status"] :
           /\ Billing!Take("status", c) /\ UNCHANGED server
           /\ \/ \E s \in {"success", "failed"} : page' = [page EXCEPT !.status = s]
              \/ ~(page.polls >= MaxConfirms) /\ page' = [page EXCEPT !.timer = TRUE, !.polls = @ + 1]
    BY <1>6 DEF Billing!DeliverStatus, Billing!Came, Billing!Same
  <2>2. page' \in Billing!Page /\ page'.applied = page.applied /\ page'.discounts = page.discounts
    <3>1. CASE \E s \in {"success", "failed"} : page' = [page EXCEPT !.status = s]
      BY <1>0, <3>1 DEF Billing!Page
    <3>2. CASE ~(page.polls >= MaxConfirms) /\ page' = [page EXCEPT !.timer = TRUE, !.polls = @ + 1]
      <4>1. page.polls + 1 \in 0 .. MaxConfirms
        BY <1>0, <3>2, ShopAssumption DEF Billing!Page
      <4> QED  BY <1>0, <3>2, <4>1 DEF Billing!Page
    <3> QED  BY <2>1, <3>1, <3>2
  <2> QED  BY <1>0, <1>1, <1>2, <2>1, <2>2, BillingTaken, BillingKinds
<1>7. CASE Billing!DeliverWallet
  <2>1. PICK c \in net["wallet"] :
           /\ Billing!Take("wallet", c) /\ UNCHANGED server
           /\ \E b \in {"shown", page.balance} : page' = [page EXCEPT !.loading = FALSE, !.balance = b]
    BY <1>7, Zenon DEF Billing!DeliverWallet, Billing!Came, Billing!Same
  <2>2. page' \in Billing!Page /\ page'.applied = page.applied /\ page'.discounts = page.discounts
    BY <1>0, <2>1 DEF Billing!Page
  <2> QED  BY <1>0, <1>1, <1>2, <2>1, <2>2, BillingTaken, BillingKinds
<1> QED  BY <1>3, <1>4, <1>5, <1>6, <1>7

LEMMA BillingButtons ==
    ASSUME BillingInv,
           \/ \E k \in Billing!Codes : Billing!TypeCode(k)
           \/ Billing!ApplyCode \/ Billing!ClearCode
           \/ \E p \in ShopPacks : Billing!BuyPack(p)
           \/ Billing!TypeAmount \/ Billing!Recharge \/ Billing!StatusDue
    PROVE  BillingInv'
<1>0. page \in Billing!Page /\ server \in Billing!Server /\ BillingCallsFit /\ DiscountsFit
  BY DEF BillingInv
<1>1. ASSUME page' \in Billing!Page, DiscountsFit', UNCHANGED server,
             \/ UNCHANGED net
             \/ \E k \in Billing!Kinds : \E to : /\ net' = Billing!Asking(net, k, to)
                                            /\ BillingCallFits(k, Billing!Sent(to))
      PROVE  BillingInv'
  <2>1. BillingCallsFit'
    <3>1. CASE UNCHANGED net
      BY <1>0, <3>1 DEF BillingCallsFit
    <3> QED  BY <1>0, <1>1, <3>1, BillingSent
  <2> QED  BY <1>0, <1>1, <2>1 DEF BillingInv
<1>2. ASSUME page' \in Billing!Page, page'.applied = page.applied, page'.discounts = page.discounts
      PROVE  DiscountsFit'
  BY <1>0, <1>2 DEF DiscountsFit
<1>3. ASSUME NEW k \in Billing!Codes, Billing!TypeCode(k)  PROVE BillingInv'
  <2>1. page' = [page EXCEPT !.code = k] /\ UNCHANGED <<net, server>>
    BY <1>3 DEF Billing!TypeCode, Billing!Stays, Billing!Same
  <2>2. page' \in Billing!Page /\ page'.applied = page.applied /\ page'.discounts = page.discounts
    BY <1>0, <2>1 DEF Billing!Page
  <2> QED  BY <1>1, <1>2, <2>1, <2>2
<1>4. CASE Billing!ApplyCode
  <2>1. page' = [page EXCEPT !.applying = TRUE] /\ UNCHANGED server /\ page.code # Billing!None
        /\ net' = Billing!Asking(net, "validate", page.code)
    BY <1>4 DEF Billing!ApplyCode, Billing!Ask, Billing!Same
  <2>2. page' \in Billing!Page /\ page'.applied = page.applied /\ page'.discounts = page.discounts
    BY <1>0, <2>1 DEF Billing!Page
  <2>3. BillingCallFits("validate", Billing!Sent(page.code))
    BY <1>0, <2>1 DEF BillingCallFits, Billing!Sent, Billing!Ok, Billing!Page
  <2> QED  BY <1>1, <1>2, <2>1, <2>2, <2>3, BillingKinds
<1>5. CASE Billing!ClearCode
  <2>1. page' = [page EXCEPT !.code = Billing!None, !.applied = Billing!None, !.discounts = {}]
        /\ UNCHANGED <<net, server>>
    BY <1>5 DEF Billing!ClearCode, Billing!Stays, Billing!Same
  <2>2. page' \in Billing!Page /\ page'.applied = Billing!None /\ page'.discounts = {}
    BY <1>0, <2>1 DEF Billing!Page
  <2> QED  BY <1>1, <2>1, <2>2 DEF DiscountsFit
<1>6. ASSUME NEW p \in ShopPacks, Billing!BuyPack(p)  PROVE BillingInv'
  <2> DEFINE to == [pack |-> p, code |-> IF Billing!Discounted(p) THEN page.applied ELSE Billing!None]
  <2>1. page' = [page EXCEPT !.buying = p] /\ UNCHANGED server /\ net' = Billing!Asking(net, "order", to)
    BY <1>6 DEF Billing!BuyPack, Billing!Ask, Billing!Same
  <2>2. page' \in Billing!Page /\ page'.applied = page.applied /\ page'.discounts = page.discounts
    BY <1>0, <2>1 DEF Billing!Page
  <2>3. BillingCallFits("order", Billing!Sent(to))
    BY <1>0 DEF BillingCallFits, Billing!Sent, Billing!Discounted, DiscountsFit
  <2> HIDE DEF to
  <2> QED  BY <1>1, <1>2, <2>1, <2>2, <2>3, BillingKinds
<1>7. CASE Billing!TypeAmount
  <2>1. page' = [page EXCEPT !.valid = ~page.valid] /\ UNCHANGED <<net, server>>
    BY <1>7 DEF Billing!TypeAmount, Billing!Stays, Billing!Same
  <2>2. page' \in Billing!Page /\ page'.applied = page.applied /\ page'.discounts = page.discounts
    BY <1>0, <2>1 DEF Billing!Page
  <2> QED  BY <1>1, <1>2, <2>1, <2>2
<1>8. CASE Billing!Recharge \/ Billing!StatusDue
  <2>1. UNCHANGED server /\ (page' = [page EXCEPT !.busy = TRUE] \/ page' = [page EXCEPT !.timer = FALSE])
        /\ \E k \in {"payg", "status"} : \E to : net' = Billing!Asking(net, k, to)
    BY <1>8 DEF Billing!Recharge, Billing!StatusDue, Billing!Ask, Billing!Same
  <2>2. page' \in Billing!Page /\ page'.applied = page.applied /\ page'.discounts = page.discounts
    BY <1>0, <2>1 DEF Billing!Page
  <2>3. \A k \in {"payg", "status"} : \A to : BillingCallFits(k, Billing!Sent(to))
    BY DEF BillingCallFits
  <2> QED  BY <1>1, <1>2, <2>1, <2>2, <2>3, BillingKinds
<1> QED  BY <1>3, <1>4, <1>5, <1>6, <1>7, <1>8

LEMMA BillingServer ==
    ASSUME BillingInv,
           \/ Billing!ServePricing \/ Billing!ServeCode \/ Billing!ServeOrder \/ Billing!ServeStatus
           \/ Billing!ServeWallet \/ Billing!Reprice \/ Billing!LinkPaid \/ Billing!Lose
    PROVE  BillingInv'
<1>0. page \in Billing!Page /\ server \in Billing!Server /\ BillingCallsFit /\ DiscountsFit
  BY DEF BillingInv
<1>1. ASSUME NEW k \in Billing!Kinds, NEW c \in net[k], NEW v, UNCHANGED page, server' \in Billing!Server,
             k = "pricing" => v \in Billing!Versions,
             k = "validate" => v \subseteq CodePacks[c.to],
             Billing!Answer(k, c, v) \/ Billing!Refuse(k, c)
      PROVE  BillingInv'
  <2> DEFINE a == [to |-> c.to, phase |-> "answered", ans |-> v]
             f == [to |-> c.to, phase |-> "failed"]
  <2>1. BillingCallFits(k, a) /\ BillingCallFits(k, f)
    BY <1>0, <1>1 DEF BillingCallsFit, BillingCallFits, Billing!Ok, Billing!Call
  <2>2. PICK q \in {a, f} : net' = [net EXCEPT ![k] = (@ \ {c}) \cup {q}]
    BY <1>1 DEF Billing!Answer, Billing!Refuse
  <2> HIDE DEF a, f
  <2>3. BillingCallsFit'
    BY <1>0, <2>1, <2>2, BillingMoved
  <2> QED  BY <1>0, <1>1, <2>3 DEF BillingInv, DiscountsFit
<1>2. ASSUME NEW s, server' = s, s \in Billing!Server, UNCHANGED <<page, net>>  PROVE BillingInv'
  BY <1>0, <1>2 DEF BillingInv, DiscountsFit, BillingCallsFit
<1>3. CASE Billing!ServePricing
  <2>1. server.prices \in Billing!Versions
    BY <1>0 DEF Billing!Server
  <2> QED  BY <1>0, <1>1, <1>3, <2>1, BillingKinds DEF Billing!ServePricing, Billing!Asked, Billing!OnlyNet
<1>4. CASE Billing!ServeCode
  BY <1>0, <1>1, <1>4, BillingKinds DEF Billing!ServeCode, Billing!Asked, Billing!OnlyNet
<1>5. CASE Billing!ServeOrder
  <2>1. PICK k \in {"order", "payg"} : \E c \in net[k] :
           /\ Billing!Answer(k, c, TRUE) \/ Billing!Refuse(k, c)
           /\ UNCHANGED page /\ (server' = server \/ server' = [server EXCEPT !.link = "created"])
    BY <1>5 DEF Billing!ServeOrder, Billing!Asked
  <2>2. server' \in Billing!Server
    BY <1>0, <2>1 DEF Billing!Server
  <2> QED  BY <1>1, <2>1, <2>2, BillingKinds
<1>6. CASE Billing!ServeStatus \/ Billing!ServeWallet
  BY <1>0, <1>1, <1>6, BillingKinds
     DEF Billing!ServeStatus, Billing!ServeWallet, Billing!Asked, Billing!OnlyNet
<1>7. CASE Billing!Reprice
  <2>1. server.prices < MaxPrices /\ server' = [server EXCEPT !.prices = @ + 1] /\ UNCHANGED <<page, net>>
    BY <1>7 DEF Billing!Reprice
  <2>2. server' \in Billing!Server
    BY <1>0, <2>1, ShopAssumption DEF Billing!Server, Billing!Versions
  <2> QED  BY <1>2, <2>1, <2>2
<1>8. CASE Billing!LinkPaid
  <2>1. server' = [server EXCEPT !.link = "paid"] /\ UNCHANGED <<page, net>>
    BY <1>8 DEF Billing!LinkPaid
  <2>2. server' \in Billing!Server
    BY <1>0, <2>1 DEF Billing!Server
  <2> QED  BY <1>2, <2>1, <2>2
<1>9. CASE Billing!Lose
  <2>1. PICK k \in Billing!Kinds : \E c \in net[k] : Billing!Refuse(k, c) /\ UNCHANGED <<page, server>>
    BY <1>9 DEF Billing!Lose, Billing!Lost
  <2>2. PICK c \in net[k] : Billing!Refuse(k, c) /\ UNCHANGED <<page, server>>
    BY <2>1
  <2>3. PICK v : (k = "pricing" => v \in Billing!Versions) /\ (k = "validate" => v = {})
    <3>1. 1 \in Billing!Versions
      BY ShopAssumption DEF Billing!Versions
    <3> QED  BY <3>1
  <2> QED  BY <1>0, <1>1, <2>2, <2>3
<1> QED  BY <1>3, <1>4, <1>5, <1>6, <1>7, <1>8, <1>9

LEMMA InitBilling == Billing!BillingInit => BillingInv
<1> SUFFICES ASSUME Billing!BillingInit  PROVE BillingInv
  OBVIOUS
<1>1. page \in Billing!Page /\ DiscountsFit
  BY FreshBilling DEF Billing!BillingInit, Billing!Places, DiscountsFit
<1>2. server \in Billing!Server
  BY ShopAssumption DEF Billing!BillingInit, Billing!Server, Billing!Versions
<1>3. BillingCallsFit
  BY DEF Billing!BillingInit, Billing!NoCalls, BillingCallsFit
<1> QED  BY <1>1, <1>2, <1>3 DEF BillingInv

LEMMA NextBilling == BillingInv /\ [Billing!BillingNext]_<<page, server, net, lost, does>> => BillingInv'
<1> SUFFICES ASSUME BillingInv, [Billing!BillingNext]_<<page, server, net, lost, does>>  PROVE BillingInv'
  OBVIOUS
<1>1. CASE UNCHANGED <<page, server, net, lost, does>>
  BY <1>1 DEF BillingInv, DiscountsFit, BillingCallsFit
<1>2. CASE Billing!BillingNext
  BY <1>2, BillingVisits, BillingAnswers, BillingButtons, BillingServer DEF Billing!BillingNext
<1> QED  BY <1>1, <1>2

LEMMA BillingKeeps == BillingInv => Billing!CodeFitsPack
BY BillingKinds DEF BillingInv, BillingCallsFit, BillingCallFits, Billing!CodeFitsPack

-----------------------------------------------------------------------------
(* What the connectors page keeps                                           *)

\* The calls that are made once per press.
Pressed == {"prompt", "key", "retry"}

Retried == [step: PromptSteps, was: {"failed", "awaiting_confirm"}, mounted: BOOLEAN]

ConnectorCallFits(k, c) ==
    /\ k = "prompt" /\ Connectors!Ok(c) => DOMAIN c.ans = PromptSteps
    /\ k = "callback" => c.to.app = c.to.state.app
    /\ k = "retry" => "to" \in DOMAIN c /\ c.to \in Retried

ConnectorCallsFit ==
    /\ DOMAIN net = Connectors!Kinds
    /\ \A k \in Connectors!Kinds : \A c \in net[k] : ConnectorCallFits(k, c)

RunFields == {"running", "result", "saving", "steps"}

\* A prompt takes its timeline down; on a timeline a step waits for one retry.
RunIsAwaited ==
    /\ page.running <=> net["prompt"] # {}
    /\ page.saving <=> net["key"] # {}
    /\ \A k \in {"prompt", "key"} : \A c, d \in net[k] : c = d
    /\ page.running => ~page.result
    /\ \A c \in net["retry"] : c.to.mounted => page.steps[c.to.step] = "running" /\ ~page.running
    /\ \A c, d \in net["retry"] :
          c.to.mounted /\ d.to.mounted /\ c.to.step = d.to.step => c = d

ConnectorsInv ==
    /\ RunFields \subseteq DOMAIN page /\ DOMAIN page.steps = PromptSteps
    /\ page.running \in BOOLEAN /\ page.saving \in BOOLEAN
    /\ ConnectorCallsFit /\ RunIsAwaited

LEMMA ConnectorKinds ==
    Connectors!Kinds = {"list", "authorize", "callback", "token", "key", "disconnect", "toggle",
                        "prompt", "retry"}
BY DEF Connectors!Kinds

\* A step of the rows, the dialogs and the popup.
SameRun == DOMAIN page' = DOMAIN page /\ \A f \in RunFields : page'[f] = page[f]

OtherCalls ==
    /\ DOMAIN net' = Connectors!Kinds
    /\ \A k \in Connectors!Kinds : \A c \in net'[k] : c \in net[k] \/ ConnectorCallFits(k, c)
    /\ \A k \in Pressed : net'[k] = net[k]

LEMMA RowKept == ASSUME ConnectorsInv, SameRun, OtherCalls  PROVE ConnectorsInv'
<1>1. ConnectorCallsFit'
  BY DEF ConnectorsInv, ConnectorCallsFit, OtherCalls
<1>2. /\ page'.running = page.running /\ page'.saving = page.saving
      /\ page'.result = page.result /\ page'.steps = page.steps
  BY DEF SameRun, RunFields
<1>3. net'["prompt"] = net["prompt"] /\ net'["key"] = net["key"] /\ net'["retry"] = net["retry"]
  BY DEF OtherCalls, Pressed
<1>4. RunIsAwaited'
  BY <1>2, <1>3 DEF ConnectorsInv, RunIsAwaited
<1> QED  BY <1>1, <1>2, <1>4 DEF ConnectorsInv, SameRun

LEMMA OtherAsked ==
    ASSUME ConnectorCallsFit, NEW k \in Connectors!Kinds \ Pressed, NEW to,
           ConnectorCallFits(k, Connectors!Sent(to)), net' = Connectors!Asking(net, k, to)
    PROVE  OtherCalls
<1>1. /\ DOMAIN net' = Connectors!Kinds
      /\ \A j \in Connectors!Kinds :
            net'[j] = IF j = k THEN net[j] \cup {Connectors!Sent(to)} ELSE net[j]
  BY DEF ConnectorCallsFit, Connectors!Asking
<1> QED  BY <1>1, ConnectorKinds DEF OtherCalls, Pressed

LEMMA OtherTaken ==
    ASSUME ConnectorCallsFit, NEW k \in Connectors!Kinds \ Pressed, NEW c \in net[k],
           \/ Connectors!Take(k, c)
           \/ net' = Connectors!LoadConnectors(Connectors!Without(net, k, c))
    PROVE  OtherCalls
<1>1. ConnectorCallFits("list", Connectors!Sent(TRUE))
  BY DEF ConnectorCallFits
<1>2. /\ DOMAIN net' = Connectors!Kinds
      /\ \A j \in Connectors!Kinds :
            /\ net'[j] \subseteq IF j = "list" THEN net[j] \cup {Connectors!Sent(TRUE)} ELSE net[j]
            /\ j # "list" /\ j # k => net'[j] = net[j]
  BY ZenonT(60), ConnectorKinds
     DEF ConnectorCallsFit, Connectors!Take, Connectors!LoadConnectors, Connectors!Without, Connectors!Asking
<1> QED  BY <1>1, <1>2, ConnectorKinds DEF OtherCalls, Pressed

LEMMA NothingAsked == ASSUME ConnectorCallsFit, UNCHANGED net  PROVE OtherCalls
BY ConnectorKinds DEF OtherCalls, ConnectorCallsFit

LEMMA FreeCalls ==
    ASSUME NEW k \in {"list", "authorize", "token", "disconnect", "toggle", "key"}, NEW c
    PROVE  ConnectorCallFits(k, c)
BY DEF ConnectorCallFits

LEMMA ListSteps ==
    ASSUME ConnectorsInv,
           \/ Connectors!DeliverList \/ Connectors!ClearFilters
           \/ \E f \in {"all", "connected"} : Connectors!SetFilter(f)
           \/ \E a \in Connectors!Offered \cup {Connectors!None} : Connectors!SetSearch(a)
           \/ \E k \in Connectors!Categories : Connectors!SetCategory(k)
           \/ Connectors!CloseKey \/ Connectors!PopupCloses \/ Connectors!PollTick
           \/ \E a \in Connectors!Apps : Connectors!SwitchOff(a)
    PROVE  ConnectorsInv'
<1>0. ConnectorCallsFit /\ RunFields \subseteq DOMAIN page
  BY DEF ConnectorsInv
<1>1. CASE Connectors!DeliverList
  <2>1. SameRun
    BY <1>0, <1>1, Zenon DEF Connectors!DeliverList, Connectors!Linked, SameRun, RunFields
  <2>2. OtherCalls
    BY <1>0, <1>1, OtherTaken, ConnectorKinds, Zenon DEF Connectors!DeliverList, Connectors!Came, Pressed
  <2> QED  BY <2>1, <2>2, RowKept
<1>2. ASSUME SameRun, UNCHANGED net  PROVE ConnectorsInv'
  BY <1>0, <1>2, NothingAsked, RowKept
<1>3. CASE Connectors!ClearFilters
  <2>1. SameRun /\ UNCHANGED net
    BY <1>0, <1>3 DEF Connectors!ClearFilters, Connectors!Stays, SameRun, RunFields
  <2> QED  BY <2>1, <1>2
<1>4. ASSUME NEW f, Connectors!SetFilter(f) \/ Connectors!SetSearch(f) \/ Connectors!SetCategory(f)
             \/ Connectors!SwitchOff(f)
      PROVE  ConnectorsInv'
  <2>1. UNCHANGED net /\ \/ page' = [page EXCEPT !.filter = f] \/ page' = [page EXCEPT !.search = f]
                         \/ page' = [page EXCEPT !.category = f] \/ page' = [page EXCEPT !.disconnectTarget = f]
    BY <1>4 DEF Connectors!SetFilter, Connectors!SetSearch, Connectors!SetCategory, Connectors!SwitchOff,
                Connectors!Stays
  <2>2. SameRun
    BY <1>0, <2>1 DEF SameRun, RunFields
  <2> QED  BY <2>1, <2>2, <1>2
<1>5. CASE Connectors!CloseKey \/ Connectors!PopupCloses \/ Connectors!PollTick
  <2>1. SameRun /\ UNCHANGED net
    <3>1. UNCHANGED net
      BY <1>5 DEF Connectors!CloseKey, Connectors!PopupCloses, Connectors!PollTick, Connectors!Stays
    <3>2. CASE Connectors!CloseKey
      BY <1>0, <3>2 DEF Connectors!CloseKey, Connectors!Stays, SameRun, RunFields
    <3>3. CASE Connectors!PopupCloses
      <4>1. PICK y : page' = [page EXCEPT !.popup = Connectors!Closed, !.polls = y]
        BY <3>3, Zenon DEF Connectors!PopupCloses, Connectors!Stays
      <4> QED  BY <1>0, <3>1, <4>1 DEF SameRun, RunFields
    <3>4. CASE Connectors!PollTick
      <4>1. PICK y, z : page' = [page EXCEPT !.poll = 0, !.polls = y, !.connecting = z]
        BY <3>4, Zenon DEF Connectors!PollTick, Connectors!Unwatched, Connectors!Stays
      <4> QED  BY <1>0, <3>1, <4>1 DEF SameRun, RunFields
    <3> QED  BY <1>5, <3>1, <3>2, <3>3, <3>4
  <2> QED  BY <2>1, <1>2
<1> QED  BY <1>1, <1>3, <1>4, <1>5

LEMMA RowSteps ==
    ASSUME ConnectorsInv,
           \/ \E a \in Connectors!Apps : Connectors!SwitchOn(a)
           \/ Connectors!DeliverToggle \/ Connectors!ConfirmDisconnect \/ Connectors!DeliverDisconnect
           \/ Connectors!SubmitDomain
    PROVE  ConnectorsInv'
<1>0. ConnectorCallsFit /\ RunFields \subseteq DOMAIN page
  BY DEF ConnectorsInv
<1>1. ASSUME NEW a \in Connectors!Apps, Connectors!SwitchOn(a)  PROVE ConnectorsInv'
  <2>1. SameRun
    <3>1. PICK x, y : \/ page' = [page EXCEPT !.toggling = x, !.shown = y]
                      \/ page' = [page EXCEPT !.keyDialog = x]
                      \/ page' = [page EXCEPT !.domainDialog = x]
                      \/ page' = [page EXCEPT !.connecting = x, !.crossed = y]
      BY <1>0, <1>1, Zenon DEF Connectors!SwitchOn, Connectors!Connecting
    <3> QED  BY <1>0, <3>1, Zenon DEF SameRun, RunFields
  <2>2. UNCHANGED net \/ \E k \in {"toggle", "authorize"} : net' = Connectors!Asking(net, k, a)
    BY <1>1, Zenon DEF Connectors!SwitchOn, Connectors!Ask
  <2>3. OtherCalls
    BY <1>0, <2>2, NothingAsked, OtherAsked, FreeCalls, ConnectorKinds DEF Pressed
  <2> QED  BY <2>1, <2>3, RowKept
<1>2. CASE Connectors!DeliverToggle
  <2>1. SameRun
    <3>1. PICK x, y : page' = [page EXCEPT !.toggling = x, !.shown = y]
      BY <1>0, <1>2, Zenon DEF Connectors!DeliverToggle
    <3> QED  BY <1>0, <3>1 DEF SameRun, RunFields
  <2>2. OtherCalls
    BY <1>0, <1>2, OtherTaken, ConnectorKinds, Zenon DEF Connectors!DeliverToggle, Connectors!Came, Pressed
  <2> QED  BY <2>1, <2>2, RowKept
<1>3. CASE Connectors!ConfirmDisconnect
  <2>1. SameRun
    <3>1. page' = [page EXCEPT !.disconnectTarget = Connectors!None]
      BY <1>0, <1>3 DEF Connectors!ConfirmDisconnect, Connectors!Stays
    <3> QED  BY <1>0, <3>1 DEF SameRun, RunFields
  <2>2. UNCHANGED net \/ net' = Connectors!Asking(net, "disconnect", page.disconnectTarget)
    BY <1>3 DEF Connectors!ConfirmDisconnect, Connectors!Stays, Connectors!Ask
  <2>3. OtherCalls
    BY <1>0, <2>2, NothingAsked, OtherAsked, FreeCalls, ConnectorKinds DEF Pressed
  <2> QED  BY <2>1, <2>3, RowKept
<1>4. CASE Connectors!DeliverDisconnect
  <2>1. SameRun
    BY <1>0, <1>4 DEF Connectors!DeliverDisconnect, SameRun
  <2>2. OtherCalls
    BY <1>0, <1>4, OtherTaken, ConnectorKinds
       DEF Connectors!DeliverDisconnect, Connectors!Came, Connectors!Take, Pressed
  <2> QED  BY <2>1, <2>2, RowKept
<1>5. CASE Connectors!SubmitDomain
  <2>1. SameRun
    <3>1. CASE page' = [page EXCEPT !.domainDialog = Connectors!None]
      BY <1>0, <3>1 DEF SameRun, RunFields
    <3>2. CASE page' = Connectors!Connecting([page EXCEPT !.domainDialog = Connectors!None], page.domainDialog)
      <4>1. PICK y, z : page' = [page EXCEPT !.domainDialog = Connectors!None, !.connecting = y, !.crossed = z]
        BY <3>2, Zenon DEF Connectors!Connecting
      <4> QED  BY <1>0, <4>1 DEF SameRun, RunFields
    <3> QED  BY <1>5, <3>1, <3>2 DEF Connectors!SubmitDomain, Connectors!Stays
  <2>2. UNCHANGED net \/ net' = Connectors!Asking(net, "authorize", page.domainDialog)
    BY <1>5 DEF Connectors!SubmitDomain, Connectors!Stays, Connectors!Ask
  <2>3. OtherCalls
    BY <1>0, <2>2, NothingAsked, OtherAsked, FreeCalls, ConnectorKinds DEF Pressed
  <2> QED  BY <2>1, <2>3, RowKept
<1> QED  BY <1>1, <1>2, <1>3, <1>4, <1>5

LEMMA PopupSteps ==
    ASSUME ConnectorsInv,
           Connectors!DeliverAuthorize \/ Connectors!PopupReturns \/ Connectors!DeliverConnected
    PROVE  ConnectorsInv'
<1>0. ConnectorCallsFit /\ RunFields \subseteq DOMAIN page
  BY DEF ConnectorsInv
<1>1. CASE Connectors!DeliverAuthorize
  <2>1. SameRun
    <3>1. PICK x, y, z : \/ page' = [page EXCEPT !.popup = x, !.poll = y, !.polls = z]
                         \/ page' = [page EXCEPT !.connecting = x]
      BY <1>0, <1>1, Zenon DEF Connectors!DeliverAuthorize
    <3> QED  BY <1>0, <3>1 DEF SameRun, RunFields
  <2>2. OtherCalls
    BY <1>0, <1>1, OtherTaken, ConnectorKinds, Zenon DEF Connectors!DeliverAuthorize, Connectors!Came, Pressed
  <2> QED  BY <2>1, <2>2, RowKept
<1>2. CASE Connectors!PopupReturns
  <2> DEFINE a == page.popup.app
  <2>1. SameRun
    <3> DEFINE p == Connectors!Unwatched([page EXCEPT !.popup = Connectors!Returned])
    <3>1. page' = p \/ page' = [p EXCEPT !.connecting = Connectors!None]
      BY <1>2 DEF Connectors!PopupReturns
    <3>2. PICK z : p = [page EXCEPT !.popup = Connectors!Returned, !.poll = 0, !.polls = z]
      BY Zenon DEF Connectors!Unwatched
    <3> HIDE DEF p
    <3>3. DOMAIN p = DOMAIN page /\ \A f \in RunFields : p[f] = page[f]
      BY <1>0, <3>2 DEF RunFields
    <3> QED  BY <1>0, <3>1, <3>3 DEF SameRun, RunFields
  <2>2. \/ UNCHANGED net \/ net' = Connectors!Asking(net, "token", a)
        \/ \E to \in {[app |-> a, state |-> page.popup],
                      [app |-> Connectors!None, state |-> Connectors!Closed]} :
              net' = Connectors!Asking(net, "callback", to)
    BY <1>2 DEF Connectors!PopupReturns
  <2>3. \A to \in {[app |-> a, state |-> page.popup],
                  [app |-> Connectors!None, state |-> Connectors!Closed]} :
           ConnectorCallFits("callback", Connectors!Sent(to))
    BY DEF ConnectorCallFits, Connectors!Sent, Connectors!Closed
  <2>4. OtherCalls
    BY <1>0, <2>2, <2>3, NothingAsked, OtherAsked, FreeCalls, ConnectorKinds DEF Pressed
  <2> QED  BY <2>1, <2>4, RowKept
<1>3. CASE Connectors!DeliverConnected
  <2>1. PICK k \in {"callback", "token"} : \E c \in net[k] :
           /\ net' = Connectors!LoadConnectors(Connectors!Without(net, k, c))
           /\ page' = [page EXCEPT !.connecting = Connectors!None]
    BY <1>3 DEF Connectors!DeliverConnected, Connectors!Came
  <2>2. SameRun
    BY <1>0, <2>1 DEF SameRun, RunFields
  <2>3. OtherCalls
    BY <1>0, <2>1, OtherTaken, ConnectorKinds DEF Pressed
  <2> QED  BY <2>2, <2>3, RowKept
<1> QED  BY <1>1, <1>2, <1>3

LEMMA ConnectorTaken ==
    ASSUME ConnectorCallsFit, NEW k \in Connectors!Kinds, NEW c \in net[k],
           net' = Connectors!Without(net, k, c)
    PROVE  /\ ConnectorCallsFit' /\ net'[k] = net[k] \ {c}
           /\ \A j \in Connectors!Kinds \ {k} : net'[j] = net[j]
<1>1. DOMAIN net' = Connectors!Kinds /\ net'[k] = net[k] \ {c}
      /\ \A j \in Connectors!Kinds \ {k} : net'[j] = net[j]
  BY DEF ConnectorCallsFit, Connectors!Without
<1>2. \A j \in Connectors!Kinds : net'[j] \subseteq net[j]
  BY <1>1
<1> QED  BY <1>1, <1>2 DEF ConnectorCallsFit

LEMMA ConnectorAsked ==
    ASSUME NEW n, DOMAIN n = Connectors!Kinds,
           \A j \in Connectors!Kinds : \A c \in n[j] : ConnectorCallFits(j, c),
           NEW k \in Connectors!Kinds, NEW to,
           ConnectorCallFits(k, Connectors!Sent(to)), net' = Connectors!Asking(n, k, to)
    PROVE  /\ ConnectorCallsFit' /\ net'[k] = n[k] \cup {Connectors!Sent(to)}
           /\ \A j \in Connectors!Kinds \ {k} : net'[j] = n[j]
<1>1. DOMAIN net' = Connectors!Kinds /\ net'[k] = n[k] \cup {Connectors!Sent(to)}
      /\ \A j \in Connectors!Kinds \ {k} : net'[j] = n[j]
  BY DEF Connectors!Asking
<1>2. \A j \in Connectors!Kinds : net'[j] \subseteq IF j = k THEN n[j] \cup {Connectors!Sent(to)} ELSE n[j]
  BY <1>1
<1> QED  BY <1>1, <1>2 DEF ConnectorCallsFit

LEMMA KeySteps ==
    ASSUME ConnectorsInv, Connectors!SubmitKey \/ Connectors!DeliverKey
    PROVE  ConnectorsInv'
<1>0. ConnectorCallsFit /\ RunFields \subseteq DOMAIN page /\ RunIsAwaited
  BY DEF ConnectorsInv
<1>1. ASSUME NEW b \in BOOLEAN, DOMAIN page' = DOMAIN page, page'.saving = b,
             \A f \in RunFields \ {"saving"} : page'[f] = page[f],
             ConnectorCallsFit', net'["prompt"] = net["prompt"], net'["retry"] = net["retry"],
             b <=> net'["key"] # {}, \A c, d \in net'["key"] : c = d
      PROVE  ConnectorsInv'
  <2>1. page'.running = page.running /\ page'.result = page.result /\ page'.steps = page.steps
    BY <1>1 DEF RunFields
  <2>2. RunIsAwaited'
    BY <1>0, <1>1, <2>1 DEF RunIsAwaited
  <2> QED  BY <1>1, <2>1, <2>2 DEF ConnectorsInv
<1>2. CASE Connectors!SubmitKey
  <2>1. page' = [page EXCEPT !.saving = TRUE] /\ ~page.saving
        /\ net' = Connectors!Asking(net, "key", page.keyDialog)
    BY <1>2 DEF Connectors!SubmitKey, Connectors!Ask
  <2>2. net["key"] = {}
    BY <1>0, <2>1 DEF RunIsAwaited
  <2>3. /\ ConnectorCallsFit' /\ net'["key"] = {Connectors!Sent(page.keyDialog)}
        /\ net'["prompt"] = net["prompt"] /\ net'["retry"] = net["retry"]
    BY <1>0, <2>1, <2>2, ConnectorAsked, ConnectorKinds, FreeCalls DEF ConnectorCallsFit
  <2>4. DOMAIN page' = DOMAIN page /\ page'.saving = TRUE /\ \A f \in RunFields \ {"saving"} : page'[f] = page[f]
    BY <1>0, <2>1 DEF RunFields
  <2> QED  BY <1>1, <2>3, <2>4
<1>3. CASE Connectors!DeliverKey
  <2>1. PICK c \in net["key"] :
           /\ \/ net' = Connectors!Without(net, "key", c)
              \/ net' = Connectors!LoadConnectors(Connectors!Without(net, "key", c))
           /\ \/ page' = [page EXCEPT !.saving = FALSE, !.keyDialog = Connectors!None]
              \/ page' = [page EXCEPT !.saving = FALSE]
    BY <1>3 DEF Connectors!DeliverKey, Connectors!Came, Connectors!Take
  <2>2. net["key"] \ {c} = {}
    BY <1>0 DEF RunIsAwaited
  <2> DEFINE n == Connectors!Without(net, "key", c)
  <2>3. /\ DOMAIN n = Connectors!Kinds /\ n["key"] = net["key"] \ {c}
        /\ \A j \in Connectors!Kinds \ {"key"} : n[j] = net[j]
    BY <1>0, ConnectorKinds DEF ConnectorCallsFit, Connectors!Without
  <2>4. \A j \in Connectors!Kinds : n[j] \subseteq net[j]
    BY <2>3
  <2>5. \A j \in Connectors!Kinds : \A d \in n[j] : ConnectorCallFits(j, d)
    BY <1>0, <2>4 DEF ConnectorCallsFit
  <2> HIDE DEF n
  <2>6. ConnectorCallsFit' /\ \A j \in Connectors!Kinds \ {"list"} : net'[j] = n[j]
    <3>1. CASE net' = n
      BY <2>3, <2>5, <3>1 DEF ConnectorCallsFit
    <3>2. CASE net' = Connectors!Asking(n, "list", TRUE)
      BY <2>3, <2>5, <3>2, ConnectorAsked, FreeCalls, ConnectorKinds
    <3> QED  BY <2>1, <3>1, <3>2 DEF n, Connectors!LoadConnectors
  <2>7. net'["key"] = {} /\ net'["prompt"] = net["prompt"] /\ net'["retry"] = net["retry"]
    BY <2>2, <2>3, <2>6, ConnectorKinds
  <2>8. DOMAIN page' = DOMAIN page /\ page'.saving = FALSE /\ \A f \in RunFields \ {"saving"} : page'[f] = page[f]
    BY <1>0, <2>1 DEF RunFields
  <2> QED  BY <1>1, <2>6, <2>7, <2>8
<1> QED  BY <1>2, <1>3

LEMMA RunSteps ==
    ASSUME ConnectorsInv, Connectors!RunPrompt \/ Connectors!DeliverPrompt
    PROVE  ConnectorsInv'
<1>0. ConnectorCallsFit /\ RunFields \subseteq DOMAIN page /\ RunIsAwaited
      /\ page.saving \in BOOLEAN /\ DOMAIN page.steps = PromptSteps
  BY DEF ConnectorsInv
<1>1. CASE Connectors!RunPrompt
  <2> DEFINE n == Connectors!Unmounted(net)
             off == {[c EXCEPT !.to.mounted = FALSE] : c \in net["retry"]}
  <2>1. page' = [page EXCEPT !.running = TRUE, !.result = FALSE] /\ ~page.running
        /\ net' = Connectors!Asking(n, "prompt", TRUE)
    BY <1>1 DEF Connectors!RunPrompt, Connectors!CanRun
  <2>2. DOMAIN n = Connectors!Kinds /\ n["retry"] = off
        /\ \A j \in Connectors!Kinds \ {"retry"} : n[j] = net[j]
    BY <1>0, ConnectorKinds DEF ConnectorCallsFit, Connectors!Unmounted
  <2>3. \A c \in off : "to" \in DOMAIN c /\ c.to \in Retried /\ c.to.mounted = FALSE
    <3> SUFFICES ASSUME NEW d \in net["retry"], NEW c, c = [d EXCEPT !.to.mounted = FALSE]
                 PROVE  "to" \in DOMAIN c /\ c.to \in Retried /\ c.to.mounted = FALSE
      OBVIOUS
    <3>1. "to" \in DOMAIN d /\ d.to \in Retried
      BY <1>0, ConnectorKinds DEF ConnectorCallsFit, ConnectorCallFits
    <3>2. DOMAIN c = DOMAIN d /\ c.to = [d.to EXCEPT !.mounted = FALSE]
      BY <3>1
    <3> QED  BY <3>1, <3>2 DEF Retried
  <2>4. \A j \in Connectors!Kinds : \A c \in n[j] : ConnectorCallFits(j, c)
    <3>1. \A c \in off : ConnectorCallFits("retry", c)
      BY <2>3 DEF ConnectorCallFits
    <3> HIDE DEF off, n
    <3> QED  BY <1>0, <2>2, <3>1 DEF ConnectorCallsFit
  <2>5. ConnectorCallFits("prompt", Connectors!Sent(TRUE))
    BY DEF ConnectorCallFits, Connectors!Sent, Connectors!Ok
  <2>6. n["prompt"] = {}
    BY <1>0, <2>1, <2>2, ConnectorKinds DEF RunIsAwaited
  <2> HIDE DEF n, off
  <2>7. /\ ConnectorCallsFit' /\ net'["prompt"] = {Connectors!Sent(TRUE)}
        /\ net'["key"] = net["key"] /\ net'["retry"] = off
    <3>1. ConnectorCallsFit' /\ net'["prompt"] = n["prompt"] \cup {Connectors!Sent(TRUE)}
          /\ \A j \in Connectors!Kinds \ {"prompt"} : net'[j] = n[j]
      BY <2>1, <2>2, <2>4, <2>5, ConnectorAsked, ConnectorKinds
    <3> QED  BY <2>2, <2>6, <3>1, ConnectorKinds
  <2>8. /\ DOMAIN page' = DOMAIN page /\ page'.running = TRUE /\ page'.result = FALSE
        /\ page'.saving = page.saving /\ page'.steps = page.steps
    BY <1>0, <2>1 DEF RunFields
  <2>9. RunIsAwaited'
    <3>1. \A c \in net'["retry"] : ~c.to.mounted
      BY <2>3, <2>7
    <3>2. \A k \in {"prompt", "key"} : \A c, d \in net'[k] : c = d
      <4>1. \A c, d \in net'["prompt"] : c = d
        BY <2>7
      <4>2. \A c, d \in net'["key"] : c = d
        BY <1>0, <2>7 DEF RunIsAwaited
      <4> QED  BY <4>1, <4>2
    <3> QED  BY <1>0, <2>7, <2>8, <3>1, <3>2 DEF RunIsAwaited
  <2> QED  BY <1>0, <2>7, <2>8, <2>9 DEF ConnectorsInv
<1>2. CASE Connectors!DeliverPrompt
  <2>1. PICK c \in net["prompt"] :
           /\ net' = Connectors!Without(net, "prompt", c)
           /\ \/ Connectors!Ok(c) /\ page' = [page EXCEPT !.running = FALSE, !.result = TRUE, !.steps = c.ans]
              \/ page' = [page EXCEPT !.running = FALSE]
    BY <1>2, Zenon DEF Connectors!DeliverPrompt, Connectors!Came, Connectors!Take
  <2>2. Connectors!Ok(c) => DOMAIN c.ans = PromptSteps
    BY <1>0, ConnectorKinds DEF ConnectorCallsFit, ConnectorCallFits
  <2>3. /\ ConnectorCallsFit' /\ net'["prompt"] = net["prompt"] \ {c}
        /\ net'["key"] = net["key"] /\ net'["retry"] = net["retry"]
    BY <1>0, <2>1, ConnectorTaken, ConnectorKinds
  <2>4. net'["prompt"] = {} /\ page.running
    BY <1>0, <2>3 DEF RunIsAwaited
  <2>5. /\ DOMAIN page' = DOMAIN page /\ page'.running = FALSE /\ page'.saving = page.saving
        /\ DOMAIN page'.steps = PromptSteps
    BY <1>0, <2>1, <2>2 DEF RunFields
  <2>6. \A d \in net["retry"] : ~d.to.mounted
    BY <1>0, <2>4 DEF RunIsAwaited
  <2>7. RunIsAwaited'
    BY <1>0, <2>3, <2>4, <2>5, <2>6 DEF RunIsAwaited
  <2> QED  BY <1>0, <2>3, <2>5, <2>7 DEF ConnectorsInv
<1> QED  BY <1>1, <1>2

LEMMA RetrySteps ==
    ASSUME ConnectorsInv,
           (\E s \in PromptSteps : Connectors!RetryStep(s)) \/ Connectors!DeliverRetry
    PROVE  ConnectorsInv'
<1>0. ConnectorCallsFit /\ RunFields \subseteq DOMAIN page /\ RunIsAwaited
      /\ page.saving \in BOOLEAN /\ page.running \in BOOLEAN /\ DOMAIN page.steps = PromptSteps
  BY DEF ConnectorsInv
<1>1. ASSUME DOMAIN page' = DOMAIN page, DOMAIN page'.steps = PromptSteps,
             page'.running = page.running, page'.saving = page.saving, page'.result = page.result,
             ConnectorCallsFit', net'["prompt"] = net["prompt"], net'["key"] = net["key"],
             \A c \in net'["retry"] : c.to.mounted => page'.steps[c.to.step] = "running" /\ ~page.running,
             \A c, d \in net'["retry"] : c.to.mounted /\ d.to.mounted /\ c.to.step = d.to.step => c = d
      PROVE  ConnectorsInv'
  <2>1. RunIsAwaited'
    BY <1>0, <1>1 DEF RunIsAwaited
  <2> QED  BY <1>0, <1>1, <2>1 DEF ConnectorsInv
<1>2. ASSUME NEW s \in PromptSteps, Connectors!RetryStep(s)  PROVE ConnectorsInv'
  <2> DEFINE to == [step |-> s, was |-> page.steps[s], mounted |-> TRUE]
  <2>1. /\ page' = [page EXCEPT !.steps[s] = "running"] /\ page.result
        /\ page.steps[s] \in {"failed", "awaiting_confirm"}
        /\ net' = Connectors!Asking(net, "retry", to)
    BY <1>2 DEF Connectors!RetryStep, Connectors!CanRetry, Connectors!Ask
  <2>2. /\ Connectors!Sent(to).to = to /\ to.step = s /\ ConnectorCallFits("retry", Connectors!Sent(to))
    BY <2>1 DEF ConnectorCallFits, Connectors!Sent, Retried
  <2> HIDE DEF to
  <2>3. /\ ConnectorCallsFit' /\ net'["retry"] = net["retry"] \cup {Connectors!Sent(to)}
        /\ net'["prompt"] = net["prompt"] /\ net'["key"] = net["key"]
    BY <1>0, <2>1, <2>2, ConnectorAsked, ConnectorKinds DEF ConnectorCallsFit
  <2>4. /\ DOMAIN page' = DOMAIN page /\ page'.running = page.running /\ page'.saving = page.saving
        /\ page'.result = page.result /\ page'.steps = [page.steps EXCEPT ![s] = "running"]
    BY <1>0, <2>1 DEF RunFields
  <2>5. ~page.running /\ \A c \in net["retry"] : c.to.mounted => c.to.step # s
    BY <1>0, <2>1 DEF RunIsAwaited
  <2>6. \A c \in net["retry"] : c.to \in Retried
    BY <1>0, ConnectorKinds DEF ConnectorCallsFit, ConnectorCallFits
  <2>7. DOMAIN page'.steps = PromptSteps /\ page'.steps[s] = "running"
        /\ \A z \in PromptSteps \ {s} : page'.steps[z] = page.steps[z]
    BY <1>0, <2>4
  <2>8. \A c \in net'["retry"] : c.to.mounted => page'.steps[c.to.step] = "running" /\ ~page.running
    BY <1>0, <2>2, <2>3, <2>5, <2>6, <2>7 DEF RunIsAwaited, Retried
  <2>9. \A c, d \in net'["retry"] : c.to.mounted /\ d.to.mounted /\ c.to.step = d.to.step => c = d
    BY <1>0, <2>2, <2>3, <2>5 DEF RunIsAwaited
  <2> QED  BY <1>1, <2>3, <2>4, <2>7, <2>8, <2>9
<1>3. CASE Connectors!DeliverRetry
  <2>1. PICK c \in net["retry"] :
           /\ net' = Connectors!Without(net, "retry", c)
           /\ \/ c.to.mounted /\ \E v : page' = [page EXCEPT !.steps[c.to.step] = v]
              \/ ~c.to.mounted /\ page' = page
    BY <1>3 DEF Connectors!DeliverRetry, Connectors!Came, Connectors!Take
  <2>2. /\ ConnectorCallsFit' /\ net'["retry"] = net["retry"] \ {c}
        /\ net'["prompt"] = net["prompt"] /\ net'["key"] = net["key"]
    BY <1>0, <2>1, ConnectorTaken, ConnectorKinds
  <2>3. \A d \in net["retry"] : d.to \in Retried
    BY <1>0, ConnectorKinds DEF ConnectorCallsFit, ConnectorCallFits
  <2>4. CASE c.to.mounted
    <3>1. PICK v : page' = [page EXCEPT !.steps[c.to.step] = v]
      BY <2>1, <2>4
    <3>2. /\ DOMAIN page' = DOMAIN page /\ page'.running = page.running /\ page'.saving = page.saving
          /\ page'.result = page.result /\ page'.steps = [page.steps EXCEPT ![c.to.step] = v]
      BY <1>0, <3>1 DEF RunFields
    <3>3. DOMAIN page'.steps = PromptSteps
          /\ \A z \in PromptSteps \ {c.to.step} : page'.steps[z] = page.steps[z]
      BY <1>0, <3>2
    <3>4. \A d \in net["retry"] \ {c} : d.to.mounted => d.to.step # c.to.step
      BY <1>0, <2>4 DEF RunIsAwaited
    <3>5. \A d \in net'["retry"] : d.to.mounted => page'.steps[d.to.step] = "running" /\ ~page.running
      BY <1>0, <2>2, <2>3, <3>3, <3>4 DEF RunIsAwaited, Retried
    <3>6. \A d, e \in net'["retry"] : d.to.mounted /\ e.to.mounted /\ d.to.step = e.to.step => d = e
      BY <1>0, <2>2 DEF RunIsAwaited
    <3> QED  BY <1>1, <2>2, <3>2, <3>3, <3>5, <3>6
  <2>5. CASE ~c.to.mounted
    <3>1. page' = page
      BY <2>1, <2>5
    <3> QED  BY <1>0, <1>1, <2>2, <3>1 DEF RunIsAwaited
  <2> QED  BY <2>4, <2>5
<1> QED  BY <1>2, <1>3

\* The server moves a call on, and the page is not there to see.
LEMMA ConnectorServed ==
    ASSUME ConnectorsInv, UNCHANGED page, NEW k \in Connectors!Kinds, NEW c \in net[k], NEW v,
           k = "prompt" => DOMAIN v = PromptSteps,
           Connectors!Answer(k, c, v) \/ Connectors!Refuse(k, c)
    PROVE  ConnectorsInv'
<1> DEFINE a == [to |-> c.to, phase |-> "answered", ans |-> v]
           f == [to |-> c.to, phase |-> "failed"]
<1>0. ConnectorCallsFit /\ RunIsAwaited
  BY DEF ConnectorsInv
<1>1. ConnectorCallFits(k, a) /\ ConnectorCallFits(k, f) /\ a.to = c.to /\ f.to = c.to
  BY <1>0 DEF ConnectorCallsFit, ConnectorCallFits, Connectors!Ok
<1>2. PICK q \in {a, f} : net' = [net EXCEPT ![k] = (@ \ {c}) \cup {q}]
  BY DEF Connectors!Answer, Connectors!Refuse
<1>3. ConnectorCallFits(k, q) /\ q.to = c.to
  BY <1>1
<1> HIDE DEF a, f
<1>4. /\ DOMAIN net' = Connectors!Kinds /\ net'[k] = (net[k] \ {c}) \cup {q}
      /\ \A j \in Connectors!Kinds \ {k} : net'[j] = net[j]
  BY <1>0, <1>2 DEF ConnectorCallsFit
<1>5. \A j \in Connectors!Kinds : net'[j] \subseteq IF j = k THEN net[j] \cup {q} ELSE net[j]
  BY <1>4
<1>6. ConnectorCallsFit'
  BY <1>0, <1>3, <1>4, <1>5 DEF ConnectorCallsFit
<1>7. \A j \in {"prompt", "key"} : (net'[j] = {} <=> net[j] = {}) /\ \A x, y \in net'[j] : x = y
  BY <1>0, <1>4, ConnectorKinds DEF RunIsAwaited
<1>8. /\ \A x \in net'["retry"] : x.to.mounted => page.steps[x.to.step] = "running" /\ ~page.running
      /\ \A x, y \in net'["retry"] : x.to.mounted /\ y.to.mounted /\ x.to.step = y.to.step => x = y
  <2>1. CASE k # "retry"
    BY <1>0, <1>4, <2>1, ConnectorKinds DEF RunIsAwaited
  <2>2. CASE k = "retry"
    BY <1>0, <1>3, <1>4, <2>2 DEF RunIsAwaited
  <2> QED  BY <2>1, <2>2
<1>9. RunIsAwaited'
  BY <1>0, <1>7, <1>8 DEF RunIsAwaited
<1> QED  BY <1>6, <1>9 DEF ConnectorsInv

LEMMA ConnectorServer ==
    ASSUME ConnectorsInv,
           \/ Connectors!ServeAuthorize \/ Connectors!ServeCallback \/ Connectors!ServeToken
           \/ Connectors!ServeKey \/ Connectors!ServeDisconnect \/ Connectors!Elsewhere
           \/ Connectors!ServeToggle \/ Connectors!ServeList
           \/ (Connectors!ServePrompt \/ Connectors!ServeRetry) /\ Connectors!OnlyNet
           \/ Connectors!Lose
    PROVE  ConnectorsInv'
<1>1. CASE Connectors!Elsewhere
  <2>1. UNCHANGED <<page, net>>
    BY <1>1 DEF Connectors!Elsewhere
  <2> QED  BY <2>1 DEF ConnectorsInv, ConnectorCallsFit, RunIsAwaited
<1>2. ASSUME NEW k \in {"authorize", "callback", "token", "key", "disconnect", "toggle", "list", "retry"},
             NEW c \in net[k], NEW v, UNCHANGED page, Connectors!Answer(k, c, v) \/ Connectors!Refuse(k, c)
      PROVE  ConnectorsInv'
  BY <1>2, ConnectorServed, ConnectorKinds
<1>3. CASE Connectors!ServeAuthorize
  BY <1>2, <1>3, Zenon DEF Connectors!ServeAuthorize, Connectors!Serves, Connectors!Asked
<1>4. CASE Connectors!ServeCallback
  BY <1>2, <1>4, Zenon DEF Connectors!ServeCallback, Connectors!Serves, Connectors!Asked
<1>5. CASE Connectors!ServeToken \/ Connectors!ServeKey
  BY <1>2, <1>5 DEF Connectors!ServeToken, Connectors!ServeKey, Connectors!Connected, Connectors!OnlyNet,
                    Connectors!Serves, Connectors!Asked
<1>6. CASE Connectors!ServeDisconnect
  BY <1>2, <1>6 DEF Connectors!ServeDisconnect, Connectors!Serves, Connectors!Asked
<1>7. CASE Connectors!ServeToggle \/ Connectors!ServeList
  BY <1>2, <1>7 DEF Connectors!ServeToggle, Connectors!ServeList, Connectors!OnlyNet,
                    Connectors!Serves, Connectors!Asked
<1>8. CASE Connectors!ServePrompt /\ Connectors!OnlyNet
  <2>1. PICK c \in net["prompt"] : \E v \in [PromptSteps -> Connectors!StepStates] :
           UNCHANGED page /\ Connectors!Answer("prompt", c, v)
    BY <1>8 DEF Connectors!ServePrompt, Connectors!OnlyNet, Connectors!Asked
  <2> QED  BY <2>1, ConnectorServed, ConnectorKinds
<1>9. CASE Connectors!ServeRetry /\ Connectors!OnlyNet
  BY <1>2, <1>9 DEF Connectors!ServeRetry, Connectors!OnlyNet, Connectors!Asked
<1>10. CASE Connectors!Lose
  <2>1. PICK k \in Connectors!Kinds : \E c \in net[k] : Connectors!Refuse(k, c) /\ UNCHANGED page
    BY <1>10 DEF Connectors!Lose, Connectors!Lost
  <2>2. PICK v : DOMAIN v = PromptSteps
    <3>1. DOMAIN [s \in PromptSteps |-> s] = PromptSteps
      OBVIOUS
    <3> QED  BY <3>1
  <2> QED  BY <2>1, <2>2, ConnectorServed
<1> QED  BY <1>1, <1>3, <1>4, <1>5, <1>6, <1>7, <1>8, <1>9, <1>10

LEMMA InitConnectors == Connectors!ConnectorsInit => ConnectorsInv
<1> SUFFICES ASSUME Connectors!ConnectorsInit  PROVE ConnectorsInv
  OBVIOUS
<1>1. /\ RunFields \subseteq DOMAIN page /\ page.running = FALSE /\ page.saving = FALSE
      /\ page.result = FALSE /\ DOMAIN page.steps = PromptSteps
  BY DEF Connectors!ConnectorsInit, RunFields
<1>2. /\ DOMAIN net = Connectors!Kinds
      /\ \A k \in Connectors!Kinds : net[k] = IF k = "list" THEN {Connectors!Sent(TRUE)} ELSE {}
  BY DEF Connectors!ConnectorsInit, Connectors!NoCalls
<1>3. ConnectorCallsFit
  BY <1>2, FreeCalls DEF ConnectorCallsFit
<1>4. RunIsAwaited
  BY <1>1, <1>2, ConnectorKinds DEF RunIsAwaited
<1> QED  BY <1>1, <1>3, <1>4 DEF ConnectorsInv

LEMMA NextConnectors ==
    ConnectorsInv /\ [Connectors!ConnectorsNext]_<<page, server, net, lost, does>> => ConnectorsInv'
<1> SUFFICES ASSUME ConnectorsInv, [Connectors!ConnectorsNext]_<<page, server, net, lost, does>>
             PROVE  ConnectorsInv'
  OBVIOUS
<1>1. CASE UNCHANGED <<page, server, net, lost, does>>
  BY <1>1 DEF ConnectorsInv, ConnectorCallsFit, RunIsAwaited
<1>2. CASE Connectors!ConnectorsNext
  BY <1>2, ListSteps, RowSteps, PopupSteps, KeySteps, RunSteps, RetrySteps, ConnectorServer
     DEF Connectors!ConnectorsNext
<1> QED  BY <1>1, <1>2

LEMMA ConnectorsKeep == ConnectorsInv => Connectors!OneRun
BY ConnectorKinds DEF ConnectorsInv, RunIsAwaited, ConnectorCallsFit, ConnectorCallFits,
   Connectors!OneRun, Connectors!InFlight

-----------------------------------------------------------------------------
(* What the store of the session keeps                                      *)

\* A page with its calls, where those that were refused wait for the one refresh.
StoreFits(w) ==
    /\ {"page", "net"} \subseteq DOMAIN w
    /\ {"refreshing", "waiting"} \subseteq DOMAIN w.page /\ DOMAIN w.net = Session!Kinds
    /\ w.page.refreshing \in BOOLEAN
    /\ w.page.refreshing <=> w.net["refresh"] # {}
    /\ w.page.waiting # {} => w.page.refreshing
    /\ \A c, d \in w.net["refresh"] : c = d

SessionInv == StoreFits(Session!Now)

LEMMA SessionKinds == Session!Kinds = {"call", "refresh"}
BY DEF Session!Kinds

LEMMA StillWaits ==
    ASSUME NEW w, StoreFits(w), NEW v, {"page", "net"} \subseteq DOMAIN v,
           {"refreshing", "waiting"} \subseteq DOMAIN v.page, DOMAIN v.net = Session!Kinds,
           v.page.refreshing = w.page.refreshing,
           v.page.waiting = {} <=> w.page.waiting = {},
           v.net["refresh"] = w.net["refresh"]
    PROVE  StoreFits(v)
BY DEF StoreFits

\* The page changes elsewhere.
LEMMA ElsewhereWaits ==
    ASSUME NEW w, StoreFits(w), NEW p, DOMAIN p = DOMAIN w.page,
           p.refreshing = w.page.refreshing, p.waiting = w.page.waiting,
           NEW v, v = [w EXCEPT !.page = p]
    PROVE  StoreFits(v)
<1>1. DOMAIN v = DOMAIN w /\ v.page = p /\ v.net = w.net
  BY DEF StoreFits
<1> QED  BY <1>1, StillWaits DEF StoreFits

LEMMA CallWaits ==
    ASSUME NEW w, StoreFits(w), NEW r, NEW v, v = [w EXCEPT !.net = Session!Asking(@, "call", r)]
    PROVE  StoreFits(v)
<1> DEFINE n == Session!Asking(w.net, "call", r)
<1>1. DOMAIN n = Session!Kinds /\ n["refresh"] = w.net["refresh"]
  BY SessionKinds DEF StoreFits, Session!Asking
<1> HIDE DEF n
<1>2. DOMAIN v = DOMAIN w /\ v.page = w.page /\ v.net = n
  BY DEF StoreFits, n
<1> QED  BY <1>1, <1>2, StillWaits DEF StoreFits

LEMMA AsksWaits == ASSUME NEW w, StoreFits(w), NEW id  PROVE StoreFits(Session!Asks(w, id))
BY CallWaits DEF Session!Asks

LEMMA GoToWaits == ASSUME NEW w, StoreFits(w), NEW at  PROVE StoreFits(Session!GoTo(w, at))
<1> DEFINE there == IF at \in Session!Guarded /\ ~w.page.auth THEN "login" ELSE at
           p == [w.page EXCEPT !.at = there, !.config = FALSE, !.loading = FALSE, !.error = FALSE,
                    !.step = "request", !.resetToken = FALSE, !.waiting = Session!Gone(@)]
           n == [w.net EXCEPT !["call"] = Session!Orphaned(@)]
           left == [page |-> p, net |-> n]
<1>1. DOMAIN p = DOMAIN w.page /\ p.refreshing = w.page.refreshing
      /\ p.waiting = Session!Gone(w.page.waiting)
  <2> HIDE DEF there
  <2> QED  BY DEF StoreFits
<1>2. Session!Gone(w.page.waiting) = {} <=> w.page.waiting = {}
  BY DEF Session!Gone
<1>3. DOMAIN n = Session!Kinds /\ n["refresh"] = w.net["refresh"]
  BY SessionKinds DEF StoreFits
<1>4. StoreFits(left)
  <2>1. DOMAIN left = {"page", "net"} /\ left.page = p /\ left.net = n
    OBVIOUS
  <2> HIDE DEF left, p, n
  <2> QED  BY <1>1, <1>2, <1>3, <2>1, StillWaits DEF StoreFits
<1>5. Session!GoTo(w, at) = left \/ \E id : Session!GoTo(w, at) = Session!Asks(left, id)
  <2>1. CASE there = "app"
    BY <2>1 DEF Session!GoTo
  <2>2. CASE there \in Session!Signing \cup {"bridge"} /\ there # "app"
    BY <2>2 DEF Session!GoTo
  <2>3. CASE there = "callback"
    BY <2>3 DEF Session!GoTo
  <2>4. CASE there \notin Session!Signing \cup {"bridge", "app", "callback"}
    BY <2>4 DEF Session!GoTo
  <2> QED  BY <2>1, <2>2, <2>3, <2>4
<1> HIDE DEF left
<1> QED  BY <1>4, <1>5, AsksWaits

LEMMA SetTokensWaits == ASSUME NEW w, StoreFits(w)  PROVE StoreFits(Session!SetTokens(w))
<1> DEFINE v == [w EXCEPT !.page.auth = TRUE]
<1>1. StoreFits(v)
  <2>1. PICK p : p = [w.page EXCEPT !.auth = TRUE]
    OBVIOUS
  <2>2. v = [w EXCEPT !.page = p]
    BY <2>1
  <2> HIDE DEF v
  <2> QED  BY <2>1, <2>2, ElsewhereWaits DEF StoreFits
<1>2. Session!SetTokens(w) = v \/ Session!SetTokens(w) = Session!Asks(v, "wallet")
  BY DEF Session!SetTokens
<1> HIDE DEF v
<1> QED  BY <1>1, <1>2, AsksWaits

LEMMA SetAuthWaits == ASSUME NEW w, StoreFits(w)  PROVE StoreFits(Session!SetAuth(w))
<1> DEFINE v == [w EXCEPT !.page.user = TRUE]
<1>1. PICK p : p = [w.page EXCEPT !.user = TRUE]
  OBVIOUS
<1>2. v = [w EXCEPT !.page = p]
  BY <1>1
<1>3. Session!SetAuth(w) = Session!SetTokens(v)
  BY DEF Session!SetAuth
<1> HIDE DEF v
<1>4. StoreFits(v)
  BY <1>1, <1>2, ElsewhereWaits DEF StoreFits
<1> QED  BY <1>3, <1>4, SetTokensWaits

LEMMA LoggedOutWaits == ASSUME NEW w, StoreFits(w)  PROVE StoreFits(Session!LoggedOut(w))
<1> DEFINE v == [w EXCEPT !.page.auth = FALSE, !.page.user = FALSE]
<1>1. PICK p : p = [w.page EXCEPT !.auth = FALSE, !.user = FALSE]
  OBVIOUS
<1>2. v = [w EXCEPT !.page = p]
  BY <1>1 DEF StoreFits
<1>3. Session!LoggedOut(w) = v \/ Session!LoggedOut(w) = Session!GoTo(v, "login")
  BY DEF Session!LoggedOut
<1> HIDE DEF v
<1>4. StoreFits(v)
  BY <1>1, <1>2, ElsewhereWaits DEF StoreFits
<1> QED  BY <1>3, <1>4, GoToWaits

LEMMA RejectedWaits == ASSUME NEW w, StoreFits(w), NEW requests  PROVE StoreFits(Session!Rejected(w, requests))
<1>1. PICK x, y, z : Session!Rejected(w, requests) = [w EXCEPT !.page.timer = x, !.page.error = y, !.page.loading = z]
  BY Zenon DEF Session!Rejected
<1>2. PICK p : p = [w.page EXCEPT !.timer = x, !.error = y, !.loading = z]
  OBVIOUS
<1> DEFINE v == Session!Rejected(w, requests)
<1>3. v = [w EXCEPT !.page = p]
  BY <1>1, <1>2 DEF StoreFits
<1> HIDE DEF v
<1>4. StoreFits(v)
  BY <1>2, <1>3, ElsewhereWaits DEF StoreFits
<1> QED  BY <1>4 DEF v

LEMMA SignedInFits == ASSUME NEW w, StoreFits(w), NEW r  PROVE StoreFits(Session!SignedIn(w, r))
<1> DEFINE v == [w EXCEPT !.page.handed = "tokens", !.page.at = "handed"]
<1>1. PICK p : p = [w.page EXCEPT !.handed = "tokens", !.at = "handed"]
  OBVIOUS
<1>2. v = [w EXCEPT !.page = p]
  BY <1>1 DEF StoreFits
<1>3. Session!SignedIn(w, r) = v \/ Session!SignedIn(w, r) = Session!GoTo(Session!SetAuth(w), "app")
  BY DEF Session!SignedIn
<1> HIDE DEF v
<1>4. StoreFits(v)
  BY <1>1, <1>2, ElsewhereWaits DEF StoreFits
<1>5. StoreFits(Session!GoTo(Session!SetAuth(w), "app"))
  BY SetAuthWaits, GoToWaits
<1> QED  BY <1>3, <1>4, <1>5

LEMMA ResolvedFits == ASSUME NEW w, StoreFits(w), NEW r  PROVE StoreFits(Session!Resolved(w, r))
<1>1. PICK a, b, c :
         \/ Session!Resolved(w, r) = w
         \/ Session!Resolved(w, r) = Session!SignedIn(w, r)
         \/ Session!Resolved(w, r) = Session!GoTo(w, "provider")
         \/ Session!Resolved(w, r) = [w EXCEPT !.page.config = a]
         \/ Session!Resolved(w, r) = [w EXCEPT !.page.step = a, !.page.loading = b]
         \/ Session!Resolved(w, r) = [w EXCEPT !.page.step = a, !.page.resetToken = b, !.page.loading = c]
         \/ r.id = "resetPassword"
  <2>1. CASE r.id \in Session!SignIns
    BY <2>1, Zenon DEF Session!Resolved, Session!SignIns
  <2>2. CASE r.id = "config" /\ r.here
    BY <2>2, Zenon DEF Session!Resolved, Session!SignIns
  <2>3. CASE r.id = "sendCode" /\ r.here
    BY <2>3, Zenon DEF Session!Resolved, Session!SignIns
  <2>4. CASE r.id = "verifyCode" /\ r.here
    BY <2>4, Zenon DEF Session!Resolved, Session!SignIns
  <2>5. CASE /\ r.id \notin Session!SignIns \cup {"resetPassword"}
             /\ r.id \in {"config", "sendCode", "verifyCode"} => ~r.here
    BY <2>5, Zenon DEF Session!Resolved
  <2> QED  BY <2>1, <2>2, <2>3, <2>4, <2>5, Zenon
<1>2. \A p, v : v = [w EXCEPT !.page = p] /\ DOMAIN p = DOMAIN w.page
                /\ p.refreshing = w.page.refreshing /\ p.waiting = w.page.waiting => StoreFits(v)
  BY ElsewhereWaits
<1>3. CASE \/ Session!Resolved(w, r) = [w EXCEPT !.page.config = a]
           \/ Session!Resolved(w, r) = [w EXCEPT !.page.step = a, !.page.loading = b]
           \/ Session!Resolved(w, r) = [w EXCEPT !.page.step = a, !.page.resetToken = b, !.page.loading = c]
  <2> DEFINE v == Session!Resolved(w, r)
  <2>1. PICK p : /\ \/ p = [w.page EXCEPT !.config = a]
                    \/ p = [w.page EXCEPT !.step = a, !.loading = b]
                    \/ p = [w.page EXCEPT !.step = a, !.resetToken = b, !.loading = c]
                 /\ v = [w EXCEPT !.page = p]
    BY <1>3 DEF StoreFits
  <2> HIDE DEF v
  <2>2. DOMAIN p = DOMAIN w.page /\ p.refreshing = w.page.refreshing /\ p.waiting = w.page.waiting
    BY <2>1 DEF StoreFits
  <2> QED  BY <1>2, <2>1, <2>2 DEF v
<1>4. CASE r.id = "resetPassword"
  <2> DEFINE step == IF r.here THEN "done" ELSE w.page.step
             token == r.here \/ w.page.resetToken
             busy == IF r.here THEN FALSE ELSE w.page.loading
             v == Session!Resolved(w, r)
  <2>1. v = [w EXCEPT !.page.timer = "login",
                      !.page.step = IF r.here THEN "done" ELSE @,
                      !.page.resetToken = r.here \/ @,
                      !.page.loading = IF r.here THEN FALSE ELSE @]
    BY <1>4 DEF Session!Resolved, Session!SignIns
  <2>2. v = [w EXCEPT !.page.timer = "login", !.page.step = step, !.page.resetToken = token, !.page.loading = busy]
    BY <2>1 DEF StoreFits
  <2> HIDE DEF step, token, busy, v
  <2>3. PICK p : p = [w.page EXCEPT !.timer = "login", !.step = step, !.resetToken = token, !.loading = busy]
    OBVIOUS
  <2>4. v = [w EXCEPT !.page = p]
    BY <2>2, <2>3 DEF StoreFits
  <2>5. DOMAIN p = DOMAIN w.page /\ p.refreshing = w.page.refreshing /\ p.waiting = w.page.waiting
    BY <2>3 DEF StoreFits
  <2> QED  BY <1>2, <2>4, <2>5 DEF v
<1> QED  BY <1>1, <1>3, <1>4, SignedInFits, GoToWaits

\* The first call that is refused sends for new tokens; the others wait with it.
LEMMA UnauthorizedFits == ASSUME NEW w, StoreFits(w), NEW r  PROVE StoreFits(Session!Unauthorized(w, r))
<1> DEFINE v == Session!Unauthorized(w, r)
<1>1. CASE r.retry \/ ~w.page.auth
  BY <1>1, RejectedWaits, LoggedOutWaits DEF Session!Unauthorized
<1>2. CASE ~r.retry /\ w.page.auth
  <2>1. PICK p, n : /\ p = [w.page EXCEPT !.waiting = @ \cup {r}, !.refreshing = TRUE]
                    /\ n = IF w.page.refreshing THEN w.net
                           ELSE Session!Asking(w.net, "refresh", Session!None)
                    /\ v = [page |-> p, net |-> n]
    BY <1>2 DEF Session!Unauthorized
  <2>2. DOMAIN v = {"page", "net"} /\ v.page = p /\ v.net = n
    BY <2>1
  <2> HIDE DEF v
  <2>3. /\ DOMAIN p = DOMAIN w.page /\ p.refreshing = TRUE
    BY <2>1 DEF StoreFits
  <2>4. DOMAIN n = Session!Kinds /\ n["refresh"] # {} /\ \A c, d \in n["refresh"] : c = d
    <3>1. CASE w.page.refreshing
      BY <2>1, <3>1 DEF StoreFits
    <3>2. CASE ~w.page.refreshing
      <4>1. n = Session!Asking(w.net, "refresh", Session!None) /\ w.net["refresh"] = {}
        BY <2>1, <3>2 DEF StoreFits
      <4>2. DOMAIN n = Session!Kinds /\ n["refresh"] = {Session!Sent(Session!None)}
        BY <4>1, SessionKinds DEF Session!Asking, StoreFits
      <4> QED  BY <4>2
    <3> QED  BY <3>1, <3>2
  <2>5. StoreFits(v)
    BY <2>2, <2>3, <2>4 DEF StoreFits
  <2> QED  BY <2>5 DEF v
<1> QED  BY <1>1, <1>2

LEMMA BecomesFits == ASSUME NEW w, StoreFits(w), Session!Becomes(w)  PROVE SessionInv'
<1>1. page' = w.page /\ net' = w.net
  BY DEF Session!Becomes
<1>2. DOMAIN [page |-> page', net |-> net'] = {"page", "net"}
  OBVIOUS
<1> QED  BY <1>1, <1>2 DEF SessionInv, Session!Now, StoreFits

\* A step that leaves the refresh and those who wait for it alone.
LEMMA WaitingKept ==
    ASSUME SessionInv, {"refreshing", "waiting"} \subseteq DOMAIN page', DOMAIN net' = Session!Kinds,
           page'.refreshing = page.refreshing, page'.waiting = page.waiting,
           net'["refresh"] = net["refresh"]
    PROVE  SessionInv'
BY DEF SessionInv, Session!Now, StoreFits

LEMMA DeliverCallFits == ASSUME SessionInv, Session!DeliverCall  PROVE SessionInv'
<1>1. PICK id \in Session!Ids, c \in net["call"] :
         \E w : /\ w = [Session!Now EXCEPT !.net = Session!Without(@, "call", c)]
                /\ \/ Session!Becomes(Session!Resolved(w, c.to))
                   \/ Session!Becomes(Session!Unauthorized(w, c.to))
                   \/ Session!Becomes(Session!Rejected([w EXCEPT !.page.recharge = TRUE], {c.to}))
                   \/ Session!Becomes(Session!Rejected(w, {c.to}))
  <2>1. PICK id \in Session!Ids : Session!Deliver(id)
    BY DEF Session!DeliverCall
  <2>2. PICK c \in net["call"] : c \in {x \in Session!Came("call") : x.to.id = id}
             /\ LET w == [Session!Now EXCEPT !.net = Session!Without(@, "call", c)]
                    reply == IF Session!Ok(c) THEN c.ans ELSE "refused"
                IN  Session!Becomes(CASE reply = "ok"  -> Session!Resolved(w, c.to)
                         [] reply = "401" -> Session!Unauthorized(w, c.to)
                         [] reply = "402" -> Session!Rejected([w EXCEPT !.page.recharge = TRUE], {c.to})
                         [] OTHER         -> Session!Rejected(w, {c.to}))
    BY <2>1, Zenon DEF Session!Deliver, Session!Came
  <2> DEFINE w == [Session!Now EXCEPT !.net = Session!Without(@, "call", c)]
             reply == IF Session!Ok(c) THEN c.ans ELSE "refused"
  <2>3. Session!Becomes(CASE reply = "ok"  -> Session!Resolved(w, c.to)
                         [] reply = "401" -> Session!Unauthorized(w, c.to)
                         [] reply = "402" -> Session!Rejected([w EXCEPT !.page.recharge = TRUE], {c.to})
                         [] OTHER         -> Session!Rejected(w, {c.to}))
    BY <2>2
  <2> HIDE DEF w, reply
  <2>4. \/ Session!Becomes(Session!Resolved(w, c.to))
        \/ Session!Becomes(Session!Unauthorized(w, c.to))
        \/ Session!Becomes(Session!Rejected([w EXCEPT !.page.recharge = TRUE], {c.to}))
        \/ Session!Becomes(Session!Rejected(w, {c.to}))
    <3>1. CASE reply = "ok"
      BY <2>3, <3>1
    <3>2. CASE reply = "401"
      BY <2>3, <3>2
    <3>3. CASE reply = "402"
      BY <2>3, <3>3
    <3>4. CASE reply \notin {"ok", "401", "402"}
      BY <2>3, <3>4
    <3> QED  BY <3>1, <3>2, <3>3, <3>4
  <2> QED  BY <2>4 DEF w
<1>2. PICK w : /\ w = [Session!Now EXCEPT !.net = Session!Without(@, "call", c)]
               /\ \/ Session!Becomes(Session!Resolved(w, c.to))
                  \/ Session!Becomes(Session!Unauthorized(w, c.to))
                  \/ Session!Becomes(Session!Rejected([w EXCEPT !.page.recharge = TRUE], {c.to}))
                  \/ Session!Becomes(Session!Rejected(w, {c.to}))
  BY <1>1
<1>3. StoreFits(w)
  <2>1. PICK n : n = Session!Without(net, "call", c)
    OBVIOUS
  <2>2. DOMAIN n = Session!Kinds /\ n["refresh"] = net["refresh"]
    BY <2>1, SessionKinds DEF SessionInv, StoreFits, Session!Now, Session!Without
  <2>3. DOMAIN w = {"page", "net"} /\ w.page = page /\ w.net = n
    BY <1>2, <2>1 DEF Session!Now
  <2> QED  BY <2>2, <2>3 DEF SessionInv, StoreFits, Session!Now
<1>4. StoreFits([w EXCEPT !.page.recharge = TRUE])
  <2> DEFINE v == [w EXCEPT !.page.recharge = TRUE]
  <2>1. PICK p : p = [w.page EXCEPT !.recharge = TRUE]
    OBVIOUS
  <2>2. v = [w EXCEPT !.page = p]
    BY <2>1
  <2> HIDE DEF v
  <2>3. StoreFits(v)
    BY <1>3, <2>1, <2>2, ElsewhereWaits DEF StoreFits
  <2> QED  BY <2>3 DEF v
<1> QED  BY <1>2, <1>3, <1>4, ResolvedFits, UnauthorizedFits, RejectedWaits, BecomesFits

LEMMA DeliverRefreshFits == ASSUME SessionInv, Session!DeliverRefresh  PROVE SessionInv'
<1>1. PICK c \in net["refresh"] :
         \E w : /\ w = [page |-> [page EXCEPT !.refreshing = FALSE, !.waiting = {}],
                        net  |-> Session!Without(net, "refresh", c)]
                /\ \/ /\ page' = Session!SetTokens(w).page
                      /\ net' = Session!Again(Session!SetTokens(w).net, page.waiting)
                   \/ Session!Becomes(Session!Rejected(Session!LoggedOut(w), page.waiting))
  BY DEF Session!DeliverRefresh, Session!Came
<1>2. PICK w : /\ w = [page |-> [page EXCEPT !.refreshing = FALSE, !.waiting = {}],
                       net  |-> Session!Without(net, "refresh", c)]
               /\ \/ /\ page' = Session!SetTokens(w).page
                     /\ net' = Session!Again(Session!SetTokens(w).net, page.waiting)
                  \/ Session!Becomes(Session!Rejected(Session!LoggedOut(w), page.waiting))
  BY <1>1
<1>3. StoreFits(w)
  <2>1. PICK p, n : p = [page EXCEPT !.refreshing = FALSE, !.waiting = {}] /\ n = Session!Without(net, "refresh", c)
    OBVIOUS
  <2>2. DOMAIN p = DOMAIN page /\ p.refreshing = FALSE /\ p.waiting = {}
    BY <2>1 DEF SessionInv, StoreFits, Session!Now
  <2>3. DOMAIN n = Session!Kinds /\ n["refresh"] = net["refresh"] \ {c}
    BY <2>1, SessionKinds DEF SessionInv, StoreFits, Session!Now, Session!Without
  <2>4. net["refresh"] \ {c} = {}
    BY DEF SessionInv, StoreFits, Session!Now
  <2>5. DOMAIN w = {"page", "net"} /\ w.page = p /\ w.net = n
    BY <1>2, <2>1
  <2> QED  BY <2>2, <2>3, <2>4, <2>5 DEF SessionInv, StoreFits, Session!Now
<1>4. CASE /\ page' = Session!SetTokens(w).page
           /\ net' = Session!Again(Session!SetTokens(w).net, page.waiting)
  <2> DEFINE v == Session!SetTokens(w)
  <2>1. StoreFits(v)
    BY <1>3, SetTokensWaits
  <2>2. page' = v.page /\ net' = Session!Again(v.net, page.waiting)
    BY <1>4
  <2> HIDE DEF v
  <2>3. DOMAIN net' = Session!Kinds /\ net'["refresh"] = v.net["refresh"]
    BY <2>1, <2>2, SessionKinds, Zenon DEF Session!Again, StoreFits
  <2>4. DOMAIN [page |-> page', net |-> net'] = {"page", "net"}
    OBVIOUS
  <2> QED  BY <2>1, <2>2, <2>3, <2>4 DEF SessionInv, Session!Now, StoreFits
<1>5. CASE Session!Becomes(Session!Rejected(Session!LoggedOut(w), page.waiting))
  BY <1>3, <1>5, LoggedOutWaits, RejectedWaits, BecomesFits
<1> QED  BY <1>2, <1>4, <1>5

LEMMA NowAt ==
    ASSUME SessionInv, NEW w, {"page", "net"} \subseteq DOMAIN w, w.net = net,
           {"refreshing", "waiting"} \subseteq DOMAIN w.page,
           w.page.refreshing = page.refreshing, w.page.waiting = page.waiting
    PROVE  StoreFits(w)
BY DEF SessionInv, Session!Now, StoreFits

LEMMA SessionButtons ==
    ASSUME SessionInv,
           \/ Session!ToggleSidebar \/ (\E s \in Sections : Session!ToggleSection(s))
           \/ Session!CloseRecharge \/ Session!ProviderRefuses \/ Session!UseDifferentEmail
    PROVE  SessionInv'
<1>0. {"refreshing", "waiting"} \subseteq DOMAIN page /\ DOMAIN net = Session!Kinds
  BY DEF SessionInv, StoreFits, Session!Now
<1>1. ASSUME NEW a, NEW b, NEW c, UNCHANGED net,
             \/ page' = [page EXCEPT !.collapsed = a] \/ page' = [page EXCEPT !.closed = a]
             \/ page' = [page EXCEPT !.recharge = a] \/ page' = [page EXCEPT !.step = a]
             \/ page' = [page EXCEPT !.at = a, !.error = b, !.timer = c]
      PROVE  SessionInv'
  <2>1. DOMAIN page' = DOMAIN page /\ page'.refreshing = page.refreshing /\ page'.waiting = page.waiting
    BY <1>0, <1>1
  <2> QED  BY <1>0, <1>1, <2>1, WaitingKept
<1>2. CASE Session!ToggleSidebar
  BY <1>1, <1>2, Zenon DEF Session!ToggleSidebar, Session!Stays
<1>3. ASSUME NEW s, Session!ToggleSection(s)  PROVE SessionInv'
  <2>1. PICK a : page' = [page EXCEPT !.closed = a] /\ UNCHANGED net
    BY <1>3 DEF Session!ToggleSection, Session!Stays
  <2> QED  BY <1>1, <2>1, Zenon
<1>4. CASE Session!CloseRecharge \/ Session!UseDifferentEmail
  BY <1>1, <1>4, Zenon DEF Session!CloseRecharge, Session!UseDifferentEmail, Session!Stays
<1>5. CASE Session!ProviderRefuses
  <2>1. PICK c : page' = [page EXCEPT !.at = "callback", !.error = TRUE, !.timer = c] /\ UNCHANGED net
    BY <1>5, Zenon DEF Session!ProviderRefuses
  <2> QED  BY <1>1, <2>1, Zenon
<1> QED  BY <1>2, <1>3, <1>4, <1>5

LEMMA SessionAsks ==
    ASSUME SessionInv,
           \/ Session!Work \/ Session!Submit \/ Session!AppleSignIn \/ Session!GoogleSignIn
           \/ Session!SendCode \/ Session!VerifyCode \/ Session!ResetPassword \/ Session!SubmitNewPassword
    PROVE  SessionInv'
<1> DEFINE v == [Session!Now EXCEPT !.page.loading = TRUE]
<1>1. PICK p : p = [page EXCEPT !.loading = TRUE]
  OBVIOUS
<1>2. DOMAIN v = {"page", "net"} /\ v.page = p /\ v.net = net
  BY <1>1 DEF Session!Now
<1>3. \E id : Session!Becomes(Session!Asks(Session!Now, id)) \/ Session!Becomes(Session!Asks(v, id))
  BY DEF Session!Work, Session!Submit, Session!AppleSignIn, Session!GoogleSignIn, Session!SendCode,
         Session!VerifyCode, Session!ResetPassword, Session!SubmitNewPassword, Session!Form
<1> HIDE DEF v
<1>4. DOMAIN p = DOMAIN page /\ p.refreshing = page.refreshing /\ p.waiting = page.waiting
  BY <1>1 DEF SessionInv, StoreFits, Session!Now
<1>5. StoreFits(v)
  BY <1>2, <1>4, NowAt DEF SessionInv, StoreFits, Session!Now
<1>6. StoreFits(Session!Now)
  BY DEF SessionInv
<1> QED  BY <1>3, <1>5, <1>6, AsksWaits, BecomesFits

LEMMA SessionMoves ==
    ASSUME SessionInv,
           \/ Session!Logout \/ Session!EnterRoom \/ Session!LeaveRoom \/ Session!Enter
           \/ Session!RedirectSignIn \/ Session!SwitchMode \/ Session!ProviderReturns
           \/ Session!Forgot \/ Session!BackToSignIn \/ Session!TimerFires
    PROVE  SessionInv'
<1> DEFINE out == [Session!Now EXCEPT !.page.auth = FALSE, !.page.user = FALSE]
           left == [Session!Now EXCEPT !.page.timer = Session!None]
           handed == [Session!Now EXCEPT !.page.timer = Session!None, !.page.at = "handed",
                                         !.page.handed = "error"]
<1>0. {"refreshing", "waiting"} \subseteq DOMAIN page
  BY DEF SessionInv, StoreFits, Session!Now
<1>1. StoreFits(Session!Now)
  BY DEF SessionInv
<1>2. ASSUME NEW p, DOMAIN p = DOMAIN page, p.refreshing = page.refreshing, p.waiting = page.waiting,
             NEW w, w = [page |-> p, net |-> net]
      PROVE  StoreFits(w)
  <2>1. DOMAIN w = {"page", "net"} /\ w.page = p /\ w.net = net
    BY <1>2
  <2> QED  BY <1>0, <1>2, <2>1, NowAt
<1>3. PICK p, q, r : /\ p = [page EXCEPT !.auth = FALSE, !.user = FALSE]
                     /\ q = [page EXCEPT !.timer = Session!None]
                     /\ r = [page EXCEPT !.timer = Session!None, !.at = "handed", !.handed = "error"]
  OBVIOUS
<1>4a. out = [page |-> p, net |-> net]
  <2>1. PICK p0 : p0 = [page EXCEPT !.auth = FALSE]
    OBVIOUS
  <2>2. PICK w0 : w0 = [page |-> p0, net |-> net]
    OBVIOUS
  <2>3. [Session!Now EXCEPT !.page.auth = FALSE] = w0
    <3>1. Session!Now = [page |-> page, net |-> net] /\ Session!Now.page = page
      BY DEF Session!Now
    <3>2. [Session!Now.page EXCEPT !.auth = FALSE] = p0
      BY <2>1, <3>1
    <3>3. [Session!Now EXCEPT !.page = p0] = w0
      BY <2>2, <3>1
    <3> QED  BY <3>2, <3>3
  <2>4. p = [p0 EXCEPT !.user = FALSE] /\ out = [w0 EXCEPT !.page.user = FALSE]
    BY <1>3, <2>1, <2>3
  <2>5. w0.page = p0
    BY <2>2
  <2>6. [w0.page EXCEPT !.user = FALSE] = p
    BY <2>4, <2>5
  <2>7. [w0 EXCEPT !.page = p] = [page |-> p, net |-> net]
    BY <2>2
  <2>8. [w0 EXCEPT !.page.user = FALSE] = [w0 EXCEPT !.page = p]
    BY <2>6
  <2> HIDE DEF out
  <2> QED  BY <2>4, <2>7, <2>8
<1>4b. left = [page |-> q, net |-> net]
  BY <1>3 DEF Session!Now
<1>4c. handed = [page |-> r, net |-> net]
  <2>1. PICK p0, p1 : p0 = [q EXCEPT !.at = "handed"] /\ p1 = [page |-> q, net |-> net]
    OBVIOUS
  <2>2. PICK w0 : w0 = [page |-> p0, net |-> net]
    OBVIOUS
  <2>3. [p1 EXCEPT !.page.at = "handed"] = w0
    BY <2>1, <2>2
  <2>4. r = [p0 EXCEPT !.handed = "error"]
    BY <1>3, <2>1
  <2>5. handed = [left EXCEPT !.page.at = "handed", !.page.handed = "error"]
    OBVIOUS
  <2>6. handed = [w0 EXCEPT !.page.handed = "error"]
    BY <1>4b, <2>1, <2>3, <2>5
  <2> QED  BY <2>2, <2>4, <2>6
<1>4. out = [page |-> p, net |-> net] /\ left = [page |-> q, net |-> net]
      /\ handed = [page |-> r, net |-> net]
  BY <1>4a, <1>4b, <1>4c
<1>5. \/ \E at : Session!Becomes(Session!GoTo(Session!Now, at))
      \/ Session!Becomes(Session!GoTo(out, "landing"))
      \/ \E at : Session!Becomes(Session!GoTo(left, at))
      \/ Session!Becomes(handed)
  BY DEF Session!Logout, Session!EnterRoom, Session!LeaveRoom, Session!Enter, Session!RedirectSignIn,
         Session!SwitchMode, Session!ProviderReturns, Session!Forgot, Session!BackToSignIn,
         Session!TimerFires, Session!Goes
<1> HIDE DEF out, left, handed
<1>6. \A x \in {p, q, r} : DOMAIN x = DOMAIN page /\ x.refreshing = page.refreshing /\ x.waiting = page.waiting
  BY <1>0, <1>3
<1>7. StoreFits(out) /\ StoreFits(left) /\ StoreFits(handed)
  BY <1>2, <1>4, <1>6
<1> QED  BY <1>1, <1>5, <1>7, GoToWaits, BecomesFits

LEMMA SessionServer ==
    ASSUME SessionInv,
           Session!ServeCall \/ Session!ServeRefresh \/ Session!Deleted \/ Session!Lose
    PROVE  SessionInv'
<1>0. {"refreshing", "waiting"} \subseteq DOMAIN page /\ DOMAIN net = Session!Kinds
      /\ \A c, d \in net["refresh"] : c = d
  BY DEF SessionInv, StoreFits, Session!Now
<1>1. ASSUME NEW k \in Session!Kinds, NEW c \in net[k], NEW v, UNCHANGED page,
             Session!Answer(k, c, v) \/ Session!Refuse(k, c)
      PROVE  SessionInv'
  <2>1. PICK q : net' = [net EXCEPT ![k] = (@ \ {c}) \cup {q}]
    BY <1>1 DEF Session!Answer, Session!Refuse
  <2>2. /\ DOMAIN net' = Session!Kinds /\ net'[k] = (net[k] \ {c}) \cup {q}
        /\ \A j \in Session!Kinds \ {k} : net'[j] = net[j]
    BY <1>0, <1>1, <2>1
  <2>3. CASE k = "call"
    BY <1>0, <1>1, <2>2, <2>3, SessionKinds, WaitingKept
  <2>4. CASE k = "refresh"
    <3>1. net'["refresh"] = {q} /\ net["refresh"] # {}
      BY <1>0, <1>1, <2>2, <2>4
    <3>2. DOMAIN [page |-> page', net |-> net'] = {"page", "net"}
      OBVIOUS
    <3> QED  BY <1>1, <2>2, <3>1, <3>2 DEF SessionInv, StoreFits, Session!Now
  <2> QED  BY <1>1, <2>3, <2>4, SessionKinds
<1>2. CASE Session!ServeCall
  <2>1. PICK c \in net["call"] : UNCHANGED page /\ \E v : Session!Answer("call", c, v)
    BY <1>2 DEF Session!ServeCall, Session!Serve, Session!Asked, Session!OnlyNet
  <2> QED  BY <1>1, <2>1, SessionKinds
<1>3. CASE Session!ServeRefresh
  BY <1>1, <1>3, SessionKinds DEF Session!ServeRefresh, Session!Asked, Session!OnlyNet
<1>4. CASE Session!Deleted
  BY <1>4 DEF Session!Deleted, SessionInv, StoreFits, Session!Now
<1>5. CASE Session!Lose
  BY <1>1, <1>5 DEF Session!Lose, Session!Lost
<1> QED  BY <1>2, <1>3, <1>4, <1>5

LEMMA InitSession == Session!SessionInit => SessionInv
<1> SUFFICES ASSUME Session!SessionInit  PROVE SessionInv
  OBVIOUS
<1> DEFINE signedIn == does \cap {"calls", "again"} # {}
           first == [at |-> "landing", auth |-> signedIn, user |-> signedIn, recharge |-> FALSE,
                     refreshing |-> FALSE, waiting |-> {}, config |-> FALSE, loading |-> FALSE,
                     error |-> FALSE, step |-> "request", resetToken |-> FALSE, timer |-> Session!None,
                     forApp |-> "bridge" \in does, handed |-> Session!None, collapsed |-> FALSE, closed |-> {}]
           at == IF "bridge" \in does THEN "bridge" ELSE IF "link" \in does THEN "reset"
                 ELSE IF "calls" \in does THEN "app" ELSE "login"
<1>1. /\ page = Session!GoTo([page |-> first, net |-> Session!NoCalls(Session!Kinds)], at).page
      /\ net = Session!GoTo([page |-> first, net |-> Session!NoCalls(Session!Kinds)], at).net
  BY DEF Session!SessionInit
<1>1a. {"refreshing", "waiting"} \subseteq DOMAIN first /\ first.refreshing = FALSE /\ first.waiting = {}
  OBVIOUS
<1> HIDE DEF first, at, signedIn
<1> DEFINE v == [page |-> first, net |-> Session!NoCalls(Session!Kinds)]
<1>2. StoreFits(v)
  <2>1. DOMAIN v = {"page", "net"} /\ v.page = first /\ v.net = Session!NoCalls(Session!Kinds)
    OBVIOUS
  <2>2. DOMAIN v.net = Session!Kinds /\ v.net["refresh"] = {}
    BY <2>1, SessionKinds DEF Session!NoCalls
  <2> HIDE DEF v
  <2> QED  BY <1>1a, <2>1, <2>2 DEF StoreFits
<1>3. PICK w : w = Session!GoTo(v, at) /\ page = w.page /\ net = w.net
  BY <1>1
<1>4. StoreFits(w)
  BY <1>2, <1>3, GoToWaits
<1>5. DOMAIN Session!Now = {"page", "net"} /\ Session!Now.page = page /\ Session!Now.net = net
  BY DEF Session!Now
<1> HIDE DEF v
<1> QED  BY <1>3, <1>4, <1>5 DEF SessionInv, StoreFits

LEMMA NextSession == SessionInv /\ [Session!SessionNext]_<<page, server, net, lost, does>> => SessionInv'
<1> SUFFICES ASSUME SessionInv, [Session!SessionNext]_<<page, server, net, lost, does>>  PROVE SessionInv'
  OBVIOUS
<1>1. CASE UNCHANGED <<page, server, net, lost, does>>
  BY <1>1 DEF SessionInv, StoreFits, Session!Now
<1>2. CASE Session!SessionNext
  BY <1>2, DeliverCallFits, DeliverRefreshFits, SessionButtons, SessionAsks, SessionMoves, SessionServer
     DEF Session!SessionNext
<1> QED  BY <1>1, <1>2

LEMMA SessionKeeps == SessionInv => Session!WaitersAreServed
<1> SUFFICES ASSUME SessionInv  PROVE Session!WaitersAreServed
  OBVIOUS
<1>1. /\ page.refreshing <=> net["refresh"] # {}
      /\ page.waiting # {} => page.refreshing
      /\ \A c, d \in net["refresh"] : c = d
  BY DEF SessionInv, StoreFits, Session!Now
<1>2. Chat!Cardinality(net["refresh"]) <= 1
  BY <1>1, Chat!AtMostOneCall
<1>3. Session!Cardinality(net["refresh"]) <= 1
  BY <1>2, OneCardinality
<1> QED  BY <1>1, <1>3 DEF Session!WaitersAreServed, Session!InFlight

-----------------------------------------------------------------------------
(* What a session is created with                                           *)

Complete(ch) == ch.grant \in Grants /\ ch.topic # Interview!None /\ ch.seniority # Interview!None

\* What is chosen is something its pack offers, if it is anything.
ChoiceFits(ch) ==
    /\ ch.grant \in Grants =>
         /\ ch.topic \in Interview!ToSet(PackConfig[ch.grant].topics) \cup {Interview!None}
         /\ ch.seniority \in Interview!ToSet(PackConfig[ch.grant].levels) \cup {Interview!None}
    /\ ch.subTopic \in Interview!SubTopicOptions(ch) \cup {Interview!None}

\* What the wizard has gone past is chosen.
WizardFits ==
    /\ ChoiceFits(page.setup.choice)
    /\ page.at = "setup" /\ page.setup.loaded =>
         /\ Interview!Steps[page.setup.step] # "Pack" => page.setup.choice.grant \in Grants
         /\ Interview!Steps[page.setup.step] \notin {"Pack", "Topic"} => Complete(page.setup.choice)
    /\ page.setup.consentOpen => page.setup.loaded /\ Complete(page.setup.choice)

PackInv == WizardFits /\ Interview!BodyWithinPack

SameWizard ==
    /\ page'.at = page.at /\ page'.setup.choice = page.setup.choice
    /\ page'.setup.loaded = page.setup.loaded /\ page'.setup.step = page.setup.step
    /\ page'.setup.grants = page.setup.grants
    /\ page'.setup.consentOpen => page.setup.consentOpen
NothingCreated == \A c \in net'["create"] : \E d \in net["create"] : c.to = d.to

LEMMA BodiesKept == ASSUME Interview!BodyWithinPack, NothingCreated  PROVE Interview!BodyWithinPack'
BY DEF Interview!BodyWithinPack, NothingCreated

LEMMA WizardKept == ASSUME PackInv, SameWizard, NothingCreated  PROVE PackInv'
<1>1. Interview!Steps' = Interview!Steps
  BY DEF SameWizard, Interview!Steps
<1>2. WizardFits'
  BY <1>1 DEF PackInv, WizardFits, SameWizard
<1> QED  BY <1>2, BodiesKept DEF PackInv

\* Calls that come, or that ask for anything else than a session.
LEMMA OtherCallsOfPages ==
    ASSUME DOMAIN net = Interview!Kinds,
           \/ UNCHANGED net
           \/ \E k, c : Interview!Take(k, c)
           \/ \E k \in Interview!Kinds \ {"create"} : \E to : net' = Interview!Asking(net, k, to)
           \/ \E k \in Interview!Kinds : \E c \in net[k] :
                 (\E v : Interview!Answer(k, c, v)) \/ Interview!Refuse(k, c)
    PROVE  NothingCreated
<1>0. "create" \in Interview!Kinds
  BY DEF Interview!Kinds
<1>1. CASE UNCHANGED net
  BY <1>1 DEF NothingCreated
<1>2. ASSUME NEW k, NEW c, Interview!Take(k, c)  PROVE NothingCreated
  <2>1. net'["create"] \subseteq net["create"]
    BY <1>0, <1>2 DEF Interview!Take, Interview!Without
  <2> QED  BY <2>1 DEF NothingCreated
<1>3. ASSUME NEW k \in Interview!Kinds \ {"create"}, NEW to, net' = Interview!Asking(net, k, to)
      PROVE  NothingCreated
  <2>1. net'["create"] = net["create"]
    BY <1>0, <1>3 DEF Interview!Asking
  <2> QED  BY <2>1 DEF NothingCreated
<1>4. ASSUME NEW k \in Interview!Kinds, NEW c \in net[k],
             (\E v : Interview!Answer(k, c, v)) \/ Interview!Refuse(k, c)
      PROVE  NothingCreated
  <2>1. PICK q : q.to = c.to /\ net' = [net EXCEPT ![k] = (@ \ {c}) \cup {q}]
    BY <1>4 DEF Interview!Answer, Interview!Refuse
  <2>2. net'["create"] = IF k = "create" THEN (net["create"] \ {c}) \cup {q} ELSE net["create"]
    BY <1>0, <2>1
  <2> QED  BY <1>4, <2>1, <2>2 DEF NothingCreated
<1> QED  BY <1>1, <1>2, <1>3, <1>4

\* The page before is gone, and with it what was chosen there.
LEMMA WizardGone ==
    ASSUME PackInv, DOMAIN net = Interview!Kinds, NEW p, "setup" \in DOMAIN p, NEW at, Interview!Goes(p, at)
    PROVE  PackInv'
<1>1. page'.setup = Interview!SetupFirst
  BY DEF Interview!Goes
<1>2. WizardFits'
  BY <1>1 DEF WizardFits, ChoiceFits, Interview!SetupFirst, Interview!NoChoice, Interview!SubTopicOptions
<1>3. net'["create"] \subseteq net["create"]
  <2>1. "create" \in Interview!Kinds
    BY DEF Interview!Kinds
  <2>2. PICK n : DOMAIN n = Interview!Kinds
                 /\ net' = [n EXCEPT !["create"] = {c \in net["create"] : c.phase = "sent"}]
    BY DEF Interview!Goes, Interview!Loading
  <2>3. net'["create"] = {c \in net["create"] : c.phase = "sent"}
    BY <2>1, <2>2
  <2> QED  BY <2>3
<1> QED  BY <1>2, <1>3, BodiesKept DEF PackInv, NothingCreated

LEMMA WizardAside ==
    ASSUME PagesInv, PackInv, NothingCreated,
           page' = page \/ \E v : page' \in {Interview!InHome(v), Interview!InMedia(v), Interview!InReport(v)}
    PROVE  PackInv'
<1>1. page'.at = page.at /\ page'.setup = page.setup
  BY DEF PagesInv, Interview!Page, Interview!InHome, Interview!InMedia, Interview!InReport
<1> QED  BY <1>1, WizardKept DEF SameWizard

LEMMA WizardShownOn ==
    ASSUME PagesInv, PackInv, NothingCreated, NEW s, page' = Interview!InSetup(s),
           s.choice = page.setup.choice, s.loaded = page.setup.loaded, s.step = page.setup.step,
           s.grants = page.setup.grants, s.consentOpen => page.setup.consentOpen
    PROVE  PackInv'
<1>1. page'.at = page.at /\ page'.setup = s
  BY DEF PagesInv, Interview!Page, Interview!InSetup
<1> QED  BY <1>1, WizardKept DEF SameWizard

LEMMA PackAside ==
    ASSUME PagesInv, PackInv,
           \/ Interview!DeliverHome \/ Interview!DeliverPacks
           \/ \E p \in ShopPacks : Interview!BuyRazorpay(p)
           \/ Interview!MediaGranted \/ Interview!MediaRefused \/ Interview!MicHeard
           \/ Interview!DeviceSwitched \/ Interview!DeviceRefused
           \/ \E d \in Interview!Devices : Interview!SwitchDevice(d)
           \/ Interview!NetworkCheck \/ Interview!DeliverPing
           \/ Interview!DeliverReport \/ Interview!PollDue \/ Interview!RetryPolling
           \/ Interview!ViewEvidence \/ Interview!DeliverEvidence
           \/ Interview!DownloadPdf \/ Interview!DeliverPdf
    PROVE  PackInv'
<1>0. DOMAIN net = Interview!Kinds
  BY DEF PagesInv, CallsFit
<1>k. {"order", "ping", "report", "evidence", "pdf"} \subseteq Interview!Kinds \ {"create"}
  BY DEF Interview!Kinds
<1>1. ASSUME NEW v, page' \in {Interview!InHome(v), Interview!InMedia(v), Interview!InReport(v)},
             \/ UNCHANGED net
             \/ \E k, c : Interview!Take(k, c)
             \/ \E k \in {"order", "ping", "report", "evidence", "pdf"} : \E to :
                   net' = Interview!Asking(net, k, to)
      PROVE  PackInv'
  <2>1. NothingCreated
    BY <1>0, <1>k, <1>1, OtherCallsOfPages
  <2> QED  BY <1>1, <2>1, WizardAside
<1>2. CASE Interview!DeliverHome \/ Interview!DeliverPacks
  <2>1. (\E v : page' = Interview!InHome(v)) /\ \E k, c : Interview!Take(k, c)
    BY <1>2, Zenon DEF Interview!DeliverHome, Interview!DeliverPacks
  <2> QED  BY <1>1, <2>1
<1>3. ASSUME NEW p \in ShopPacks, Interview!BuyRazorpay(p)  PROVE PackInv'
  BY <1>1, <1>3 DEF Interview!BuyRazorpay, Interview!Ask
<1>4. ASSUME \E m : Interview!Stays(Interview!InMedia(m))  PROVE PackInv'
  BY <1>1, <1>4 DEF Interview!Stays
<1>5. CASE Interview!MediaGranted \/ Interview!MediaRefused
  BY <1>4, <1>5, Zenon DEF Interview!MediaGranted, Interview!MediaRefused
<1>6. CASE Interview!MicHeard \/ Interview!DeviceSwitched \/ Interview!DeviceRefused
  BY <1>4, <1>6 DEF Interview!MicHeard, Interview!DeviceSwitched, Interview!DeviceRefused
<1>7. ASSUME NEW d \in Interview!Devices, Interview!SwitchDevice(d)  PROVE PackInv'
  BY <1>4, <1>7, Zenon DEF Interview!SwitchDevice
<1>8. CASE Interview!NetworkCheck
  <2>1. (\E v : page' = Interview!InMedia(v)) /\ net' = Interview!Asking(net, "ping", Interview!None)
    BY <1>8, Zenon DEF Interview!NetworkCheck, Interview!Ask
  <2> QED  BY <1>1, <2>1
<1>9. CASE Interview!DeliverPing
  BY <1>1, <1>9 DEF Interview!DeliverPing
<1>10. CASE Interview!DeliverReport
  BY <1>1, <1>10 DEF Interview!DeliverReport
<1>11. CASE Interview!PollDue \/ Interview!RetryPolling
  BY <1>1, <1>11 DEF Interview!PollDue, Interview!RetryPolling, Interview!Stays
<1>12. CASE Interview!ViewEvidence \/ Interview!DownloadPdf
  BY <1>1, <1>12 DEF Interview!ViewEvidence, Interview!DownloadPdf, Interview!Ask
<1>13. CASE Interview!DeliverEvidence \/ Interview!DeliverPdf
  BY <1>1, <1>13 DEF Interview!DeliverEvidence, Interview!DeliverPdf
<1> QED  BY <1>2, <1>3, <1>5, <1>6, <1>7, <1>8, <1>9, <1>10, <1>11, <1>12, <1>13

LEMMA PackGone ==
    ASSUME PagesInv, PackInv,
           \/ Interview!StartNew \/ Interview!Resume \/ Interview!OpenRow \/ Interview!DeliverOrder
           \/ Interview!LeaveSetup \/ Interview!TakeOffer \/ Interview!LeaveReport
    PROVE  PackInv'
<1>0. DOMAIN net = Interview!Kinds /\ "setup" \in DOMAIN page
  BY DEF PagesInv, CallsFit, Interview!Page
<1>1. ASSUME NEW at, Interview!Goes(page, at)  PROVE PackInv'
  BY <1>0, <1>1, WizardGone
<1>2. CASE Interview!StartNew \/ Interview!Resume \/ Interview!OpenRow \/ Interview!LeaveReport
  BY <1>1, <1>2 DEF Interview!StartNew, Interview!Resume, Interview!OpenRow, Interview!LeaveReport
<1>3. CASE Interview!DeliverOrder
  <2>1. \/ Interview!Goes(page, "checkout")
        \/ /\ \E k, c : Interview!Take(k, c)
           /\ \E v : page' = Interview!InHome(v)
    BY <1>3 DEF Interview!DeliverOrder
  <2>2. ASSUME \E k, c : Interview!Take(k, c), \E v : page' = Interview!InHome(v)  PROVE PackInv'
    <3>1. NothingCreated
      BY <1>0, <2>2, OtherCallsOfPages
    <3> QED  BY <2>2, <3>1, WizardAside
  <2> QED  BY <1>1, <2>1, <2>2
<1>4. CASE Interview!LeaveSetup \/ Interview!TakeOffer
  <2>1. PICK m, at : Interview!Goes([page EXCEPT !.media = m], at)
    BY <1>4 DEF Interview!LeaveSetup, Interview!TakeOffer
  <2>2. "setup" \in DOMAIN [page EXCEPT !.media = m]
    BY <1>0
  <2> QED  BY <1>0, <2>1, <2>2, WizardGone
<1> QED  BY <1>2, <1>3, <1>4

LEMMA PackForms ==
    ASSUME PagesInv, PackInv,
           \/ Interview!DeliverProfile \/ Interview!UploadAnother
           \/ Interview!SaveProfile \/ Interview!DeliverSave
           \/ \E m \in {Interview!None, "file", "text"} : Interview!ChooseMaterial(m)
           \/ Interview!AckInstructions \/ Interview!CloseConsent
           \/ Interview!DeliverHistory \/ Interview!DeliverCreate
    PROVE  PackInv'
<1>0. /\ DOMAIN net = Interview!Kinds /\ "setup" \in DOMAIN page
      /\ {"choice", "loaded", "step", "grants", "consentOpen"} \subseteq DOMAIN page.setup
  BY DEF PagesInv, CallsFit, Interview!Page, Interview!Setup
<1>k. {"save", "create"} \subseteq Interview!Kinds
  BY DEF Interview!Kinds
\* The form shows something else, with the wizard where it is.
<1>1. ASSUME NothingCreated, NEW s, page' = Interview!InSetup(s),
             \/ \E v : s = [page.setup EXCEPT !.profileLoading = FALSE, !.profile = v]
             \/ \E v : s = [page.setup EXCEPT !.useUpload = v]
             \/ \E v : s = [page.setup EXCEPT !.material = v]
             \/ \E v : s = [page.setup EXCEPT !.saving = v]
             \/ s = [page.setup EXCEPT !.saving = FALSE, !.profile = TRUE, !.useUpload = FALSE]
             \/ \E v : s = [page.setup EXCEPT !.instructionsAck = v]
             \/ s = [page.setup EXCEPT !.consentOpen = FALSE]
             \/ s = [page.setup EXCEPT !.consentOpen = FALSE, !.creating = FALSE]
             \/ \E v : s = [page.setup EXCEPT !.creating = FALSE, !.offered = v]
      PROVE  PackInv'
  <2>1. /\ s.choice = page.setup.choice /\ s.loaded = page.setup.loaded /\ s.step = page.setup.step
        /\ s.grants = page.setup.grants
        /\ s.consentOpen => page.setup.consentOpen
    BY <1>0, <1>1, Zenon
  <2> QED  BY <1>1, <2>1, WizardShownOn, Zenon
<1>2. (UNCHANGED net \/ \E k, c : Interview!Take(k, c)) => NothingCreated
  BY <1>0, OtherCallsOfPages
<1>3. CASE Interview!DeliverProfile
  <2>1. PICK v : page' = Interview!InSetup([page.setup EXCEPT !.profileLoading = FALSE, !.profile = v])
                 /\ \E c : Interview!Take("profile", c)
    BY <1>3, Zenon DEF Interview!DeliverProfile
  <2> QED  BY <1>1, <1>2, <2>1, Zenon
<1>4. CASE Interview!UploadAnother
  <2>1. PICK v : page' = Interview!InSetup([page.setup EXCEPT !.useUpload = v]) /\ UNCHANGED net
    BY <1>4 DEF Interview!UploadAnother, Interview!Stays
  <2> QED  BY <1>1, <1>2, <2>1, Zenon
<1>5. ASSUME NEW m \in {Interview!None, "file", "text"}, Interview!ChooseMaterial(m)  PROVE PackInv'
  <2>1. page' = Interview!InSetup([page.setup EXCEPT !.material = m]) /\ UNCHANGED net
    BY <1>5 DEF Interview!ChooseMaterial, Interview!Stays
  <2> QED  BY <1>1, <1>2, <2>1, Zenon
<1>6. CASE Interview!SaveProfile
  <2>1. page' = Interview!InSetup([page.setup EXCEPT !.saving = TRUE])
        /\ net' = Interview!Asking(net, "save", Interview!None)
    BY <1>6 DEF Interview!SaveProfile, Interview!Ask
  <2>2. NothingCreated
    BY <1>0, <1>k, <2>1, OtherCallsOfPages
  <2> QED  BY <1>1, <2>1, <2>2, Zenon
<1>7. CASE Interview!DeliverSave
  <2>1. PICK c : Interview!Take("save", c)
                 /\ \/ page' = Interview!InSetup([page.setup EXCEPT !.saving = FALSE, !.profile = TRUE, !.useUpload = FALSE])
                    \/ page' = Interview!InSetup([page.setup EXCEPT !.saving = FALSE])
    BY <1>7 DEF Interview!DeliverSave
  <2> QED  BY <1>1, <1>2, <2>1, Zenon
<1>8. CASE Interview!AckInstructions
  <2>1. PICK v : page' = Interview!InSetup([page.setup EXCEPT !.instructionsAck = v]) /\ UNCHANGED net
    BY <1>8 DEF Interview!AckInstructions, Interview!Stays
  <2> QED  BY <1>1, <1>2, <2>1, Zenon
<1>9. CASE Interview!CloseConsent
  <2>1. page' = Interview!InSetup([page.setup EXCEPT !.consentOpen = FALSE]) /\ UNCHANGED net
    BY <1>9 DEF Interview!CloseConsent, Interview!Stays
  <2> QED  BY <1>1, <1>2, <2>1, Zenon
<1>10. CASE Interview!DeliverHistory
  <2>1. PICK v : page' = Interview!InSetup([page.setup EXCEPT !.creating = FALSE, !.offered = v])
                 /\ \E c : Interview!Take("history", c)
    BY <1>10, Zenon DEF Interview!DeliverHistory
  <2> QED  BY <1>1, <1>2, <2>1, Zenon
<1>11. CASE Interview!DeliverCreate
  <2>1. PICK c :
           \/ Interview!Take("create", c) /\ UNCHANGED page
           \/ \E m : Interview!Goes([page EXCEPT !.media = m], "room")
           \/ /\ net' = Interview!Asking(Interview!Without(net, "create", c), "history", Interview!None)
              /\ page' = Interview!InSetup([page.setup EXCEPT !.consentOpen = FALSE])
           \/ /\ Interview!Take("create", c)
              /\ page' = Interview!InSetup([page.setup EXCEPT !.consentOpen = FALSE, !.creating = FALSE])
    BY <1>11 DEF Interview!DeliverCreate
  <2>2. CASE Interview!Take("create", c) /\ UNCHANGED page
    BY <1>2, <2>2, WizardAside
  <2>3. ASSUME NEW m, Interview!Goes([page EXCEPT !.media = m], "room")  PROVE PackInv'
    <3>1. "setup" \in DOMAIN [page EXCEPT !.media = m]
      BY <1>0
    <3> QED  BY <1>0, <2>3, <3>1, WizardGone
  <2>4. CASE /\ net' = Interview!Asking(Interview!Without(net, "create", c), "history", Interview!None)
             /\ page' = Interview!InSetup([page.setup EXCEPT !.consentOpen = FALSE])
    <3>1. PICK n : n = Interview!Without(net, "create", c)
      OBVIOUS
    <3>2. DOMAIN n = Interview!Kinds /\ n["create"] \subseteq net["create"]
      BY <1>0, <1>k, <3>1 DEF Interview!Without
    <3>3. net'["create"] = n["create"]
      BY <1>k, <2>4, <3>1, <3>2 DEF Interview!Asking
    <3>4. NothingCreated
      BY <3>2, <3>3 DEF NothingCreated
    <3> QED  BY <1>1, <2>4, <3>4, Zenon
  <2>5. CASE /\ Interview!Take("create", c)
             /\ page' = Interview!InSetup([page.setup EXCEPT !.consentOpen = FALSE, !.creating = FALSE])
    BY <1>1, <1>2, <2>5, Zenon
  <2> QED  BY <2>1, <2>2, <2>3, <2>4, <2>5
<1> QED  BY <1>3, <1>4, <1>5, <1>6, <1>7, <1>8, <1>9, <1>10, <1>11

LEMMA FirstIsListed ==
    ASSUME NEW T, NEW q \in Seq(T)
    PROVE  Interview!First(q) \in Interview!ToSet(q) \cup {Interview!None}
<1>1. CASE q = <<>>
  BY <1>1 DEF Interview!First
<1>2. CASE q # <<>>
  <2>1. 1 \in DOMAIN q /\ Head(q) = q[1]
    BY <1>2
  <2> QED  BY <1>2, <2>1 DEF Interview!First, Interview!ToSet
<1> QED  BY <1>1, <1>2

\* Whatever was chosen for the pack before, what is chosen with another is of that one.
LEMMA OfferFits ==
    ASSUME NEW ch \in Interview!Choice, NEW g \in Grants, NEW d, d = Interview!SelectGrant(ch, g)
    PROVE  ChoiceFits(d) /\ d.grant = g
<1> DEFINE cfg == PackConfig[g]
<1>1. PICK topic : topic = IF ch.topic \in Interview!ToSet(cfg.topics) THEN ch.topic ELSE Interview!First(cfg.topics)
  OBVIOUS
<1>2. PICK level : level = IF ch.seniority \in Interview!ToSet(cfg.levels) THEN ch.seniority
                           ELSE Interview!First(cfg.levels)
  OBVIOUS
<1>3. cfg.topics \in Seq(Interview!Topics) /\ cfg.levels \in Seq(Interview!Levels)
  BY PackAssumption
<1>4. topic \in Interview!ToSet(cfg.topics) \cup {Interview!None}
  BY <1>1, <1>3, FirstIsListed
<1>5. level \in Interview!ToSet(cfg.levels) \cup {Interview!None}
  BY <1>2, <1>3, FirstIsListed
<1>6. d = [ch EXCEPT !.grant = g, !.topic = topic, !.seniority = level,
                     !.behavioral = cfg.behavioral, !.subTopic = Interview!None]
  BY <1>1, <1>2 DEF Interview!SelectGrant
<1>7. d.grant = g /\ d.topic = topic /\ d.seniority = level /\ d.subTopic = Interview!None
  BY <1>6 DEF Interview!Choice
<1> QED  BY <1>4, <1>5, <1>7 DEF ChoiceFits

\* Another choice, in a wizard that has its pack, or that still chooses it.
LEMMA ChosenFits ==
    ASSUME PagesInv, PackInv, Interview!SetupShown, ~page.setup.consentOpen, UNCHANGED net,
           NEW ch, page' = Interview!InSetup([page.setup EXCEPT !.choice = ch]), ChoiceFits(ch),
           Interview!Steps[page.setup.step] # "Pack" => ch.grant \in Grants,
           Interview!Steps[page.setup.step] \notin {"Pack", "Topic"} => Complete(ch)
    PROVE  PackInv'
<1>1. PICK s : s = [page.setup EXCEPT !.choice = ch]
  OBVIOUS
<1>2. /\ s.choice = ch /\ s.loaded = page.setup.loaded /\ s.step = page.setup.step
      /\ s.grants = page.setup.grants /\ s.consentOpen = page.setup.consentOpen
  BY <1>1 DEF PagesInv, Interview!Page, Interview!Setup
<1>3. page'.at = page.at /\ page'.setup = s
  BY <1>1 DEF PagesInv, Interview!Page, Interview!InSetup
<1>4. Interview!Steps' = Interview!Steps
  BY <1>2, <1>3, Zenon DEF Interview!Steps
<1>5. WizardFits'
  BY <1>2, <1>3, <1>4 DEF WizardFits
<1>6. NothingCreated
  BY DEF NothingCreated
<1> QED  BY <1>5, <1>6, BodiesKept DEF PackInv

LEMMA PackChoices ==
    ASSUME PagesInv, PackInv,
           \/ \E g \in Grants : Interview!PickGrant(g)
           \/ \E t \in Interview!Topics : Interview!PickTopic(t)
           \/ \E s \in Interview!SubTopics \cup {Interview!None} : Interview!PickSubTopic(s)
           \/ \E l \in Interview!Levels : Interview!PickSeniority(l)
           \/ Interview!SwitchBehavioral
    PROVE  PackInv'
<1> DEFINE ch == page.setup.choice
<1>0. ch \in Interview!Choice /\ ChoiceFits(ch)
  BY DEF PagesInv, PackInv, WizardFits, Interview!Page, Interview!Setup
<1>1. \A name : Interview!At(name) => /\ Interview!SetupShown /\ ~page.setup.consentOpen
                                      /\ Interview!Steps[page.setup.step] = name
                                      /\ name = "Topic" => ch.grant \in Grants
  BY DEF Interview!At, Interview!SetupShown, Interview!StepName, PackInv, WizardFits
<1>2. ASSUME NEW g \in Grants, Interview!PickGrant(g)  PROVE PackInv'
  <2>1. PICK d : d = Interview!SelectGrant(ch, g)
    OBVIOUS
  <2>2. ChoiceFits(d) /\ d.grant = g
    BY <1>0, <2>1, OfferFits
  <2>3. Interview!At("Pack") /\ UNCHANGED net /\ page' = Interview!InSetup([page.setup EXCEPT !.choice = d])
    BY <1>2, <2>1 DEF Interview!PickGrant, Interview!Stays
  <2> QED  BY <1>1, <2>2, <2>3, ChosenFits
\* The others are chosen where the topic is, for the pack there is.
<1>3. ASSUME Interview!At("Topic"), UNCHANGED net,
             NEW d, page' = Interview!InSetup([page.setup EXCEPT !.choice = d]), ChoiceFits(d), d.grant = ch.grant
      PROVE  PackInv'
  BY <1>1, <1>3, ChosenFits
<1>4. ASSUME NEW t \in Interview!Topics, Interview!PickTopic(t)  PROVE PackInv'
  <2>1. PICK next : next = [ch EXCEPT !.topic = t]
    OBVIOUS
  <2>2. PICK sub : sub = IF next.subTopic \in Interview!SubTopicOptions(next) THEN next.subTopic ELSE Interview!None
    OBVIOUS
  <2>3. PICK d : d = [next EXCEPT !.subTopic = sub]
    OBVIOUS
  <2>4. d = Interview!SelectTopic(ch, t)
    BY <2>1, <2>2, <2>3 DEF Interview!SelectTopic
  <2>5. /\ Interview!At("Topic") /\ t \in Interview!ToSet(PackConfig[ch.grant].topics) /\ UNCHANGED net
        /\ page' = Interview!InSetup([page.setup EXCEPT !.choice = d])
    BY <1>4, <2>4 DEF Interview!PickTopic, Interview!Stays, Interview!Config
  <2>6. next.grant = ch.grant /\ next.topic = t /\ next.seniority = ch.seniority
    BY <1>0, <2>1 DEF Interview!Choice
  <2>7. d.grant = ch.grant /\ d.topic = t /\ d.seniority = ch.seniority /\ d.subTopic = sub
    BY <1>0, <2>1, <2>3 DEF Interview!Choice
  <2>8. Interview!SubTopicOptions(d) = Interview!SubTopicOptions(next)
    BY <2>6, <2>7 DEF Interview!SubTopicOptions
  <2>9. ChoiceFits(d)
    BY <1>0, <2>2, <2>5, <2>7, <2>8 DEF ChoiceFits
  <2> QED  BY <1>3, <2>5, <2>7, <2>9
<1>5. ASSUME NEW s \in Interview!SubTopics \cup {Interview!None}, Interview!PickSubTopic(s)  PROVE PackInv'
  <2>1. PICK d : d = [ch EXCEPT !.subTopic = s]
    OBVIOUS
  <2>2. /\ Interview!At("Topic") /\ UNCHANGED net /\ s \in Interview!SubTopicOptions(ch) \cup {Interview!None}
        /\ page' = Interview!InSetup([page.setup EXCEPT !.choice = d])
    BY <1>5, <2>1 DEF Interview!PickSubTopic, Interview!Stays
  <2>3. d.grant = ch.grant /\ d.topic = ch.topic /\ d.seniority = ch.seniority /\ d.subTopic = s
    BY <1>0, <2>1 DEF Interview!Choice
  <2>4. ChoiceFits(d)
    BY <1>0, <2>2, <2>3 DEF ChoiceFits, Interview!SubTopicOptions
  <2> QED  BY <1>3, <2>2, <2>3, <2>4
<1>6. ASSUME NEW l \in Interview!Levels, Interview!PickSeniority(l)  PROVE PackInv'
  <2>1. PICK d : d = [ch EXCEPT !.seniority = l]
    OBVIOUS
  <2>2. /\ Interview!At("Topic") /\ UNCHANGED net /\ l \in Interview!ToSet(PackConfig[ch.grant].levels)
        /\ page' = Interview!InSetup([page.setup EXCEPT !.choice = d])
    BY <1>6, <2>1 DEF Interview!PickSeniority, Interview!Stays, Interview!Config
  <2>3. d.grant = ch.grant /\ d.topic = ch.topic /\ d.seniority = l /\ d.subTopic = ch.subTopic
    BY <1>0, <2>1 DEF Interview!Choice
  <2>4. ChoiceFits(d)
    BY <1>0, <2>2, <2>3 DEF ChoiceFits, Interview!SubTopicOptions
  <2> QED  BY <1>3, <2>2, <2>3, <2>4
<1>7. CASE Interview!SwitchBehavioral
  <2>1. PICK d : d = [ch EXCEPT !.behavioral = ~ch.behavioral]
    OBVIOUS
  <2>2. /\ Interview!At("Topic") /\ UNCHANGED net
        /\ page' = Interview!InSetup([page.setup EXCEPT !.choice = d])
    BY <1>7, <2>1 DEF Interview!SwitchBehavioral, Interview!Stays
  <2>3. d.grant = ch.grant /\ d.topic = ch.topic /\ d.seniority = ch.seniority /\ d.subTopic = ch.subTopic
    BY <1>0, <2>1 DEF Interview!Choice
  <2>4. ChoiceFits(d)
    BY <1>0, <2>3 DEF ChoiceFits, Interview!SubTopicOptions
  <2> QED  BY <1>3, <2>2, <2>3, <2>4
<1> QED  BY <1>2, <1>4, <1>5, <1>6, <1>7

\* The steps come in their order: the pack before the topic, the topic before the others.
InOrder(s, l) ==
    \A n \in 1 .. l, m \in 1 .. l :
        /\ m = n + 1 => (s[m] \notin {"Pack", "Topic"} => s[n] # "Pack")
        /\ m = n - 1 => /\ s[m] # "Pack" => s[n] # "Pack"
                        /\ s[m] \notin {"Pack", "Topic"} => s[n] \notin {"Pack", "Topic"}

LEMMA StepOrder ==
    \A s : \/ s = <<"Pack", "Topic", "Resume", "System check", "Instructions">>
          \/ s = <<"Topic", "Resume", "System check", "Instructions">>
          => Len(s) \in Nat /\ InOrder(s, Len(s))
<1>1. ASSUME NEW s, s = <<"Pack", "Topic", "Resume", "System check", "Instructions">>
      PROVE  /\ Len(s) = 5 /\ s[1] = "Pack" /\ s[2] = "Topic" /\ s[3] = "Resume"
             /\ s[4] = "System check" /\ s[5] = "Instructions"
  BY <1>1, Zenon
<1>2. ASSUME NEW s, s = <<"Topic", "Resume", "System check", "Instructions">>
      PROVE  /\ Len(s) = 4 /\ s[1] = "Topic" /\ s[2] = "Resume"
             /\ s[3] = "System check" /\ s[4] = "Instructions"
  BY <1>2, Zenon
<1>3. ASSUME NEW s, s[1] = "Pack", s[2] = "Topic", s[3] = "Resume", s[4] = "System check", s[5] = "Instructions"
      PROVE  InOrder(s, 5)
  <2>1. \A n \in 1 .. 5 : n = 1 \/ n = 2 \/ n = 3 \/ n = 4 \/ n = 5
    OBVIOUS
  <2>2. \A n \in 1 .. 5 : (s[n] = "Pack" <=> n = 1) /\ (s[n] = "Topic" <=> n = 2)
    BY <1>3, <2>1, Zenon
  <2> QED  BY <2>2 DEF InOrder
<1>4. ASSUME NEW s, s[1] = "Topic", s[2] = "Resume", s[3] = "System check", s[4] = "Instructions"
      PROVE  InOrder(s, 4)
  <2>1. \A n \in 1 .. 4 : n = 1 \/ n = 2 \/ n = 3 \/ n = 4
    OBVIOUS
  <2>2. \A n \in 1 .. 4 : s[n] # "Pack" /\ (s[n] = "Topic" <=> n = 1)
    BY <1>4, <2>1, Zenon
  <2> QED  BY <2>2 DEF InOrder
<1>5. 4 \in Nat /\ 5 \in Nat
  OBVIOUS
<1> QED  BY <1>1, <1>2, <1>3, <1>4, <1>5, Zenon

\* Next goes on only once the step has its choice; Back goes where it was made.
LEMMA PackMoves ==
    ASSUME PagesInv, PackInv, Interview!NextStep \/ Interview!BackStep
    PROVE  PackInv'
<1> DEFINE here == page.setup.step
           s == Interview!Steps
           len == Len(s)
           ch == page.setup.choice
<1>0. /\ page \in Interview!Page /\ page.setup \in Interview!Setup /\ ch \in Interview!Choice
      /\ DOMAIN net = Interview!Kinds /\ StepFits /\ WizardFits
  BY DEF PagesInv, PackInv, CallsFit, Interview!Page, Interview!Setup
<1>1. /\ page.at = "setup" /\ page.setup.loaded /\ ~page.setup.consentOpen
      /\ \/ Interview!NextStep /\ here < len /\ Interview!CanProceed /\ Interview!ToStep(here + 1)
         \/ Interview!BackStep /\ here > 1 /\ Interview!ToStep(here - 1)
  BY DEF Interview!NextStep, Interview!BackStep, Interview!SetupShown
<1>2. \/ s = <<"Pack", "Topic", "Resume", "System check", "Instructions">>
      \/ s = <<"Topic", "Resume", "System check", "Instructions">>
  BY Zenon DEF Interview!Steps
<1>3. here \in 1 .. len
  BY <1>0 DEF StepFits
<1> HIDE DEF s
<1>4. len \in Nat
  BY <1>2, StepOrder, Zenon
<1>5. PICK m \in 1 .. len : /\ Interview!ToStep(m)
                            /\ \/ m = here + 1 /\ Interview!CanProceed
                               \/ m = here - 1
  BY <1>1, <1>3, <1>4
<1>6. Interview!StepName(here) = s[here]
  BY <1>1 DEF Interview!StepName, s
\* What the step shown needs before it lets the candidate go on.
<1>7. Interview!CanProceed => /\ s[here] = "Pack" => ch.grant \in Grants
                              /\ s[here] = "Topic" => ch.topic # Interview!None /\ ch.seniority # Interview!None
  <2>1. \A name : Interview!At(name) <=> s[here] = name
    BY <1>1, <1>6 DEF Interview!At, Interview!SetupShown
  <2>2. CASE s[here] = "Pack"
    <3>1. Interview!At("Pack") /\ ~Interview!At("Topic") /\ ~Interview!At("System check")
      BY <2>1, <2>2, Zenon
    <3>2. Interview!CanProceed => ch.grant # Interview!None
      BY <3>1, Zenon DEF Interview!CanProceed
    <3> QED  BY <1>0, <2>2, <3>2 DEF Interview!Choice
  <2>3. CASE s[here] = "Topic"
    <3>1. Interview!At("Topic") /\ ~Interview!At("Pack") /\ ~Interview!At("System check")
      BY <2>1, <2>3, Zenon
    <3>2. Interview!CanProceed => ch.topic # Interview!None /\ ch.seniority # Interview!None
      BY <3>1, Zenon DEF Interview!CanProceed
    <3> QED  BY <2>3, <3>2
  <2> QED  BY <2>2, <2>3
<1>8. /\ s[here] # "Pack" => ch.grant \in Grants
      /\ s[here] \notin {"Pack", "Topic"} => Complete(ch)
  BY <1>0, <1>1 DEF WizardFits, s
<1>9. /\ s[m] # "Pack" => ch.grant \in Grants
      /\ s[m] \notin {"Pack", "Topic"} => Complete(ch)
  <2>1. CASE m = here + 1 /\ Interview!CanProceed
    <3>1. s[m] \notin {"Pack", "Topic"} => s[here] # "Pack"
      BY <1>2, <1>3, <2>1, StepOrder, ZenonT(60) DEF InOrder
    <3> QED  BY <1>7, <1>8, <2>1, <3>1 DEF Complete
  <2>2. CASE m = here - 1
    <3>1. /\ s[m] # "Pack" => s[here] # "Pack"
          /\ s[m] \notin {"Pack", "Topic"} => s[here] \notin {"Pack", "Topic"}
      BY <1>2, <1>3, <2>2, StepOrder, ZenonT(60) DEF InOrder
    <3> QED  BY <1>8, <3>1
  <2> QED  BY <1>5, <2>1, <2>2
<1>10. PICK md : page' = [page EXCEPT !.setup.step = m, !.media = md]
  BY <1>5, Zenon DEF Interview!ToStep
<1>11. /\ page'.at = page.at /\ page'.setup.step = m /\ page'.setup.choice = ch
       /\ page'.setup.grants = page.setup.grants /\ page'.setup.loaded = page.setup.loaded
       /\ page'.setup.consentOpen = page.setup.consentOpen
  <2>1. PICK t : t = [page.setup EXCEPT !.step = m]
    OBVIOUS
  <2>2. /\ t.step = m /\ t.choice = ch /\ t.grants = page.setup.grants /\ t.loaded = page.setup.loaded
        /\ t.consentOpen = page.setup.consentOpen
    BY <1>0, <2>1 DEF Interview!Setup
  <2>3. page' = [page EXCEPT !.setup = t, !.media = md]
    BY <1>10, <2>1
  <2> QED  BY <1>0, <2>2, <2>3 DEF Interview!Page
<1>12. Interview!Steps' = s
  BY <1>11 DEF Interview!Steps, s
<1>13. WizardFits'
  BY <1>0, <1>1, <1>9, <1>11, <1>12 DEF WizardFits
<1>14. NothingCreated
  <2>1. net' = Interview!Asking(net, "ping", Interview!None) \/ UNCHANGED net
    BY <1>5, Zenon DEF Interview!ToStep
  <2>2. "ping" \in Interview!Kinds \ {"create"}
    BY DEF Interview!Kinds
  <2> QED  BY <1>0, <2>1, <2>2, OtherCallsOfPages
<1> QED  BY <1>13, <1>14, BodiesKept DEF PackInv

\* The dialog opens at the last step, and what it confirms is complete.
LEMMA PackConsent ==
    ASSUME PagesInv, PackInv, Interview!OpenConsent \/ Interview!ConfirmAndStart
    PROVE  PackInv'
<1> DEFINE ch == page.setup.choice
<1>0. /\ page \in Interview!Page /\ page.setup \in Interview!Setup /\ ch \in Interview!Choice
      /\ DOMAIN net = Interview!Kinds /\ WizardFits /\ "create" \in Interview!Kinds
  BY DEF PagesInv, PackInv, CallsFit, Interview!Page, Interview!Setup, Interview!Kinds
<1>1. CASE Interview!OpenConsent
  <2>1. PICK s : s = [page.setup EXCEPT !.consentOpen = TRUE]
    OBVIOUS
  <2>2. /\ s.choice = ch /\ s.loaded = page.setup.loaded /\ s.step = page.setup.step
        /\ s.grants = page.setup.grants
    BY <1>0, <2>1 DEF Interview!Setup
  <2>3. page' = Interview!InSetup(s) /\ UNCHANGED net
    BY <1>1, <2>1 DEF Interview!OpenConsent, Interview!Stays
  <2>4. page'.at = page.at /\ page'.setup = s
    BY <1>0, <2>3 DEF Interview!Page, Interview!InSetup
  <2>5. page.setup.loaded /\ Complete(ch)
    BY <1>0, <1>1 DEF Interview!OpenConsent, Interview!At, Interview!SetupShown, Interview!StepName, WizardFits
  <2>6. Interview!Steps' = Interview!Steps
    BY <2>2, <2>4, Zenon DEF Interview!Steps
  <2>7. WizardFits'
    BY <1>0, <2>2, <2>4, <2>5, <2>6 DEF WizardFits
  <2> QED  BY <2>3, <2>7, BodiesKept DEF PackInv, NothingCreated
<1>2. CASE Interview!ConfirmAndStart
  <2> DEFINE b == ch.behavioral /\ Interview!HasBehavioralOption
             to == [ch EXCEPT !.behavioral = b]
  <2>1. /\ page.setup.consentOpen /\ net' = Interview!Asking(net, "create", to)
        /\ page' = Interview!InSetup([page.setup EXCEPT !.creating = TRUE, !.consentOpen = FALSE])
    BY <1>2 DEF Interview!ConfirmAndStart, Interview!Ask
  <2>2. b => PackConfig[ch.grant].behavioral
    BY DEF Interview!HasBehavioralOption, Interview!Config
  <2>3. Complete(ch) /\ ChoiceFits(ch)
    BY <1>0, <2>1 DEF WizardFits
  <2> HIDE DEF b
  <2>4. /\ to.grant = ch.grant /\ to.topic = ch.topic /\ to.seniority = ch.seniority
        /\ to.subTopic = ch.subTopic /\ to.behavioral = b
    BY <1>0 DEF Interview!Choice
  <2> HIDE DEF to
  <2>5. /\ to.grant \in Grants
        /\ to.topic \in Interview!ToSet(PackConfig[to.grant].topics)
        /\ to.seniority \in Interview!ToSet(PackConfig[to.grant].levels)
        /\ to.subTopic # Interview!None => to.subTopic \in PackConfig[to.grant].subs[to.topic]
        /\ to.behavioral => PackConfig[to.grant].behavioral
    BY <2>2, <2>3, <2>4 DEF Complete, ChoiceFits, Interview!SubTopicOptions
  <2>6. net'["create"] = net["create"] \cup {Interview!Sent(to)}
    BY <1>0, <2>1 DEF Interview!Asking
  <2>7. Interview!Sent(to).to = to
    BY DEF Interview!Sent
  <2>8. Interview!BodyWithinPack'
    BY <2>5, <2>6, <2>7 DEF Interview!BodyWithinPack, PackInv
  <2>9. PICK s : s = [page.setup EXCEPT !.creating = TRUE, !.consentOpen = FALSE]
    OBVIOUS
  <2>10. /\ s.choice = ch /\ s.loaded = page.setup.loaded /\ s.step = page.setup.step
         /\ s.grants = page.setup.grants /\ s.consentOpen = FALSE
    BY <1>0, <2>9 DEF Interview!Setup
  <2>11. page'.at = page.at /\ page'.setup = s
    BY <1>0, <2>1, <2>9 DEF Interview!Page, Interview!InSetup
  <2>12. Interview!Steps' = Interview!Steps
    BY <2>10, <2>11, Zenon DEF Interview!Steps
  <2>13. WizardFits'
    BY <1>0, <2>10, <2>11, <2>12 DEF WizardFits
  <2> QED  BY <2>8, <2>13 DEF PackInv
<1> QED  BY <1>1, <1>2

\* The server answers or refuses; a call or its answer is lost.
LEMMA PackServer ==
    ASSUME PagesInv, PackInv,
           \/ Interview!ServeReads \/ Interview!ServeCreate
           \/ Interview!Elsewhere \/ Interview!Lose
    PROVE  PackInv'
<1>0. DOMAIN net = Interview!Kinds
  BY DEF PagesInv, CallsFit
<1>k. {"home", "packs", "evidence", "pdf", "order", "entitlement", "profile", "save", "history", "ping",
       "report", "create"} \subseteq Interview!Kinds
  BY DEF Interview!Kinds
<1>1. UNCHANGED page
  BY DEF Interview!ServeReads, Interview!ServeCreate, Interview!Elsewhere, Interview!Lose, Interview!OnlyNet
<1>2. ASSUME NEW k \in Interview!Kinds, NEW c \in Interview!Asked(k),
             (\E v : Interview!Answer(k, c, v)) \/ Interview!Refuse(k, c)
      PROVE  PackInv'
  <2>1. c \in net[k]
    BY <1>2 DEF Interview!Asked
  <2>2. NothingCreated
    BY <1>0, <1>2, <2>1, OtherCallsOfPages
  <2> QED  BY <1>1, <2>2, WizardAside
<1>3. CASE Interview!ServeReads
  <2>1. \E k \in {"home", "packs", "evidence", "pdf", "order", "entitlement", "profile", "save", "history",
                  "ping", "report"} :
           \E c \in Interview!Asked(k) : (\E v : Interview!Answer(k, c, v)) \/ Interview!Refuse(k, c)
    <3>1. ASSUME NEW c \in Interview!Asked("entitlement"), NEW G, \E gs \in G : Interview!Answer("entitlement", c, gs)
          PROVE  \E v : Interview!Answer("entitlement", c, v)
      BY <3>1
    <3>2. ASSUME NEW c \in Interview!Asked("profile"), NEW B, \E b \in B : Interview!Answer("profile", c, b)
          PROVE  \E v : Interview!Answer("profile", c, v)
      BY <3>2
    <3> QED  BY <1>3, <3>1, <3>2, Zenon DEF Interview!ServeReads
  <2> QED  BY <1>2, <1>k, <2>1
<1>4. CASE Interview!ServeCreate
  <2>1. \E c \in Interview!Asked("create") :
           (\E v : Interview!Answer("create", c, v)) \/ Interview!Refuse("create", c)
    BY <1>4, Zenon DEF Interview!ServeCreate
  <2> QED  BY <1>2, <1>k, <2>1
<1>5. CASE Interview!Elsewhere
  <2>1. UNCHANGED net
    BY <1>5 DEF Interview!Elsewhere
  <2> QED  BY <1>1, <2>1, WizardAside DEF NothingCreated
<1>6. CASE Interview!Lose
  <2>1. \E k \in Interview!Kinds : \E c \in net[k] : Interview!Refuse(k, c)
    BY <1>6 DEF Interview!Lose, Interview!Lost
  <2>2. NothingCreated
    BY <1>0, <2>1, OtherCallsOfPages
  <2> QED  BY <1>1, <2>2, WizardAside
<1> QED  BY <1>3, <1>4, <1>5, <1>6

\* The only grant is the pack; of several one is chosen first.
LEMMA PackEntitlement == ASSUME PagesInv, PackInv, Interview!DeliverEntitlement  PROVE PackInv'
<1>0. /\ page \in Interview!Page /\ page.setup \in Interview!Setup /\ page.setup.choice \in Interview!Choice
      /\ DOMAIN net = Interview!Kinds /\ CallsFit /\ StepFits /\ WizardFits
      /\ "setup" \in DOMAIN page
  BY DEF PagesInv, PackInv, CallsFit, Interview!Page, Interview!Setup
<1>k. "entitlement" \in Interview!Kinds
  BY DEF Interview!Kinds
<1>1. PICK c \in net["entitlement"] :
         LET listed == IF Interview!Ok(c) THEN c.ans ELSE {}
             owned  == IF listed = {} /\ Interview!Ok(c) /\ Interview!Admin
                       THEN {CHOOSE g \in Grants : TRUE} ELSE listed
             s      == [page.setup EXCEPT !.loaded = TRUE, !.grants = owned]
         IN  IF owned = {} THEN Interview!Goes(page, "home")
             ELSE /\ Interview!Take("entitlement", c)
                  /\ page' = Interview!InSetup(
                       IF Interview!Cardinality(owned) = 1
                       THEN [s EXCEPT !.choice = Interview!SelectGrant(@, CHOOSE g \in owned : TRUE)]
                       ELSE s)
  BY Zenon DEF Interview!DeliverEntitlement, Interview!Came
<1> DEFINE listed == IF Interview!Ok(c) THEN c.ans ELSE {}
           owned  == IF listed = {} /\ Interview!Ok(c) /\ Interview!Admin
                     THEN {CHOOSE g \in Grants : TRUE} ELSE listed
           one    == IF Interview!Cardinality(owned) = 1
                     THEN Interview!SelectGrant(page.setup.choice, CHOOSE g \in owned : TRUE)
                     ELSE page.setup.choice
           s      == [page.setup EXCEPT !.loaded = TRUE, !.grants = owned, !.choice = one]
<1>2. page.at = "setup" /\ ~page.setup.loaded /\ page.setup.step = 1 /\ ~page.setup.consentOpen
  BY <1>0, <1>1 DEF CallsFit, StepFits, WizardFits
<1>3. owned \in SUBSET Grants
  <2>1. listed \in SUBSET Grants
    BY <1>0, <1>k DEF CallsFit, AnswerFits
  <2>2. (CHOOSE g \in Grants : TRUE) \in Grants
    BY PackAssumption
  <2> QED  BY <2>1, <2>2
<1>4. CASE owned = {}
  <2>1. Interview!Goes(page, "home")
    BY <1>1, <1>4
  <2> QED  BY <1>0, <2>1, WizardGone
<1>5. CASE owned # {}
  <2>1. Interview!Take("entitlement", c) /\ page' = Interview!InSetup(s)
    BY <1>0, <1>1, <1>5 DEF Interview!Setup
  <2>2. (CHOOSE g \in owned : TRUE) \in owned
    BY <1>5
  <2>3. /\ ChoiceFits(one)
        /\ Interview!Cardinality(owned) = 1 => one.grant \in Grants
    <3>1. CASE Interview!Cardinality(owned) = 1
      <4>1. one = Interview!SelectGrant(page.setup.choice, CHOOSE g \in owned : TRUE)
        BY <3>1
      <4>2. (CHOOSE g \in owned : TRUE) \in Grants
        BY <1>3, <2>2
      <4> HIDE DEF one, owned
      <4> QED  BY <1>0, <4>1, <4>2, OfferFits
    <3>2. CASE Interview!Cardinality(owned) # 1
      BY <1>0, <3>2 DEF WizardFits
    <3> QED  BY <3>1, <3>2
  <2> HIDE DEF one
  <2>4. Interview!Cardinality(owned) \in Nat \ {0}
    <3> HIDE DEF owned
    <3>1. IsFiniteSet(owned)
      BY <1>3, PackAssumption, FS_Subset
    <3>2. Cardinality(owned) \in Nat /\ Cardinality(owned) # 0
      BY <1>5, <3>1, FS_CardinalityType, FS_EmptySet
    <3>3. Interview!Cardinality(owned) = Cardinality(owned)
      BY DEF Interview!Cardinality, Cardinality
    <3> QED  BY <3>2, <3>3
  <2> HIDE DEF owned
  <2>5. /\ s.choice = one /\ s.step = 1 /\ s.grants = owned /\ s.consentOpen = FALSE
    BY <1>0, <1>2 DEF Interview!Setup
  <2> HIDE DEF s
  <2>6. page'.at = page.at /\ page'.setup = s
    BY <1>0, <2>1 DEF Interview!InSetup, Interview!Page
  <2> DEFINE q == Interview!Steps'
  <2>7. q = IF Interview!Cardinality(owned) > 1
            THEN <<"Pack", "Topic", "Resume", "System check", "Instructions">>
            ELSE <<"Topic", "Resume", "System check", "Instructions">>
    BY <2>5, <2>6, Zenon DEF Interview!Steps
  <2> HIDE DEF q
  <2>8. q[1] = IF Interview!Cardinality(owned) > 1 THEN "Pack" ELSE "Topic"
    <3>1. CASE Interview!Cardinality(owned) > 1
      <4>1. q = <<"Pack", "Topic", "Resume", "System check", "Instructions">>
        BY <2>7, <3>1, Zenon
      <4> QED  BY <3>1, <4>1, Zenon
    <3>2. CASE ~(Interview!Cardinality(owned) > 1)
      <4>1. q = <<"Topic", "Resume", "System check", "Instructions">>
        BY <2>7, <3>2, Zenon
      <4> QED  BY <3>2, <4>1, Zenon
    <3> QED  BY <3>1, <3>2
  <2>9. q[1] # "Pack" => one.grant \in Grants
    BY <2>3, <2>4, <2>8
  <2>10. q[1] \in {"Pack", "Topic"}
    BY <2>8
  <2>11. /\ page'.setup.choice = one /\ page'.setup.step = 1 /\ ~page'.setup.consentOpen
    BY <2>5, <2>6
  <2>12. WizardFits'
    BY <2>3, <2>9, <2>10, <2>11 DEF WizardFits, q
  <2>13. NothingCreated
    BY <1>0, <2>1, OtherCallsOfPages
  <2> QED  BY <2>12, <2>13, BodiesKept DEF PackInv
<1> QED  BY <1>4, <1>5

LEMMA InitPack == Interview!InterviewInit => PackInv
<1> SUFFICES ASSUME Interview!InterviewInit  PROVE PackInv
  OBVIOUS
<1>1. PICK at \in {"report", "home"} :
         /\ page = [at |-> at, home |-> Interview!HomeFirst, setup |-> Interview!SetupFirst,
                    media |-> Interview!MediaFirst, report |-> Interview!ReportFirst]
         /\ net = Interview!Loading(IF at = "home" THEN Interview!HomeCalls ELSE {"report"})
  BY DEF Interview!InterviewInit
<1>2. page.at # "setup" /\ page.setup = Interview!SetupFirst
  BY <1>1
<1>3. WizardFits
  BY <1>2 DEF WizardFits, ChoiceFits, Interview!SetupFirst, Interview!NoChoice, Interview!SubTopicOptions
<1>4. net["create"] = {}
  BY <1>1 DEF Interview!Loading, Interview!HomeCalls, Interview!Kinds
<1> QED  BY <1>3, <1>4 DEF PackInv, Interview!BodyWithinPack

LEMMA NextPack ==
    PagesInv /\ PackInv /\ [Interview!InterviewNext]_<<page, server, net, lost, does>> => PackInv'
<1> SUFFICES ASSUME PagesInv, PackInv, [Interview!InterviewNext]_<<page, server, net, lost, does>>
             PROVE  PackInv'
  OBVIOUS
<1>1. CASE UNCHANGED <<page, server, net, lost, does>>
  <2>1. NothingCreated
    BY <1>1 DEF NothingCreated
  <2> QED  BY <1>1, <2>1, WizardAside
<1>2. CASE Interview!InterviewNext
  BY <1>2, PackAside, PackGone, PackForms, PackChoices, PackMoves, PackEntitlement, PackConsent, PackServer
     DEF Interview!InterviewNext
<1> QED  BY <1>1, <1>2

-----------------------------------------------------------------------------
(* Of every page of the client                                              *)

LEMMA ChatIsAlone ==
    /\ WebInit /\ which = "chat" => Chat!ChatInit
    /\ [WebNext]_webVars /\ which = "chat"
           => (which = "chat")' /\ [Chat!ChatNext]_<<page, server, net, lost, does>>
    /\ [WebNext]_webVars /\ ~(which = "chat") => ~(which = "chat")'
BY DEF WebInit, WebNext, webVars, vars, lifeVars, clientVars, OnRoom, OnPage

LEMMA PracticeIsAlone ==
    /\ WebInit /\ which = "practice" => Practice!PracticeInit
    /\ [WebNext]_webVars /\ which = "practice"
           => (which = "practice")' /\ [Practice!PracticeNext]_<<page, net, lost, does>>
    /\ [WebNext]_webVars /\ ~(which = "practice") => ~(which = "practice")'
BY DEF WebInit, WebNext, webVars, vars, lifeVars, clientVars, OnRoom, OnPage

LEMMA SessionIsAlone ==
    /\ WebInit /\ which = "session" => Session!SessionInit
    /\ [WebNext]_webVars /\ which = "session"
           => (which = "session")' /\ [Session!SessionNext]_<<page, server, net, lost, does>>
    /\ [WebNext]_webVars /\ ~(which = "session") => ~(which = "session")'
BY DEF WebInit, WebNext, webVars, vars, lifeVars, clientVars, OnRoom, OnPage

LEMMA BillingIsAlone ==
    /\ WebInit /\ which = "billing" => Billing!BillingInit
    /\ [WebNext]_webVars /\ which = "billing"
           => (which = "billing")' /\ [Billing!BillingNext]_<<page, server, net, lost, does>>
    /\ [WebNext]_webVars /\ ~(which = "billing") => ~(which = "billing")'
BY DEF WebInit, WebNext, webVars, vars, lifeVars, clientVars, OnRoom, OnPage

LEMMA ConnectorsIsAlone ==
    /\ WebInit /\ which = "connectors" => Connectors!ConnectorsInit
    /\ [WebNext]_webVars /\ which = "connectors"
           => (which = "connectors")' /\ [Connectors!ConnectorsNext]_<<page, server, net, lost, does>>
    /\ [WebNext]_webVars /\ ~(which = "connectors") => ~(which = "connectors")'
BY DEF WebInit, WebNext, webVars, vars, lifeVars, clientVars, OnRoom, OnPage

\* What must not be sent twice is not, on whatever page: one turn of an interview, one
\* streamed answer, one graded submission, one refresh of the tokens with everyone it keeps
\* waiting served, one run of a prompt, one question to the organisers; in whatever order
\* calls are answered, lost and retried, and whatever else the page does meanwhile.
THEOREM OneAtATimeInApp == WebSpec => []OneAtATime
<1>1. WebSpec => [](which = "room" => OneTurnAtATime)
  BY RoomKeepsOneTurn, RoomIsAlone, InitRoom, NextRoom, PTL DEF WebSpec
<1>2. WebSpec => [](which = "chat" => Chat!OneStream)
  <2>1. Chat!ChatSpec => []Chat!OneStream
    BY Chat!OneStreamInvariant
  <2> QED  BY <2>1, ChatIsAlone, PTL DEF WebSpec, Chat!ChatSpec, Chat!chatVars
<1>3. WebSpec => [](which = "practice" => Practice!OneSubmission)
  BY PracticeKeeps, PracticeIsAlone, InitPractice, NextPractice, PTL DEF WebSpec
<1>4. WebSpec => [](which = "session" => Session!WaitersAreServed)
  BY SessionKeeps, SessionIsAlone, InitSession, NextSession, PTL DEF WebSpec
<1>5. WebSpec => [](which = "connectors" => Connectors!OneRun)
  BY ConnectorsKeep, ConnectorsIsAlone, InitConnectors, NextConnectors, PTL DEF WebSpec
<1>6. WebSpec => [](which = "contest" => Contest!OneRequest)
  <2>1. Contest!ContestSpec => []Contest!OneRequest
    BY ContestAssumption, Contest!OneRequestInvariant DEF Contest!Assumptions
  <2> QED  BY <2>1, ContestIsAlone, PTL DEF WebSpec, Contest!ContestSpec, Contest!contestVars
<1>7. /\ which = "room" => OneTurnAtATime
      /\ which = "chat" => Chat!OneStream
      /\ which = "practice" => Practice!OneSubmission
      /\ which = "session" => Session!WaitersAreServed
      /\ which = "connectors" => Connectors!OneRun
      /\ which = "contest" => Contest!OneRequest
      => OneAtATime
  BY DEF OneAtATime
<1> QED  BY <1>1, <1>2, <1>3, <1>4, <1>5, <1>6, <1>7, PTL

\* What is asked of the server fits together, whatever was chosen before it: a session and
\* its pack, a solution and its problem, a discount code and its pack; and the connector the
\* keyboard picks is a listed one.
THEOREM RequestsFitInApp == WebSpec => []RequestsFit
<1>1. WebSpec => [](which = "interview" => Interview!BodyWithinPack)
  <2>1. PackInv => Interview!BodyWithinPack
    BY DEF PackInv
  <2> QED  BY <2>1, InterviewIsAlone, InitPages, NextPages, InitPack, NextPack, PTL DEF WebSpec
<1>2. WebSpec => [](which = "practice" => Practice!SolutionFitsProblem)
  BY PracticeKeeps, PracticeIsAlone, InitPractice, NextPractice, PTL DEF WebSpec
<1>3. WebSpec => [](which = "billing" => Billing!CodeFitsPack)
  BY BillingKeeps, BillingIsAlone, InitBilling, NextBilling, PTL DEF WebSpec
<1>4. WebSpec => [](which = "chat" => Chat!MentionIndexIsValid)
  <2>1. Chat!ChatSpec => []Chat!MentionIndexIsValid
    BY Chat!MentionIndexIsValidInvariant
  <2> QED  BY <2>1, ChatIsAlone, PTL DEF WebSpec, Chat!ChatSpec, Chat!chatVars
<1>5. /\ which = "interview" => Interview!BodyWithinPack
      /\ which = "practice" => Practice!SolutionFitsProblem
      /\ which = "billing" => Billing!CodeFitsPack
      /\ which = "chat" => Chat!MentionIndexIsValid
      => RequestsFit
  BY DEF RequestsFit
<1> QED  BY <1>1, <1>2, <1>3, <1>4, <1>5, PTL

\* What a page shows is what the server keeps, however its user goes on and the server
\* answers or fails: the messages of the conversation that is open, when each call came
\* back before the next; and the team of a contestant who waits for nothing.
THEOREM ShownIsStoredInApp == WebSpec => []ShownIsStored
<1>1. Chat!ChatSpec => []Chat!ShownIsStored
  BY ChatAssumption, Chat!ShownIsStoredInvariant
<1>2. Contest!ContestSpec => []Contest!TeamIsStored
  BY ContestAssumption, Contest!TeamIsStoredInvariant DEF Contest!Assumptions
<1>3. WebSpec => [](which = "chat" => Chat!ShownIsStored)
  BY <1>1, ChatIsAlone, PTL DEF WebSpec, Chat!ChatSpec, Chat!chatVars
<1>4. WebSpec => [](which = "contest" => Contest!TeamIsStored)
  BY <1>2, ContestIsAlone, PTL DEF WebSpec, Contest!ContestSpec, Contest!contestVars
<1>5. (which = "chat" => Chat!ShownIsStored) /\ (which = "contest" => Contest!TeamIsStored)
          => ShownIsStored
  BY DEF ShownIsStored
<1> QED  BY <1>3, <1>4, <1>5, PTL
=============================================================================
