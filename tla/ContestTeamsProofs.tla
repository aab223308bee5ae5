-------------------------- MODULE ContestTeamsProofs --------------------------
(***************************************************************************)
(* Proofs about ContestTeams, behind the pages of WebContest: however many *)
(* contestants join at once, and whatever becomes of their calls, a team   *)
(* comes to have no more members than it may, and the team a page shows    *)
(* its user in is the one that is stored.                                  *)
(***************************************************************************)
EXTENDS WebContest, FiniteSetTheorems, SequenceTheorems, TLAPS

-----------------------------------------------------------------------------
(* What a request asks and a handler has in hand *)

Registrations == {"create", "join"}

RequestFits(r) ==
    r \in [user: Users, n: {r.n}, here: BOOLEAN, team: {r.team}, mates: SUBSET Users, open: BOOLEAN]

CallFits(c) ==
    /\ c \in [to: {c.to}, phase: {c.phase}] \cup [to: {c.to}, phase: {c.phase}, ans: {c.ans}]
    /\ RequestFits(c.to)

CallsFit(n) ==
    /\ n = [k \in Kinds |-> n[k]]
    /\ \A k \in Registrations : \A c \in n[k] : CallFits(c)

CreatePlaces == {"register", "existing", "insert"}
JoinPlaces == {"mine", "register", "team", "add", "reread", "pull", "close"}

\* A handler that forms a new team has found that its members are not too many.
HandlerFits(h) ==
    /\ h \in [kind: Registrations, user: Users, n: {h.n}, team: {h.team},
              members: SUBSET Users, open: BOOLEAN, at: CreatePlaces \cup JoinPlaces]
    /\ \/ h.kind = "create" /\ h.at \in CreatePlaces /\ Cardinality(h.members) <= MaxSize
       \/ h.kind = "join" /\ h.at \in JoinPlaces

ServerFits ==
    /\ server \in [teams: Seq(Team), ended: BOOLEAN, running: {server.running}]
    /\ \A h \in server.running : HandlerFits(h)

-----------------------------------------------------------------------------
(* The members who stay *)

\* Someone who was added and has not yet seen whether there was a place.
IsPending(u, t) ==
    \E h \in server.running : h.team = t /\ h.at \in {"reread", "pull"} /\ h.user = u
Confirmed(t) == {u \in server.teams[t].members : ~IsPending(u, t)}

\* A handler found the team full, and is about to close it.
IsClosing(t) == \E h \in server.running : h.team = t /\ h.at = "close"

\* Those who stay are not too many, and fewer while the team is offered.
ConfirmedFit(t) ==
    /\ Cardinality(Confirmed(t)) <= MaxSize
    /\ server.teams[t].is_open /\ ~IsClosing(t) => Cardinality(Confirmed(t)) < MaxSize

TeamsInv == ServerFits /\ CallsFit(net) /\ \A t \in DOMAIN server.teams : ConfirmedFit(t)

\* The contestants and hosts are finitely many, and the team there is at the beginning
\* has a place left.
Assumptions ==
    /\ IsFiniteSet(Users) /\ IsFiniteSet(Hosts)
    /\ MaxSize \in Nat /\ Cardinality(Hosts) < MaxSize

-----------------------------------------------------------------------------
(* Calls *)

\* A call that was answered, refused or given up asks for what it asked for.
LEMMA CallKeeps ==
    ASSUME NEW c, CallFits(c), NEW p, NEW v
    PROVE  /\ CallFits([to |-> c.to, phase |-> p])
           /\ CallFits([to |-> c.to, phase |-> p, ans |-> v])
           /\ CallFits([c EXCEPT !.to.here = FALSE])
           /\ [c EXCEPT !.to.here = FALSE].to.user = c.to.user
<1> DEFINE r == [c.to EXCEPT !.here = FALSE]
           d == [c EXCEPT !.to = r]
<1>1. RequestFits(r) /\ r.user = c.to.user
  BY DEF CallFits, RequestFits
<1>2. d \in [to: {r}, phase: {c.phase}] \cup [to: {r}, phase: {c.phase}, ans: {c.ans}]
  <2> HIDE DEF r
  <2> QED
    BY DEF CallFits
<1>3. d.to = r /\ d \in [to: {d.to}, phase: {d.phase}] \cup [to: {d.to}, phase: {d.phase}, ans: {d.ans}]
  <2> HIDE DEF r, d
  <2> QED
    BY <1>2
<1>4. CallFits(d) /\ d.to.user = c.to.user
  <2> HIDE DEF r, d
  <2> QED
    BY <1>1, <1>3 DEF CallFits
<1>5. \A s : RequestFits(s) => CallFits([to |-> s, phase |-> p]) /\ CallFits([to |-> s, phase |-> p, ans |-> v])
  BY DEF CallFits
<1> QED
  BY <1>4, <1>5 DEF CallFits

LEMMA AskingKeeps ==
    ASSUME NEW n, CallsFit(n), NEW k \in Kinds, NEW a, k \in Registrations => RequestFits(a)
    PROVE  CallsFit(Asking(n, k, a))
<1>1. k \in Registrations => CallFits(Sent(a))
  BY DEF CallFits, Sent
<1> QED
  BY <1>1 DEF CallsFit, Asking

LEMMA WithoutKeeps ==
    ASSUME NEW n, CallsFit(n), NEW k \in Kinds, NEW c
    PROVE  CallsFit(Without(n, k, c))
BY DEF CallsFit, Without

LEMMA AnswerKeeps ==
    ASSUME CallsFit(net), NEW k \in Kinds, NEW c \in net[k], NEW v,
           Answer(k, c, v) \/ Refuse(k, c)
    PROVE  CallsFit(net')
<1> DEFINE d == IF Answer(k, c, v) THEN [to |-> c.to, phase |-> "answered", ans |-> v]
                ELSE [to |-> c.to, phase |-> "failed"]
<1>1. k \in Registrations => CallFits(d)
  BY CallKeeps DEF CallsFit
<1>2. net' = [net EXCEPT ![k] = (@ \ {c}) \cup {d}]
  BY DEF Answer, Refuse
<1> HIDE DEF d
<1> QED
  BY <1>1, <1>2 DEF CallsFit

LEMMA DisownedKeeps ==
    ASSUME NEW n, CallsFit(n), NEW u
    PROVE  CallsFit(Disowned(n, u))
<1>1. \A k \in Registrations : \A c \in n[k] : CallFits([c EXCEPT !.to.here = FALSE])
  BY CallKeeps DEF CallsFit
<1> QED
  BY <1>1 DEF CallsFit, Disowned, Registrations, Kinds, Forms

-----------------------------------------------------------------------------
(* The pages ask, and hear                                                  *)

\* Whatever a contestant does, and whatever comes back, the teams are as they were and
\* what was asked fits.
LEMMA PageStep ==
    ASSUME CallsFit(net),
           \/ DeliverContests \/ DeliverDetail \/ DeliverOpenTeams \/ DeliverRegistered
           \/ DeliverQuestion \/ DeliverClarifications \/ DeliverFile \/ Lose
           \/ \E u \in Users : \/ Refresh(u) \/ AskQuestion(u) \/ Download(u)
                              \/ CreateTeam(u) \/ RegisterSolo(u) \/ Join(u)
           \/ \E u \in Users, m \in Modes : SetMode(u, m)
    PROVE  server' = server /\ CallsFit(net')
<1> USE DEF Same, Registrations, Kinds
<1>1. CASE DeliverDetail
  <2>1. PICK c \in Came("detail") : net' = Without(net, "detail", c)
                                    \/ net' = Disowned(Without(net, "detail", c), c.to.user)
    BY <1>1 DEF DeliverDetail, Take
  <2> QED
    BY <1>1, <2>1, WithoutKeeps, DisownedKeeps DEF DeliverDetail
<1>2. CASE DeliverOpenTeams
  BY <1>2, WithoutKeeps DEF DeliverOpenTeams, Take
<1>3. CASE DeliverRegistered
  <2>a. PICK k \in {"create", "join"} : \E c \in Came(k) :
            \/ net' = LoadContestData(Without(net, k, c), c.to.user)
            \/ net' = Without(net, k, c)
    BY <1>3 DEF DeliverRegistered, Take
  <2>1. PICK c \in Came(k) : \/ net' = LoadContestData(Without(net, k, c), c.to.user)
                             \/ net' = Without(net, k, c)
    BY <2>a
  <2>2. CallsFit(Without(net, k, c))
    BY WithoutKeeps
  <2>3. CallsFit(LoadContestData(Without(net, k, c), c.to.user))
    BY <2>2, DisownedKeeps, AskingKeeps DEF LoadContestData
  <2> QED
    BY <1>3, <2>1, <2>2, <2>3 DEF DeliverRegistered
<1>4. CASE Lose
  <2>a. PICK k \in Kinds : \E c \in net[k] : Refuse(k, c)
    BY <1>4 DEF Lose, Lost
  <2>1. PICK c \in net[k] : Refuse(k, c)
    BY <2>a
  <2> QED
    BY <1>4, <2>1, AnswerKeeps DEF Lose
<1>5. ASSUME NEW u \in Users, \/ Refresh(u) \/ AskQuestion(u) \/ Download(u)
                             \/ CreateTeam(u) \/ RegisterSolo(u) \/ Join(u)
      PROVE  server' = server /\ CallsFit(net')
  <2>1. CASE Refresh(u) \/ AskQuestion(u) \/ Download(u)
    BY <2>1, AskingKeeps DEF Refresh, AskQuestion, Download, Ask
  <2>2. ASSUME NEW k \in {"create", "join"}, NEW t, NEW mates \in SUBSET Users, NEW o \in BOOLEAN,
               Sends(u, k, t, mates, o)
        PROVE  server' = server /\ CallsFit(net')
    <3> DEFINE r == [user |-> u, n |-> page[u].tries + 1, here |-> TRUE,
                     team |-> t, mates |-> mates, open |-> o]
    <3>1. RequestFits(r)
      BY DEF RequestFits
    <3>2. net' = Asking(net, k, r) /\ server' = server
      BY <2>2 DEF Sends, Ask
    <3> HIDE DEF r
    <3> QED
      BY <3>1, <3>2, AskingKeeps
  <2>3. CASE CreateTeam(u)
    <3>1. Mates(u) \subseteq SUBSET Users
      BY DEF Mates, Here
    <3> QED
      BY <2>2, <2>3, <3>1 DEF CreateTeam
  <2>4. CASE RegisterSolo(u) \/ Join(u)
    BY <2>2, <2>4 DEF RegisterSolo, Join
  <2> QED
    BY <1>5, <2>1, <2>3, <2>4
<1>6. ASSUME NEW u \in Users, NEW m \in Modes, SetMode(u, m)
      PROVE  server' = server /\ CallsFit(net')
  <2>1. \/ net' = Asking(Disowned(net, u), "open", [user |-> u, here |-> TRUE])
        \/ net' = Disowned(net, u)
    BY <1>6 DEF SetMode
  <2> QED
    BY <1>6, <2>1, DisownedKeeps, AskingKeeps DEF SetMode
<1>7. CASE DeliverContests
  <2>1. PICK c \in Came("contests") : \/ net' = LoadContestData(Without(net, "contests", c), c.to.user)
                                      \/ net' = Without(net, "contests", c)
    BY <1>7 DEF DeliverContests, Take
  <2>2. CallsFit(Without(net, "contests", c))
    BY WithoutKeeps
  <2>3. CallsFit(LoadContestData(Without(net, "contests", c), c.to.user))
    BY <2>2, DisownedKeeps, AskingKeeps DEF LoadContestData
  <2> QED
    BY <1>7, <2>1, <2>2, <2>3 DEF DeliverContests
<1>8. CASE DeliverQuestion
  <2>1. PICK c \in Came("question") : \/ net' = Asking(Without(net, "question", c), "clarifications", c.to)
                                      \/ net' = Without(net, "question", c)
    BY <1>8 DEF DeliverQuestion, Take
  <2> QED
    BY <1>8, <2>1, WithoutKeeps, AskingKeeps DEF DeliverQuestion
<1>9. CASE DeliverClarifications \/ DeliverFile
  BY <1>9, WithoutKeeps DEF DeliverClarifications, DeliverFile, Take
<1> QED
  BY <1>1, <1>2, <1>3, <1>4, <1>5, <1>6, <1>7, <1>8, <1>9

-----------------------------------------------------------------------------
(* The handlers                                                             *)

\* The handler h, at its next place.
LEMMA Moved ==
    ASSUME NEW h, HandlerFits(h), NEW to \in CreatePlaces \cup JoinPlaces
    PROVE  LET g == [h EXCEPT !.at = to]
           IN  /\ g.at = to /\ g.kind = h.kind /\ g.user = h.user /\ g.team = h.team
               /\ g.members = h.members /\ g.open = h.open
               /\ h.kind = "create" /\ to \in CreatePlaces => HandlerFits(g)
               /\ h.kind = "join" /\ to \in JoinPlaces => HandlerFits(g)
<1> DEFINE g == [h EXCEPT !.at = to]
<1>1. /\ g.at = to /\ g.kind = h.kind /\ g.user = h.user /\ g.team = h.team
      /\ g.members = h.members /\ g.open = h.open
  BY DEF HandlerFits
<1>2. g \in [kind: Registrations, user: Users, n: {g.n}, team: {g.team},
             members: SUBSET Users, open: BOOLEAN, at: CreatePlaces \cup JoinPlaces]
  <2>1. g \in [kind: Registrations, user: Users, n: {h.n}, team: {h.team},
               members: SUBSET Users, open: BOOLEAN, at: CreatePlaces \cup JoinPlaces]
    BY DEF HandlerFits
  <2> HIDE DEF g
  <2> QED
    BY <2>1
<1>3. h.kind = "create" => Cardinality(h.members) <= MaxSize
  BY DEF HandlerFits
<1> HIDE DEF g
<1>4. /\ h.kind = "create" /\ to \in CreatePlaces => HandlerFits(g)
      /\ h.kind = "join" /\ to \in JoinPlaces => HandlerFits(g)
  BY <1>1, <1>2, <1>3 DEF HandlerFits
<1> QED
  BY <1>1, <1>4 DEF g

\* What a handler's step changes in the calls is an answer.
LEMMA RepliesKeep ==
    ASSUME CallsFit(net), NEW h, HandlerFits(h), NEW ok \in BOOLEAN, Replies(h, ok)
    PROVE  CallsFit(net')
<1>1. h.kind \in {"create", "join"}
  BY DEF HandlerFits
<1>2. \/ net' = net
      \/ \E c \in net[h.kind] : Answer(h.kind, c, TRUE) \/ Refuse(h.kind, c)
  BY DEF Replies, CallsOf, Asked
<1> QED
  BY <1>1, <1>2, AnswerKeeps DEF Kinds

LEMMA TeamsTyped ==
    ASSUME ServerFits
    PROVE  /\ server.teams \in Seq(Team) /\ Len(server.teams) \in Nat
           /\ DOMAIN server.teams = 1 .. Len(server.teams)
           /\ \A t \in DOMAIN server.teams : /\ server.teams[t] \in Team
                                            /\ server.teams[t].members \in SUBSET (Users \cup Hosts)
                                            /\ server.teams[t].is_open \in BOOLEAN
<1>1. server.teams \in Seq(Team)
  BY DEF ServerFits
<1>2. \A t \in DOMAIN server.teams : server.teams[t] \in Team
  BY <1>1, ElementOfSeq, LenProperties
<1>3. \A x \in Team : x.members \in SUBSET (Users \cup Hosts) /\ x.is_open \in BOOLEAN
  BY DEF Team
<1> QED
  BY <1>1, <1>2, <1>3, LenProperties

\* Those who stay in a team are finitely many; when they come to be fewer, they fit.
LEMMA FewerFit ==
    ASSUME Assumptions, ServerFits, ServerFits',
           NEW t \in DOMAIN server.teams, t \in DOMAIN server.teams',
           ConfirmedFit(t),
           Confirmed(t)' \subseteq Confirmed(t),
           server.teams'[t].is_open /\ ~IsClosing(t)' => server.teams[t].is_open /\ ~IsClosing(t)
    PROVE  ConfirmedFit(t)'
<1>1. server.teams[t].members \subseteq Users \cup Hosts
  BY TeamsTyped
<1>2. IsFiniteSet(Users \cup Hosts)
  BY FS_Union DEF Assumptions
<1>3. IsFiniteSet(Confirmed(t))
  BY <1>1, <1>2, FS_Subset DEF Confirmed
<1>4. Cardinality(Confirmed(t)') <= Cardinality(Confirmed(t))
  BY <1>3, FS_Subset
<1>5. Cardinality(Confirmed(t)) \in Nat /\ Cardinality(Confirmed(t)') \in Nat
  BY <1>3, FS_Subset, FS_CardinalityType
<1> QED
  BY <1>4, <1>5 DEF ConfirmedFit, Assumptions

\* The places at which a handler counts for who stays in its team.
Watching == {"reread", "pull", "close"}

\* Handlers that come and go where they do not count leave the teams as they were.
LEMMA QuietStep ==
    ASSUME Assumptions, TeamsInv, NEW R,
           \A h \in R : HandlerFits(h),
           \A h : h.at \in Watching => (h \in R <=> h \in server.running),
           server' = [server EXCEPT !.running = R]
    PROVE  ServerFits' /\ \A t \in DOMAIN server.teams' : ConfirmedFit(t)'
<1>1. ServerFits
  BY DEF TeamsInv
<1>2. /\ server'.teams = server.teams
      /\ server'.running = R
      /\ server' \in [teams: Seq(Team), ended: BOOLEAN, running: {server'.running}]
  BY DEF ServerFits, TeamsInv
<1>3. ServerFits'
  BY <1>1, <1>2 DEF ServerFits
<1>4. ASSUME NEW t \in DOMAIN server.teams
      PROVE  ConfirmedFit(t)'
  <2>1. \A u : IsPending(u, t)' <=> IsPending(u, t)
    BY <1>2 DEF IsPending, Watching
  <2>2. IsClosing(t)' <=> IsClosing(t)
    BY <1>2 DEF IsClosing, Watching
  <2>3. Confirmed(t)' \subseteq Confirmed(t)
    BY <1>2, <2>1 DEF Confirmed
  <2> QED
    BY <1>1, <1>2, <1>3, <2>2, <2>3, FewerFit DEF TeamsInv
<1> QED
  BY <1>2, <1>3, <1>4

\* A handler goes on to a place where it does not count.
LEMMA GoesOnQuietly ==
    ASSUME Assumptions, TeamsInv, NEW h \in server.running, h.at \notin Watching,
           NEW to \in CreatePlaces \cup JoinPlaces, to \notin Watching,
           IF h.kind = "create" THEN to \in CreatePlaces ELSE to \in JoinPlaces,
           GoesOn(h, to)
    PROVE  TeamsInv'
<1> DEFINE g == [h EXCEPT !.at = to]
<1>1. HandlerFits(h)
  BY DEF TeamsInv, ServerFits
<1>2. h.kind \in {"create", "join"}
  BY <1>1 DEF HandlerFits
<1>3. HandlerFits(g) /\ g.at = to
  BY <1>1, <1>2, Moved
<1>4. server' = [server EXCEPT !.running = (@ \ {h}) \cup {g}] /\ net' = net
  BY DEF GoesOn
<1> HIDE DEF g
<1> DEFINE R == (server.running \ {h}) \cup {g}
<1>a. /\ \A x \in R : HandlerFits(x)
      /\ \A x : x.at \in Watching => (x \in R <=> x \in server.running)
      /\ server' = [server EXCEPT !.running = R]
  BY <1>3, <1>4 DEF TeamsInv, ServerFits
<1> HIDE DEF R
<1>5. ServerFits' /\ \A t \in DOMAIN server.teams' : ConfirmedFit(t)'
  BY <1>a, QuietStep
<1> QED
  BY <1>4, <1>5 DEF TeamsInv

LEMMA EndsQuietly ==
    ASSUME Assumptions, TeamsInv, NEW h \in server.running, h.at \notin Watching,
           NEW ok \in BOOLEAN, Ends(h, ok)
    PROVE  TeamsInv'
<1>1. HandlerFits(h)
  BY DEF TeamsInv, ServerFits
<1>2. CallsFit(net')
  BY <1>1, RepliesKeep DEF Ends, TeamsInv
<1> DEFINE R == server.running \ {h}
<1>3. /\ \A x \in R : HandlerFits(x)
      /\ \A x : x.at \in Watching => (x \in R <=> x \in server.running)
      /\ server' = [server EXCEPT !.running = R]
  BY DEF Ends, TeamsInv, ServerFits
<1> HIDE DEF R
<1>4. ServerFits' /\ \A t \in DOMAIN server.teams' : ConfirmedFit(t)'
  BY <1>3, QuietStep
<1> QED
  BY <1>2, <1>4 DEF TeamsInv

LEMMA ChecksQuietly ==
    ASSUME Assumptions, TeamsInv, NEW h \in server.running, h.at \notin Watching,
           NEW to \in CreatePlaces \cup JoinPlaces, to \notin Watching,
           IF h.kind = "create" THEN to \in CreatePlaces ELSE to \in JoinPlaces,
           NEW p \in BOOLEAN, Checks(h, p, to)
    PROVE  TeamsInv'
BY GoesOnQuietly, EndsQuietly DEF Checks

\* What a handler looks up before it writes.
LEMMA LookupSteps ==
    ASSUME Assumptions, TeamsInv, NEW h \in server.running,
           CheckMine(h) \/ CheckCanRegister(h) \/ CheckExisting(h) \/ CheckTeam(h)
    PROVE  TeamsInv'
<1>1. HandlerFits(h)
  BY DEF TeamsInv, ServerFits
<1> USE DEF Watching, CreatePlaces, JoinPlaces
<1>2. CASE CheckMine(h)
  BY <1>2, ChecksQuietly DEF CheckMine
<1>3. CASE CheckCanRegister(h)
  <2>1. h.at = "register" /\ h.kind \in {"create", "join"}
    BY <1>1, <1>3 DEF CheckCanRegister, HandlerFits
  <2> DEFINE p == Participants + Cardinality(h.members) <= Cap
  <2>2. h.kind = "join" => Checks(h, p, "team")
    BY <1>3 DEF CheckCanRegister
  <2>3. h.kind = "create" => Checks(h, p, "existing")
    BY <1>3 DEF CheckCanRegister
  <2>4. p \in BOOLEAN
    OBVIOUS
  <2> HIDE DEF p
  <2>5. CASE h.kind = "join"
    BY <2>1, <2>2, <2>4, <2>5, ChecksQuietly
  <2>6. CASE h.kind = "create"
    BY <2>1, <2>3, <2>4, <2>6, ChecksQuietly
  <2> QED
    BY <2>1, <2>5, <2>6
<1>4. CASE CheckExisting(h)
  <2>1. h.at = "existing" /\ h.kind = "create"
    BY <1>1, <1>4 DEF CheckExisting, HandlerFits
  <2> QED
    BY <1>4, <2>1, ChecksQuietly DEF CheckExisting
<1>5. CASE CheckTeam(h)
  <2>1. h.at = "team" /\ h.kind = "join"
    BY <1>1, <1>5 DEF CheckTeam, HandlerFits
  <2> QED
    BY <1>5, <2>1, ChecksQuietly DEF CheckTeam
<1> QED
  BY <1>2, <1>3, <1>4, <1>5

\* A new team has no more members than it may, and is offered only with a place left.
LEMMA InsertStep ==
    ASSUME Assumptions, TeamsInv, NEW h \in server.running, InsertTeam(h)
    PROVE  TeamsInv'
<1> DEFINE team == [members |-> h.members, is_open |-> h.open /\ Cardinality(h.members) < MaxSize]
<1>0. PICK n \in Nat : n = Len(server.teams)
  BY TeamsTyped DEF TeamsInv
<1>1. HandlerFits(h) /\ h.at = "insert" /\ Cardinality(h.members) <= MaxSize
      /\ h.members \in SUBSET Users /\ h.open \in BOOLEAN
  BY DEF TeamsInv, ServerFits, InsertTeam, HandlerFits, JoinPlaces
<1>2. team \in Team /\ team.members = h.members /\ team.is_open = (h.open /\ Cardinality(h.members) < MaxSize)
  BY <1>1 DEF Team
<1>3. CallsFit(net')
  BY <1>1, RepliesKeep DEF TeamsInv, InsertTeam, WritesLast
<1>4. ServerFits
  BY DEF TeamsInv
<1>5. server' = [server EXCEPT !.teams = Append(server.teams, team), !.running = @ \ {h}]
  BY DEF InsertTeam, WritesLast
<1> HIDE DEF team
<1>6. /\ server'.teams = Append(server.teams, team)
      /\ server'.running = server.running \ {h}
      /\ server'.ended = server.ended /\ server'.ended \in BOOLEAN
      /\ server' \in [teams: {server'.teams}, ended: BOOLEAN, running: {server'.running}]
  BY <1>4, <1>5 DEF ServerFits
<1>7. /\ server'.teams \in Seq(Team)
      /\ DOMAIN server'.teams = 1 .. (n + 1) /\ DOMAIN server.teams = 1 .. n
      /\ \A t \in 1 .. n : server'.teams[t] = server.teams[t]
      /\ server'.teams[n + 1] = team
  BY <1>0, <1>2, <1>4, <1>6, TeamsTyped, AppendProperties, LenProperties
<1>8. ServerFits'
  BY <1>4, <1>6, <1>7 DEF ServerFits
<1>9. ASSUME NEW t \in 1 .. n
      PROVE  ConfirmedFit(t)'
  <2>1. t \in DOMAIN server.teams /\ t \in DOMAIN server.teams' /\ server.teams'[t] = server.teams[t]
    BY <1>7
  <2>2. /\ \A u : IsPending(u, t)' <=> IsPending(u, t)
        /\ IsClosing(t)' <=> IsClosing(t)
    BY <1>1, <1>6 DEF IsPending, IsClosing
  <2>3. Confirmed(t)' \subseteq Confirmed(t)
    BY <2>1, <2>2 DEF Confirmed
  <2> QED
    BY <1>4, <1>8, <2>1, <2>2, <2>3, FewerFit DEF TeamsInv
<1>10. ConfirmedFit(n + 1)'
  <2>1. Confirmed(n + 1)' \subseteq h.members
    BY <1>2, <1>7 DEF Confirmed
  <2>2. IsFiniteSet(h.members)
    BY <1>1, FS_Subset DEF Assumptions
  <2>3. /\ Cardinality(Confirmed(n + 1)') <= Cardinality(h.members)
        /\ Cardinality(Confirmed(n + 1)') \in Nat /\ Cardinality(h.members) \in Nat
    BY <2>1, <2>2, FS_Subset, FS_CardinalityType
  <2>4. server'.teams[n + 1].is_open => Cardinality(h.members) < MaxSize
    BY <1>2, <1>7
  <2> QED
    BY <1>1, <2>3, <2>4 DEF ConfirmedFit, Assumptions
<1>11. \A t \in DOMAIN server'.teams : ConfirmedFit(t)'
  BY <1>7, <1>9, <1>10
<1> QED
  BY <1>3, <1>8, <1>11 DEF TeamsInv

\* One team is written.
LEMMA TeamWrite ==
    ASSUME ServerFits, NEW t, NEW x, t \in DOMAIN server.teams => x \in Team
    PROVE  LET T == [server.teams EXCEPT ![t] = x]
           IN  /\ T \in Seq(Team) /\ DOMAIN T = DOMAIN server.teams
               /\ \A s \in DOMAIN server.teams : T[s] = IF s = t THEN x ELSE server.teams[s]
<1> DEFINE T == [server.teams EXCEPT ![t] = x]
<1>1. server.teams \in Seq(Team) /\ DOMAIN server.teams = 1 .. Len(server.teams)
  BY TeamsTyped
<1>2. CASE t \in DOMAIN server.teams
  BY <1>1, <1>2, ExceptSeq
<1>3. CASE t \notin DOMAIN server.teams
  <2>1. server.teams = [i \in 1 .. Len(server.teams) |-> server.teams[i]]
    BY <1>1
  <2>2. T = server.teams
    BY <1>1, <1>3, <2>1
  <2> QED
    BY <1>1, <1>3, <2>2
<1> QED
  BY <1>2, <1>3

\* A step of h for its team leaves the other teams as they were.
LEMMA OthersFit ==
    ASSUME Assumptions, TeamsInv, NEW tm, NEW T, NEW R,
           T \in Seq(Team), DOMAIN T = DOMAIN server.teams,
           \A t \in DOMAIN server.teams : t # tm => T[t] = server.teams[t],
           \A x \in R : HandlerFits(x),
           \A x : x.team # tm => (x \in R <=> x \in server.running),
           server' = [server EXCEPT !.teams = T, !.running = R]
    PROVE  /\ server'.teams = T /\ server'.running = R /\ ServerFits'
           /\ \A t \in DOMAIN server.teams' : t # tm => ConfirmedFit(t)'
<1>1. ServerFits
  BY DEF TeamsInv
<1>2. /\ server'.teams = T /\ server'.running = R
      /\ server' \in [teams: Seq(Team), ended: BOOLEAN, running: {server'.running}]
  BY <1>1 DEF ServerFits
<1>3. ServerFits'
  BY <1>2 DEF ServerFits
<1>4. ASSUME NEW t \in DOMAIN server.teams, t # tm
      PROVE  ConfirmedFit(t)'
  <2>1. \A u : IsPending(u, t)' <=> IsPending(u, t)
    BY <1>2, <1>4 DEF IsPending
  <2>2. IsClosing(t)' <=> IsClosing(t)
    BY <1>2, <1>4 DEF IsClosing
  <2>3. server'.teams[t] = server.teams[t] /\ t \in DOMAIN server.teams'
    BY <1>2, <1>4
  <2>4. Confirmed(t)' \subseteq Confirmed(t)
    BY <2>3, <2>1 DEF Confirmed
  <2> QED
    BY <1>1, <1>3, <2>2, <2>3, <2>4, FewerFit DEF TeamsInv
<1> QED
  BY <1>2, <1>3, <1>4

\* Who is added has yet to see whether there was a place.
LEMMA AddStep ==
    ASSUME Assumptions, TeamsInv, NEW h \in server.running, AddMember(h)
    PROVE  TeamsInv'
<1>1. HandlerFits(h) /\ h.at = "add" /\ h.kind = "join" /\ h.user \in Users
  BY DEF TeamsInv, ServerFits, AddMember, HandlerFits, CreatePlaces
<1>2. CASE ~server.teams[h.team].is_open
  BY <1>1, <1>2, EndsQuietly DEF AddMember, Watching
<1>3. CASE server.teams[h.team].is_open
  <2> DEFINE x == [server.teams[h.team] EXCEPT !.members = @ \cup {h.user}]
             T == [server.teams EXCEPT ![h.team] = x]
             g == [h EXCEPT !.at = "reread"]
             R == (server.running \ {h}) \cup {g}
  <2>0. ServerFits
    BY DEF TeamsInv
  <2>1. HandlerFits(g) /\ g.at = "reread" /\ g.team = h.team /\ g.user = h.user
    BY <1>1, Moved DEF JoinPlaces
  <2>2. h.team \in DOMAIN server.teams =>
            /\ x \in Team /\ x.members = server.teams[h.team].members \cup {h.user}
            /\ x.is_open = server.teams[h.team].is_open
    BY <1>1, <2>0, TeamsTyped DEF Team
  <2>3. /\ T \in Seq(Team) /\ DOMAIN T = DOMAIN server.teams
        /\ \A s \in DOMAIN server.teams : T[s] = IF s = h.team THEN x ELSE server.teams[s]
    <3> HIDE DEF x
    <3> QED
      BY <2>0, <2>2, TeamWrite
  <2>4. server' = [server EXCEPT !.teams = T, !.running = R] /\ net' = net
    BY <1>3 DEF AddMember, Writes
  <2> HIDE DEF x, T, g
  <2>5. /\ \A y \in R : HandlerFits(y)
        /\ \A y : y.team # h.team => (y \in R <=> y \in server.running)
        /\ h \notin R
    BY <1>1, <2>0, <2>1 DEF ServerFits
  <2>6. \A y : y.at # "add" => (y \in R <=> y = g \/ y \in server.running)
    BY <1>1, <2>1
  <2>r. g \in R
    OBVIOUS
  <2> HIDE DEF R
  <2>a. /\ T \in Seq(Team) /\ DOMAIN T = DOMAIN server.teams
        /\ \A t \in DOMAIN server.teams : t # h.team => T[t] = server.teams[t]
    BY <2>3
  <2>7. /\ server'.teams = T /\ server'.running = R /\ ServerFits'
        /\ \A t \in DOMAIN server.teams' : t # h.team => ConfirmedFit(t)'
    BY <2>a, <2>4, <2>5, OthersFit, Zenon
  <2>8. ASSUME NEW t \in DOMAIN server.teams, t = h.team
        PROVE  ConfirmedFit(t)'
    <3>1. \A u : IsPending(u, t)' <=> u = h.user \/ IsPending(u, t)
      BY <2>1, <2>6, <2>7, <2>8 DEF IsPending
    <3>2. IsClosing(t)' <=> IsClosing(t)
      BY <2>1, <2>6, <2>7, <2>8 DEF IsClosing
    <3>3. /\ server'.teams[t].members = server.teams[t].members \cup {h.user}
          /\ server'.teams[t].is_open = server.teams[t].is_open
          /\ t \in DOMAIN server.teams'
      BY <2>2, <2>3, <2>7, <2>8
    <3>4. Confirmed(t)' \subseteq Confirmed(t)
      BY <3>1, <3>3 DEF Confirmed
    <3> QED
      BY <2>0, <2>7, <3>2, <3>3, <3>4, FewerFit DEF TeamsInv
  <2>9. \A t \in DOMAIN server.teams' : ConfirmedFit(t)'
    BY <2>3, <2>7, <2>8
  <2> QED
    BY <2>4, <2>7, <2>9 DEF TeamsInv
<1> QED
  BY <1>2, <1>3

\* Only the handlers of one team change, and no team.
LEMMA Watched ==
    ASSUME Assumptions, TeamsInv, NEW h \in server.running, NEW R,
           \A x \in R : HandlerFits(x),
           \A x : x.team # h.team => (x \in R <=> x \in server.running),
           server' = [server EXCEPT !.running = R]
    PROVE  /\ server'.teams = server.teams /\ server'.running = R /\ ServerFits'
           /\ \A t \in DOMAIN server.teams' : t # h.team => ConfirmedFit(t)'
<1>1. ServerFits
  BY DEF TeamsInv
<1> DEFINE T == server.teams
<1>2. T \in Seq(Team) /\ server' = [server EXCEPT !.teams = T, !.running = R]
  BY <1>1 DEF ServerFits
<1>3. DOMAIN T = DOMAIN server.teams /\ \A t \in DOMAIN server.teams : t # h.team => T[t] = server.teams[t]
  OBVIOUS
<1>4. T = server.teams
  OBVIOUS
<1> HIDE DEF T
<1>5. /\ server'.teams = T /\ server'.running = R /\ ServerFits'
      /\ \A t \in DOMAIN server.teams' : t # h.team => ConfirmedFit(t)'
  BY <1>2, <1>3, OthersFit, Zenon
<1> QED
  BY <1>4, <1>5

\* The handler finds its team with too many members, full, or with a place left.
LEMMA RereadStep ==
    ASSUME Assumptions, TeamsInv, NEW h \in server.running, Reread(h)
    PROVE  TeamsInv'
<1>1. HandlerFits(h) /\ h.at = "reread" /\ h.kind = "join"
  BY DEF TeamsInv, ServerFits, Reread, HandlerFits, CreatePlaces
<1>0. ServerFits
  BY DEF TeamsInv
<1> DEFINE to == IF Size(h.team) > MaxSize THEN "pull" ELSE "close"
           g == [h EXCEPT !.at = to]
           R == (server.running \ {h}) \cup (IF Size(h.team) >= MaxSize THEN {g} ELSE {})
<1>2. h.team \in DOMAIN server.teams => Size(h.team) \in Nat /\ IsFiniteSet(server.teams[h.team].members)
  BY <1>0, TeamsTyped, FS_Union, FS_Subset, FS_CardinalityType DEF Size, Assumptions
<1>3. HandlerFits(g) /\ g.at = to /\ g.team = h.team /\ g.user = h.user
  BY <1>1, Moved DEF JoinPlaces
<1>4. CallsFit(net') /\ ServerFits' /\ \A t \in DOMAIN server.teams' : ConfirmedFit(t)'
  <2>1. CASE h.team \in DOMAIN server.teams
    <3>1. Size(h.team) \in Nat /\ MaxSize \in Nat
      BY <1>2, <2>1 DEF Assumptions
    <3>2. CallsFit(net') /\ server' = [server EXCEPT !.running = R]
      <4>1. CASE Size(h.team) > MaxSize
        BY <3>1, <4>1 DEF Reread, GoesOn, TeamsInv
      <4>2. CASE Size(h.team) = MaxSize
        BY <3>1, <4>2 DEF Reread, GoesOn, TeamsInv
      <4>3. CASE Size(h.team) < MaxSize
        <5>a. ~(Size(h.team) > MaxSize) /\ Size(h.team) # MaxSize /\ ~(Size(h.team) >= MaxSize)
          BY <3>1, <4>3
        <5>b. Ends(h, TRUE)
          BY <5>a DEF Reread
        <5>c. R = server.running \ {h}
          BY <5>a
        <5>1. Ends(h, TRUE) /\ R = server.running \ {h}
          BY <5>b, <5>c
        <5>2. CallsFit(net')
          BY <1>1, <5>1, RepliesKeep DEF Ends, TeamsInv
        <5> QED
          BY <5>1, <5>2 DEF Ends
      <4> QED
        BY <3>1, <4>1, <4>2, <4>3
    <3> DEFINE size == Size(h.team)
    <3>3. \A x \in R : HandlerFits(x)
      BY <1>0, <1>3 DEF ServerFits
    <3>4. \A x : x.team # h.team => (x \in R <=> x \in server.running)
      BY <1>3
    <3>5. size < MaxSize \/ (size >= MaxSize /\ g \in R)
      BY <3>1
    <3>6. size = MaxSize => to = "close"
      BY <3>1
    <3>7. size > MaxSize => to = "pull"
      OBVIOUS
    <3>8. /\ \A x : x \in R => x \in server.running \/ x = g
          /\ \A x : x \in server.running /\ x # h => x \in R
      OBVIOUS
    <3> HIDE DEF to, g, R
    <3>9. /\ server'.teams = server.teams /\ server'.running = R /\ ServerFits'
          /\ \A t \in DOMAIN server.teams' : t # h.team => ConfirmedFit(t)'
      BY <3>2, <3>3, <3>4, Watched
    <3>10. size = Cardinality(server.teams[h.team].members)
      BY DEF Size
    <3> HIDE DEF size
    <3>11. ASSUME NEW t \in DOMAIN server.teams, t = h.team
           PROVE  ConfirmedFit(t)'
      <4>1. CASE size > MaxSize
        <5>1. /\ \A u : IsPending(u, t) => IsPending(u, t)'
              /\ IsClosing(t) => IsClosing(t)'
          <6>1. g \in R /\ g.at = "pull"
            BY <3>1, <3>5, <3>7, <4>1, <1>3 DEF size
          <6> QED
            BY <1>1, <1>3, <6>1, <3>8, <3>9, <3>11 DEF IsPending, IsClosing
        <5>2. Confirmed(t)' \subseteq Confirmed(t)
          BY <3>9, <5>1 DEF Confirmed
        <5> QED
          BY <1>0, <3>9, <5>1, <5>2, FewerFit DEF TeamsInv
      <4> DEFINE M == server.teams[t].members
      <4>2. Confirmed(t)' \subseteq M
        BY <3>9 DEF Confirmed
      <4>3. /\ Cardinality(Confirmed(t)') <= size
            /\ Cardinality(Confirmed(t)') \in Nat
        BY <1>2, <2>1, <3>10, <3>11, <4>2, FS_Subset, FS_CardinalityType
      <4>4. CASE size = MaxSize
        <5>1. IsClosing(t)'
          BY <1>3, <3>1, <3>5, <3>6, <3>9, <3>11, <4>4 DEF IsClosing, size
        <5> QED
          BY <3>1, <4>3, <4>4, <5>1 DEF ConfirmedFit, Assumptions, size
      <4>5. CASE size < MaxSize
        BY <3>1, <4>3, <4>5 DEF ConfirmedFit, Assumptions, size
      <4> QED
        BY <3>1, <4>1, <4>4, <4>5 DEF size
    <3> QED
      BY <3>2, <3>9, <3>11
  <2>2. CASE h.team \notin DOMAIN server.teams
    <3>1. CallsFit(net') /\ \E S : /\ server' = [server EXCEPT !.running = S]
                                   /\ \/ S = server.running \ {h}
                                      \/ \E p \in {"pull", "close"} :
                                            S = (server.running \ {h}) \cup {[h EXCEPT !.at = p]}
      <4>1. CASE Ends(h, TRUE)
        BY <1>1, <4>1, RepliesKeep DEF Ends, TeamsInv
      <4>2. CASE GoesOn(h, "pull") \/ GoesOn(h, "close")
        BY <4>2 DEF GoesOn, TeamsInv
      <4> QED
        BY <4>1, <4>2 DEF Reread
    <3>2. PICK S : /\ server' = [server EXCEPT !.running = S]
                   /\ \/ S = server.running \ {h}
                      \/ \E p \in {"pull", "close"} :
                            S = (server.running \ {h}) \cup {[h EXCEPT !.at = p]}
      BY <3>1
    <3>3. \A p \in {"pull", "close"} : HandlerFits([h EXCEPT !.at = p]) /\ [h EXCEPT !.at = p].team = h.team
      BY <1>1, Moved DEF JoinPlaces
    <3>4. /\ \A x \in S : HandlerFits(x)
          /\ \A x : x.team # h.team => (x \in S <=> x \in server.running)
      BY <1>0, <3>2, <3>3 DEF ServerFits
    <3>5. /\ server'.teams = server.teams /\ ServerFits'
          /\ \A t \in DOMAIN server.teams' : t # h.team => ConfirmedFit(t)'
      BY <3>2, <3>4, Watched
    <3> QED
      BY <2>2, <3>1, <3>5
  <2> QED
    BY <2>1, <2>2
<1> QED
  BY <1>4 DEF TeamsInv

\* Who gives the place back was not counted among those who stay.
LEMMA PullStep ==
    ASSUME Assumptions, TeamsInv, NEW h \in server.running, PullMember(h)
    PROVE  TeamsInv'
<1> DEFINE x == [server.teams[h.team] EXCEPT !.members = @ \ {h.user}]
           T == [server.teams EXCEPT ![h.team] = x]
           R == server.running \ {h}
<1>0. ServerFits
  BY DEF TeamsInv
<1>1. HandlerFits(h) /\ h.at = "pull"
  BY <1>0 DEF ServerFits, PullMember
<1>2. h.team \in DOMAIN server.teams =>
          /\ x \in Team /\ x.members = server.teams[h.team].members \ {h.user}
          /\ x.is_open = server.teams[h.team].is_open
  BY <1>0, TeamsTyped DEF Team
<1>3. /\ T \in Seq(Team) /\ DOMAIN T = DOMAIN server.teams
      /\ \A s \in DOMAIN server.teams : T[s] = IF s = h.team THEN x ELSE server.teams[s]
  <2> HIDE DEF x
  <2> QED
    BY <1>0, <1>2, TeamWrite
<1>4. server' = [server EXCEPT !.teams = T, !.running = R] /\ CallsFit(net')
  BY <1>1, RepliesKeep DEF PullMember, WritesLast, TeamsInv
<1> HIDE DEF x, T
<1>5. /\ \A y \in R : HandlerFits(y)
      /\ \A y : y.team # h.team => (y \in R <=> y \in server.running)
  BY <1>0 DEF ServerFits
<1>6. \A y : y \in R <=> y \in server.running /\ y # h
  OBVIOUS
<1> HIDE DEF R
<1>a. /\ T \in Seq(Team) /\ DOMAIN T = DOMAIN server.teams
      /\ \A t \in DOMAIN server.teams : t # h.team => T[t] = server.teams[t]
  BY <1>3
<1>7. /\ server'.teams = T /\ server'.running = R /\ ServerFits'
      /\ \A t \in DOMAIN server.teams' : t # h.team => ConfirmedFit(t)'
  BY <1>a, <1>4, <1>5, OthersFit, Zenon
<1>8. ASSUME NEW t \in DOMAIN server.teams, t = h.team
      PROVE  ConfirmedFit(t)'
  <2>1. \A u : IsPending(u, t) /\ u # h.user => IsPending(u, t)'
    BY <1>6, <1>7 DEF IsPending
  <2>2. IsClosing(t)' <=> IsClosing(t)
    BY <1>1, <1>6, <1>7 DEF IsClosing
  <2>3. /\ server'.teams[t].members = server.teams[t].members \ {h.user}
        /\ server'.teams[t].is_open = server.teams[t].is_open
        /\ t \in DOMAIN server.teams'
    BY <1>2, <1>3, <1>7, <1>8
  <2>4. Confirmed(t)' \subseteq Confirmed(t)
    BY <2>1, <2>3 DEF Confirmed
  <2> QED
    BY <1>0, <1>7, <2>2, <2>3, <2>4, FewerFit DEF TeamsInv
<1> QED
  BY <1>3, <1>4, <1>7, <1>8 DEF TeamsInv

LEMMA CloseStep ==
    ASSUME Assumptions, TeamsInv, NEW h \in server.running, CloseTeam(h)
    PROVE  TeamsInv'
<1> DEFINE x == [server.teams[h.team] EXCEPT !.is_open = FALSE]
           T == [server.teams EXCEPT ![h.team] = x]
           R == server.running \ {h}
<1>0. ServerFits
  BY DEF TeamsInv
<1>1. HandlerFits(h) /\ h.at = "close"
  BY <1>0 DEF ServerFits, CloseTeam
<1>2. h.team \in DOMAIN server.teams =>
          x \in Team /\ x.members = server.teams[h.team].members /\ ~x.is_open
  BY <1>0, TeamsTyped DEF Team
<1>3. /\ T \in Seq(Team) /\ DOMAIN T = DOMAIN server.teams
      /\ \A s \in DOMAIN server.teams : T[s] = IF s = h.team THEN x ELSE server.teams[s]
  <2> HIDE DEF x
  <2> QED
    BY <1>0, <1>2, TeamWrite
<1>4. server' = [server EXCEPT !.teams = T, !.running = R] /\ CallsFit(net')
  BY <1>1, RepliesKeep DEF CloseTeam, WritesLast, TeamsInv
<1> HIDE DEF x, T
<1>5. /\ \A y \in R : HandlerFits(y)
      /\ \A y : y.team # h.team => (y \in R <=> y \in server.running)
  BY <1>0 DEF ServerFits
<1>6. \A y : y \in R <=> y \in server.running /\ y # h
  OBVIOUS
<1> HIDE DEF R
<1>a. /\ T \in Seq(Team) /\ DOMAIN T = DOMAIN server.teams
      /\ \A t \in DOMAIN server.teams : t # h.team => T[t] = server.teams[t]
  BY <1>3
<1>7. /\ server'.teams = T /\ server'.running = R /\ ServerFits'
      /\ \A t \in DOMAIN server.teams' : t # h.team => ConfirmedFit(t)'
  BY <1>a, <1>4, <1>5, OthersFit, Zenon
<1>8. ASSUME NEW t \in DOMAIN server.teams, t = h.team
      PROVE  ConfirmedFit(t)'
  <2>1. \A u : IsPending(u, t)' <=> IsPending(u, t)
    BY <1>1, <1>6, <1>7 DEF IsPending
  <2>3. /\ server'.teams[t].members = server.teams[t].members
        /\ ~server'.teams[t].is_open /\ t \in DOMAIN server.teams'
    BY <1>2, <1>3, <1>7, <1>8
  <2>4. Confirmed(t)' \subseteq Confirmed(t)
    BY <2>1, <2>3 DEF Confirmed
  <2> QED
    BY <1>0, <1>7, <2>3, <2>4, FewerFit DEF TeamsInv
<1> QED
  BY <1>3, <1>4, <1>7, <1>8 DEF TeamsInv

\* A handler starts, where it does not count yet, or refuses at once.
LEMMA RequestStep ==
    ASSUME Assumptions, TeamsInv, NEW kind \in {"create", "join"}, ServeRequest(kind)
    PROVE  TeamsInv'
<1> DEFINE Members(c) == {c.to.user} \cup c.to.mates
           At == IF kind = "join" THEN "mine" ELSE "register"
           Started(c) == [kind |-> kind, user |-> c.to.user, n |-> c.to.n, team |-> c.to.team,
                          members |-> Members(c), open |-> c.to.open, at |-> At]
<1>1. PICK c \in Asked(kind) :
          \/ Refuse(kind, c) /\ server' = server
          \/ /\ net' = net
             /\ kind = "create" => ~(Cardinality(Members(c)) > MaxSize)
             /\ server' = [server EXCEPT !.running = @ \cup {Started(c)}]
  BY DEF ServeRequest
<1>2. c \in net[kind] /\ CallFits(c)
  BY DEF Asked, TeamsInv, CallsFit, Registrations
<1>3. CASE Refuse(kind, c) /\ server' = server
  <2>1. CallsFit(net')
    BY <1>2, <1>3, AnswerKeeps DEF TeamsInv, Kinds
  <2>2. ServerFits' /\ \A t \in DOMAIN server.teams' : ConfirmedFit(t)'
    BY <1>3 DEF TeamsInv, ServerFits, ConfirmedFit, Confirmed, IsPending, IsClosing
  <2> QED
    BY <2>1, <2>2 DEF TeamsInv
<1>4. CASE /\ net' = net
           /\ kind = "create" => ~(Cardinality(Members(c)) > MaxSize)
           /\ server' = [server EXCEPT !.running = @ \cup {Started(c)}]
  <2> DEFINE g == Started(c)
             R == server.running \cup {g}
  <2>1. c.to.user \in Users /\ c.to.mates \in SUBSET Users /\ c.to.open \in BOOLEAN
    BY <1>2 DEF CallFits, RequestFits
  <2>2. /\ g \in [kind: Registrations, user: Users, n: {g.n}, team: {g.team},
                  members: SUBSET Users, open: BOOLEAN, at: CreatePlaces \cup JoinPlaces]
        /\ g.at \notin Watching /\ g.kind = kind /\ g.at = At /\ g.members = Members(c)
    BY <2>1 DEF Registrations, CreatePlaces, JoinPlaces, Watching
  <2>3. Cardinality(Members(c)) \in Nat /\ MaxSize \in Nat
    BY <2>1, FS_Subset, FS_CardinalityType DEF Assumptions
  <2>4. HandlerFits(g)
    <3> HIDE DEF g
    <3>1. kind = "create" => Cardinality(g.members) <= MaxSize
      BY <1>4, <2>2, <2>3
    <3> QED
      BY <2>2, <3>1 DEF HandlerFits, CreatePlaces, JoinPlaces
  <2>5. /\ \A x \in R : HandlerFits(x)
        /\ \A x : x.at \in Watching => (x \in R <=> x \in server.running)
        /\ server' = [server EXCEPT !.running = R]
    <3>1. server' = [server EXCEPT !.running = R]
      BY <1>4
    <3> HIDE DEF g
    <3> QED
      BY <2>2, <2>4, <3>1 DEF TeamsInv, ServerFits
  <2> HIDE DEF R
  <2>6. ServerFits' /\ \A t \in DOMAIN server.teams' : ConfirmedFit(t)'
    BY <2>5, QuietStep
  <2> QED
    BY <1>4, <2>6 DEF TeamsInv
<1> QED
  BY <1>1, <1>3, <1>4

\* Reads answer, and stopping the contest touches no team.
LEMMA ReadStep ==
    ASSUME Assumptions, TeamsInv, ServeDetail \/ ServeOpenTeams \/ ServeOther \/ EndContest
    PROVE  TeamsInv'
<1>1. CASE ServeDetail \/ ServeOpenTeams \/ ServeOther
  <2>1. server' = server /\ CallsFit(net')
    <3>1. CASE ServeDetail
      <4>1. PICK c \in net["detail"] : Answer("detail", c, Detail(c.to.user))
        BY <3>1 DEF ServeDetail, Asked
      <4> QED
        BY <3>1, <4>1, AnswerKeeps DEF TeamsInv, ServeDetail, Kinds
    <3>2. CASE ServeOpenTeams
      <4>1. PICK c \in net["open"] : Answer("open", c, OpenTeams)
        BY <3>2 DEF ServeOpenTeams, Asked
      <4> QED
        BY <3>2, <4>1, AnswerKeeps DEF TeamsInv, ServeOpenTeams, Kinds
    <3>3. CASE ServeOther
      <4>a. PICK k \in {"contests", "question", "clarifications", "file"} :
               \E c \in net[k] : (\E ans \in BOOLEAN : Answer(k, c, ans)) \/ Refuse(k, c)
        BY <3>3 DEF ServeOther, Asked
      <4>1. PICK c \in net[k] : (\E ans \in BOOLEAN : Answer(k, c, ans)) \/ Refuse(k, c)
        BY <4>a
      <4> QED
        BY <3>3, <4>1, AnswerKeeps DEF TeamsInv, ServeOther, Kinds
    <3> QED
      BY <1>1, <3>1, <3>2, <3>3
  <2>2. ServerFits' /\ \A t \in DOMAIN server.teams' : ConfirmedFit(t)'
    BY <2>1 DEF TeamsInv, ServerFits, ConfirmedFit, Confirmed, IsPending, IsClosing
  <2> QED
    BY <2>1, <2>2 DEF TeamsInv
<1>2. CASE EndContest
  <2>1. /\ server'.teams = server.teams /\ server'.running = server.running
        /\ server' \in [teams: Seq(Team), ended: BOOLEAN, running: {server'.running}] /\ net' = net
    BY <1>2 DEF EndContest, TeamsInv, ServerFits
  <2>2. ServerFits' /\ \A t \in DOMAIN server.teams' : ConfirmedFit(t)'
    BY <2>1 DEF TeamsInv, ServerFits, ConfirmedFit, Confirmed, IsPending, IsClosing
  <2> QED
    BY <2>1, <2>2 DEF TeamsInv
<1> QED
  BY <1>1, <1>2

LEMMA ServeStep ==
    ASSUME Assumptions, TeamsInv, Serve
    PROVE  TeamsInv'
<1>1. ASSUME NEW h \in server.running, HandlerStep(h)
      PROVE  TeamsInv'
  BY <1>1, LookupSteps, InsertStep, AddStep, RereadStep, PullStep, CloseStep DEF HandlerStep
<1> QED
  BY <1>1, ReadStep, RequestStep DEF Serve

LEMMA InitialTeams ==
    ASSUME Assumptions, ContestInit
    PROVE  TeamsInv
<1>1. CallsFit(net)
  BY DEF ContestInit, NoCalls, CallsFit, Registrations, Kinds
<1>2. TeamsInit("hosted" \in does)
  BY DEF ContestInit
<1> DEFINE team == [members |-> Hosts, is_open |-> TRUE]
<1>3. team \in Team /\ team.members = Hosts
  BY DEF Team
<1> HIDE DEF team
<1>4. /\ server \in [teams: Seq(Team), ended: BOOLEAN, running: {server.running}]
      /\ server.running = {}
      /\ \A t \in DOMAIN server.teams : server.teams[t] = team
  <2>1. CASE server = [teams |-> <<team>>, ended |-> FALSE, running |-> {}]
    BY <1>3, <2>1
  <2>2. CASE server = [teams |-> <<>>, ended |-> FALSE, running |-> {}]
    BY <2>2
  <2> QED
    BY <1>2, <2>1, <2>2 DEF TeamsInit, team
<1>5. ASSUME NEW t \in DOMAIN server.teams
      PROVE  ConfirmedFit(t)
  <2>1. Confirmed(t) = Hosts
    BY <1>3, <1>4 DEF Confirmed, IsPending
  <2>2. Cardinality(Hosts) \in Nat /\ Cardinality(Hosts) < MaxSize /\ MaxSize \in Nat
    BY FS_CardinalityType DEF Assumptions
  <2> QED
    BY <2>1, <2>2 DEF ConfirmedFit
<1> QED
  BY <1>1, <1>4, <1>5 DEF TeamsInv, ServerFits

LEMMA TeamsInductive ==
    ASSUME Assumptions, TeamsInv, [ContestNext]_contestVars
    PROVE  TeamsInv'
<1>1. ASSUME server' = server, CallsFit(net')
      PROVE  TeamsInv'
  <2>1. ServerFits' /\ \A t \in DOMAIN server.teams' : ConfirmedFit(t)'
    BY <1>1 DEF TeamsInv, ServerFits, ConfirmedFit, Confirmed, IsPending, IsClosing
  <2> QED
    BY <1>1, <2>1 DEF TeamsInv
<1>2. CASE Serve
  BY <1>2, ServeStep
<1>3. CASE ContestNext /\ ~Serve
  <2>1. CallsFit(net)
    BY DEF TeamsInv
  <2> QED
    BY <1>1, <1>3, <2>1, PageStep DEF ContestNext
<1>4. CASE UNCHANGED contestVars
  BY <1>1, <1>4 DEF contestVars, TeamsInv
<1> QED
  BY <1>2, <1>3, <1>4

\* Once nobody is adding themselves to a team, those who stay are all its members.
LEMMA TeamsInvFits ==
    ASSUME Assumptions, TeamsInv
    PROVE  TeamsFit
<1> SUFFICES ASSUME NEW t \in DOMAIN server.teams,
                    ~(\E h \in server.running : h.team = t /\ h.at \in {"reread", "pull", "close"})
             PROVE  Size(t) <= MaxSize /\ (Size(t) = MaxSize => ~server.teams[t].is_open)
  BY DEF TeamsFit
<1>1. Confirmed(t) = server.teams[t].members /\ ~IsClosing(t)
  BY DEF Confirmed, IsPending, IsClosing
<1>2. IsFiniteSet(server.teams[t].members)
  BY TeamsTyped, FS_Union, FS_Subset DEF TeamsInv, Assumptions
<1>3. Size(t) \in Nat /\ MaxSize \in Nat
  BY <1>2, FS_CardinalityType DEF Size, Assumptions
<1>4. /\ Size(t) <= MaxSize
      /\ server.teams[t].is_open => Size(t) < MaxSize
  BY <1>1 DEF TeamsInv, ConfirmedFit, Size
<1> QED
  BY <1>3, <1>4

\* However many contestants join the teams of a contest at once (join_open_team), each
\* team comes to have no more members than it may, and a full one is offered no more.
THEOREM TeamsFitInvariant ==
    ASSUME IsFiniteSet(Users), IsFiniteSet(Hosts), MaxSize \in Nat, Cardinality(Hosts) < MaxSize
    PROVE  ContestSpec => []TeamsFit
<1>1. Assumptions
  BY DEF Assumptions
<1>2. ContestInit => TeamsInv
  BY <1>1, InitialTeams
<1>3. TeamsInv /\ [ContestNext]_contestVars => TeamsInv'
  BY <1>1, TeamsInductive
<1>4. TeamsInv => TeamsFit
  BY <1>1, TeamsInvFits
<1> QED
  BY <1>2, <1>3, <1>4, PTL DEF ContestSpec

-----------------------------------------------------------------------------
(* The buttons of a dashboard *)

\* The calls that are made once per press: a question, the questions after it, a file.
Pressed == {"question", "clarifications", "file"}

PagesThere ==
    DOMAIN page = Users /\ \A u \in Users : {"asking", "downloading"} \subseteq DOMAIN page[u]

\* A contestant has one question out, or is reading the questions after it, and one file.
OneEach ==
    /\ \A k, j \in {"question", "clarifications"} : \A c \in net[k], d \in net[j] :
          c.to.user = d.to.user => k = j /\ c = d
    /\ \A c, d \in net["file"] : c.to.user = d.to.user => c = d

PressesInv == PagesThere /\ DOMAIN net = Kinds /\ OneRequest /\ OneEach

\* What a step leaves alone.
SameButtons ==
    /\ PagesThere'
    /\ \A u \in Users : page'[u].asking = page[u].asking /\ page'[u].downloading = page[u].downloading
SamePresses == DOMAIN net' = Kinds /\ \A k \in Pressed : net'[k] = net[k]

LEMMA KindsAre ==
    Kinds = {"contests", "detail", "open", "create", "join", "question", "clarifications", "file"}
BY DEF Kinds

LEMMA PressesKept == ASSUME PressesInv, SameButtons, SamePresses  PROVE PressesInv'
<1>1. /\ net'["question"] = net["question"] /\ net'["clarifications"] = net["clarifications"]
      /\ net'["file"] = net["file"]
  BY DEF SamePresses, Pressed
<1>2. OneEach'
  BY <1>1 DEF PressesInv, OneEach
<1>3. OneRequest'
  BY <1>1 DEF PressesInv, OneRequest, SameButtons
<1> QED
  BY <1>2, <1>3 DEF PressesInv, SameButtons, SamePresses

\* One page turns.
LEMMA Turned ==
    ASSUME PagesThere, NEW u, NEW p, Turns(u, p),
           u \in Users => /\ DOMAIN p = DOMAIN page[u] /\ p.asking = page[u].asking
                          /\ p.downloading = page[u].downloading
    PROVE  SameButtons
BY DEF PagesThere, SameButtons, Turns

LEMMA PressAsked ==
    ASSUME NEW n, DOMAIN n = Kinds, \A k \in Pressed : n[k] = net[k],
           NEW j \in Kinds \ Pressed, NEW a, net' = Asking(n, j, a)
    PROVE  SamePresses
<1>1. DOMAIN net' = Kinds /\ \A k \in Kinds \ {j} : net'[k] = n[k]
  BY DEF Asking
<1> QED
  BY <1>1, KindsAre DEF SamePresses, Pressed

LEMMA PressWithout ==
    ASSUME DOMAIN net = Kinds, NEW j \in Kinds \ Pressed, NEW c
    PROVE  DOMAIN Without(net, j, c) = Kinds /\ \A k \in Pressed : Without(net, j, c)[k] = net[k]
BY KindsAre DEF Without, Pressed

LEMMA PressDisowned ==
    ASSUME NEW n, DOMAIN n = Kinds, \A k \in Pressed : n[k] = net[k], NEW u
    PROVE  DOMAIN Disowned(n, u) = Kinds /\ \A k \in Pressed : Disowned(n, u)[k] = net[k]
<1>1. DOMAIN Disowned(n, u) = Kinds
  BY DEF Disowned
<1>2. ASSUME NEW k \in Pressed
      PROVE  Disowned(n, u)[k] = n[k]
  <2>1. k \in Kinds /\ k \notin Forms
    BY KindsAre DEF Pressed, Forms
  <2> QED
    BY <2>1 DEF Disowned
<1> QED
  BY <1>1, <1>2

\* The steps that press none of the buttons.
LEMMA LoadSteps ==
    ASSUME PressesInv, DeliverContests \/ DeliverDetail \/ DeliverOpenTeams \/ DeliverRegistered
    PROVE  PressesInv'
<1>0. PagesThere /\ DOMAIN net = Kinds
  BY DEF PressesInv
<1>1. CASE DeliverContests
  <2>1. PICK c \in net["contests"] :
           \/ net' = LoadContestData(Without(net, "contests", c), c.to.user) /\ UNCHANGED page
           \/ Take("contests", c) /\ Turns(c.to.user, [page[c.to.user] EXCEPT !.loading = FALSE])
    BY <1>1 DEF DeliverContests, Came
  <2>2. SamePresses
    BY <1>0, <2>1, KindsAre, PressWithout, PressDisowned, PressAsked
       DEF LoadContestData, Take, Pressed, SamePresses
  <2>3. SameButtons
    <3>1. CASE UNCHANGED page
      BY <1>0, <3>1 DEF SameButtons, PagesThere
    <3>2. CASE Turns(c.to.user, [page[c.to.user] EXCEPT !.loading = FALSE])
      BY <1>0, <3>2 DEF SameButtons, PagesThere, Turns
    <3> QED
      BY <2>1, <3>1, <3>2
  <2> QED
    BY <2>2, <2>3, PressesKept
<1>2. CASE DeliverDetail
  <2>1. PICK c \in net["detail"] : \E l, t, o :
           \/ Take("detail", c) /\ Turns(c.to.user, [page[c.to.user] EXCEPT !.loading = l])
           \/ /\ net' = Disowned(Without(net, "detail", c), c.to.user)
              /\ Turns(c.to.user, [page[c.to.user] EXCEPT !.loading = l, !.contest = TRUE, !.team = t,
                          !.open = o, !.mode = "create", !.busy = FALSE, !.listed = FALSE, !.list = {}])
           \/ /\ Take("detail", c)
              /\ Turns(c.to.user, [page[c.to.user] EXCEPT !.loading = l, !.contest = TRUE, !.team = 0,
                                      !.open = o])
    BY <1>2, ZenonT(60) DEF DeliverDetail, Came
  <2>2. SamePresses
    BY <1>0, <2>1, KindsAre, PressWithout, PressDisowned DEF Take, Pressed, SamePresses
  <2>3. SameButtons
    <3>1. PICK l, t, o, p :
             /\ Turns(c.to.user, p)
             /\ \/ p = [page[c.to.user] EXCEPT !.loading = l]
                \/ p = [page[c.to.user] EXCEPT !.loading = l, !.contest = TRUE, !.team = t, !.open = o,
                           !.mode = "create", !.busy = FALSE, !.listed = FALSE, !.list = {}]
                \/ p = [page[c.to.user] EXCEPT !.loading = l, !.contest = TRUE, !.team = 0, !.open = o]
      BY <2>1, Zenon
    <3> QED
      BY <1>0, <3>1, Turned DEF PagesThere
  <2> QED
    BY <2>2, <2>3, PressesKept
<1>3. CASE DeliverOpenTeams
  <2>1. PICK c \in net["open"] : \E l : Take("open", c)
           /\ \/ UNCHANGED page
              \/ Turns(c.to.user, [page[c.to.user] EXCEPT !.listed = TRUE, !.list = l])
    BY <1>3, Zenon DEF DeliverOpenTeams, Came
  <2>2. SamePresses
    BY <1>0, <2>1, KindsAre, PressWithout DEF Take, Pressed, SamePresses
  <2>3. SameButtons
    BY ZenonT(60), <1>0, <2>1 DEF SameButtons, PagesThere, Turns
  <2> QED
    BY <2>2, <2>3, PressesKept
<1>4. CASE DeliverRegistered
  <2>1. PICK kind \in {"create", "join"} : \E c \in net[kind] : \E b :
           \/ /\ net' = LoadContestData(Without(net, kind, c), c.to.user)
              /\ Turns(c.to.user, Loading(page[c.to.user]))
           \/ Take(kind, c) /\ Turns(c.to.user, [page[c.to.user] EXCEPT !.busy = b])
    BY <1>4, Zenon DEF DeliverRegistered, Came
  <2>4. PICK c \in net[kind] : \E b :
           \/ /\ net' = LoadContestData(Without(net, kind, c), c.to.user)
              /\ Turns(c.to.user, Loading(page[c.to.user]))
           \/ Take(kind, c) /\ Turns(c.to.user, [page[c.to.user] EXCEPT !.busy = b])
    BY <2>1
  <2>2. SamePresses
    BY <1>0, <2>4, KindsAre, PressWithout, PressDisowned, PressAsked
       DEF LoadContestData, Take, Pressed, SamePresses
  <2>3. SameButtons
    <3>1. PICK b, p :
             /\ Turns(c.to.user, p)
             /\ \/ p = [page[c.to.user] EXCEPT !.busy = b]
                \/ p = [page[c.to.user] EXCEPT !.loading = TRUE, !.mode = "create", !.busy = FALSE,
                                               !.listed = FALSE, !.list = {}]
      BY <2>4, Zenon DEF Loading
    <3> QED
      BY <1>0, <3>1, Turned DEF PagesThere
  <2> QED
    BY <2>2, <2>3, PressesKept
<1> QED
  BY <1>1, <1>2, <1>3, <1>4

\* The landing page, the refresh and the lists of the forms.
LEMMA FormSteps ==
    ASSUME PressesInv,
           \/ \E u \in Users : Refresh(u) \/ CreateTeam(u) \/ RegisterSolo(u) \/ Join(u)
           \/ \E u \in Users, m \in Modes : SetMode(u, m)
    PROVE  PressesInv'
<1>0. PagesThere /\ DOMAIN net = Kinds
  BY DEF PressesInv
<1>1. ASSUME NEW u \in Users, Refresh(u)
      PROVE  PressesInv'
  <2>1. SamePresses
    BY <1>0, <1>1, PressAsked, KindsAre DEF Refresh, Ask, Pressed
  <2>2. SameButtons
    BY <1>0, <1>1 DEF Refresh, SameButtons, PagesThere
  <2> QED
    BY <2>1, <2>2, PressesKept
<1>2. ASSUME NEW u \in Users, NEW kind \in {"create", "join"},
             NEW team, NEW mates, NEW open, Sends(u, kind, team, mates, open)
      PROVE  PressesInv'
  <2>1. SamePresses
    BY <1>0, <1>2, PressAsked, KindsAre DEF Sends, Ask, Pressed
  <2>2. PICK t, x, p : p = [page[u] EXCEPT !.busy = TRUE, !.tries = t, !.crossed = x] /\ Turns(u, p)
    BY <1>2, Zenon DEF Sends
  <2>3. SameButtons
    BY <1>0, <2>2, Turned DEF PagesThere
  <2> QED
    BY <2>1, <2>3, PressesKept
<1>3. ASSUME NEW u \in Users, CreateTeam(u) \/ RegisterSolo(u) \/ Join(u)
      PROVE  PressesInv'
  BY <1>2, <1>3 DEF CreateTeam, RegisterSolo, Join
<1>4. ASSUME NEW u \in Users, NEW m \in Modes, SetMode(u, m)
      PROVE  PressesInv'
  <2>1. \/ net' = Asking(Disowned(net, u), "open", [user |-> u, here |-> TRUE])
        \/ net' = Disowned(net, u)
    BY <1>4 DEF SetMode
  <2>2. SamePresses
    BY <1>0, <2>1, PressDisowned, PressAsked, KindsAre DEF Pressed, SamePresses
  <2>3. PICK p : p = [page[u] EXCEPT !.mode = m, !.busy = FALSE, !.listed = FALSE, !.list = {}]
                 /\ Turns(u, p)
    BY <1>4, Zenon DEF SetMode
  <2>4. SameButtons
    BY <1>0, <2>3, Turned DEF PagesThere
  <2> QED
    BY <2>2, <2>4, PressesKept
<1> QED
  BY <1>1, <1>3, <1>4

\* The button u pressed, or got back.
LEMMA QuestionTurns ==
    ASSUME PressesInv, NEW u, NEW b \in BOOLEAN, Turns(u, [page[u] EXCEPT !.asking = b])
    PROVE  /\ PagesThere'
           /\ \A v \in Users : /\ page'[v].asking = IF v = u THEN b ELSE page[v].asking
                               /\ page'[v].downloading = page[v].downloading
BY DEF PressesInv, PagesThere, Turns

LEMMA FileTurns ==
    ASSUME PressesInv, NEW u, NEW b \in BOOLEAN, Turns(u, [page[u] EXCEPT !.downloading = b])
    PROVE  /\ PagesThere'
           /\ \A v \in Users : /\ page'[v].downloading = IF v = u THEN b ELSE page[v].downloading
                               /\ page'[v].asking = page[v].asking
BY DEF PressesInv, PagesThere, Turns

LEMMA PressSteps ==
    ASSUME PressesInv, NEW u \in Users, AskQuestion(u) \/ Download(u)
    PROVE  PressesInv'
<1> DEFINE call == Sent([user |-> u])
<1>0. call.to.user = u
  BY DEF Sent
<1> HIDE DEF call
<1>1. CASE AskQuestion(u)
  <2>1. /\ DOMAIN net' = Kinds /\ net'["question"] = net["question"] \cup {call}
        /\ net'["clarifications"] = net["clarifications"] /\ net'["file"] = net["file"]
    BY <1>1, KindsAre DEF AskQuestion, Ask, Asking, PressesInv, call
  <2>2. ~page[u].asking /\ Turns(u, [page[u] EXCEPT !.asking = TRUE])
    BY <1>1 DEF AskQuestion
  <2>3. PagesThere' /\ \A v \in Users : /\ page'[v].asking = IF v = u THEN TRUE ELSE page[v].asking
                                        /\ page'[v].downloading = page[v].downloading
    BY <2>2, QuestionTurns
  <2>4. \A c \in net["question"] \cup net["clarifications"] : c.to.user # u
    BY <2>2 DEF PressesInv, OneRequest
  <2>5. OneEach'
    BY <1>0, <2>1, <2>4 DEF PressesInv, OneEach
  <2>6. OneRequest'
    BY ZenonT(60), <1>0, <2>1, <2>3 DEF PressesInv, OneRequest
  <2> QED
    BY <2>1, <2>3, <2>5, <2>6 DEF PressesInv
<1>2. CASE Download(u)
  <2>1. /\ DOMAIN net' = Kinds /\ net'["file"] = net["file"] \cup {call}
        /\ net'["clarifications"] = net["clarifications"] /\ net'["question"] = net["question"]
    BY <1>2, KindsAre DEF Download, Ask, Asking, PressesInv, call
  <2>2. ~page[u].downloading /\ Turns(u, [page[u] EXCEPT !.downloading = TRUE])
    BY <1>2 DEF Download
  <2>3. PagesThere' /\ \A v \in Users : /\ page'[v].downloading = IF v = u THEN TRUE ELSE page[v].downloading
                                        /\ page'[v].asking = page[v].asking
    BY <2>2, FileTurns
  <2>4. \A c \in net["file"] : c.to.user # u
    BY <2>2 DEF PressesInv, OneRequest
  <2>5. OneEach'
    BY <1>0, <2>1, <2>4 DEF PressesInv, OneEach
  <2>6. OneRequest'
    BY ZenonT(60), <1>0, <2>1, <2>3 DEF PressesInv, OneRequest
  <2> QED
    BY <2>1, <2>3, <2>5, <2>6 DEF PressesInv
<1> QED
  BY <1>1, <1>2

LEMMA PressDelivered ==
    ASSUME PressesInv, DeliverQuestion \/ DeliverClarifications \/ DeliverFile
    PROVE  PressesInv'
<1>0. PagesThere /\ DOMAIN net = Kinds /\ OneEach /\ OneRequest
  BY DEF PressesInv
<1>1. ASSUME NEW k \in {"question", "clarifications"}, NEW c \in net[k], Take(k, c),
             Turns(c.to.user, [page[c.to.user] EXCEPT !.asking = FALSE])
      PROVE  PressesInv'
  <2>1. /\ DOMAIN net' = Kinds /\ net'[k] = net[k] \ {c}
        /\ \A j \in Kinds \ {k} : net'[j] = net[j]
    BY <1>0, <1>1, KindsAre DEF Take, Without
  <2>2. net'["file"] = net["file"] /\ \A j \in {"question", "clarifications"} : net'[j] \subseteq net[j]
    BY <1>1, <2>1, KindsAre
  <2>3. PagesThere' /\ \A v \in Users : /\ page'[v].asking = IF v = c.to.user THEN FALSE ELSE page[v].asking
                                        /\ page'[v].downloading = page[v].downloading
    BY <1>1, QuestionTurns
  <2>4. \A v \in Users : (\E d \in net'["question"] \cup net'["clarifications"] : d.to.user = v)
             <=> v # c.to.user /\ \E d \in net["question"] \cup net["clarifications"] : d.to.user = v
    BY <1>0, <1>1, <2>1, KindsAre DEF OneEach
  <2>5. OneEach'
    BY <1>0, <2>2 DEF OneEach
  <2>6. OneRequest'
    BY <1>0, <2>2, <2>3, <2>4 DEF OneRequest
  <2> QED
    BY <2>1, <2>3, <2>5, <2>6 DEF PressesInv
<1>2. CASE DeliverClarifications
  BY <1>1, <1>2 DEF DeliverClarifications, Came
<1>3. CASE DeliverFile
  <2>1. PICK c \in net["file"] : /\ Take("file", c)
                                 /\ Turns(c.to.user, [page[c.to.user] EXCEPT !.downloading = FALSE])
    BY <1>3 DEF DeliverFile, Came
  <2>2. /\ DOMAIN net' = Kinds /\ net'["file"] = net["file"] \ {c}
        /\ net'["question"] = net["question"] /\ net'["clarifications"] = net["clarifications"]
    BY <1>0, <2>1, KindsAre DEF Take, Without
  <2>3. PagesThere' /\ \A v \in Users :
            /\ page'[v].downloading = IF v = c.to.user THEN FALSE ELSE page[v].downloading
            /\ page'[v].asking = page[v].asking
    BY <2>1, FileTurns
  <2>4. \A v \in Users : (\E d \in net'["file"] : d.to.user = v)
             <=> v # c.to.user /\ \E d \in net["file"] : d.to.user = v
    BY <1>0, <2>2 DEF OneEach
  <2>5. OneEach'
    BY <1>0, <2>2 DEF OneEach
  <2>6. OneRequest'
    BY ZenonT(60), <1>0, <2>2, <2>3, <2>4 DEF OneRequest
  <2> QED
    BY <2>2, <2>3, <2>5, <2>6 DEF PressesInv
<1>4. CASE DeliverQuestion
  <2>1. PICK c \in net["question"] :
           \/ /\ net' = Asking(Without(net, "question", c), "clarifications", c.to) /\ UNCHANGED page
           \/ Take("question", c) /\ Turns(c.to.user, [page[c.to.user] EXCEPT !.asking = FALSE])
    BY <1>4 DEF DeliverQuestion, Came
  <2>2. ASSUME net' = Asking(Without(net, "question", c), "clarifications", c.to), UNCHANGED page
        PROVE  PressesInv'
    <3> DEFINE d == Sent(c.to)
    <3>0. d.to = c.to
      BY DEF Sent
    <3> HIDE DEF d
    <3>1. /\ DOMAIN net' = Kinds /\ net'["question"] = net["question"] \ {c}
          /\ net'["clarifications"] = net["clarifications"] \cup {d} /\ net'["file"] = net["file"]
      BY <1>0, <2>2, KindsAre DEF Without, Asking, d
    <3>2. /\ \A x \in net["question"] : x.to.user = c.to.user => x = c
          /\ \A x \in net["clarifications"] : x.to.user # c.to.user
      BY <1>0 DEF OneEach
    <3>3. OneEach'
      BY <1>0, <3>0, <3>1, <3>2 DEF OneEach
    <3>4. OneRequest'
      BY <1>0, <2>2, <3>0, <3>1 DEF OneRequest
    <3> QED
      BY <1>0, <2>2, <3>1, <3>3, <3>4 DEF PressesInv, PagesThere
  <2> QED
    BY <1>1, <2>1, <2>2
<1> QED
  BY <1>2, <1>3, <1>4

\* The server moves a call on.
LEMMA PressServed ==
    ASSUME PressesInv, UNCHANGED page, NEW k, NEW c \in net[k], NEW v, Answer(k, c, v) \/ Refuse(k, c)
    PROVE  PressesInv'
<1> DEFINE a == [to |-> c.to, phase |-> "answered", ans |-> v]
           f == [to |-> c.to, phase |-> "failed"]
<1>0. PagesThere /\ DOMAIN net = Kinds /\ OneEach /\ OneRequest
  BY DEF PressesInv
<1>1. PICK q \in {a, f} : net' = [net EXCEPT ![k] = (@ \ {c}) \cup {q}]
  BY DEF Answer, Refuse
<1>2. q.to = c.to
  OBVIOUS
<1> HIDE DEF a, f
<1>3. CASE k \in Pressed
  <2>1. /\ DOMAIN net' = Kinds /\ net'[k] = (net[k] \ {c}) \cup {q}
        /\ \A j \in Kinds \ {k} : net'[j] = net[j]
    BY <1>0, <1>1, <1>3, KindsAre DEF Pressed
  <2>2. \A j \in Pressed : \A w : (\E d \in net'[j] : d.to.user = w) <=> \E d \in net[j] : d.to.user = w
    BY <1>2, <2>1, KindsAre DEF Pressed
  <2>3. OneEach'
    <3>1. CASE k = "file"
      BY <1>0, <1>2, <2>1, <3>1, KindsAre DEF OneEach
    <3>2. CASE k = "question"
      BY <1>0, <1>2, <2>1, <3>2, KindsAre DEF OneEach
    <3>3. CASE k = "clarifications"
      BY <1>0, <1>2, <2>1, <3>3, KindsAre DEF OneEach
    <3> QED
      BY <1>3, <3>1, <3>2, <3>3 DEF Pressed
  <2>4. \A w : /\ (\E d \in net'["question"] \cup net'["clarifications"] : d.to.user = w)
                  <=> \E d \in net["question"] \cup net["clarifications"] : d.to.user = w
               /\ (\E d \in net'["file"] : d.to.user = w) <=> \E d \in net["file"] : d.to.user = w
    BY <2>2 DEF Pressed
  <2>5. OneRequest'
    BY <1>0, <2>4 DEF OneRequest
  <2> QED
    BY <1>0, <2>1, <2>3, <2>5 DEF PressesInv, PagesThere
<1>4. CASE k \notin Pressed
  <2>1. SamePresses
    BY <1>0, <1>1, <1>4, KindsAre DEF SamePresses, Pressed
  <2>2. SameButtons
    BY <1>0 DEF SameButtons, PagesThere
  <2> QED
    BY <2>1, <2>2, PressesKept
<1> QED
  BY <1>3, <1>4

LEMMA PressServer == ASSUME PressesInv, Serve \/ Lose  PROVE PressesInv'
<1>1. ASSUME UNCHANGED <<page, net>>
      PROVE  PressesInv'
  BY <1>1 DEF PressesInv, PagesThere, OneEach, OneRequest
<1>2. ASSUME NEW k, NEW c \in net[k], NEW v, UNCHANGED page, Answer(k, c, v) \/ Refuse(k, c)
      PROVE  PressesInv'
  BY <1>2, PressServed
<1>3. CASE Lose
  BY <1>2, <1>3 DEF Lose, Lost
<1>4. ASSUME UNCHANGED page, NEW h, NEW ok, Replies(h, ok)
      PROVE  PressesInv'
  BY <1>1, <1>2, <1>4 DEF Replies, CallsOf, Asked
<1>5. CASE Serve
  <2>1. UNCHANGED page
    BY <1>5 DEF Serve
  <2>2. CASE ServeDetail \/ ServeOpenTeams
    BY <1>2, <2>1, <2>2 DEF ServeDetail, ServeOpenTeams, Asked
  <2>3. CASE ServeOther
    BY <1>2, <2>1, <2>3 DEF ServeOther, Asked
  <2>4. ASSUME NEW kind, ServeRequest(kind)
        PROVE  PressesInv'
    <3>1. UNCHANGED net \/ \E c \in net[kind] : Refuse(kind, c)
      BY <2>4 DEF ServeRequest, Asked
    <3> QED
      BY <1>1, <1>2, <2>1, <3>1
  <2>5. ASSUME NEW h, HandlerStep(h)
        PROVE  PressesInv'
    <3>1. UNCHANGED net \/ \E ok \in BOOLEAN : Replies(h, ok)
      <4>1. CASE CheckMine(h) \/ CheckCanRegister(h) \/ CheckExisting(h) \/ CheckTeam(h)
        <5>1. PICK p, to : Checks(h, p, to)
          BY <4>1 DEF CheckMine, CheckCanRegister, CheckExisting, CheckTeam
        <5> QED
          BY <5>1 DEF Checks, GoesOn, Ends
      <4>2. CASE InsertTeam(h) \/ PullMember(h) \/ CloseTeam(h)
        BY <4>2 DEF InsertTeam, PullMember, CloseTeam, WritesLast
      <4>3. CASE AddMember(h)
        BY <4>3 DEF AddMember, Writes, Ends
      <4>4. CASE Reread(h)
        BY <4>4 DEF Reread, GoesOn, Ends
      <4> QED
        BY <2>5, <4>1, <4>2, <4>3, <4>4 DEF HandlerStep
    <3> QED
      BY <1>1, <1>4, <2>1, <3>1
  <2>6. CASE EndContest
    BY <1>1, <2>1, <2>6 DEF EndContest
  <2> QED
    BY <1>5, <2>2, <2>3, <2>4, <2>5, <2>6 DEF Serve
<1> QED
  BY <1>3, <1>5

\* A contestant's question, and a file, is asked for once per press (Contest.jsx), and each
\* press is answered before the next: whatever loads the page meanwhile, whichever calls are
\* lost, and whatever the other contestants do.
THEOREM OneRequestInvariant == ContestSpec => []OneRequest
<1>1. ContestInit => PressesInv
  <2> SUFFICES ASSUME ContestInit
               PROVE  PressesInv
    OBVIOUS
  <2>1. PagesThere /\ \A u \in Users : page[u].asking = FALSE /\ page[u].downloading = FALSE
    BY DEF ContestInit, PagesThere
  <2>2. DOMAIN net = Kinds /\ \A k \in Kinds \ {"contests"} : net[k] = {}
    BY DEF ContestInit, NoCalls
  <2>3. net["question"] = {} /\ net["clarifications"] = {} /\ net["file"] = {}
    BY <2>2, KindsAre
  <2> QED
    BY <2>1, <2>2, <2>3 DEF PressesInv, OneEach, OneRequest
<1>2. PressesInv /\ [ContestNext]_contestVars => PressesInv'
  <2> SUFFICES ASSUME PressesInv, [ContestNext]_contestVars
               PROVE  PressesInv'
    OBVIOUS
  <2>1. CASE UNCHANGED contestVars
    BY <2>1 DEF contestVars, PressesInv, PagesThere, OneEach, OneRequest
  <2>2. CASE ContestNext
    BY <2>2, LoadSteps, FormSteps, PressSteps, PressDelivered, PressServer DEF ContestNext
  <2> QED
    BY <2>1, <2>2
<1>3. PressesInv => OneRequest
  BY DEF PressesInv
<1> QED
  BY <1>1, <1>2, <1>3, PTL DEF ContestSpec

-----------------------------------------------------------------------------
(* The team a contestant is shown *)

\* What is out for a contestant: calls of a kind, of n, and handlers.
Of(n, k, u) == {c \in n[k] : c.to.user = u}
HandlersOf(u) == {h \in server.running : h.user = u}
OnTeam(u, t) == t \in DOMAIN server.teams /\ u \in server.teams[t].members

Requesting(u) == HandlersOf(u) # {} \/ \E k \in Registrations : Of(net, k, u) # {}

\* One request is out and one handler works for it, at most; an answer is its last word.
OneRegistration(n, H, u) ==
    /\ \A j, k \in Registrations : \A c \in Of(n, j, u), d \in Of(n, k, u) : j = k /\ c = d
    /\ \A g, h \in H : g = h
    /\ \A k \in Registrations : \A c \in Of(n, k, u), h \in H :
          c.phase # "answered" /\ (c.phase = "sent" => h.kind = k /\ h.n = c.to.n)

\* A page that is loaded is not used meanwhile, and the reads of the interval are those of
\* one who has a team.
DetailFits(c, u) ==
    /\ IF c.to.poll THEN HasTeam(u) ELSE page[u].loading
    /\ c.phase = "answered" => IF c.ans.team = 0 THEN ~HasTeam(u) ELSE OnTeam(u, c.ans.team)

\* Requests are sent by those who have no team and whose page is loaded.
StoredFor(u) ==
    /\ HasTeam(u) => OnTeam(u, page[u].team)
    /\ OneRegistration(net, HandlersOf(u), u)
    /\ \A c \in Of(net, "detail", u) : DetailFits(c, u)
    /\ \A c, d \in Of(net, "detail", u) : ~c.to.poll /\ ~d.to.poll => c = d
    /\ \A c, d \in Of(net, "contests", u) : c = d
    /\ Of(net, "contests", u) # {} => page[u].loading
    /\ Requesting(u) \/ Of(net, "contests", u) # {} => ~HasTeam(u) /\ Of(net, "detail", u) = {}
    /\ Requesting(u) => Of(net, "contests", u) = {}

Tracked == {"create", "join", "detail", "contests"}
LoadFields == {"loading", "team", "crossed", "tries"}
PagesLoad ==
    /\ DOMAIN page = Users
    /\ \A u \in Users : LoadFields \subseteq DOMAIN page[u] /\ page[u].loading \in BOOLEAN /\ page[u].crossed \in BOOLEAN

StoredInv == PagesLoad /\ \A u \in Users : ~page[u].crossed => StoredFor(u)

\* What the steps of others leave to a contestant.
Aside(u) ==
    /\ \A f \in LoadFields : page'[u][f] = page[u][f]
    /\ \A k \in Tracked : Of(net', k, u) = Of(net, k, u)
    /\ HandlersOf(u)' = HandlersOf(u)
    /\ \A t : OnTeam(u, t) => OnTeam(u, t)'

LEMMA AsideKeeps == ASSUME NEW u, StoredFor(u), Aside(u)  PROVE StoredFor(u)'
<1>1. /\ page'[u].loading = page[u].loading /\ page'[u].team = page[u].team
      /\ Of(net', "create", u) = Of(net, "create", u) /\ Of(net', "join", u) = Of(net, "join", u)
      /\ Of(net', "detail", u) = Of(net, "detail", u) /\ Of(net', "contests", u) = Of(net, "contests", u)
      /\ HandlersOf(u)' = HandlersOf(u)
      /\ \A k \in Registrations : Of(net', k, u) = Of(net, k, u)
      /\ \A t : OnTeam(u, t) => OnTeam(u, t)'
  BY DEF Aside, LoadFields, Registrations, Tracked
<1>2. HasTeam(u)' <=> HasTeam(u)
  BY <1>1 DEF HasTeam
<1>3. Requesting(u)' <=> Requesting(u)
  BY <1>1 DEF Requesting
<1>4. OneRegistration(net', HandlersOf(u)', u)
  BY <1>1 DEF StoredFor, OneRegistration
<1>5. \A c \in Of(net', "detail", u) : DetailFits(c, u)'
  BY <1>1, <1>2 DEF StoredFor, DetailFits
<1> QED
  BY <1>1, <1>2, <1>3, <1>4, <1>5 DEF StoredFor

\* What asking, hearing, answering and taking forms down does to what is out.
AskingIs(m, n, j, a) ==
    /\ DOMAIN m = Kinds
    /\ \A k \in Kinds : \A v : k # j \/ v # a.user => Of(m, k, v) = Of(n, k, v)
    /\ Of(m, j, a.user) = Of(n, j, a.user) \cup {Sent(a)}

WithoutIs(m, n, j, c) ==
    /\ DOMAIN m = Kinds
    /\ \A k \in Kinds : \A v : k # j \/ v # c.to.user => Of(m, k, v) = Of(n, k, v)
    /\ Of(m, j, c.to.user) = Of(n, j, c.to.user) \ {c}

LEMMA OfAsking ==
    ASSUME NEW n, DOMAIN n = Kinds, NEW j \in Kinds, NEW a
    PROVE  AskingIs(Asking(n, j, a), n, j, a)
BY DEF AskingIs, Of, Asking, Sent

LEMMA OfWithout ==
    ASSUME NEW n, DOMAIN n = Kinds, NEW j \in Kinds, NEW c
    PROVE  WithoutIs(Without(n, j, c), n, j, c)
BY DEF WithoutIs, Of, Without

Down(c) == [c EXCEPT !.to.here = FALSE]
TakenDown(S) == {Down(c) : c \in S}

LEMMA DownIs ==
    ASSUME NEW c, CallFits(c)
    PROVE  Down(c).phase = c.phase /\ Down(c).to.user = c.to.user /\ Down(c).to.n = c.to.n
<1> DEFINE r == [c.to EXCEPT !.here = FALSE]
<1>1. r.user = c.to.user /\ r.n = c.to.n
  BY DEF CallFits, RequestFits
<1>2. Down(c) = [c EXCEPT !.to = r]
  BY DEF Down
<1> HIDE DEF r
<1>3. Down(c).to = r /\ Down(c).phase = c.phase
  BY <1>2 DEF CallFits
<1> QED
  BY <1>1, <1>3

LEMMA OfDisowned ==
    ASSUME NEW n, CallsFit(n), NEW u, NEW v
    PROVE  /\ DOMAIN Disowned(n, u) = Kinds
           /\ \A k \in {"detail", "contests"} : Of(Disowned(n, u), k, v) = Of(n, k, v)
           /\ \A k \in Registrations :
                 Of(Disowned(n, u), k, v) = IF u = v THEN TakenDown(Of(n, k, u)) ELSE Of(n, k, v)
<1>1. DOMAIN Disowned(n, u) = Kinds
  BY DEF Disowned
<1>2. ASSUME NEW k \in {"detail", "contests"}
      PROVE  Of(Disowned(n, u), k, v) = Of(n, k, v)
  BY KindsAre DEF Of, Forms, Disowned
<1>3. ASSUME NEW k \in Registrations
      PROVE  Of(Disowned(n, u), k, v) = IF u = v THEN TakenDown(Of(n, k, u)) ELSE Of(n, k, v)
  <2> DEFINE D == Disowned(n, u)[k]
  <2>1. \A c \in n[k] : Down(c).to.user = c.to.user
    BY DownIs DEF CallsFit
  <2>2. D = {IF c.to.user = u THEN Down(c) ELSE c : c \in n[k]}
    BY KindsAre DEF Disowned, Down, Forms, Registrations
  <2>3. Of(Disowned(n, u), k, v) = {c \in D : c.to.user = v}
    BY DEF Of
  <2> HIDE DEF D
  <2>4. CASE u # v
    <3>1. \A c : c \in D /\ c.to.user = v <=> c \in n[k] /\ c.to.user = v
      BY <2>1, <2>2, <2>4
    <3> QED
      BY <2>3, <2>4, <3>1 DEF Of
  <2>5. CASE u = v
    <3>1. \A d : d \in D /\ d.to.user = v => \E c \in n[k] : c.to.user = v /\ d = Down(c)
      BY <2>1, <2>2, <2>5
    <3>2. \A c \in n[k] : c.to.user = v => Down(c) \in D /\ Down(c).to.user = v
      BY <2>1, <2>2, <2>5
    <3> QED
      BY <2>3, <2>5, <3>1, <3>2 DEF Of, TakenDown
  <2> QED
    BY <2>4, <2>5
<1> QED
  BY <1>1, <1>2, <1>3

-----------------------------------------------------------------------------
(* Steps that load nothing and send no request *)

SameLoads ==
    /\ PagesLoad'
    /\ \A u \in Users : \A f \in LoadFields : page'[u][f] = page[u][f]
SameTracked == \A k \in Tracked : net'[k] = net[k]

LEMMA TrackedAre == Tracked \subseteq Kinds /\ Registrations \subseteq Tracked
BY DEF Tracked, Kinds, Registrations

LEMMA AllAside == ASSUME StoredInv, PagesLoad', \A u \in Users : Aside(u)  PROVE StoredInv'
<1>1. \A u \in Users : page'[u].crossed = page[u].crossed
  BY DEF Aside, LoadFields
<1> QED
  BY <1>1, AsideKeeps DEF StoredInv

LEMMA NothingLoads == ASSUME StoredInv, SameLoads, SameTracked, UNCHANGED server  PROVE StoredInv'
<1>1. \A u \in Users : Aside(u)
  BY DEF SameLoads, SameTracked, Aside, Of, HandlersOf, OnTeam
<1> QED
  BY <1>1, AllAside DEF SameLoads

LEMMA PageTurned ==
    ASSUME PagesLoad, NEW u, NEW p, Turns(u, p),
           u \in Users => LoadFields \subseteq DOMAIN p /\ p.loading \in BOOLEAN /\ p.crossed \in BOOLEAN
    PROVE  /\ PagesLoad'
           /\ \A v \in Users : page'[v] = IF v = u THEN p ELSE page[v]
BY DEF PagesLoad, Turns

LEMMA QuietSteps ==
    ASSUME StoredInv, DOMAIN net = Kinds,
           \/ DeliverOpenTeams \/ DeliverQuestion \/ DeliverClarifications \/ DeliverFile
           \/ \E u \in Users : AskQuestion(u) \/ Download(u)
    PROVE  StoredInv'
<1>0. PagesLoad
  BY DEF StoredInv
<1>1. UNCHANGED server
  BY DEF DeliverOpenTeams, DeliverQuestion, DeliverClarifications, DeliverFile, AskQuestion, Download, Same
<1>2. SameTracked
  <2>1. ASSUME NEW k \in {"open", "question", "clarifications", "file"}, NEW c, Take(k, c)
        PROVE  SameTracked
    BY <2>1 DEF Take, Without, SameTracked, Tracked, Kinds
  <2>2. ASSUME NEW k \in {"question", "file"}, NEW a, Ask(k, a)
        PROVE  SameTracked
    BY <2>2 DEF Ask, Asking, SameTracked, Tracked, Kinds
  <2>3. ASSUME NEW c, NEW a, net' = Asking(Without(net, "question", c), "clarifications", a)
        PROVE  SameTracked
    BY <2>3 DEF Asking, Without, SameTracked, Tracked, Kinds
  <2>4. CASE DeliverOpenTeams \/ DeliverQuestion \/ DeliverClarifications \/ DeliverFile
    BY <2>1, <2>3, <2>4 DEF DeliverOpenTeams, DeliverQuestion, DeliverClarifications, DeliverFile
  <2>5. CASE \E u \in Users : AskQuestion(u) \/ Download(u)
    BY <2>2, <2>5 DEF AskQuestion, Download
  <2> QED
    BY <2>4, <2>5
<1>3. SameLoads
  <2>1. ASSUME NEW u, NEW b,
               \/ Turns(u, [page[u] EXCEPT !.asking = b])
               \/ Turns(u, [page[u] EXCEPT !.downloading = b])
               \/ Turns(u, [page[u] EXCEPT !.listed = TRUE, !.list = b])
        PROVE  SameLoads
    <3>1. PICK p : /\ Turns(u, p)
                   /\ \/ p = [page[u] EXCEPT !.asking = b]
                      \/ p = [page[u] EXCEPT !.downloading = b]
                      \/ p = [page[u] EXCEPT !.listed = TRUE, !.list = b]
      BY <2>1, Zenon
    <3>2. /\ DOMAIN p = DOMAIN page[u]
          /\ u \in Users => \A f \in LoadFields : p[f] = page[u][f]
      BY <1>0, <3>1 DEF PagesLoad, LoadFields
    <3>3. /\ PagesLoad'
          /\ \A v \in Users : page'[v] = IF v = u THEN p ELSE page[v]
      BY <1>0, <3>1, <3>2, PageTurned DEF PagesLoad, LoadFields
    <3> QED
      BY <3>2, <3>3 DEF SameLoads
  <2>2. ASSUME UNCHANGED page
        PROVE  SameLoads
    BY <1>0, <2>2 DEF SameLoads, PagesLoad
  <2>3. CASE DeliverOpenTeams
    <3>1. UNCHANGED page \/ \E u, b : Turns(u, [page[u] EXCEPT !.listed = TRUE, !.list = b])
      BY <2>3, Zenon DEF DeliverOpenTeams
    <3> QED
      BY <2>1, <2>2, <3>1
  <2>4. CASE DeliverQuestion \/ DeliverClarifications \/ \E u \in Users : AskQuestion(u)
    <3>1. UNCHANGED page \/ \E u, b : Turns(u, [page[u] EXCEPT !.asking = b])
      BY <2>4, Zenon DEF DeliverQuestion, DeliverClarifications, AskQuestion
    <3> QED
      BY <2>1, <2>2, <3>1
  <2>5. CASE DeliverFile \/ \E u \in Users : Download(u)
    <3>1. \E u, b : Turns(u, [page[u] EXCEPT !.downloading = b])
      BY <2>5, Zenon DEF DeliverFile, Download
    <3> QED
      BY <2>1, <3>1
  <2> QED
    BY <2>3, <2>4, <2>5
<1> QED
  BY <1>1, <1>2, <1>3, NothingLoads

-----------------------------------------------------------------------------
(* Answers *)

\* A step that concerns one contestant.
LEMMA OneActs ==
    ASSUME StoredInv, PagesLoad', NEW u, \A v \in Users : v # u => Aside(v),
           u \in Users /\ ~page'[u].crossed => StoredFor(u)'
    PROVE  StoredInv'
<1>1. \A v \in Users : v # u => page'[v].crossed = page[v].crossed
  BY DEF Aside, LoadFields
<1> QED
  BY <1>1, AsideKeeps DEF StoredInv

\* The contest says which team one is on.
LEMMA DetailIs ==
    ASSUME ServerFits, NEW u
    PROVE  IF Detail(u).team = 0 THEN \A t : ~OnTeam(u, t) ELSE OnTeam(u, Detail(u).team)
<1>1. \A t : t \in TeamsWith({u}) <=> OnTeam(u, t)
  BY DEF TeamsWith, OnTeam
<1>2. CASE TeamsWith({u}) = {}
  BY <1>1, <1>2 DEF Detail
<1>3. CASE TeamsWith({u}) # {}
  <2>1. Detail(u).team \in TeamsWith({u})
    BY <1>3 DEF Detail
  <2>2. Detail(u).team # 0
    BY <2>1, TeamsTyped DEF TeamsWith
  <2> QED
    BY <1>1, <2>1, <2>2
<1> QED
  BY <1>2, <1>3

LEMMA MovedStored ==
    ASSUME StoredInv, ServerFits, DOMAIN net = Kinds, UNCHANGED <<page, server>>,
           NEW j \in Kinds, NEW c \in net[j], NEW d, d.to = c.to,
           net' = [net EXCEPT ![j] = (@ \ {c}) \cup {d}],
           j \in Registrations => d.phase = "failed",
           j = "detail" /\ d.phase = "answered" => d.ans = Detail(c.to.user)
    PROVE  StoredInv'
<1>0. PICK u : u = c.to.user
  OBVIOUS
<1>1. /\ DOMAIN net' = Kinds
      /\ \A k \in Kinds : \A w : Of(net', k, w) =
            IF k = j /\ w = u THEN (Of(net, k, w) \ {c}) \cup {d} ELSE Of(net, k, w)
  <2>1. /\ DOMAIN net' = Kinds /\ net'[j] = (net[j] \ {c}) \cup {d}
        /\ \A k \in Kinds \ {j} : net'[k] = net[k]
    OBVIOUS
  <2>2. \A w : Of(net', j, w) = IF w = u THEN (Of(net, j, w) \ {c}) \cup {d} ELSE Of(net, j, w)
    BY <1>0, <2>1 DEF Of
  <2> QED
    BY <2>1, <2>2 DEF Of
<1>2. PagesLoad' /\ HandlersOf(u)' = HandlersOf(u) /\ \A t : OnTeam(u, t)' <=> OnTeam(u, t)
  BY DEF StoredInv, PagesLoad, HandlersOf, OnTeam
<1>3. \A w \in Users : w # u => Aside(w)
  BY <1>1, TrackedAre DEF Aside, HandlersOf, OnTeam
<1>4. c \in Of(net, j, u)
  BY <1>0 DEF Of
<1>5. ASSUME u \in Users, ~page'[u].crossed
      PROVE  StoredFor(u)'
  <2>0. StoredFor(u)
    BY <1>5 DEF StoredInv
  <2>1. HasTeam(u)' <=> HasTeam(u)
    BY DEF HasTeam
  <2>2. \A k \in Tracked : Of(net', k, u) = IF k = j THEN (Of(net, k, u) \ {c}) \cup {d} ELSE Of(net, k, u)
    BY <1>1, TrackedAre
  <2>3. /\ Of(net', "detail", u) = IF j = "detail" THEN (Of(net, "detail", u) \ {c}) \cup {d} ELSE Of(net, "detail", u)
        /\ Of(net', "contests", u) = IF j = "contests" THEN (Of(net, "contests", u) \ {c}) \cup {d}
                                     ELSE Of(net, "contests", u)
        /\ \A k \in Registrations : Of(net', k, u) = IF k = j THEN (Of(net, k, u) \ {c}) \cup {d} ELSE Of(net, k, u)
    BY <2>2, TrackedAre DEF Tracked
  <2>4. Requesting(u)' <=> Requesting(u)
    BY <1>2, <1>4, <2>3 DEF Requesting
  <2>5. OneRegistration(net', HandlersOf(u)', u)
    <3>0. OneRegistration(net, HandlersOf(u), u)
      BY <2>0 DEF StoredFor
    <3>1. ASSUME NEW k \in Registrations, NEW x \in Of(net', k, u)
          PROVE  \E y \in Of(net, k, u) : /\ x.to = y.to /\ (x.phase = y.phase \/ x.phase = "failed")
                                         /\ x = IF k = j /\ y = c THEN d ELSE y
      BY <1>4, <2>3, <3>1
    <3>2. \A i, k \in Registrations : \A x \in Of(net', i, u), y \in Of(net', k, u) : i = k /\ x = y
      BY <3>0, <3>1 DEF OneRegistration
    <3>3. \A k \in Registrations : \A x \in Of(net', k, u), h \in HandlersOf(u) :
             x.phase # "answered" /\ (x.phase = "sent" => h.kind = k /\ h.n = x.to.n)
      BY <3>0, <3>1 DEF OneRegistration
    <3>4. OneRegistration(net', HandlersOf(u), u)
      BY <3>0, <3>2, <3>3 DEF OneRegistration
    <3> QED
      BY <1>2, <3>4
  <2>6. \A x \in Of(net', "detail", u) : DetailFits(x, u)'
    <3>1. ASSUME NEW x \in Of(net, "detail", u)
          PROVE  DetailFits(x, u)'
      BY <1>2, <2>0, <2>1 DEF StoredFor, DetailFits
    <3>2. ASSUME j = "detail"
          PROVE  DetailFits(d, u)'
      <4>1. DetailFits(c, u)
        BY <1>4, <2>0, <3>2 DEF StoredFor
      <4>2. d.phase = "answered" => d.ans = Detail(u)
        BY <1>0, <3>2
      <4>3. IF Detail(u).team = 0 THEN ~HasTeam(u) ELSE OnTeam(u, Detail(u).team)
        BY <2>0, DetailIs DEF StoredFor
      <4> QED
        BY <1>2, <2>1, <4>1, <4>2, <4>3 DEF DetailFits
    <3> QED
      BY <2>3, <3>1, <3>2
  <2>7. Of(net', "contests", u) # {} <=> Of(net, "contests", u) # {}
    BY <1>4, <2>3
  <2>8. Of(net', "detail", u) # {} <=> Of(net, "detail", u) # {}
    BY <1>4, <2>3
  <2>9. \A x, y \in Of(net', "detail", u) : ~x.to.poll /\ ~y.to.poll => x = y
    BY <1>4, <2>0, <2>3 DEF StoredFor
  <2>10. \A x, y \in Of(net', "contests", u) : x = y
    BY <1>4, <2>0, <2>3 DEF StoredFor
  <2> QED
    BY <1>2, <2>0, <2>1, <2>4, <2>5, <2>6, <2>7, <2>8, <2>9, <2>10 DEF StoredFor
<1> QED
  BY <1>2, <1>3, <1>5, OneActs

LEMMA AnswerStored ==
    ASSUME StoredInv, ServerFits, DOMAIN net = Kinds, UNCHANGED <<page, server>>,
           NEW j \in Kinds, NEW c \in net[j], NEW v, Answer(j, c, v), j \notin Registrations,
           j = "detail" => v = Detail(c.to.user)
    PROVE  StoredInv'
<1> DEFINE d == [to |-> c.to, phase |-> "answered", ans |-> v]
<1>1. d.to = c.to /\ d.ans = v
  OBVIOUS
<1>2. net' = [net EXCEPT ![j] = (@ \ {c}) \cup {d}]
  BY DEF Answer
<1> HIDE DEF d
<1> QED
  BY <1>1, <1>2, MovedStored

LEMMA RefuseStored ==
    ASSUME StoredInv, ServerFits, DOMAIN net = Kinds, UNCHANGED <<page, server>>,
           NEW j \in Kinds, NEW c \in net[j], Refuse(j, c)
    PROVE  StoredInv'
<1> DEFINE d == [to |-> c.to, phase |-> "failed"]
<1>1. d.to = c.to /\ d.phase = "failed"
  OBVIOUS
<1>2. net' = [net EXCEPT ![j] = (@ \ {c}) \cup {d}]
  BY DEF Refuse
<1> HIDE DEF d
<1> QED
  BY <1>1, <1>2, MovedStored

\* What the server answers without a handler of its own, and what is lost.
LEMMA ReadsStored ==
    ASSUME StoredInv, ServerFits, DOMAIN net = Kinds,
           ((ServeDetail \/ ServeOpenTeams \/ ServeOther) /\ UNCHANGED page) \/ Lose
    PROVE  StoredInv'
<1>1. CASE ServeDetail /\ UNCHANGED page
  <2>1. PICK c \in net["detail"] : Answer("detail", c, Detail(c.to.user)) /\ UNCHANGED server
    BY <1>1 DEF ServeDetail, Asked
  <2> QED
    BY <1>1, <2>1, AnswerStored, KindsAre DEF Registrations
<1>2. CASE ServeOpenTeams /\ UNCHANGED page
  <2>1. PICK c \in net["open"] : Answer("open", c, OpenTeams) /\ UNCHANGED server
    BY <1>2 DEF ServeOpenTeams, Asked
  <2> QED
    BY <1>2, <2>1, AnswerStored, KindsAre DEF Registrations
<1>3. CASE ServeOther /\ UNCHANGED page
  <2>a. PICK k \in {"contests", "question", "clarifications", "file"} :
            \E c \in net[k] : (\E ans \in BOOLEAN : Answer(k, c, ans)) \/ Refuse(k, c)
    BY <1>3 DEF ServeOther, Asked
  <2>1. PICK c \in net[k] : (\E ans \in BOOLEAN : Answer(k, c, ans)) \/ Refuse(k, c)
    BY <2>a
  <2>2. UNCHANGED server
    BY <1>3 DEF ServeOther
  <2>3. k \in Kinds /\ k \notin Registrations /\ k # "detail"
    BY KindsAre DEF Registrations
  <2> QED
    BY <1>3, <2>1, <2>2, <2>3, AnswerStored, RefuseStored
<1>4. CASE Lose
  <2>a. PICK k \in Kinds : \E c \in net[k] : Refuse(k, c)
    BY <1>4 DEF Lose, Lost
  <2>1. PICK c \in net[k] : Refuse(k, c)
    BY <2>a
  <2> QED
    BY <1>4, <2>1, RefuseStored DEF Lose
<1> QED
  BY <1>1, <1>2, <1>3, <1>4

-----------------------------------------------------------------------------
(* Handlers *)

\* Whatever a handler does, the others stay on their teams.
LEMMA HandlerDoes ==
    ASSUME ServerFits, NEW h \in server.running, HandlerStep(h)
    PROVE  /\ \/ /\ net' = net
                 /\ \E g : /\ g.user = h.user /\ g.kind = h.kind /\ g.n = h.n
                           /\ server'.running = (server.running \ {h}) \cup {g}
              \/ /\ server'.running = server.running \ {h}
                 /\ net' = net \/ \E c \in net[h.kind] :
                       /\ c.phase = "sent" /\ c.to.user = h.user
                       /\ (Answer(h.kind, c, TRUE) \/ Refuse(h.kind, c))
           /\ \A v, t : v # h.user /\ OnTeam(v, t) => OnTeam(v, t)'
<1>0. /\ server \in [teams: Seq(Team), ended: BOOLEAN, running: {server.running}]
      /\ HandlerFits(h)
  BY DEF ServerFits
<1> DEFINE Goes == /\ net' = net
                   /\ \E g : /\ g.user = h.user /\ g.kind = h.kind /\ g.n = h.n
                             /\ server'.running = (server.running \ {h}) \cup {g}
           Done == /\ server'.running = server.running \ {h}
                   /\ net' = net \/ \E c \in net[h.kind] :
                       /\ c.phase = "sent" /\ c.to.user = h.user
                       /\ (Answer(h.kind, c, TRUE) \/ Refuse(h.kind, c))
           Stay == \A v, t : v # h.user /\ OnTeam(v, t) => OnTeam(v, t)'
<1>1. ASSUME NEW ok, Replies(h, ok), server'.running = server.running \ {h}
      PROVE  Done
  BY <1>1 DEF Replies, CallsOf, Asked
<1>2. ASSUME NEW to
      PROVE  LET g == [h EXCEPT !.at = to] IN g.user = h.user /\ g.kind = h.kind /\ g.n = h.n
  BY <1>0 DEF HandlerFits
<1>3. ASSUME server'.teams = server.teams
      PROVE  Stay
  BY <1>3 DEF OnTeam
<1>4. ASSUME NEW to, GoesOn(h, to)
      PROVE  Goes /\ Stay
  <2>1. /\ net' = net /\ server'.teams = server.teams
        /\ server'.running = (server.running \ {h}) \cup {[h EXCEPT !.at = to]}
    BY <1>0, <1>4 DEF GoesOn
  <2> QED
    BY <1>2, <1>3, <2>1
<1>5. ASSUME NEW ok, Ends(h, ok)
      PROVE  Done /\ Stay
  <2>1. server'.teams = server.teams /\ server'.running = server.running \ {h} /\ Replies(h, ok)
    BY <1>0, <1>5 DEF Ends
  <2> QED
    BY <1>1, <1>3, <2>1
<1>6. ASSUME NEW to, NEW teams, Writes(h, to, teams)
      PROVE  Goes /\ server'.teams = teams
  <2>1. /\ net' = net /\ server'.teams = teams
        /\ server'.running = (server.running \ {h}) \cup {[h EXCEPT !.at = to]}
    BY <1>0, <1>6 DEF Writes
  <2> QED
    BY <1>2, <2>1
<1>7. ASSUME NEW ok, NEW teams, WritesLast(h, ok, teams)
      PROVE  Done /\ server'.teams = teams
  <2>1. server'.teams = teams /\ server'.running = server.running \ {h} /\ Replies(h, ok)
    BY <1>0, <1>7 DEF WritesLast
  <2> QED
    BY <1>1, <2>1
<1> HIDE DEF Goes, Done, Stay
<1>8. CASE CheckMine(h) \/ CheckCanRegister(h) \/ CheckExisting(h) \/ CheckTeam(h)
  <2>1. PICK p, to : Checks(h, p, to)
    BY <1>8 DEF CheckMine, CheckCanRegister, CheckExisting, CheckTeam
  <2> QED
    BY <1>4, <1>5, <2>1 DEF Checks, Goes, Done, Stay
<1>9. CASE Reread(h)
  BY <1>4, <1>5, <1>9 DEF Reread, Goes, Done, Stay
<1>10. CASE InsertTeam(h)
  <2>1. PICK e : server'.teams = Append(server.teams, e) /\ Done
    BY <1>7, <1>10 DEF InsertTeam
  <2>2. \A t \in DOMAIN server.teams : t \in DOMAIN server'.teams /\ server'.teams[t] = server.teams[t]
    BY <2>1, TeamsTyped
  <2> QED
    BY <2>1, <2>2 DEF OnTeam, Done, Stay
<1>11. CASE AddMember(h)
  <2>1. ASSUME server'.teams = [server.teams EXCEPT ![h.team].members = @ \cup {h.user}]
        PROVE  Stay
    BY <2>1, TeamsTyped DEF OnTeam, Stay, Team
  <2>2. \/ Goes /\ server'.teams = [server.teams EXCEPT ![h.team].members = @ \cup {h.user}]
        \/ Done /\ Stay
    BY <1>5, <1>6, <1>11 DEF AddMember
  <2> QED
    BY <2>1, <2>2 DEF Goes, Done, Stay
<1>12. CASE PullMember(h)
  <2>1. Done /\ server'.teams = [server.teams EXCEPT ![h.team].members = @ \ {h.user}]
    BY <1>7, <1>12 DEF PullMember
  <2>2. Stay
    BY <2>1, TeamsTyped DEF OnTeam, Stay, Team
  <2> QED
    BY <2>1, <2>2 DEF Done, Stay
<1>13. CASE CloseTeam(h)
  <2>1. Done /\ server'.teams = [server.teams EXCEPT ![h.team].is_open = FALSE]
    BY <1>7, <1>13 DEF CloseTeam
  <2>2. Stay
    BY <2>1, TeamsTyped DEF OnTeam, Stay, Team
  <2> QED
    BY <2>1, <2>2 DEF Done, Stay
<1> QED
  BY <1>8, <1>9, <1>10, <1>11, <1>12, <1>13 DEF HandlerStep

\* A contestant whose request is being handled has been shown no team.
LEMMA HandlerStored ==
    ASSUME StoredInv, ServerFits, DOMAIN net = Kinds, UNCHANGED page,
           NEW h \in server.running, HandlerStep(h)
    PROVE  StoredInv'
<1>0. PICK u : u = h.user
  OBVIOUS
<1>1. PagesLoad'
  BY DEF StoredInv, PagesLoad
<1>2. h.kind \in Registrations /\ h.kind \in Kinds
  BY KindsAre DEF ServerFits, HandlerFits, Registrations
<1>3. \/ net' = net
      \/ \E c \in net[h.kind] : /\ c.to.user = u
                               /\ \E d : d.to = c.to /\ net' = [net EXCEPT ![h.kind] = (@ \ {c}) \cup {d}]
  <2>1. ASSUME NEW c \in net[h.kind], c.to.user = u, Answer(h.kind, c, TRUE) \/ Refuse(h.kind, c)
        PROVE  \E d : d.to = c.to /\ net' = [net EXCEPT ![h.kind] = (@ \ {c}) \cup {d}]
    <3> DEFINE a == [to |-> c.to, phase |-> "answered", ans |-> TRUE]
               f == [to |-> c.to, phase |-> "failed"]
    <3>1. a.to = c.to /\ f.to = c.to
      OBVIOUS
    <3>2. \/ net' = [net EXCEPT ![h.kind] = (@ \ {c}) \cup {a}]
          \/ net' = [net EXCEPT ![h.kind] = (@ \ {c}) \cup {f}]
      BY <2>1 DEF Answer, Refuse
    <3> HIDE DEF a, f
    <3> QED
      BY <3>1, <3>2
  <2> QED
    BY <1>0, <2>1, HandlerDoes
<1>4. /\ \A k \in Kinds \ {h.kind} : net'[k] = net[k]
      /\ \A v : v # u => Of(net', h.kind, v) = Of(net, h.kind, v)
      /\ \/ Of(net', h.kind, u) = Of(net, h.kind, u)
         \/ \E c \in Of(net, h.kind, u) : \E d : Of(net', h.kind, u) = (Of(net, h.kind, u) \ {c}) \cup {d}
  <2>1. CASE net' = net
    BY <2>1
  <2>2. ASSUME NEW c \in net[h.kind], c.to.user = u, NEW d, d.to = c.to,
               net' = [net EXCEPT ![h.kind] = (@ \ {c}) \cup {d}]
        PROVE  /\ \A k \in Kinds \ {h.kind} : net'[k] = net[k]
               /\ \A v : v # u => Of(net', h.kind, v) = Of(net, h.kind, v)
               /\ \E x \in Of(net, h.kind, u) : \E y :
                     Of(net', h.kind, u) = (Of(net, h.kind, u) \ {x}) \cup {y}
    <3>1. net'[h.kind] = (net[h.kind] \ {c}) \cup {d} /\ \A k \in Kinds \ {h.kind} : net'[k] = net[k]
      BY <1>2, <2>2
    <3>2. \A v : v # u => Of(net', h.kind, v) = Of(net, h.kind, v)
      BY <2>2, <3>1 DEF Of
    <3>3. c \in Of(net, h.kind, u) /\ Of(net', h.kind, u) = (Of(net, h.kind, u) \ {c}) \cup {d}
      BY <2>2, <3>1 DEF Of
    <3> QED
      BY <3>1, <3>2, <3>3
  <2> QED
    BY <1>3, <2>1, <2>2
<1>5. /\ \A v : v # u => HandlersOf(v)' = HandlersOf(v)
      /\ \/ HandlersOf(u)' = HandlersOf(u) \ {h}
         \/ /\ net' = net
            /\ \E g : /\ g.kind = h.kind /\ g.n = h.n
                      /\ HandlersOf(u)' = (HandlersOf(u) \ {h}) \cup {g}
  <2>1. CASE server'.running = server.running \ {h}
    BY <1>0, <2>1 DEF HandlersOf
  <2>2. ASSUME NEW g, g.user = h.user, g.kind = h.kind, g.n = h.n, net' = net,
               server'.running = (server.running \ {h}) \cup {g}
        PROVE  /\ \A v : v # u => HandlersOf(v)' = HandlersOf(v)
               /\ HandlersOf(u)' = (HandlersOf(u) \ {h}) \cup {g}
    BY <1>0, <2>2 DEF HandlersOf
  <2> QED
    BY <2>1, <2>2, HandlerDoes
<1>6. \A v \in Users : v # u => Aside(v)
  <2>1. \A v : v # u => \A k \in Tracked : Of(net', k, v) = Of(net, k, v)
    BY <1>4, TrackedAre DEF Of
  <2>2. \A v, t : v # u /\ OnTeam(v, t) => OnTeam(v, t)'
    BY <1>0, HandlerDoes
  <2> QED
    BY <1>5, <2>1, <2>2 DEF Aside
<1>7. ASSUME u \in Users, ~page'[u].crossed
      PROVE  StoredFor(u)'
  <2>0. StoredFor(u)
    BY <1>7 DEF StoredInv
  <2>1. h \in HandlersOf(u)
    BY <1>0 DEF HandlersOf
  <2>2. ~HasTeam(u) /\ Of(net, "detail", u) = {} /\ Of(net, "contests", u) = {}
    BY <2>0, <2>1 DEF StoredFor, Requesting
  <2>3. ~HasTeam(u)' /\ Of(net', "detail", u) = {} /\ Of(net', "contests", u) = {}
    BY <1>2, <1>4, <2>2, KindsAre DEF HasTeam, Of, Registrations
  <2>4. HandlersOf(u) = {h}
    BY <2>0, <2>1 DEF StoredFor, OneRegistration
  <2>5. OneRegistration(net', HandlersOf(u)', u)
    <3>1. CASE HandlersOf(u)' = {}
      <4>1. \A j \in Registrations : j # h.kind => Of(net', j, u) = Of(net, j, u)
        BY <1>4, TrackedAre DEF Of
      <4>2. \A j, k \in Registrations : \A c \in Of(net', j, u), d \in Of(net', k, u) : j = k /\ c = d
        BY <1>2, <1>4, <2>0, <4>1 DEF StoredFor, OneRegistration
      <4> QED
        BY <3>1, <4>2 DEF OneRegistration
    <3>2. ASSUME net' = net, NEW g, g.kind = h.kind, g.n = h.n, HandlersOf(u)' = {g}
          PROVE  OneRegistration(net', HandlersOf(u)', u)
      <4>1. OneRegistration(net, {h}, u)
        BY <2>0, <2>4 DEF StoredFor
      <4>2. OneRegistration(net, {g}, u)
        BY <3>2, <4>1 DEF OneRegistration
      <4> QED
        BY <3>2, <4>2
    <3> QED
      BY <1>5, <2>4, <3>1, <3>2
  <2> QED
    BY <2>3, <2>5 DEF StoredFor
<1> QED
  BY <1>1, <1>6, <1>7, OneActs

\* A request that is taken up was not being handled.
LEMMA RequestStored ==
    ASSUME StoredInv, ServerFits, CallsFit(net), UNCHANGED page,
           NEW kind \in Registrations, ServeRequest(kind)
    PROVE  StoredInv'
<1>0. DOMAIN net = Kinds /\ kind \in Kinds
  BY KindsAre DEF CallsFit, Registrations
<1>a. \E c \in net[kind] : \E h :
         /\ c.phase = "sent" /\ h.user = c.to.user /\ h.n = c.to.n /\ h.kind = kind
         /\ \A g \in server.running : <<g.user, g.n>> # <<h.user, h.n>>
         /\ \/ Refuse(kind, c) /\ UNCHANGED server
            \/ UNCHANGED net /\ server' = [server EXCEPT !.running = @ \cup {h}]
  <2>1. PICK c \in Asked(kind) :
           LET members == {c.to.user} \cup c.to.mates
               h == [kind |-> kind, user |-> c.to.user, n |-> c.to.n, team |-> c.to.team,
                     members |-> members, open |-> c.to.open,
                     at |-> IF kind = "join" THEN "mine" ELSE "register"]
           IN  /\ \A g \in server.running : <<g.user, g.n>> # <<h.user, h.n>>
               /\ \/ Refuse(kind, c) /\ UNCHANGED server
                  \/ UNCHANGED net /\ server' = [server EXCEPT !.running = @ \cup {h}]
    BY DEF ServeRequest
  <2> DEFINE h == [kind |-> kind, user |-> c.to.user, n |-> c.to.n, team |-> c.to.team,
                   members |-> {c.to.user} \cup c.to.mates, open |-> c.to.open,
                   at |-> IF kind = "join" THEN "mine" ELSE "register"]
  <2>2. h.user = c.to.user /\ h.n = c.to.n /\ h.kind = kind
    OBVIOUS
  <2>3. /\ \A g \in server.running : <<g.user, g.n>> # <<h.user, h.n>>
        /\ \/ Refuse(kind, c) /\ UNCHANGED server
           \/ UNCHANGED net /\ server' = [server EXCEPT !.running = @ \cup {h}]
    BY <2>1
  <2>4. c \in net[kind] /\ c.phase = "sent"
    BY DEF Asked
  <2> HIDE DEF h
  <2> QED
    BY <2>2, <2>3, <2>4
<1>b. PICK c \in net[kind] : \E h :
         /\ c.phase = "sent" /\ h.user = c.to.user /\ h.n = c.to.n /\ h.kind = kind
         /\ \A g \in server.running : <<g.user, g.n>> # <<h.user, h.n>>
         /\ \/ Refuse(kind, c) /\ UNCHANGED server
            \/ UNCHANGED net /\ server' = [server EXCEPT !.running = @ \cup {h}]
  BY <1>a
<1>1. PICK h :
         /\ c.phase = "sent" /\ h.user = c.to.user /\ h.n = c.to.n /\ h.kind = kind
         /\ \A g \in server.running : <<g.user, g.n>> # <<h.user, h.n>>
         /\ \/ Refuse(kind, c) /\ UNCHANGED server
            \/ UNCHANGED net /\ server' = [server EXCEPT !.running = @ \cup {h}]
  BY <1>b
<1>2. CASE Refuse(kind, c) /\ UNCHANGED server
  BY <1>0, <1>2, RefuseStored
<1>3. CASE UNCHANGED net /\ server' = [server EXCEPT !.running = @ \cup {h}]
  <2>0. PICK u : u = c.to.user
    OBVIOUS
  <2>1. server'.running = server.running \cup {h} /\ server'.teams = server.teams
    BY <1>3 DEF ServerFits
  <2>2. PagesLoad' /\ \A v, t : OnTeam(v, t)' <=> OnTeam(v, t)
    BY <2>1 DEF StoredInv, PagesLoad, OnTeam
  <2>3. \A v : v # u => HandlersOf(v)' = HandlersOf(v)
    BY <1>1, <2>0, <2>1 DEF HandlersOf
  <2>4. HandlersOf(u)' = HandlersOf(u) \cup {h}
    BY <1>1, <2>0, <2>1 DEF HandlersOf
  <2>5. \A v \in Users : v # u => Aside(v)
    BY <1>3, <2>2, <2>3 DEF Aside
  <2>6. ASSUME u \in Users, ~page'[u].crossed
        PROVE  StoredFor(u)'
    <3>0. StoredFor(u)
      BY <2>6 DEF StoredInv
    <3>1. c \in Of(net, kind, u)
      BY <1>1, <2>0 DEF Of
    <3>2. HandlersOf(u) = {}
      <4>1. ASSUME NEW g \in HandlersOf(u)
            PROVE  FALSE
        <5>1. g.n = c.to.n
          BY <1>1, <3>0, <3>1 DEF StoredFor, OneRegistration
        <5> QED
          BY <1>1, <2>0, <5>1 DEF HandlersOf
      <4> QED
        BY <4>1
    <3>3. Requesting(u) /\ Requesting(u)'
      BY <1>3, <3>1 DEF Requesting
    <3>4. ~HasTeam(u) /\ Of(net, "detail", u) = {} /\ Of(net, "contests", u) = {}
      BY <3>0, <3>3 DEF StoredFor
    <3>5. OneRegistration(net, {h}, u)
      BY <1>1, <3>0, <3>1 DEF StoredFor, OneRegistration
    <3>6. OneRegistration(net', HandlersOf(u)', u)
      BY <1>3, <2>4, <3>2, <3>5
    <3>7. ~HasTeam(u)'
      BY <3>4 DEF HasTeam
    <3> QED
      BY <1>3, <3>4, <3>6, <3>7 DEF StoredFor
  <2> QED
    BY <2>2, <2>5, <2>6, OneActs
<1> QED
  BY <1>1, <1>2, <1>3

LEMMA ServeStored ==
    ASSUME StoredInv, TeamsInv, Serve
    PROVE  StoredInv'
<1>0. ServerFits /\ CallsFit(net) /\ DOMAIN net = Kinds /\ UNCHANGED page
  BY DEF TeamsInv, CallsFit, Serve
<1>1. CASE ServeDetail \/ ServeOpenTeams \/ ServeOther
  BY <1>0, <1>1, ReadsStored
<1>2. ASSUME NEW kind \in {"create", "join"}, ServeRequest(kind)
      PROVE  StoredInv'
  BY <1>0, <1>2, RequestStored DEF Registrations
<1>3. ASSUME NEW h \in server.running, HandlerStep(h)
      PROVE  StoredInv'
  BY <1>0, <1>3, HandlerStored
<1>4. CASE EndContest
  <2>1. server'.running = server.running /\ server'.teams = server.teams /\ UNCHANGED net
    BY <1>0, <1>4 DEF EndContest, ServerFits
  <2>2. \A u \in Users : Aside(u)
    BY <1>0, <2>1 DEF Aside, HandlersOf, OnTeam
  <2>3. PagesLoad'
    BY <1>0 DEF StoredInv, PagesLoad
  <2> QED
    BY <2>2, <2>3, AllAside
<1> QED
  BY <1>1, <1>2, <1>3, <1>4 DEF Serve

-----------------------------------------------------------------------------
(* Loading the page *)

NotOf(n, m, u) == \A k \in Tracked : \A v : v # u => Of(m, k, v) = Of(n, k, v)

\* What comes of loading the contest, once the call c that led to it is taken.
LeftOf(j, k, c, u) == IF j = k THEN Of(net, j, u) \ {c} ELSE Of(net, j, u)
DetailAsked(m, k, c, u) ==
    /\ NotOf(net, m, u)
    /\ \E d : /\ d.to.user = u /\ ~d.to.poll /\ d.phase = "sent"
              /\ Of(m, "detail", u) = Of(net, "detail", u) \cup {d}
    /\ Of(m, "contests", u) = LeftOf("contests", k, c, u)
    /\ \A j \in Registrations : Of(m, j, u) = TakenDown(LeftOf(j, k, c, u))

LEMMA LoadsDetail ==
    ASSUME CallsFit(net), NEW k \in {"contests", "create", "join"}, NEW c, NEW u, u = c.to.user
    PROVE  DetailAsked(LoadContestData(Without(net, k, c), u), k, c, u)
<1> DEFINE w == Without(net, k, c)
           e == Disowned(w, u)
           a == [user |-> u, poll |-> FALSE]
<1>0. /\ k \in Kinds /\ "detail" \in Kinds /\ "contests" \in Kinds /\ "detail" \notin Registrations
      /\ "contests" \notin Registrations /\ DOMAIN net = Kinds /\ Tracked \subseteq Kinds
      /\ Registrations \subseteq Kinds /\ Tracked = Registrations \cup {"detail", "contests"}
  BY KindsAre DEF CallsFit, Tracked, Registrations
<1>1. CallsFit(w) /\ \A j \in Kinds : Of(w, j, u) = LeftOf(j, k, c, u)
  <2>1. CallsFit(w)
    BY <1>0, WithoutKeeps
  <2>2. WithoutIs(w, net, k, c)
    BY <1>0, OfWithout
  <2> QED
    BY <2>1, <2>2 DEF LeftOf, WithoutIs
<1>2. a.user = u /\ ~a.poll /\ Sent(a).to = a /\ Sent(a).phase = "sent"
  BY DEF Sent
<1>3. PICK m : m = LoadContestData(Without(net, k, c), u) /\ m = Asking(e, "detail", a)
  BY DEF LoadContestData
<1>a. \A j \in Kinds : \A v : v # u => Of(w, j, v) = Of(net, j, v)
  <2>1. WithoutIs(w, net, k, c)
    BY <1>0, OfWithout
  <2> QED
    BY <2>1 DEF WithoutIs
<1> HIDE DEF w, a
<1>4. /\ DOMAIN e = Kinds
      /\ \A j \in {"detail", "contests"} : \A v : Of(e, j, v) = Of(w, j, v)
      /\ \A j \in Registrations : Of(e, j, u) = TakenDown(Of(w, j, u))
      /\ \A j \in Registrations : \A v : v # u => Of(e, j, v) = Of(w, j, v)
  BY <1>1, OfDisowned
<1> HIDE DEF e
<1>5. /\ \A j \in Kinds : \A v : v # u => Of(m, j, v) = Of(e, j, v)
      /\ \A j \in Kinds : j # "detail" => Of(m, j, u) = Of(e, j, u)
      /\ Of(m, "detail", u) = Of(e, "detail", u) \cup {Sent(a)}
  <2>1. AskingIs(m, e, "detail", a)
    BY <1>0, <1>3, <1>4, OfAsking
  <2> QED
    BY <1>2, <2>1 DEF AskingIs
<1>7. NotOf(net, m, u)
  <2>1. \A j \in {"detail", "contests"} : \A v : v # u => Of(m, j, v) = Of(net, j, v)
    BY <1>0, <1>a, <1>4, <1>5
  <2>2. \A j \in Registrations : \A v : v # u => Of(m, j, v) = Of(net, j, v)
    BY <1>0, <1>a, <1>4, <1>5
  <2> QED
    BY <1>0, <2>1, <2>2 DEF NotOf
<1>8. Of(m, "detail", u) = Of(net, "detail", u) \cup {Sent(a)}
  <2>1. Of(w, "detail", u) = Of(net, "detail", u)
    BY <1>0, <1>1 DEF LeftOf
  <2> QED
    BY <1>4, <1>5, <2>1
<1>9. Of(m, "contests", u) = LeftOf("contests", k, c, u)
  BY <1>0, <1>1, <1>4, <1>5
<1>11. \A j \in Registrations : Of(m, j, u) = TakenDown(LeftOf(j, k, c, u))
  <2>1. \A j \in Registrations : j # "detail" /\ j \in Kinds
    BY <1>0
  <2> QED
    BY <1>1, <1>4, <1>5, <2>1
<1> QED
  BY <1>2, <1>3, <1>7, <1>8, <1>9, <1>11 DEF DetailAsked

\* A step of the page of u, over the calls of u.
LEMMA PageActs ==
    ASSUME StoredInv, UNCHANGED server, NEW u, NEW p, Turns(u, p), NotOf(net, net', u),
           u \in Users => /\ LoadFields \subseteq DOMAIN p /\ p.loading \in BOOLEAN /\ p.crossed \in BOOLEAN
                          /\ ~p.crossed => ~page[u].crossed,
           u \in Users /\ StoredFor(u) /\ ~p.crossed /\ page'[u] = p => StoredFor(u)'
    PROVE  StoredInv'
<1>1. PagesLoad' /\ \A v \in Users : page'[v] = IF v = u THEN p ELSE page[v]
  BY PageTurned DEF StoredInv
<1>2. \A v \in Users : v # u => Aside(v)
  BY <1>1 DEF Aside, NotOf, HandlersOf, OnTeam
<1>3. u \in Users /\ ~page'[u].crossed => StoredFor(u)'
  BY <1>1 DEF StoredInv
<1> QED
  BY <1>1, <1>2, <1>3, OneActs

LEMMA ContestsStored ==
    ASSUME StoredInv, CallsFit(net), DeliverContests
    PROVE  StoredInv'
<1>1. PICK c \in net["contests"] :
         /\ UNCHANGED server
         /\ \/ net' = LoadContestData(Without(net, "contests", c), c.to.user) /\ UNCHANGED page
            \/ Take("contests", c) /\ Turns(c.to.user, [page[c.to.user] EXCEPT !.loading = FALSE])
  BY DEF DeliverContests, Same, Came
<1>2. PICK u : u = c.to.user
  OBVIOUS
<1>3. c \in Of(net, "contests", u)
  BY <1>2 DEF Of
<1>4. /\ HandlersOf(u)' = HandlersOf(u) /\ \A t : OnTeam(u, t)' <=> OnTeam(u, t)
  BY <1>1 DEF HandlersOf, OnTeam
<1>5. ASSUME net' = LoadContestData(Without(net, "contests", c), u), UNCHANGED page
      PROVE  StoredInv'
  <2>1. /\ NotOf(net, net', u)
        /\ \E d : /\ d.to.user = u /\ ~d.to.poll /\ d.phase = "sent"
                  /\ Of(net', "detail", u) = Of(net, "detail", u) \cup {d}
        /\ Of(net', "contests", u) = Of(net, "contests", u) \ {c}
        /\ \A j \in Registrations : Of(net', j, u) = TakenDown(Of(net, j, u))
    <3>1. DetailAsked(net', "contests", c, u)
      BY <1>2, <1>5, LoadsDetail
    <3> QED
      BY <3>1 DEF DetailAsked, LeftOf, Registrations
  <2>2. PagesLoad'
    BY <1>5 DEF StoredInv, PagesLoad
  <2>3. \A v \in Users : v # u => Aside(v)
    BY <1>1, <1>5, <2>1 DEF Aside, NotOf, HandlersOf, OnTeam
  <2>4. ASSUME u \in Users, ~page'[u].crossed
        PROVE  StoredFor(u)'
    <3>0. StoredFor(u)
      BY <1>5, <2>4 DEF StoredInv
    <3>1. ~HasTeam(u) /\ Of(net, "detail", u) = {} /\ ~Requesting(u) /\ page[u].loading
      BY <1>3, <3>0 DEF StoredFor
    <3>2. HandlersOf(u)' = {} /\ \A j \in Registrations : Of(net', j, u) = {}
      BY <1>4, <2>1, <3>1 DEF Requesting, TakenDown
    <3>3. ~Requesting(u)' /\ ~HasTeam(u)' /\ page'[u].loading
      BY <1>5, <3>1, <3>2 DEF Requesting, HasTeam
    <3>4. Of(net', "contests", u) = {}
      BY <1>3, <2>1, <3>0 DEF StoredFor
    <3>5. OneRegistration(net', HandlersOf(u)', u)
      BY <3>2 DEF OneRegistration
    <3>6. PICK d : ~d.to.poll /\ d.phase = "sent" /\ Of(net', "detail", u) = {d}
      BY <2>1, <3>1
    <3> QED
      BY <3>3, <3>4, <3>5, <3>6 DEF StoredFor, DetailFits
  <2> QED
    BY <2>2, <2>3, <2>4, OneActs
<1>6. ASSUME Take("contests", c), NEW p, p = [page[u] EXCEPT !.loading = FALSE], Turns(u, p)
      PROVE  StoredInv'
  <2>1. /\ \A k \in Kinds : \A v : k # "contests" \/ v # u => Of(net', k, v) = Of(net, k, v)
        /\ Of(net', "contests", u) = Of(net, "contests", u) \ {c}
    <3>0. DOMAIN net = Kinds /\ "contests" \in Kinds
      BY KindsAre DEF CallsFit
    <3>1. WithoutIs(net', net, "contests", c)
      BY <1>6, <3>0, OfWithout DEF Take
    <3> QED
      BY <1>2, <3>1 DEF WithoutIs
  <2>2. NotOf(net, net', u)
    BY <2>1, TrackedAre DEF NotOf
  <2>3. u \in Users => /\ LoadFields \subseteq DOMAIN p /\ p.loading = FALSE /\ p.team = page[u].team
                       /\ p.crossed = page[u].crossed /\ p.crossed \in BOOLEAN
    BY <1>6 DEF StoredInv, PagesLoad, LoadFields
  <2>4. ASSUME u \in Users, StoredFor(u), page'[u] = p
        PROVE  StoredFor(u)'
    <3>1. ~HasTeam(u) /\ Of(net, "detail", u) = {} /\ ~Requesting(u)
      BY <1>3, <2>4 DEF StoredFor
    <3>2. /\ Of(net', "detail", u) = {} /\ \A j \in Registrations : Of(net', j, u) = Of(net, j, u)
          /\ Of(net', "contests", u) = Of(net, "contests", u) \ {c}
      BY <2>1, <3>1, KindsAre DEF Registrations
    <3>3. HandlersOf(u)' = {} /\ \A j \in Registrations : Of(net', j, u) = {}
      BY <1>4, <3>1, <3>2 DEF Requesting
    <3>4. ~Requesting(u)' /\ ~HasTeam(u)'
      BY <2>3, <2>4, <3>1, <3>3 DEF Requesting, HasTeam
    <3>5. OneRegistration(net', HandlersOf(u)', u)
      BY <3>3 DEF OneRegistration
    <3>6. Of(net', "contests", u) = {}
      BY <1>3, <2>4, <3>2 DEF StoredFor
    <3> QED
      BY <3>2, <3>4, <3>5, <3>6 DEF StoredFor
  <2> QED
    BY <1>1, <1>6, <2>2, <2>3, <2>4, PageActs
<1> QED
  BY <1>1, <1>2, <1>5, <1>6

\* The contest that was asked for is heard of.
LEMMA DetailHeard ==
    ASSUME UNCHANGED server, NEW u, StoredFor(u), NEW c \in Of(net, "detail", u), NEW p, page'[u] = p,
           Of(net', "detail", u) = Of(net, "detail", u) \ {c},
           Of(net', "contests", u) = Of(net, "contests", u),
           \A k \in Registrations : Of(net', k, u) \in {Of(net, k, u), TakenDown(Of(net, k, u))},
           p.loading = IF c.to.poll THEN page[u].loading ELSE FALSE,
           p.team = IF c.phase = "answered" THEN c.ans.team ELSE page[u].team
    PROVE  StoredFor(u)'
<1>1. ~Requesting(u) /\ Of(net, "contests", u) = {} /\ DetailFits(c, u)
  BY DEF StoredFor
<1>2. /\ HandlersOf(u)' = HandlersOf(u) /\ \A t : OnTeam(u, t)' <=> OnTeam(u, t)
  BY DEF HandlersOf, OnTeam
<1>3. HandlersOf(u)' = {} /\ \A k \in Registrations : Of(net', k, u) = {}
  BY <1>1, <1>2 DEF Requesting, TakenDown
<1>4. ~Requesting(u)' /\ Of(net', "contests", u) = {}
  BY <1>1, <1>3 DEF Requesting
<1>5. OneRegistration(net', HandlersOf(u)', u)
  BY <1>3 DEF OneRegistration
<1>6. HasTeam(u) <=> page[u].team # 0
  BY DEF HasTeam
<1>7. HasTeam(u)' <=> p.team # 0
  BY DEF HasTeam
<1>8. HasTeam(u)' => OnTeam(u, page[u].team)'
  <2>1. p.team # 0 => OnTeam(u, p.team)
    BY <1>1, <1>6 DEF StoredFor, DetailFits
  <2> QED
    BY <1>7, <2>1 DEF OnTeam
<1>9. ASSUME NEW d \in Of(net', "detail", u)
      PROVE  DetailFits(d, u)'
  <2>1. DetailFits(d, u) /\ d # c /\ (~d.to.poll => c.to.poll)
    BY <1>9 DEF StoredFor
  <2>2. IF d.to.poll THEN HasTeam(u)' ELSE p.loading
    BY <1>1, <1>6, <1>7, <2>1 DEF DetailFits
  <2>3. d.phase = "answered" => IF d.ans.team = 0 THEN ~HasTeam(u)' ELSE OnTeam(u, d.ans.team)'
    BY <1>1, <1>2, <1>6, <1>7, <2>1 DEF DetailFits
  <2> QED
    BY <2>2, <2>3 DEF DetailFits
<1>10. \A d, e \in Of(net', "detail", u) : ~d.to.poll /\ ~e.to.poll => d = e
  BY DEF StoredFor
<1> QED
  BY <1>4, <1>5, <1>8, <1>9, <1>10 DEF StoredFor

LEMMA DetailStored ==
    ASSUME StoredInv, CallsFit(net), DeliverDetail
    PROVE  StoredInv'
<1>1. PICK c \in net["detail"] :
         LET u == c.to.user
             p == [page[u] EXCEPT !.loading = IF c.to.poll THEN @ ELSE FALSE]
         IN  /\ UNCHANGED server
             /\ IF c.phase # "answered" THEN Take("detail", c) /\ Turns(u, p)
                ELSE IF c.ans.team # 0
                THEN /\ net' = Disowned(Without(net, "detail", c), u)
                     /\ Turns(u, [p EXCEPT !.contest = TRUE, !.team = c.ans.team, !.open = c.ans.open,
                                    !.mode = "create", !.busy = FALSE, !.listed = FALSE, !.list = {}])
                ELSE /\ Take("detail", c)
                     /\ Turns(u, [p EXCEPT !.contest = TRUE, !.team = 0, !.open = c.ans.open])
  BY Zenon DEF DeliverDetail, Same, Came, Ok
<1>2. PICK u : u = c.to.user
  OBVIOUS
<1>3. c \in Of(net, "detail", u)
  BY <1>2 DEF Of
<1>4. PICK loading : loading = IF c.to.poll THEN page[u].loading ELSE FALSE
  OBVIOUS
<1>5. PICK q : q = [page[u] EXCEPT !.loading = loading]
  OBVIOUS
<1>6. q = [page[u] EXCEPT !.loading = IF c.to.poll THEN @ ELSE FALSE]
  BY <1>4, <1>5
<1>7. PICK p : /\ Turns(u, p)
               /\ \/ c.phase # "answered" /\ p = q /\ net' = Without(net, "detail", c)
                  \/ /\ c.phase = "answered"
                     /\ p = [q EXCEPT !.contest = TRUE, !.team = c.ans.team, !.open = c.ans.open,
                                    !.mode = "create", !.busy = FALSE, !.listed = FALSE, !.list = {}]
                     /\ net' = Disowned(Without(net, "detail", c), u)
                  \/ /\ c.phase = "answered" /\ c.ans.team = 0
                     /\ p = [q EXCEPT !.contest = TRUE, !.team = 0, !.open = c.ans.open]
                     /\ net' = Without(net, "detail", c)
  BY <1>1, <1>2, <1>6, Zenon DEF Take
<1>8. u \in Users => /\ LoadFields \subseteq DOMAIN p /\ p.loading \in BOOLEAN
                     /\ p.crossed = page[u].crossed /\ p.crossed \in BOOLEAN
                     /\ p.loading = IF c.to.poll THEN page[u].loading ELSE FALSE
                     /\ p.team = IF c.phase = "answered" THEN c.ans.team ELSE page[u].team
  <2>1. u \in Users => /\ LoadFields \subseteq DOMAIN q /\ q.loading = loading /\ loading \in BOOLEAN
                       /\ q.crossed = page[u].crossed /\ q.crossed \in BOOLEAN /\ q.team = page[u].team
    BY <1>4, <1>5 DEF StoredInv, PagesLoad, LoadFields
  <2> QED
    BY <1>4, <1>7, <2>1 DEF LoadFields
<1>9. WithoutIs(Without(net, "detail", c), net, "detail", c) /\ CallsFit(Without(net, "detail", c))
  BY OfWithout, WithoutKeeps, KindsAre DEF CallsFit
<1>10. /\ NotOf(net, net', u)
       /\ Of(net', "detail", u) = Of(net, "detail", u) \ {c}
       /\ Of(net', "contests", u) = Of(net, "contests", u)
       /\ \A k \in Registrations : Of(net', k, u) \in {Of(net, k, u), TakenDown(Of(net, k, u))}
  <2>0. PICK w : w = Without(net, "detail", c)
    OBVIOUS
  <2>1. /\ NotOf(net, w, u)
        /\ Of(w, "detail", u) = Of(net, "detail", u) \ {c}
        /\ Of(w, "contests", u) = Of(net, "contests", u)
        /\ \A k \in Registrations : Of(w, k, u) = Of(net, k, u)
    BY <1>2, <1>9, <2>0, TrackedAre, KindsAre DEF WithoutIs, NotOf, Registrations
  <2>2. CASE net' = w
    BY <2>1, <2>2
  <2>3. CASE net' = Disowned(w, u)
    <3>1. /\ \A k \in {"detail", "contests"} : \A v : Of(net', k, v) = Of(w, k, v)
          /\ \A k \in Registrations : \A v : v # u => Of(net', k, v) = Of(w, k, v)
          /\ \A k \in Registrations : Of(net', k, u) = TakenDown(Of(w, k, u))
      <4>1. \A v : /\ \A k \in {"detail", "contests"} : Of(Disowned(w, u), k, v) = Of(w, k, v)
                   /\ \A k \in Registrations :
                         Of(Disowned(w, u), k, v) = IF u = v THEN TakenDown(Of(w, k, u)) ELSE Of(w, k, v)
        BY <1>9, <2>0, OfDisowned
      <4> QED
        BY <2>3, <4>1
    <3>2. \A k \in Tracked : \A v : v # u => Of(net', k, v) = Of(w, k, v)
      BY <3>1 DEF Tracked, Registrations
    <3> QED
      BY <2>1, <3>1, <3>2 DEF NotOf
  <2> QED
    BY <1>7, <2>0, <2>2, <2>3
<1>11. UNCHANGED server
  BY <1>1
<1>12. u \in Users /\ StoredFor(u) /\ page'[u] = p => StoredFor(u)'
  BY <1>3, <1>8, <1>10, <1>11, DetailHeard
<1> QED
  BY <1>7, <1>8, <1>10, <1>11, <1>12, PageActs

\* The request of a contestant is heard of: on success nothing works for it any more.
LEMMA RegisteredStored ==
    ASSUME StoredInv, CallsFit(net), DeliverRegistered
    PROVE  StoredInv'
<1>a. PICK kind \in Registrations : \E c \in net[kind] :
         /\ UNCHANGED server
         /\ IF c.phase = "answered"
            THEN /\ net' = LoadContestData(Without(net, kind, c), c.to.user)
                 /\ Turns(c.to.user, Loading(page[c.to.user]))
            ELSE /\ net' = Without(net, kind, c)
                 /\ Turns(c.to.user, [page[c.to.user] EXCEPT !.busy = IF c.to.here THEN FALSE ELSE @])
  BY Zenon DEF DeliverRegistered, Same, Came, Ok, Take, Registrations
<1>b. PICK c \in net[kind] :
         /\ UNCHANGED server
         /\ IF c.phase = "answered"
            THEN /\ net' = LoadContestData(Without(net, kind, c), c.to.user)
                 /\ Turns(c.to.user, Loading(page[c.to.user]))
            ELSE /\ net' = Without(net, kind, c)
                 /\ Turns(c.to.user, [page[c.to.user] EXCEPT !.busy = IF c.to.here THEN FALSE ELSE @])
  BY <1>a, Zenon
<1>1. PICK u : u = c.to.user
  OBVIOUS
<1>2. PICK b : b = IF c.to.here THEN FALSE ELSE page[u].busy
  OBVIOUS
<1>3. PICK p : /\ Turns(u, p)
               /\ \/ /\ c.phase = "answered" /\ p = Loading(page[u])
                     /\ net' = LoadContestData(Without(net, kind, c), u)
                  \/ /\ c.phase # "answered" /\ p = [page[u] EXCEPT !.busy = b]
                     /\ net' = Without(net, kind, c)
  <2>1. [page[u] EXCEPT !.busy = b] = [page[u] EXCEPT !.busy = IF c.to.here THEN FALSE ELSE @]
    BY <1>2
  <2> QED
    BY <1>b, <1>1, <2>1, Zenon
<1>4. kind \in {"create", "join"} /\ c \in Of(net, kind, u) /\ UNCHANGED server
  BY <1>1, <1>b DEF Of, Registrations
<1>5. u \in Users => /\ LoadFields \subseteq DOMAIN p /\ p.loading \in BOOLEAN
                     /\ p.crossed = page[u].crossed /\ p.crossed \in BOOLEAN
                     /\ p.team = page[u].team
                     /\ p.loading = IF c.phase = "answered" THEN TRUE ELSE page[u].loading
  BY <1>3 DEF StoredInv, PagesLoad, LoadFields, Loading
<1>6. HandlersOf(u)' = HandlersOf(u)
  BY <1>4 DEF HandlersOf
<1>7. ASSUME StoredFor(u)
      PROVE  /\ ~HasTeam(u) /\ Of(net, "detail", u) = {} /\ Of(net, "contests", u) = {}
             /\ \A k \in Registrations : Of(net, k, u) = IF k = kind THEN {c} ELSE {}
             /\ c.phase = "answered" => HandlersOf(u) = {}
             /\ \A h, g \in HandlersOf(u) : h = g
  <2>1. Requesting(u)
    BY <1>4 DEF Requesting
  <2>2. OneRegistration(net, HandlersOf(u), u)
    BY <1>7 DEF StoredFor
  <2> QED
    BY <1>4, <1>7, <2>1, <2>2 DEF StoredFor, OneRegistration
<1>8. CASE c.phase = "answered"
  <2>0. DetailAsked(net', kind, c, u)
    BY <1>1, <1>3, <1>4, <1>8, LoadsDetail
  <2>1. ASSUME u \in Users, StoredFor(u), page'[u] = p
        PROVE  StoredFor(u)'
    <3>1. \A k \in Registrations : Of(net', k, u) = {}
      BY <1>7, <2>0, <2>1 DEF DetailAsked, LeftOf, TakenDown
    <3>2. /\ Of(net', "contests", u) = {}
          /\ \E d : ~d.to.poll /\ d.phase = "sent" /\ Of(net', "detail", u) = {d}
      BY <1>4, <1>7, <2>0, <2>1 DEF DetailAsked, LeftOf
    <3>3. HandlersOf(u)' = {} /\ ~Requesting(u)'
      BY <1>6, <1>7, <1>8, <2>1, <3>1 DEF Requesting
    <3>4. ~HasTeam(u)' /\ page'[u].loading
      BY <1>5, <1>7, <1>8, <2>1 DEF HasTeam
    <3>5. OneRegistration(net', HandlersOf(u)', u)
      BY <3>1, <3>3 DEF OneRegistration
    <3> QED
      BY <3>2, <3>3, <3>4, <3>5 DEF StoredFor, DetailFits
  <2>2. NotOf(net, net', u)
    BY <2>0 DEF DetailAsked
  <2> QED
    BY <1>3, <1>4, <1>5, <2>1, <2>2, PageActs
<1>9. CASE c.phase # "answered"
  <2>0. WithoutIs(net', net, kind, c)
    BY <1>3, <1>4, <1>9, OfWithout, KindsAre DEF CallsFit
  <2>1. ASSUME u \in Users, StoredFor(u), page'[u] = p
        PROVE  StoredFor(u)'
    <3>1. \A k \in Registrations : Of(net', k, u) = {}
      BY <1>1, <1>7, <2>0, <2>1, TrackedAre DEF WithoutIs
    <3>2. Of(net', "contests", u) = {} /\ Of(net', "detail", u) = {}
      BY <1>4, <1>7, <2>0, <2>1, KindsAre DEF WithoutIs
    <3>4. ~HasTeam(u)'
      BY <1>5, <1>7, <2>1 DEF HasTeam
    <3>5. OneRegistration(net', HandlersOf(u)', u)
      BY <1>6, <1>7, <2>1, <3>1 DEF OneRegistration
    <3> QED
      BY <3>2, <3>4, <3>5 DEF StoredFor
  <2>2. NotOf(net, net', u)
    BY <1>1, <2>0, TrackedAre DEF WithoutIs, NotOf
  <2> QED
    BY <1>3, <1>4, <1>5, <2>1, <2>2, PageActs
<1> QED
  BY <1>8, <1>9

\* One who has a team looks again.
LEMMA RefreshStored ==
    ASSUME StoredInv, DOMAIN net = Kinds, NEW u \in Users, Refresh(u)
    PROVE  StoredInv'
<1> DEFINE a == [user |-> u, poll |-> TRUE]
<1>1. /\ HasTeam(u) /\ net' = Asking(net, "detail", a) /\ UNCHANGED <<page, server>>
  BY DEF Refresh, Ask, Same
<1>2. a.user = u /\ a.poll /\ Sent(a).to = a /\ Sent(a).phase = "sent"
  BY DEF Sent
<1>3. AskingIs(net', net, "detail", a)
  BY <1>1, OfAsking, KindsAre
<1> HIDE DEF a
<1>4. NotOf(net, net', u)
  BY <1>2, <1>3, TrackedAre DEF NotOf, AskingIs
<1>5. /\ Of(net', "detail", u) = Of(net, "detail", u) \cup {Sent(a)}
      /\ Of(net', "contests", u) = Of(net, "contests", u)
      /\ \A k \in Registrations : Of(net', k, u) = Of(net, k, u)
  BY <1>2, <1>3, KindsAre DEF AskingIs, Registrations
<1>6. PagesLoad' /\ HandlersOf(u)' = HandlersOf(u)
  BY <1>1 DEF StoredInv, PagesLoad, HandlersOf
<1>7. \A v \in Users : v # u => Aside(v)
  BY <1>1, <1>4 DEF Aside, NotOf, HandlersOf, OnTeam
<1>8. ASSUME ~page'[u].crossed
      PROVE  StoredFor(u)'
  <2>1. StoredFor(u) /\ ~Requesting(u) /\ Of(net, "contests", u) = {}
    BY <1>1, <1>8 DEF StoredInv, StoredFor
  <2>2. HasTeam(u)' /\ ~Requesting(u)' /\ Of(net', "contests", u) = {} /\ OnTeam(u, page[u].team)'
    BY <1>1, <1>5, <1>6, <2>1 DEF HasTeam, Requesting, StoredFor, OnTeam
  <2>3. OneRegistration(net', HandlersOf(u)', u)
    BY <1>5, <1>6, <2>2 DEF Requesting, OneRegistration
  <2>4. \A d \in Of(net', "detail", u) : DetailFits(d, u)'
    <3>1. ASSUME NEW d \in Of(net, "detail", u)
          PROVE  DetailFits(d, u)'
      BY <1>1, <2>1 DEF StoredFor, DetailFits, HasTeam, OnTeam
    <3>2. DetailFits(Sent(a), u)'
      BY <1>2, <2>2 DEF DetailFits
    <3> QED
      BY <1>5, <3>1, <3>2
  <2>5. \A c, d \in Of(net', "detail", u) : ~c.to.poll /\ ~d.to.poll => c = d
    BY <1>2, <1>5, <2>1 DEF StoredFor
  <2> QED
    BY <2>2, <2>3, <2>4, <2>5 DEF StoredFor
<1> QED
  BY <1>6, <1>7, <1>8, OneActs

\* A request is sent from a page that is loaded, by one who has no team.
LEMMA SendsStored ==
    ASSUME StoredInv, DOMAIN net = Kinds, NEW u \in Users, LandingShown(u), NEW kind \in Registrations,
           NEW team, NEW mates, NEW open, Sends(u, kind, team, mates, open)
    PROVE  StoredInv'
<1> DEFINE a == [user |-> u, n |-> page[u].tries + 1, here |-> TRUE,
                 team |-> team, mates |-> mates, open |-> open]
<1>1. net' = Asking(net, kind, a) /\ UNCHANGED server
  BY DEF Sends, Ask, Same
<1>2. a.user = u /\ Sent(a).to = a /\ Sent(a).phase = "sent"
  BY DEF Sent
<1>3. AskingIs(net', net, kind, a)
  BY <1>1, OfAsking, KindsAre DEF Registrations
<1> HIDE DEF a
<1>4. NotOf(net, net', u)
  BY <1>2, <1>3, TrackedAre DEF NotOf, AskingIs
<1>5. /\ Of(net', "detail", u) = Of(net, "detail", u)
      /\ Of(net', "contests", u) = Of(net, "contests", u)
      /\ \A k \in Registrations : Of(net', k, u) = IF k = kind THEN Of(net, k, u) \cup {Sent(a)} ELSE Of(net, k, u)
  <2>1. kind \in Kinds /\ kind # "detail" /\ kind # "contests" /\ Registrations \subseteq Kinds
    BY KindsAre DEF Registrations
  <2> QED
    BY <1>2, <1>3, <2>1, KindsAre DEF AskingIs
<1>6. HandlersOf(u)' = HandlersOf(u)
  BY <1>1 DEF HandlersOf
<1>a. PICK x : x = \/ page[u].crossed
                   \/ \E k \in {"create", "join"} : \E c \in net[k] : c.to.user = u
                   \/ \E h \in server.running : h.user = u
  OBVIOUS
<1>b. x \in BOOLEAN /\ (~x => ~page[u].crossed /\ ~Requesting(u))
  BY <1>a DEF StoredInv, PagesLoad, Requesting, Of, HandlersOf, Registrations
<1>7. PICK p : Turns(u, p) /\ p = [page[u] EXCEPT !.busy = TRUE, !.tries = @ + 1, !.crossed = x]
  <2>1. x = (page[u].crossed \/ (\E k \in {"create", "join"} : \E c \in net[k] : c.to.user = u)
                            \/ (\E h \in server.running : h.user = u))
    BY <1>a
  <2> QED
    BY <2>1, Zenon DEF Sends
<1>8. /\ LoadFields \subseteq DOMAIN p /\ p.loading = page[u].loading /\ p.crossed = x
      /\ p.loading \in BOOLEAN /\ p.crossed \in BOOLEAN /\ p.team = page[u].team
  BY <1>7, <1>b DEF StoredInv, PagesLoad, LoadFields
<1>9. ASSUME StoredFor(u), ~p.crossed, page'[u] = p
      PROVE  StoredFor(u)'
  <2>1. ~Requesting(u) /\ ~page[u].loading /\ ~HasTeam(u)
    BY <1>8, <1>9, <1>b DEF LandingShown, HasTeam
  <2>2. Of(net, "contests", u) = {} /\ Of(net, "detail", u) = {}
    BY <1>9, <2>1 DEF StoredFor, DetailFits
  <2>3. Of(net', "contests", u) = {} /\ Of(net', "detail", u) = {} /\ ~HasTeam(u)'
    BY <1>5, <1>8, <1>9, <2>1, <2>2 DEF HasTeam
  <2>4. /\ HandlersOf(u)' = {}
        /\ \A k \in Registrations : Of(net', k, u) = IF k = kind THEN {Sent(a)} ELSE {}
    BY <1>5, <1>6, <2>1 DEF Requesting
  <2>5. OneRegistration(net', HandlersOf(u)', u)
    BY <2>4 DEF OneRegistration
  <2> QED
    BY <2>3, <2>5 DEF StoredFor
<1> QED
  BY <1>1, <1>4, <1>7, <1>8, <1>9, <1>b, PageActs

\* Another tab of the landing page: the form goes, its call does not.
LEMMA SetModeStored ==
    ASSUME StoredInv, CallsFit(net), NEW u \in Users, NEW m \in Modes, SetMode(u, m)
    PROVE  StoredInv'
<1> DEFINE a == [user |-> u, here |-> TRUE]
<1>1. PICK e : e = Disowned(net, u) /\ (net' = e \/ net' = Asking(e, "open", a)) /\ UNCHANGED server
  BY DEF SetMode, Same
<1>2. a.user = u
  OBVIOUS
<1> HIDE DEF a
<1>3. \A v : /\ DOMAIN e = Kinds
             /\ \A k \in {"detail", "contests"} : Of(e, k, v) = Of(net, k, v)
             /\ \A k \in Registrations : Of(e, k, v) = IF u = v THEN TakenDown(Of(net, k, u)) ELSE Of(net, k, v)
  BY <1>1, OfDisowned
<1>4. \A k \in Tracked : \A v : Of(net', k, v) = Of(e, k, v)
  <2>1. CASE net' = Asking(e, "open", a)
    <3>1. AskingIs(net', e, "open", a)
      BY <1>3, <2>1, OfAsking, KindsAre
    <3> QED
      BY <3>1, TrackedAre DEF AskingIs, Tracked
  <2> QED
    BY <1>1, <2>1
<1>5. NotOf(net, net', u)
  BY <1>3, <1>4 DEF NotOf, Tracked, Registrations
<1>6. /\ Of(net', "detail", u) = Of(net, "detail", u)
      /\ Of(net', "contests", u) = Of(net, "contests", u)
      /\ \A k \in Registrations : Of(net', k, u) = TakenDown(Of(net, k, u))
  BY <1>3, <1>4 DEF Tracked, Registrations
<1>7. PICK p : Turns(u, p) /\ p = [page[u] EXCEPT !.mode = m, !.busy = FALSE, !.listed = FALSE, !.list = {}]
  BY Zenon DEF SetMode
<1>8. /\ LoadFields \subseteq DOMAIN p /\ p.loading = page[u].loading /\ p.crossed = page[u].crossed
      /\ p.loading \in BOOLEAN /\ p.crossed \in BOOLEAN /\ p.team = page[u].team
  BY <1>7 DEF StoredInv, PagesLoad, LoadFields
<1>9. HandlersOf(u)' = HandlersOf(u) /\ \A t : OnTeam(u, t)' <=> OnTeam(u, t)
  BY <1>1 DEF HandlersOf, OnTeam
<1>10. ASSUME StoredFor(u), page'[u] = p
       PROVE  StoredFor(u)'
  <2>1. (HasTeam(u)' <=> HasTeam(u)) /\ page'[u].team = page[u].team
    BY <1>8, <1>10 DEF HasTeam
  <2>2. Requesting(u)' <=> Requesting(u)
    BY <1>6, <1>9 DEF Requesting, TakenDown
  <2>3. \A d \in Of(net', "detail", u) : DetailFits(d, u)'
    BY <1>6, <1>8, <1>9, <1>10, <2>1 DEF StoredFor, DetailFits
  <2>4. OneRegistration(net', HandlersOf(u), u)
    <3>1. OneRegistration(net, HandlersOf(u), u)
      BY <1>10 DEF StoredFor
    <3>2. \A k \in Registrations : \A c \in Of(net', k, u) : \E d \in Of(net, k, u) :
             c = Down(d) /\ c.phase = d.phase /\ c.to.n = d.to.n
      <4>1. \A k \in Registrations : \A d \in Of(net, k, u) : CallFits(d)
        BY DEF CallsFit, Of
      <4>2. \A k \in Registrations : \A c \in Of(net', k, u) : \E d \in Of(net, k, u) : c = Down(d)
        BY <1>6 DEF TakenDown
      <4> QED
        BY <4>1, <4>2, DownIs
    <3>3. \A j, k \in Registrations : \A c \in Of(net', j, u), d \in Of(net', k, u) : j = k /\ c = d
      BY <3>1, <3>2 DEF OneRegistration
    <3>4. \A g, h \in HandlersOf(u) : g = h
      BY <3>1 DEF OneRegistration
    <3>5. \A k \in Registrations : \A c \in Of(net', k, u), h \in HandlersOf(u) :
             c.phase # "answered" /\ (c.phase = "sent" => h.kind = k /\ h.n = c.to.n)
      BY <3>1, <3>2 DEF OneRegistration
    <3> QED
      BY <3>3, <3>4, <3>5 DEF OneRegistration
  <2>5. OneRegistration(net', HandlersOf(u)', u)
    BY <1>9, <2>4
  <2>6. HasTeam(u)' => OnTeam(u, page[u].team)'
    <3>1. HasTeam(u) => OnTeam(u, page[u].team)
      BY <1>10 DEF StoredFor
    <3> QED
      BY <1>9, <2>1, <3>1 DEF OnTeam
  <2> QED
    BY <1>6, <1>8, <1>10, <2>1, <2>2, <2>3, <2>5, <2>6 DEF StoredFor
<1> QED
  BY <1>1, <1>5, <1>7, <1>8, <1>10, PageActs

-----------------------------------------------------------------------------
(* All steps *)

LEMMA InitialStored == ASSUME ContestInit  PROVE StoredInv
<1> DEFINE visited == "visit" \in does
           p == [loading |-> visited, contest |-> ~visited, team |-> 0, open |-> ~visited,
                 asking |-> FALSE, downloading |-> FALSE,
                 mode |-> "create", listed |-> FALSE, list |-> {}, busy |-> FALSE,
                 tries |-> 0, crossed |-> FALSE]
<1>1. /\ page = [u \in Users |-> p]
      /\ net = [NoCalls(Kinds) EXCEPT !["contests"] = IF visited THEN {Sent([user |-> u]) : u \in Here} ELSE {}]
  BY Zenon DEF ContestInit
<1>2. LoadFields \subseteq DOMAIN p /\ p.loading = visited /\ visited \in BOOLEAN /\ p.crossed = FALSE /\ p.team = 0
  BY DEF LoadFields
<1>3. server.running = {}
  BY DEF ContestInit, TeamsInit
<1>a. /\ net["contests"] = IF visited THEN {Sent([user |-> u]) : u \in Here} ELSE {}
      /\ \A k \in Kinds \ {"contests"} : net[k] = {}
  BY <1>1, KindsAre DEF NoCalls
<1> HIDE DEF p, visited
<1>4. PagesLoad
  BY <1>1, <1>2 DEF PagesLoad
<1>5. ASSUME NEW u \in Users
      PROVE  StoredFor(u)
  <2>1. Of(net, "detail", u) = {} /\ HandlersOf(u) = {} /\ \A k \in Registrations : Of(net, k, u) = {}
    BY <1>3, <1>a, KindsAre DEF Of, HandlersOf, Registrations
  <2>2. \A c \in Of(net, "contests", u) : c = Sent([user |-> u]) /\ visited
    <3>1. \A v : Sent([user |-> v]).to.user = v
      BY DEF Sent
    <3>2. \A c \in Of(net, "contests", u) : visited /\ \E v : c = Sent([user |-> v]) /\ v = u
      <4>1. \A c \in net["contests"] : visited /\ \E v : c = Sent([user |-> v])
        BY <1>a, <1>2
      <4> QED
        BY <3>1, <4>1 DEF Of
    <3> QED
      BY <3>2
  <2>3. page[u].loading = visited /\ ~HasTeam(u)
    BY <1>1, <1>2 DEF HasTeam
  <2>4. ~Requesting(u)
    BY <2>1 DEF Requesting
  <2>5. OneRegistration(net, HandlersOf(u), u)
    BY <2>1 DEF OneRegistration
  <2>6. Of(net, "contests", u) # {} => page[u].loading
    BY <2>2, <2>3
  <2>7. \A c, d \in Of(net, "contests", u) : c = d
    BY <2>2
  <2> QED
    BY <2>1, <2>3, <2>4, <2>5, <2>6, <2>7 DEF StoredFor
<1> QED
  BY <1>4, <1>5 DEF StoredInv

LEMMA StoredInductive ==
    ASSUME TeamsInv, StoredInv, [ContestNext]_contestVars
    PROVE  StoredInv'
<1>0. CallsFit(net) /\ ServerFits /\ DOMAIN net = Kinds
  BY DEF TeamsInv, CallsFit
<1>1. CASE DeliverContests
  BY <1>0, <1>1, ContestsStored
<1>2. CASE DeliverDetail
  BY <1>0, <1>2, DetailStored
<1>3. CASE DeliverRegistered
  BY <1>0, <1>3, RegisteredStored
<1>4. CASE DeliverOpenTeams \/ DeliverQuestion \/ DeliverClarifications \/ DeliverFile
  BY <1>0, <1>4, QuietSteps
<1>5. CASE \E u \in Users : AskQuestion(u) \/ Download(u)
  BY <1>0, <1>5, QuietSteps
<1>6. ASSUME NEW u \in Users, Refresh(u)
      PROVE  StoredInv'
  BY <1>0, <1>6, RefreshStored
<1>7. ASSUME NEW u \in Users, CreateTeam(u) \/ RegisterSolo(u) \/ Join(u)
      PROVE  StoredInv'
  <2>1. LandingShown(u)
    BY <1>7 DEF CreateTeam, RegisterSolo, Join, RegistrationOptions
  <2>2. \E kind \in Registrations : \E team, mates, open : Sends(u, kind, team, mates, open)
    BY <1>7 DEF CreateTeam, RegisterSolo, Join, Registrations
  <2> QED
    BY <1>0, <2>1, <2>2, SendsStored
<1>8. ASSUME NEW u \in Users, NEW m \in Modes, SetMode(u, m)
      PROVE  StoredInv'
  BY <1>0, <1>8, SetModeStored
<1>9. CASE Serve
  BY <1>9, ServeStored
<1>10. CASE Lose
  BY <1>0, <1>10, ReadsStored
<1>11. CASE UNCHANGED contestVars
  <2>1. PagesLoad' /\ \A u \in Users : Aside(u)
    BY <1>11 DEF contestVars, StoredInv, PagesLoad, Aside, HandlersOf, OnTeam
  <2> QED
    BY <2>1, AllAside
<1> QED
  BY <1>1, <1>2, <1>3, <1>4, <1>5, <1>6, <1>7, <1>8, <1>9, <1>10, <1>11 DEF ContestNext

LEMMA StoredIsShown == ASSUME StoredInv  PROVE TeamIsStored
BY DEF StoredInv, StoredFor, TeamIsStored, OnTeam

\* Whatever the others do meanwhile, and whatever calls are lost, the team on the page of
\* a contestant who never sends a request before the one before has ended is a team that
\* the server has them on (get_contest_public, DeliverDetail).
THEOREM TeamIsStoredInvariant ==
    ASSUME IsFiniteSet(Users), IsFiniteSet(Hosts), MaxSize \in Nat, Cardinality(Hosts) < MaxSize
    PROVE  ContestSpec => []TeamIsStored
<1>1. Assumptions
  BY DEF Assumptions
<1> DEFINE Inv == TeamsInv /\ StoredInv
<1>2. ContestInit => Inv
  BY <1>1, InitialTeams, InitialStored
<1>3. Inv /\ [ContestNext]_contestVars => Inv'
  BY <1>1, TeamsInductive, StoredInductive
<1>4. Inv => TeamIsStored
  BY StoredIsShown
<1> QED
  BY <1>2, <1>3, <1>4, PTL DEF ContestSpec
=============================================================================
