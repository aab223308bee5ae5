----------------------------- MODULE ContestTeams -----------------------------
(***************************************************************************)
(* Forming the teams of a contest (services/contest_service.py), by        *)
(* handlers that run at once: between two database calls of one, anything  *)
(* may happen in the others, and no index of contest_teams refuses what    *)
(* two of them write.  A handler goes on when the client gave it up.       *)
(***************************************************************************)
EXTENDS ClientCalls, Sequences

CONSTANTS
    Users,             \* the contestants
    Hosts,             \* the members of the open team there is at the beginning
    MinSize, MaxSize,  \* effective_sizes() of the registration settings
    Cap,               \* participants the contest takes
    MaxTries           \* bound: requests of one contestant

VARIABLES server

MaxTeams == 1 + MaxTries * Cardinality(Users)
Ids == 1 .. MaxTeams
Team == [members: SUBSET (Users \cup Hosts), is_open: BOOLEAN]

\* A request: whose, the how-manieth of theirs, whether the form that sent it is still
\* mounted; the team to join, or the mates for a new one and whether it is left open.
Request == [user: Users, n: 1 .. MaxTries, here: BOOLEAN,
            team: {0} \cup Ids, mates: SUBSET Users, open: BOOLEAN]

\* The handler of a request, at the database call it makes next.
Handler == [kind: {"create", "join"}, user: Users, n: 1 .. MaxTries,
            team: {0} \cup Ids, members: SUBSET Users, open: BOOLEAN,
            at: {"mine", "register", "existing", "insert", "team", "add", "reread", "pull", "close"}]

Server == [teams: Seq(Team), ended: BOOLEAN, running: SUBSET Handler]

TeamsInit(hosted) ==
    server = [teams |-> IF hosted THEN <<[members |-> Hosts, is_open |-> TRUE]>> ELSE <<>>,
              ended |-> FALSE, running |-> {}]

Size(t) == Cardinality(server.teams[t].members)
TeamsWith(us) == {t \in DOMAIN server.teams : server.teams[t].members \cap us # {}}
\* One who is on two teams takes part twice.
Participants ==
    Cardinality({m \in (DOMAIN server.teams) \X (Users \cup Hosts) : m[2] \in server.teams[m[1]].members})
RegistrationOpen == ~server.ended /\ Participants < Cap

-----------------------------------------------------------------------------
(* Handlers                                                                 *)

\* The call a handler works for, while the client waits for it.
CallsOf(h) == {c \in Asked(h.kind) : c.to.user = h.user /\ c.to.n = h.n}
Replies(h, ok) ==
    IF CallsOf(h) = {} THEN UNCHANGED net
    ELSE \E c \in CallsOf(h) : IF ok THEN Answer(h.kind, c, TRUE) ELSE Refuse(h.kind, c)

GoesOn(h, to) ==
    server' = [server EXCEPT !.running = (@ \ {h}) \cup {[h EXCEPT !.at = to]}] /\ UNCHANGED net
Ends(h, ok) == server' = [server EXCEPT !.running = @ \ {h}] /\ Replies(h, ok)
\* Go on if p, or refuse.
Checks(h, p, to) == IF p THEN GoesOn(h, to) ELSE Ends(h, FALSE)
Writes(h, to, teams) ==
    /\ server' = [server EXCEPT !.teams = teams, !.running = (@ \ {h}) \cup {[h EXCEPT !.at = to]}]
    /\ UNCHANGED net
WritesLast(h, ok, teams) ==
    server' = [server EXCEPT !.teams = teams, !.running = @ \ {h}] /\ Replies(h, ok)

\* The contest is read first: what it says then is what counts.
ServeRequest(kind) ==
    \E c \in Asked(kind) :
        LET members == {c.to.user} \cup c.to.mates
            h == [kind |-> kind, user |-> c.to.user, n |-> c.to.n, team |-> c.to.team,
                  members |-> members, open |-> c.to.open,
                  at |-> IF kind = "join" THEN "mine" ELSE "register"]
            tooSmall == Cardinality(members) < MinSize /\ ~(c.to.open /\ Cardinality(members) < MaxSize)
            refused == server.ended
                       \/ (kind = "create" /\ (tooSmall \/ Cardinality(members) > MaxSize))
        IN  /\ \A g \in server.running : <<g.user, g.n>> # <<h.user, h.n>>
            /\ IF refused THEN Refuse(kind, c) /\ UNCHANGED server
               ELSE UNCHANGED net /\ server' = [server EXCEPT !.running = @ \cup {h}]

\* join_open_team: get_my_team.
CheckMine(h) ==
    h.kind = "join" /\ h.at = "mine" /\ Checks(h, TeamsWith({h.user}) = {}, "register")

\* _check_can_register: a place for everyone who comes, by the count of now.
CheckCanRegister(h) ==
    /\ h.at = "register"
    /\ Checks(h, Participants + Cardinality(h.members) <= Cap,
              IF h.kind = "join" THEN "team" ELSE "existing")

\* create_team: none of the members is on a team.
CheckExisting(h) == h.at = "existing" /\ Checks(h, TeamsWith(h.members) = {}, "insert")

InsertTeam(h) ==
    /\ h.at = "insert"
    /\ WritesLast(h, TRUE, Append(server.teams,
           [members |-> h.members, is_open |-> h.open /\ Cardinality(h.members) < MaxSize]))

\* join_open_team: the team is open and has a place.
CheckTeam(h) ==
    /\ h.at = "team"
    /\ Checks(h, server.teams[h.team].is_open /\ Size(h.team) < MaxSize, "add")

\* The guarded $addToSet.
AddMember(h) ==
    /\ h.at = "add"
    /\ IF server.teams[h.team].is_open
       THEN Writes(h, "reread", [server.teams EXCEPT ![h.team].members = @ \cup {h.user}])
       ELSE Ends(h, FALSE)

\* Mutant: the team is taken to be as it was when its place was looked for.
Reread_Stale(h) == h.at = "reread" /\ Ends(h, TRUE)

\* The team is read again: too large, full, or with a place left.
Reread(h) ==
    /\ h.at = "reread"
    /\ IF Size(h.team) > MaxSize THEN GoesOn(h, "pull")
       ELSE IF Size(h.team) = MaxSize THEN GoesOn(h, "close")
       ELSE Ends(h, TRUE)

\* Another took the last place.
PullMember(h) ==
    h.at = "pull" /\ WritesLast(h, FALSE, [server.teams EXCEPT ![h.team].members = @ \ {h.user}])
CloseTeam(h) ==
    h.at = "close" /\ WritesLast(h, TRUE, [server.teams EXCEPT ![h.team].is_open = FALSE])

HandlerStep(h) ==
    \/ CheckMine(h) \/ CheckCanRegister(h) \/ CheckExisting(h) \/ InsertTeam(h)
    \/ CheckTeam(h) \/ AddMember(h) \/ Reread(h) \/ PullMember(h) \/ CloseTeam(h)

\* An admin stops the contest: handlers that run hold the contest as it was.
EndContest == ~server.ended /\ server' = [server EXCEPT !.ended = TRUE] /\ UNCHANGED net

-----------------------------------------------------------------------------
(* Reads                                                                    *)

\* get_contest_public: the caller's own team, and whether one can register.
Detail(u) == [team |-> IF TeamsWith({u}) = {} THEN 0 ELSE CHOOSE t \in TeamsWith({u}) : TRUE,
              open |-> RegistrationOpen]
OpenTeams == {t \in DOMAIN server.teams : server.teams[t].is_open /\ Size(t) < MaxSize}

ServeDetail == \E c \in Asked("detail") : Answer("detail", c, Detail(c.to.user)) /\ UNCHANGED server
ServeOpenTeams == \E c \in Asked("open") : Answer("open", c, OpenTeams) /\ UNCHANGED server

-----------------------------------------------------------------------------
(* Properties                                                               *)

\* Joiners of the last places of a team each take one, look, and give it back when the
\* team is too large: once none of them is at it any more, the team has no more
\* members than it may, and a full one is no longer offered.
TeamsFit ==
    \A t \in DOMAIN server.teams :
        ~(\E h \in server.running : h.team = t /\ h.at \in {"reread", "pull", "close"})
            => Size(t) <= MaxSize /\ (Size(t) = MaxSize => ~server.teams[t].is_open)
=============================================================================
