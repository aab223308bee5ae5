------------------------------ MODULE WebContest ------------------------------
(***************************************************************************)
(* The contest page of the web client (pages/Contest.jsx with the landing  *)
(* page components/contest/ContestLanding.jsx), open at several            *)
(* contestants, over the handlers that form the teams.                     *)
(*                                                                         *)
(* Each of the three forms keeps its own "sending" flag: it is forgotten   *)
(* when the form is taken down by another tab of the landing page, and the *)
(* call goes on.  There is one contest; the five reads that load it are    *)
(* awaited together and are one call.                                      *)
(***************************************************************************)
EXTENDS ContestTeams

CONSTANTS Workloads

VARIABLES page, does

contestVars == <<page, server, net, lost, does>>

Kinds == {"contests", "detail", "open", "create", "join", "question", "clarifications", "file"}
Forms == {"open", "create", "join"}        \* the calls of the landing page
Modes == {"create", "join", "solo"}
Here == Users \cap does                    \* a workload names its contestants

Page == [loading: BOOLEAN, contest: BOOLEAN,          \* whether the contest was ever loaded
         team: {0} \cup Ids, open: BOOLEAN,
         asking: BOOLEAN, downloading: BOOLEAN,
         mode: Modes, listed: BOOLEAN, list: SUBSET Ids, busy: BOOLEAN,
         tries: 0 .. MaxTries,
         crossed: BOOLEAN]   \* history: a request was sent before another had ended

ContestTypeOK ==
    /\ page \in [Users -> Page] /\ server \in Server /\ does \in Workloads
    /\ lost \in 0 .. MaxLost /\ DOMAIN net = Kinds
    /\ \A k \in {"create", "join"} : \A c \in net[k] : c.to \in Request
    /\ \A u \in Users : page[u].busy => \E k \in {"create", "join"} : \E c \in net[k] : c.to.user = u /\ c.to.here

\* The page is just visited, or it has been loaded.
ContestInit ==
    /\ does \in Workloads /\ lost = 0
    /\ TeamsInit("hosted" \in does)
    /\ LET visited == "visit" \in does
       IN  /\ page = [u \in Users |-> [loading |-> visited, contest |-> ~visited,
                                       team |-> 0, open |-> ~visited,
                                       asking |-> FALSE, downloading |-> FALSE,
                                       mode |-> "create", listed |-> FALSE, list |-> {}, busy |-> FALSE,
                                       tries |-> 0, crossed |-> FALSE]]
           /\ net = [NoCalls(Kinds) EXCEPT !["contests"] =
                        IF visited THEN {Sent([user |-> u]) : u \in Here} ELSE {}]

Same == UNCHANGED <<server, lost, does>>
Turns(u, p) == page' = [page EXCEPT ![u] = p]

\* n once the form of u that is shown is taken down.
Disowned(n, u) ==
    [k \in Kinds |-> {IF k \in Forms /\ c.to.user = u THEN [c EXCEPT !.to.here = FALSE] ELSE c : c \in n[k]}]

-----------------------------------------------------------------------------
(* Contest                                                                  *)

\* loadContestData takes the landing page down, and the interval of a registered
\* contestant does not.
Loading(p) == [p EXCEPT !.loading = TRUE, !.mode = "create", !.busy = FALSE, !.listed = FALSE, !.list = {}]
LoadContestData(n, u) == Asking(Disowned(n, u), "detail", [user |-> u, poll |-> FALSE])

\* The contest that is live is loaded, or the newest; there may be none.
DeliverContests ==
    \E c \in Came("contests") :
        LET u == c.to.user
        IN  /\ IF Ok(c) /\ c.ans
               THEN net' = LoadContestData(Without(net, "contests", c), u) /\ UNCHANGED page
               ELSE Take("contests", c) /\ Turns(u, [page[u] EXCEPT !.loading = FALSE])
            /\ Same

DeliverDetail ==
    \E c \in Came("detail") :
        LET u == c.to.user
            p == [page[u] EXCEPT !.loading = IF c.to.poll THEN @ ELSE FALSE]
        IN  /\ IF ~Ok(c) THEN Take("detail", c) /\ Turns(u, p)
               ELSE IF c.ans.team # 0
               THEN /\ net' = Disowned(Without(net, "detail", c), u)
                    /\ Turns(u, [p EXCEPT !.contest = TRUE, !.team = c.ans.team, !.open = c.ans.open,
                                    !.mode = "create", !.busy = FALSE, !.listed = FALSE, !.list = {}])
               ELSE /\ Take("detail", c)
                    /\ Turns(u, [p EXCEPT !.contest = TRUE, !.team = 0, !.open = c.ans.open])
            /\ Same

HasTeam(u) == page[u].team # 0
Refresh(u) ==
    /\ "refresh" \in does /\ HasTeam(u) /\ Ask("detail", [user |-> u, poll |-> TRUE])
    /\ UNCHANGED page /\ Same

\* On the dashboard of a team: a question is sent and then the questions are read; one
\* file is downloaded at a time.
Dashboard(u) == ~page[u].loading /\ HasTeam(u) /\ "ask" \in does
AskQuestion(u) ==
    /\ Dashboard(u) /\ ~page[u].asking /\ Ask("question", [user |-> u])
    /\ Turns(u, [page[u] EXCEPT !.asking = TRUE]) /\ Same
DeliverQuestion ==
    \E c \in Came("question") :
        /\ IF Ok(c) THEN net' = Asking(Without(net, "question", c), "clarifications", c.to) /\ UNCHANGED page
           ELSE Take("question", c) /\ Turns(c.to.user, [page[c.to.user] EXCEPT !.asking = FALSE])
        /\ Same
DeliverClarifications ==
    \E c \in Came("clarifications") :
        /\ Take("clarifications", c)
        /\ Turns(c.to.user, [page[c.to.user] EXCEPT !.asking = FALSE]) /\ Same
Download(u) ==
    /\ Dashboard(u) /\ ~page[u].downloading /\ Ask("file", [user |-> u])
    /\ Turns(u, [page[u] EXCEPT !.downloading = TRUE]) /\ Same
DeliverFile ==
    \E c \in Came("file") :
        /\ Take("file", c)
        /\ Turns(c.to.user, [page[c.to.user] EXCEPT !.downloading = FALSE]) /\ Same

-----------------------------------------------------------------------------
(* ContestLanding                                                           *)

LandingShown(u) == ~page[u].loading /\ page[u].contest /\ page[u].team = 0 /\ u \in Here
RegistrationOptions(u) == LandingShown(u) /\ page[u].open

SetMode(u, m) ==
    /\ RegistrationOptions(u) /\ m # page[u].mode /\ m \in does
    /\ m = "join" => CanAsk("open", [user |-> u, here |-> TRUE])
    /\ net' = IF m = "join" THEN Asking(Disowned(net, u), "open", [user |-> u, here |-> TRUE])
              ELSE Disowned(net, u)
    /\ Turns(u, [page[u] EXCEPT !.mode = m, !.busy = FALSE, !.listed = FALSE, !.list = {}])
    /\ Same

DeliverOpenTeams ==
    \E c \in Came("open") :
        /\ Take("open", c)
        /\ IF ~c.to.here THEN UNCHANGED page
           ELSE Turns(c.to.user, [page[c.to.user] EXCEPT !.listed = TRUE, !.list = IF Ok(c) THEN c.ans ELSE {}])
        /\ Same

Sends(u, kind, team, mates, open) ==
    /\ ~page[u].busy /\ page[u].tries < (IF "again" \in does THEN MaxTries ELSE 1)
    /\ Ask(kind, [user |-> u, n |-> page[u].tries + 1, here |-> TRUE,
                  team |-> team, mates |-> mates, open |-> open])
    /\ Turns(u, [page[u] EXCEPT !.busy = TRUE, !.tries = @ + 1,
                    !.crossed = @ \/ (\E k \in {"create", "join"} : \E c \in net[k] : c.to.user = u)
                                  \/ (\E h \in server.running : h.user = u)])
    /\ Same

Mates(u) == IF "mates" \in does THEN {{}} \cup {{v} : v \in Here \ {u}} ELSE {{}}
CreateTeam(u) ==
    /\ RegistrationOptions(u) /\ page[u].mode = "create" /\ "create" \in does
    /\ \E mates \in Mates(u), open \in BOOLEAN : Sends(u, "create", 0, mates, open)
RegisterSolo(u) ==
    RegistrationOptions(u) /\ page[u].mode = "solo" /\ Sends(u, "create", 0, {}, FALSE)
Join(u) ==
    /\ RegistrationOptions(u) /\ page[u].mode = "join" /\ page[u].listed
    /\ \E t \in page[u].list : Sends(u, "join", t, {}, FALSE)

\* A form that was taken down still has the contest loaded again; one that is shown
\* gives its button back.
DeliverRegistered ==
    \E kind \in {"create", "join"} : \E c \in Came(kind) :
        LET u == c.to.user IN
        /\ IF Ok(c)
           THEN /\ net' = LoadContestData(Without(net, kind, c), u)
                /\ Turns(u, Loading(page[u]))
           ELSE /\ Take(kind, c)
                /\ Turns(u, [page[u] EXCEPT !.busy = IF c.to.here THEN FALSE ELSE @])
        /\ Same

-----------------------------------------------------------------------------
(* The server                                                               *)

\* What the page needs and the teams do not depend on.
ServeOther ==
    /\ \E k \in {"contests", "question", "clarifications", "file"} : \E c \in Asked(k) :
          (\E ans \in IF k = "contests" THEN BOOLEAN ELSE {TRUE} : Answer(k, c, ans))
          \/ (k \in {"question", "file"} /\ Refuse(k, c))
    /\ UNCHANGED server

Serve ==
    /\ \/ ServeDetail \/ ServeOpenTeams \/ ServeOther
       \/ (\E kind \in {"create", "join"} : ServeRequest(kind))
       \/ (\E h \in server.running : HandlerStep(h))
       \/ ("ends" \in does /\ EndContest)
    /\ UNCHANGED <<page, lost, does>>

Lose ==
    /\ "lose" \in does /\ \E k \in Kinds : \E c \in net[k] : Lost(k, c)
    /\ UNCHANGED <<page, server, does>>

ContestNext ==
    \/ DeliverContests \/ DeliverDetail \/ DeliverOpenTeams \/ DeliverRegistered
    \/ DeliverQuestion \/ DeliverClarifications \/ DeliverFile
    \/ \E u \in Users : \/ Refresh(u) \/ AskQuestion(u) \/ Download(u)
                       \/ CreateTeam(u) \/ RegisterSolo(u) \/ Join(u)
    \/ \E u \in Users, m \in Modes : SetMode(u, m)
    \/ Serve \/ Lose

ContestSpec == ContestInit /\ [][ContestNext]_contestVars

-----------------------------------------------------------------------------
(* Properties                                                               *)

\* A contestant's question, and a file, is asked for once per press, and each press is
\* answered before the next, whatever loads the page meanwhile.
OneRequest ==
    \A u \in Users :
        /\ page[u].asking <=>
              \E c \in net["question"] \cup net["clarifications"] : c.to.user = u
        /\ page[u].downloading <=> \E c \in net["file"] : c.to.user = u

\* The team on the page of a contestant who sends one request at a time is a team the
\* server has them on, whatever the others do meanwhile.
TeamIsStored ==
    \A u \in Users : HasTeam(u) /\ ~page[u].crossed => u \in server.teams[page[u].team].members
=============================================================================
