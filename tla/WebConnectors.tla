---------------------------- MODULE WebConnectors ----------------------------
(***************************************************************************)
(* The connectors page of the web client (pages/Connectors.jsx) with the   *)
(* popup that signs in at a provider (pages/ConnectorOAuthCallback.jsx),   *)
(* the timeline of a prompt's steps (components/WorkspaceTimeline.jsx),    *)
(* and what the server keeps of a connection (services/mcp/oauth_service). *)
(*                                                                         *)
(* The popup is one named window: connecting a second app navigates the    *)
(* window of the first.  An interval of the page watches for the window    *)
(* being closed; the page remembers only the last interval it started.     *)
(* The page stays open, and the catalogue is that of the apps a workload   *)
(* names.                                                                  *)
(***************************************************************************)
EXTENDS ClientCalls

CONSTANTS
    Catalogue,   \* of each app: auth ("oauth", "domain", "token" or "key"), configured, category
    Steps,       \* the steps of a prompt's plan
    MaxPopups,   \* bound: times a connection is authorized
    Workloads

VARIABLES page, server, does

connectorVars == <<page, server, net, lost, does>>

None == "none"
Apps == DOMAIN Catalogue
Offered == Apps \cap does                  \* a workload names its apps
Auth(a) == Catalogue[a].auth
IsAvailable(a) == Auth(a) = "key" \/ Catalogue[a].configured
All == "All"
Categories == {All} \cup {Catalogue[a].category : a \in Offered}

Connection == [connected: BOOLEAN, enabled: BOOLEAN]
NotConnected == [connected |-> FALSE, enabled |-> TRUE]

\* A request to connect an app: the one-time state of the server.
Request == [app: Apps, n: 1 .. MaxPopups]
\* The popup is closed, has handed over the result, or is at the provider of a request.
Closed == [app |-> None, n |-> 0]
Returned == [app |-> None, n |-> 1]
Windows == Request \cup {Closed, Returned}

\* A step that failed may be retried, or it is refused: it has no button.
StepStates == {"pending", "running", "done", "failed", "refused", "awaiting_confirm"}
Kinds == {"list", "authorize", "callback", "token", "key", "disconnect", "toggle", "prompt", "retry"}

Page == [loading: BOOLEAN, listed: BOOLEAN, shown: [Apps -> Connection],
         connecting: Apps \cup {None}, toggling: Apps \cup {None},
         popup: Windows,
         polls: SUBSET [request: Request, closed: BOOLEAN],   \* the intervals that run
         poll: 0 .. MaxPopups,                                \* the one that is remembered
         keyDialog: Apps \cup {None}, saving: BOOLEAN,
         domainDialog: Apps \cup {None}, disconnectTarget: Apps \cup {None},
         link: Apps \cup {None},                              \* ?connect= of the address
         search: Apps \cup {None},                            \* the name that was typed
         filter: {"all", "connected"}, category: {All} \cup {Catalogue[a].category : a \in Apps},
         running: BOOLEAN, result: BOOLEAN, steps: [Steps -> StepStates],
         crossed: BOOLEAN]   \* history: a connection was begun before another had ended

Server == [connections: [Apps -> Connection], states: SUBSET Request, issued: 0 .. MaxPopups]

ConnectorsTypeOK ==
    /\ page \in Page /\ server \in Server /\ does \in Workloads
    /\ lost \in 0 .. MaxLost /\ DOMAIN net = Kinds
    /\ page.poll # 0 => \E i \in page.polls : i.request.n = page.poll

ConnectorsInit ==
    /\ does \in Workloads /\ lost = 0
    /\ \E l \in (IF "link" \in does THEN Offered ELSE {None}) :
          page = [loading |-> TRUE, listed |-> FALSE, shown |-> [a \in Apps |-> NotConnected],
                  connecting |-> None, toggling |-> None, popup |-> Closed, polls |-> {}, poll |-> 0,
                  keyDialog |-> None, saving |-> FALSE, domainDialog |-> None,
                  disconnectTarget |-> None, link |-> l,
                  search |-> None, filter |-> "all", category |-> All,
                  running |-> FALSE, result |-> FALSE, steps |-> [s \in Steps |-> "done"],
                  crossed |-> FALSE]
    /\ server = [connections |-> [a \in Apps |->
                     IF a \in Offered /\ "paused" \in does
                     THEN [connected |-> TRUE, enabled |-> FALSE] ELSE NotConnected],
                 states |-> {}, issued |-> 0]
    /\ net = [NoCalls(Kinds) EXCEPT !["list"] = {Sent(TRUE)}]

Same == UNCHANGED <<server, lost, does>>
Stays(p) == page' = p /\ UNCHANGED net /\ Same
LoadConnectors(n) == Asking(n, "list", TRUE)

-----------------------------------------------------------------------------
(* The list                                                                 *)

\* The deep link opens the dialog of an app that takes a key; for the others it
\* leaves the row, whose switch opens the popup.
Linked(p) ==
    IF p.link = None \/ p.shown[p.link].connected THEN [p EXCEPT !.link = None]
    ELSE [p EXCEPT !.link = None, !.search = p.link,
             !.keyDialog = IF IsAvailable(p.link) /\ Auth(p.link) = "key" THEN p.link ELSE @]

DeliverList ==
    \E c \in Came("list") :
        /\ Take("list", c)
        /\ page' = IF Ok(c) THEN Linked([page EXCEPT !.loading = FALSE, !.listed = TRUE, !.shown = c.ans])
                   ELSE [page EXCEPT !.loading = FALSE]
        /\ Same

Listed(a) ==
    /\ page.listed /\ a \in Offered
    /\ page.search \in {None, a}
    /\ page.category \in {All, Catalogue[a].category}
    /\ page.filter = "connected" => page.shown[a].connected

\* One dialog covers the rows.
Dialog == page.keyDialog # None \/ page.domainDialog # None \/ page.disconnectTarget # None

Finds == "find" \in does /\ ~page.loading /\ ~Dialog
SetSearch(a) == Finds /\ a # page.search /\ Stays([page EXCEPT !.search = a])
SetFilter(f) == Finds /\ f # page.filter /\ Stays([page EXCEPT !.filter = f])
SetCategory(k) ==
    /\ Finds /\ page.listed /\ k # page.category
    /\ Stays([page EXCEPT !.category = k])
ClearFilters ==
    /\ Finds /\ ~\E a \in Apps : Listed(a)
    /\ Stays([page EXCEPT !.search = None, !.filter = "all", !.category = All])

SwitchedOn(a) == page.shown[a].connected /\ page.shown[a].enabled
CanSwitch(a) ==
    Listed(a) /\ ~Dialog /\ IsAvailable(a) /\ page.connecting # a /\ page.toggling # a

-----------------------------------------------------------------------------
(* Switching an app on and off                                              *)

\* p while a is being connected.
Connecting(p, a) ==
    [p EXCEPT !.connecting = a,
              !.crossed = @ \/ p.connecting # None \/ p.polls # {} \/ p.popup # Closed]
CanConnect(a) == server.issued + Cardinality(net["authorize"]) < MaxPopups /\ CanAsk("authorize", a)

SwitchOn(a) ==
    /\ CanSwitch(a) /\ ~SwitchedOn(a)
    /\ \/ /\ page.shown[a].connected                      \* paused
          /\ Ask("toggle", a)
          /\ page' = [page EXCEPT !.toggling = a, !.shown[a].enabled = TRUE]
       \/ /\ ~page.shown[a].connected /\ Auth(a) = "key"
          /\ page' = [page EXCEPT !.keyDialog = a] /\ UNCHANGED net
       \/ /\ ~page.shown[a].connected /\ Auth(a) = "domain"
          /\ page' = [page EXCEPT !.domainDialog = a] /\ UNCHANGED net
       \/ /\ ~page.shown[a].connected /\ Auth(a) \in {"oauth", "token"}
          /\ CanConnect(a) /\ Ask("authorize", a) /\ page' = Connecting(page, a)
    /\ Same

SwitchOff(a) ==
    /\ CanSwitch(a) /\ SwitchedOn(a)
    /\ Stays([page EXCEPT !.disconnectTarget = a])

\* A toggle that failed is taken back, whatever was loaded meanwhile.
DeliverToggle ==
    \E c \in Came("toggle") :
        /\ Take("toggle", c)
        /\ page' = [page EXCEPT !.toggling = None,
                                !.shown[c.to].enabled = IF Ok(c) THEN @ ELSE FALSE]
        /\ Same

ConfirmDisconnect ==
    /\ page.disconnectTarget # None
    /\ \/ /\ Ask("disconnect", page.disconnectTarget)
          /\ page' = [page EXCEPT !.disconnectTarget = None] /\ Same
       \/ Stays([page EXCEPT !.disconnectTarget = None])
DeliverDisconnect ==
    \E c \in Came("disconnect") :
        /\ net' = IF Ok(c) THEN LoadConnectors(Without(net, "disconnect", c))
                  ELSE Without(net, "disconnect", c)
        /\ UNCHANGED page /\ Same

SubmitDomain ==
    /\ page.domainDialog # None
    /\ \/ /\ CanConnect(page.domainDialog) /\ Ask("authorize", page.domainDialog)
          /\ page' = Connecting([page EXCEPT !.domainDialog = None], page.domainDialog) /\ Same
       \/ Stays([page EXCEPT !.domainDialog = None])

\* The dialog can be closed while its key is being saved; when it is, whichever is
\* open then closes.
SubmitKey ==
    /\ page.keyDialog # None /\ ~page.saving /\ Ask("key", page.keyDialog)
    /\ page' = [page EXCEPT !.saving = TRUE] /\ Same
CloseKey == page.keyDialog # None /\ Stays([page EXCEPT !.keyDialog = None])
DeliverKey ==
    \E c \in Came("key") :
        /\ IF Ok(c)
           THEN /\ page' = [page EXCEPT !.saving = FALSE, !.keyDialog = None]
                /\ net' = LoadConnectors(Without(net, "key", c))
           ELSE page' = [page EXCEPT !.saving = FALSE] /\ Take("key", c)
        /\ Same

-----------------------------------------------------------------------------
(* The popup                                                                *)

\* The named window is opened, or goes to another provider, unless it is blocked.
DeliverAuthorize ==
    \E c \in Came("authorize") :
        /\ Take("authorize", c)
        /\ \/ /\ Ok(c)
              /\ page' = [page EXCEPT !.popup = c.ans, !.poll = c.ans.n,
                             !.polls = @ \cup {[request |-> c.ans, closed |-> FALSE]}]
           \/ (~Ok(c) \/ "blocked" \in does) /\ page' = [page EXCEPT !.connecting = None]
        /\ Same

Unwatched(p) ==
    [p EXCEPT !.poll = 0, !.polls = {i \in @ : i.request.n # p.poll}]

\* The provider sends the popup back, which posts what it was given to the page: a
\* token that is final, a code with its state, or an error.  A refusal that comes
\* without an error names no app: it is exchanged like a code, at an empty address.
PopupReturns ==
    /\ page.popup \in Request
    /\ LET p == Unwatched([page EXCEPT !.popup = Returned])
           a == page.popup.app
       IN  \/ Auth(a) = "token" /\ net' = Asking(net, "token", a) /\ page' = p
           \/ /\ Auth(a) # "token"
              /\ net' = Asking(net, "callback", [app |-> a, state |-> page.popup]) /\ page' = p
           \/ /\ Auth(a) = "token"
              /\ net' = Asking(net, "callback", [app |-> None, state |-> Closed]) /\ page' = p
           \/ UNCHANGED net /\ page' = [p EXCEPT !.connecting = None]
    /\ Same

\* Connected or not, the spinner stops and the list is loaded.
DeliverConnected ==
    \E k \in {"callback", "token"} : \E c \in Came(k) :
        /\ net' = LoadConnectors(Without(net, k, c))
        /\ page' = [page EXCEPT !.connecting = None]
        /\ Same

\* By itself a moment after it returned, or by the user.
PopupCloses ==
    /\ page.popup # Closed
    /\ Stays([page EXCEPT !.popup = Closed, !.polls = {[i EXCEPT !.closed = TRUE] : i \in @}])

\* An interval finds its window closed: it stops the one that is remembered, which
\* may be another, and the spinner of its own app.
PollTick ==
    \E i \in {x \in page.polls : x.closed} :
        Stays([Unwatched(page) EXCEPT
                  !.connecting = IF @ = i.request.app THEN None ELSE @])

-----------------------------------------------------------------------------
(* The quick test and its timeline                                          *)

\* The last timeline goes: what its steps still wait for is heard by nobody.
Unmounted(n) == [n EXCEPT !["retry"] = {[c EXCEPT !.to.mounted = FALSE] : c \in @}]
CanRun == "prompt" \in does /\ ~page.loading /\ ~Dialog /\ ~page.running
RunPrompt ==
    /\ CanRun /\ CanAsk("prompt", TRUE)
    /\ page' = [page EXCEPT !.running = TRUE, !.result = FALSE]
    /\ net' = Asking(Unmounted(net), "prompt", TRUE)
    /\ Same
DeliverPrompt ==
    \E c \in Came("prompt") :
        /\ Take("prompt", c)
        /\ page' = IF Ok(c) THEN [page EXCEPT !.running = FALSE, !.result = TRUE, !.steps = c.ans]
                   ELSE [page EXCEPT !.running = FALSE]
        /\ Same

\* A step that failed, or that must be confirmed, has a button.
CanRetry(s) == page.result /\ page.steps[s] \in {"failed", "awaiting_confirm"}
RetryStep(s) ==
    /\ CanRetry(s) /\ ~Dialog
    /\ Ask("retry", [step |-> s, was |-> page.steps[s], mounted |-> TRUE])
    /\ page' = [page EXCEPT !.steps[s] = "running"] /\ Same
\* A retry that did not come through leaves the step as retryable as it was: one that
\* was to be confirmed never is.
DeliverRetry ==
    \E c \in Came("retry") :
        /\ Take("retry", c)
        /\ page' = IF c.to.mounted
                   THEN [page EXCEPT !.steps[c.to.step] =
                            IF Ok(c) THEN c.ans
                            ELSE IF c.to.was = "failed" THEN "failed" ELSE "refused"]
                   ELSE page
        /\ Same

-----------------------------------------------------------------------------
(* The server                                                               *)

OnlyNet == UNCHANGED <<page, server, lost, does>>
Serves(s) == server' = s /\ UNCHANGED <<page, lost, does>>

ServeAuthorize ==
    \E c \in Asked("authorize") :
        LET r == [app |-> c.to, n |-> server.issued + 1]
        IN  /\ server.issued < MaxPopups
            /\ Answer("authorize", c, r)
            /\ Serves([server EXCEPT !.issued = @ + 1,
                          !.states = IF Auth(c.to) = "token" THEN @ ELSE @ \cup {r}])

\* The state is used up by the first exchange, also by one the provider refuses.
ServeCallback ==
    \E c \in Asked("callback") :
        \/ /\ c.to.state \in server.states /\ c.to.state.app = c.to.app
           /\ Answer("callback", c, TRUE)
           /\ Serves([server EXCEPT !.states = @ \ {c.to.state},
                                    !.connections[c.to.app].connected = TRUE])
        \/ /\ Refuse("callback", c)
           /\ Serves([server EXCEPT !.states = @ \ {c.to.state}])

Connected(k, c) == Answer(k, c, TRUE) /\ Serves([server EXCEPT !.connections[c.to].connected = TRUE])
ServeToken == \E c \in Asked("token") : Connected("token", c)
ServeKey == \E c \in Asked("key") : Connected("key", c) \/ (Refuse("key", c) /\ OnlyNet)

ServeDisconnect ==
    \E c \in Asked("disconnect") :
        Answer("disconnect", c, TRUE) /\ Serves([server EXCEPT !.connections[c.to] = NotConnected])
ServeToggle ==
    \E c \in Asked("toggle") :
        IF server.connections[c.to].connected
        THEN Answer("toggle", c, TRUE) /\ Serves([server EXCEPT !.connections[c.to].enabled = TRUE])
        ELSE Refuse("toggle", c) /\ OnlyNet

\* Another tab, where a paused app is disconnected.
Elsewhere ==
    /\ "paused" \in does
    /\ \E a \in Offered : /\ server.connections[a].connected
                          /\ server' = [server EXCEPT !.connections[a] = NotConnected]
    /\ UNCHANGED <<page, net, lost, does>>

ServeList == \E c \in Asked("list") : Answer("list", c, server.connections) /\ OnlyNet

\* What a run, or one step of it, comes to.  A run that breaks off answers with the
\* steps as they were; a step is refused when its app was disconnected or paused.
ServePrompt == \E c \in Asked("prompt") : \E out \in [Steps -> StepStates] : Answer("prompt", c, out)
ServeRetry ==
    \E c \in Asked("retry") :
        (\E out \in {"done", "failed"} : Answer("retry", c, out)) \/ Refuse("retry", c)

Lose ==
    /\ "lose" \in does /\ \E k \in Kinds : \E c \in net[k] : Lost(k, c)
    /\ UNCHANGED <<page, server, does>>

ConnectorsNext ==
    \/ DeliverList \/ ClearFilters \/ (\E f \in {"all", "connected"} : SetFilter(f))
    \/ (\E a \in Offered \cup {None} : SetSearch(a)) \/ (\E k \in Categories : SetCategory(k))
    \/ \E a \in Apps : SwitchOn(a) \/ SwitchOff(a)
    \/ DeliverToggle \/ ConfirmDisconnect \/ DeliverDisconnect
    \/ SubmitDomain \/ SubmitKey \/ CloseKey \/ DeliverKey
    \/ DeliverAuthorize \/ PopupReturns \/ DeliverConnected \/ PopupCloses \/ PollTick
    \/ RunPrompt \/ DeliverPrompt \/ (\E s \in Steps : RetryStep(s)) \/ DeliverRetry
    \/ ServeAuthorize \/ ServeCallback \/ ServeToken \/ ServeKey \/ ServeDisconnect
    \/ Elsewhere \/ ServeToggle \/ ServeList \/ ((ServePrompt \/ ServeRetry) /\ OnlyNet) \/ Lose

\* The server answers, the browser runs handlers and intervals, and the popup that
\* returned closes itself.
ConnectServed == ServeAuthorize \/ ServeCallback \/ ServeToken
ConnectHeard == DeliverAuthorize \/ DeliverConnected

ConnectorsSpec ==
    /\ ConnectorsInit /\ [][ConnectorsNext]_connectorVars
    /\ WF_connectorVars(ConnectServed) /\ WF_connectorVars(ConnectHeard)
    /\ WF_connectorVars(PollTick)

-----------------------------------------------------------------------------
(* Properties                                                               *)

\* A prompt, a key and a step that acts in a connected app are sent once per press.
OneRun ==
    /\ page.running <=> InFlight("prompt")
    /\ page.saving <=> InFlight("key")
    /\ \A c \in net["retry"] : c.to.mounted => page.steps[c.to.step] = "running"
=============================================================================
