---------------------------- MODULE MobileSession ----------------------------
(***************************************************************************)
(* Signing in to the mobile app and staying signed in: the session's store *)
(* (store/slices/authSlice.js) and its copy on the device (authStorage.js), *)
(* which App.js loads as the app starts, the interceptors of api.js, the   *)
(* navigator that follows the token, the screens of signing in, the        *)
(* buttons of the providers, and the drawer.                               *)
(*                                                                         *)
(* Nothing waits for a write to the device: it may fail without a word, be *)
(* overtaken by an earlier one, or be lost when the app is killed.         *)
(***************************************************************************)
EXTENDS ClientCalls

CONSTANTS
    Providers,   \* that sign in through a page of the web client
    MaxTokens,   \* bound: tokens the server issues
    Workloads

VARIABLES page, server, does

appVars == <<page, server, net, lost, does>>

None == "none"
Tokens == 0 .. MaxTokens            \* 0: no token
Forms == {"login", "register", "sendCode", "verifyCode", "resetPassword"}
Kinds == {"call", "refresh"}
WorkIds == {"chat", "wallet"}
CallIds == Forms \cup WorkIds \cup {"config"}
Request == [id: CallIds, retry: BOOLEAN, token: Tokens]

Kept == [token: Tokens, user: BOOLEAN]
NoSession == [token |-> 0, user |-> FALSE]

\* What the drawer leads to, of which these two stand for the others.
Menu == {"AI Workspace", "Billing"}

Page == [hydrated: BOOLEAN, session: Kept,
         writing: BOOLEAN,           \* the session is on its way to the device
         late: SUBSET Kept,          \* and so are these, which were the session before
         missed: BOOLEAN,            \* history: the session did not come there, or was not read, or
                                     \* a late write came after it
         at: {"Login", "Register", "ForgotPassword", "drawer"},
         loading: BOOLEAN, step: {"request", "verify", "reset", "done"}, timer: BOOLEAN,
         oauthCfg: BOOLEAN, social: Providers \cup {None}, \* the button that waits
         bridge: {None, "config", "browser"}, apple: {None, "config", "browser"},
         active: Menu, builderExpanded: BOOLEAN,
         prompt: BOOLEAN, refreshing: BOOLEAN, waiting: SUBSET Request]

Server == [stored: Kept, issued: Tokens]

AppTypeOK ==
    /\ page \in Page /\ server \in Server /\ does \in Workloads
    /\ lost \in 0 .. MaxLost /\ DOMAIN net = Kinds
    /\ page.at = "drawer" <=> page.hydrated /\ page.session.token # 0

Now == [page |-> page, net |-> net]
Becomes(w) == page' = w.page /\ net' = w.net
Same == UNCHANGED <<server, lost, does>>
Stays(p) == page' = p /\ UNCHANGED net /\ Same

-----------------------------------------------------------------------------
(* The store, the copy on the device and the navigator                      *)

\* What the app starts with, before it knows whether there is a session.
AppStarts == [hydrated |-> FALSE, session |-> NoSession,
              writing |-> FALSE, late |-> {}, missed |-> FALSE, at |-> "Login",
              loading |-> FALSE, step |-> "request", timer |-> FALSE, oauthCfg |-> FALSE,
              social |-> None, bridge |-> None, apple |-> None,
              active |-> "AI Workspace", builderExpanded |-> TRUE,
              prompt |-> FALSE, refreshing |-> FALSE, waiting |-> {}]

\* The interceptor adds the token of the store.
Asks(w, id) ==
    [w EXCEPT !.net = Asking(@, "call", [id |-> id, retry |-> FALSE, token |-> w.page.session.token])]
CanCall(id) ==
    /\ Cardinality(AllCalls) + Cardinality(page.waiting) < MaxInFlight
    /\ ~\E c \in net["call"] : c.to.id = id
    /\ ~\E r \in page.waiting : r.id = id

\* The navigator follows the token; the screens of the other side are forgotten.
Navigated(w) ==
    LET signedIn == w.page.session.token # 0
        there == [w.page EXCEPT !.at = IF signedIn THEN "drawer" ELSE "Login",
                     !.loading = FALSE, !.step = "request", !.oauthCfg = FALSE, !.social = None,
                     !.active = "AI Workspace", !.builderExpanded = TRUE]
    IN  IF signedIn <=> w.page.at = "drawer" THEN w
        ELSE IF signedIn THEN [w EXCEPT !.page = there]
        ELSE Asks([w EXCEPT !.page = there], "config")

\* setAuth, setTokens and logout: each writes to the device, and does not wait.
Keeps(w, session) ==
    Navigated([w EXCEPT !.page.session = session, !.page.writing = TRUE,
                        !.page.late = IF w.page.writing THEN @ \cup {w.page.session} ELSE @])
SetAuth(w, token) == Keeps(w, [token |-> token, user |-> TRUE])

\* Mutant: new tokens are not written to the device.
SetTokens_NotKept(w, token) == Navigated([w EXCEPT !.page.session.token = token])

SetTokens(w, token) == Keeps(w, [w.page.session EXCEPT !.token = token])
LoggedOut(w) == Keeps(w, NoSession)

AppInit ==
    /\ does \in Workloads /\ lost = 0 /\ net = NoCalls(Kinds)
    /\ page = AppStarts
    /\ \E t \in 0 .. 1 :
          server = [stored |-> [token |-> t, user |-> t # 0], issued |-> t]

\* loadAuth and hydrate: what cannot be read is no session.
Hydrated(session, missed) ==
    LET w == Navigated([Now EXCEPT !.page.hydrated = TRUE, !.page.session = session,
                                   !.page.missed = missed])
    IN  IF session.token = 0 THEN Asks(w, "config") ELSE w
Hydrate ==
    /\ ~page.hydrated
    /\ \/ Becomes(Hydrated(server.stored, FALSE))
       \/ "device" \in does /\ Becomes(Hydrated(NoSession, TRUE))
    /\ Same

\* Writes end in any order.
DeviceWrites ==
    /\ \/ /\ page.writing
          /\ server' = [server EXCEPT !.stored = page.session]
          /\ page' = [page EXCEPT !.writing = FALSE, !.missed = FALSE]
       \/ \E session \in page.late :
             /\ server' = [server EXCEPT !.stored = session]
             /\ page' = [page EXCEPT !.late = @ \ {session}, !.missed = @ \/ ~page.writing]
    /\ UNCHANGED <<net, lost, does>>

\* persistAuth drops the error of a write that failed.
DeviceFails ==
    /\ "device" \in does
    /\ \/ page.writing /\ page' = [page EXCEPT !.writing = FALSE, !.missed = TRUE]
       \/ \E session \in page.late : page' = [page EXCEPT !.late = @ \ {session}]
    /\ UNCHANGED <<net, server, lost, does>>

\* The app is killed, and started again.
Killed ==
    /\ "killed" \in does /\ page.hydrated
    /\ page' = AppStarts /\ net' = NoCalls(Kinds) /\ Same

-----------------------------------------------------------------------------
(* The response interceptor                                                 *)

\* Mutant: every call that is refused asks for new tokens.
Unauthorized_Alone(w, r) ==
    IF w.page.session.token = 0 THEN LoggedOut(w)
    ELSE [page |-> [w.page EXCEPT !.waiting = @ \cup {r}, !.refreshing = TRUE],
          net  |-> Asking(w.net, "refresh", w.page.session.token)]

\* Without a session the app signs out; otherwise one call asks for new tokens and
\* the others wait with it.
Unauthorized(w, r) ==
    IF w.page.session.token = 0 THEN LoggedOut(w)
    ELSE [page |-> [w.page EXCEPT !.waiting = @ \cup {r}, !.refreshing = TRUE],
          net  |-> IF w.page.refreshing THEN w.net ELSE Asking(w.net, "refresh", w.page.session.token)]

\* What the screens do with an answer, and with a refusal.
Resolved(w, r, ans) ==
    CASE r.id \in {"login", "register"} -> SetAuth([w EXCEPT !.page.loading = FALSE], ans.token)
      [] r.id = "config" /\ w.page.at # "drawer" ->
            [w EXCEPT !.page.oauthCfg = TRUE,
                      !.page.bridge = IF @ = "config" THEN "browser" ELSE @,
                      !.page.apple = IF @ = "config" THEN "browser" ELSE @]
      [] r.id = "sendCode" -> [w EXCEPT !.page.step = "verify", !.page.loading = FALSE]
      [] r.id = "verifyCode" -> [w EXCEPT !.page.step = "reset", !.page.loading = FALSE]
      [] r.id = "resetPassword" ->
            [w EXCEPT !.page.step = "done", !.page.loading = FALSE, !.page.timer = TRUE]
      [] OTHER -> w
Rejected(w, r) ==
    IF r.id = "config"
    THEN [w EXCEPT !.page.bridge = IF @ = "config" THEN None ELSE @,
                   !.page.social = IF w.page.bridge = "config" THEN None ELSE @,
                   !.page.apple = IF @ = "config" THEN None ELSE @]
    ELSE IF r.id \in Forms THEN [w EXCEPT !.page.loading = FALSE] ELSE w

\* The form of a screen that was left is not there any more.
Here(r) ==
    \/ r.id \in {"login", "register", "config"} \cup WorkIds
    \/ page.at = "ForgotPassword"

\* Out of credits is a prompt, one at a time.
Deliver(id) ==
    \E c \in {x \in Came("call") : x.to.id = id} :
        LET w == [Now EXCEPT !.net = Without(@, "call", c)]
            reply == IF Ok(c) THEN c.ans.reply ELSE "refused"
        IN  /\ Becomes(CASE ~Here(c.to) -> w
                         [] Here(c.to) /\ reply = "ok" -> Resolved(w, c.to, c.ans)
                         [] Here(c.to) /\ reply = "401" /\ ~c.to.retry -> Unauthorized(Rejected(w, c.to), c.to)
                         [] Here(c.to) /\ reply = "402" -> [w EXCEPT !.page.prompt = TRUE]
                         [] OTHER -> Rejected(w, c.to))
            /\ Same
DeliverCall == \E id \in CallIds : Deliver(id)

\* All that waited go on together.
Again(n, requests, token) ==
    [n EXCEPT !["call"] = @ \cup {Sent([r EXCEPT !.retry = TRUE, !.token = token]) : r \in requests}]
DeliverRefresh ==
    \E c \in Came("refresh") :
        LET w == [page |-> [page EXCEPT !.refreshing = FALSE, !.waiting = {}],
                  net  |-> Without(net, "refresh", c)]
        IN  /\ IF Ok(c)
               THEN LET v == SetTokens(w, c.ans)
                    IN  page' = v.page /\ net' = Again(v.net, page.waiting, c.ans)
               ELSE Becomes(LoggedOut(w))
            /\ Same

-----------------------------------------------------------------------------
(* The screens of signing in                                                *)

Signing == page.hydrated /\ page.at \in {"Login", "Register"}
Navigate(at) == page' = [page EXCEPT !.at = at, !.loading = FALSE, !.step = "request"] /\ UNCHANGED net /\ Same

SwitchScreen ==
    /\ page.hydrated
    /\ \/ page.at = "Login" /\ \E at \in {"Register", "ForgotPassword"} : Navigate(at)
       \/ page.at = "Register" /\ Navigate("Login")
       \/ page.at = "ForgotPassword" /\ page.step = "request" /\ Navigate("Login")

SendForm(id) ==
    /\ ~page.loading /\ CanCall(id)
    /\ Becomes(Asks([Now EXCEPT !.page.loading = TRUE], id)) /\ Same
Submit == "password" \in does /\ Signing /\ SendForm(IF page.at = "Login" THEN "login" ELSE "register")

StepForm == [request |-> "sendCode", verify |-> "verifyCode", reset |-> "resetPassword"]
Recover ==
    /\ "forgot" \in does /\ page.at = "ForgotPassword" /\ page.step # "done"
    /\ SendForm(StepForm[page.step])
UseDifferentEmail ==
    page.at = "ForgotPassword" /\ page.step = "verify" /\ Stays([page EXCEPT !.step = "request"])
\* A moment after the password was changed.
ToLogin ==
    /\ page.timer
    /\ Stays([page EXCEPT !.timer = FALSE,
                 !.at = IF @ = "ForgotPassword" THEN "Login" ELSE @, !.step = "request"])

\* A provider's button takes the configuration anew, then opens its page; while it
\* waits no other button can be pressed.  Apple's does not wait.
CanUse == Signing /\ page.social = None /\ page.oauthCfg /\ CanCall("config")
SocialSignIn(p) ==
    /\ "social" \in does /\ CanUse /\ page.bridge = None
    /\ Becomes(Asks([Now EXCEPT !.page.social = p, !.page.bridge = "config"], "config")) /\ Same
AppleSignIn ==
    /\ "apple" \in does /\ CanUse /\ page.apple = None
    /\ Becomes(Asks([Now EXCEPT !.page.apple = "config"], "config")) /\ Same

Idle(w) == [w EXCEPT !.page.bridge = None, !.page.social = None]
\* The page comes back with tokens, or is closed; two are not open at once.
BridgeReturns ==
    /\ page.bridge = "browser"
    /\ \/ /\ server.issued < MaxTokens /\ page.apple # "browser"
          /\ server' = [server EXCEPT !.issued = @ + 1]
          /\ Becomes(SetAuth(Idle(Now), server.issued + 1))
       \/ Becomes(Idle(Now)) /\ UNCHANGED server
    /\ UNCHANGED <<lost, does>>
AppleReturns ==
    /\ page.apple = "browser"
    /\ LET w == [Now EXCEPT !.page.apple = None]
       IN  \/ /\ server.issued < MaxTokens /\ page.bridge # "browser"
              /\ server' = [server EXCEPT !.issued = @ + 1]
              /\ Becomes(SetAuth(w, server.issued + 1))
           \/ Becomes(w) /\ UNCHANGED server
    /\ UNCHANGED <<lost, does>>

-----------------------------------------------------------------------------
(* The drawer                                                               *)

InApp == page.hydrated /\ page.at = "drawer"
Work(id) == "calls" \in does /\ InApp /\ CanCall(id) /\ Becomes(Asks(Now, id)) /\ Same
ToggleBuilder ==
    "drawer" \in does /\ InApp /\ Stays([page EXCEPT !.builderExpanded = ~@])
GoTo(screen) == "drawer" \in does /\ InApp /\ page.active # screen /\ Stays([page EXCEPT !.active = screen])
Logout == "logout" \in does /\ InApp /\ Becomes(LoggedOut(Now)) /\ Same

\* Not now, or to the billing screen.
AnswerPrompt ==
    /\ page.prompt
    /\ \/ Stays([page EXCEPT !.prompt = FALSE])
       \/ InApp /\ Stays([page EXCEPT !.prompt = FALSE, !.active = "Billing"])

-----------------------------------------------------------------------------
(* The server                                                               *)

Serve(id) ==
    \E c \in {x \in Asked("call") : x.to.id = id} :
        \/ /\ id \in {"login", "register"} /\ server.issued < MaxTokens
           /\ Answer("call", c, [reply |-> "ok", token |-> server.issued + 1])
           /\ server' = [server EXCEPT !.issued = @ + 1]
           /\ UNCHANGED <<page, lost, does>>
        \/ /\ \/ id \notin {"login", "register"} /\ (id \in WorkIds => c.to.token # 0)
                 /\ Answer("call", c, [reply |-> "ok", token |-> 0])
              \/ id \in WorkIds \cup {"login"} /\ Answer("call", c, [reply |-> "401", token |-> 0])
              \/ id \notin WorkIds /\ Refuse("call", c)
              \/ id = "chat" /\ "credits" \in does /\ Answer("call", c, [reply |-> "402", token |-> 0])
           /\ UNCHANGED <<page, server, lost, does>>
ServeCall == \E id \in CallIds : Serve(id)

ServeRefresh ==
    \E c \in Asked("refresh") :
        /\ \/ /\ server.issued < MaxTokens
              /\ Answer("refresh", c, server.issued + 1)
              /\ server' = [server EXCEPT !.issued = @ + 1]
           \/ Refuse("refresh", c) /\ UNCHANGED server
        /\ UNCHANGED <<page, lost, does>>

Lose ==
    /\ "lose" \in does /\ \E k \in Kinds : \E c \in net[k] : Lost(k, c)
    /\ UNCHANGED <<page, server, does>>

AppNext ==
    \/ Hydrate \/ DeviceWrites \/ DeviceFails \/ Killed \/ DeliverCall \/ DeliverRefresh
    \/ SwitchScreen \/ Submit \/ Recover \/ UseDifferentEmail \/ ToLogin
    \/ (\E p \in Providers : SocialSignIn(p)) \/ AppleSignIn \/ BridgeReturns \/ AppleReturns
    \/ (\E id \in WorkIds : Work(id)) \/ ToggleBuilder
    \/ (\E s \in Menu : GoTo(s)) \/ Logout \/ AnswerPrompt
    \/ ServeCall \/ ServeRefresh \/ Lose

AppSpec == AppInit /\ [][AppNext]_appVars

-----------------------------------------------------------------------------
(* Properties                                                               *)

\* authStorage.js: however sign-ins, refreshes and sign-outs follow each other, and with
\* the app killed at any point, every session the app takes is given to the device: once
\* it is not on its way any more the device holds it, unless its write failed, another
\* that was late came after it, or the app could not read what was there.
StorageCatchesUp ==
    page.hydrated /\ ~page.writing /\ ~page.missed => server.stored = page.session

\* api.js: calls wait for one refresh that is under way, and for no other.
RefreshIsShared ==
    /\ page.refreshing <=> InFlight("refresh")
    /\ page.waiting # {} => page.refreshing
    /\ Cardinality(net["refresh"]) <= 1
=============================================================================
