----------------------------- MODULE WebSession -----------------------------
(***************************************************************************)
(* Signing in to the web client and staying signed in: the store of the    *)
(* session (store/slices/authSlice.js), the interceptors every call goes   *)
(* through (lib/api.js), the guards of the pages (AppLayout,               *)
(* ChromelessGuard), the sidebar, and the pages AuthPage, AuthCallback,    *)
(* MobileOAuthBridge, ForgotPassword and ResetPassword.                    *)
(*                                                                         *)
(* The store is written to localStorage in the same step, so the two are   *)
(* one.  An access token may have expired whenever a call with it arrives. *)
(***************************************************************************)
EXTENDS ClientCalls

CONSTANTS
    Sections,   \* sections and submenus of the sidebar
    Workloads

VARIABLES page, server, does

sessionVars == <<page, server, net, lost, does>>

None == "none"

SignIns == {"password", "google", "apple", "code"}
Ids == SignIns \cup {"config", "wallet", "work", "sendCode", "verifyCode", "resetPassword"}
Kinds == {"call", "refresh"}

\* here: the page that asked is still mounted; token: it was sent with one.
Request == [id: Ids, here: BOOLEAN, retry: BOOLEAN, token: BOOLEAN]

Guarded == {"app", "room"}      \* the pages under AppLayout, and under ChromelessGuard
Signing == {"login", "register"}
Places == Guarded \cup Signing \cup {"landing", "provider", "callback", "bridge", "forgot", "reset", "handed"}

Page == [at: Places, auth: BOOLEAN, user: BOOLEAN, recharge: BOOLEAN,
         refreshing: BOOLEAN, waiting: SUBSET Request,
         config: BOOLEAN, loading: BOOLEAN, error: BOOLEAN,
         step: {"request", "verify", "reset", "done"}, resetToken: BOOLEAN,
         timer: {None, "login", "app"},     \* a navigation that is due
         forApp: BOOLEAN,                   \* the state of the provider says "mobile:"
         handed: {None, "tokens", "error"}, \* the deep link back to the app
         collapsed: BOOLEAN, closed: SUBSET Sections]

Server == [account: BOOLEAN]

SessionTypeOK ==
    /\ page \in Page /\ server \in Server /\ does \in Workloads
    /\ lost \in 0 .. MaxLost /\ DOMAIN net = Kinds
    /\ page.at \in Guarded => page.auth
    /\ page.step \in {"reset", "done"} => page.resetToken

Now == [page |-> page, net |-> net]
Becomes(w) == page' = w.page /\ net' = w.net
Same == UNCHANGED <<server, lost, does>>
Stays(p) == page' = p /\ UNCHANGED net /\ Same

-----------------------------------------------------------------------------
(* The store, the guards and the calls they cause                           *)

\* The request interceptor adds the token of the store.
Asks(w, id) ==
    [w EXCEPT !.net = Asking(@, "call",
        [id |-> id, here |-> TRUE, retry |-> FALSE, token |-> w.page.auth])]
CanCall(id) ==
    /\ Cardinality(AllCalls) + Cardinality(page.waiting) < MaxInFlight
    /\ ~\E c \in net["call"] : c.to.id = id
    /\ ~\E r \in page.waiting : r.id = id

Gone(requests) == {[r EXCEPT !.here = FALSE] : r \in requests}
\* What a page reads is of no use to the next one, but a refusal still is.
Orphaned(calls) ==
    {IF c.to.id \in {"wallet", "work"} THEN c ELSE [c EXCEPT !.to.here = FALSE] :
        c \in {x \in calls : x.to.id # "config"}}

\* The page of a route, what it asks for as it mounts, and what it forgets of the
\* page before.  A guarded page without a session is the sign-in page.
GoTo(w, at) ==
    LET there == IF at \in Guarded /\ ~w.page.auth THEN "login" ELSE at
        left  == [page |-> [w.page EXCEPT !.at = there, !.config = FALSE, !.loading = FALSE,
                                !.error = FALSE, !.step = "request", !.resetToken = FALSE,
                                !.waiting = Gone(@)],
                  net  |-> [w.net EXCEPT !["call"] = Orphaned(@)]]
    IN  CASE there = "app" -> Asks(left, "wallet")
          [] there \in Signing \cup {"bridge"} -> Asks(left, "config")
          [] there = "callback" -> Asks(left, "code")
          [] OTHER -> left

\* setTokens, setAuth and logout: AppLayout asks for the wallet again when the
\* token changes, and the guards leave when there is none.
SetTokens(w) ==
    LET v == [w EXCEPT !.page.auth = TRUE] IN IF w.page.at = "app" THEN Asks(v, "wallet") ELSE v
SetAuth(w) == SetTokens([w EXCEPT !.page.user = TRUE])
LoggedOut(w) ==
    LET v == [w EXCEPT !.page.auth = FALSE, !.page.user = FALSE]
    IN  IF w.page.at \in Guarded THEN GoTo(v, "login") ELSE v

SessionInit ==
    LET signedIn == does \cap {"calls", "again"} # {}
        first == [at |-> "landing", auth |-> signedIn, user |-> signedIn, recharge |-> FALSE,
                  refreshing |-> FALSE, waiting |-> {}, config |-> FALSE, loading |-> FALSE,
                  error |-> FALSE, step |-> "request", resetToken |-> FALSE, timer |-> None,
                  forApp |-> "bridge" \in does, handed |-> None, collapsed |-> FALSE, closed |-> {}]
        start == IF "bridge" \in does THEN "bridge" ELSE IF "link" \in does THEN "reset"
                 ELSE IF "calls" \in does THEN "app" ELSE "login"
        w == GoTo([page |-> first, net |-> NoCalls(Kinds)], start)
    IN  /\ does \in Workloads /\ lost = 0
        /\ page = w.page /\ net = w.net
        /\ server = [account |-> TRUE]

-----------------------------------------------------------------------------
(* What the pages do with an answer                                         *)

\* The handlers of a page that is gone still write the store and navigate.
SignedIn(w, r) ==
    IF r.id = "code" /\ w.page.forApp
    THEN [w EXCEPT !.page.handed = "tokens", !.page.at = "handed"]
    ELSE GoTo(SetAuth(w), "app")

Resolved(w, r) ==
    CASE r.id \in SignIns -> SignedIn(w, r)
      [] r.id = "config" /\ r.here ->
            IF w.page.at = "bridge" THEN GoTo(w, "provider") ELSE [w EXCEPT !.page.config = TRUE]
      [] r.id = "sendCode" /\ r.here -> [w EXCEPT !.page.step = "verify", !.page.loading = FALSE]
      [] r.id = "verifyCode" /\ r.here ->
            [w EXCEPT !.page.step = "reset", !.page.resetToken = TRUE, !.page.loading = FALSE]
      [] r.id = "resetPassword" ->
            [w EXCEPT !.page.timer = "login",
                      !.page.step = IF r.here THEN "done" ELSE @,
                      !.page.resetToken = r.here \/ @,
                      !.page.loading = IF r.here THEN FALSE ELSE @]
      [] OTHER -> w

\* A sign-in that failed leads back, a form is given back, and the bridge without a
\* configuration goes back to the app: for each of the calls that a page still waits for.
Rejected(w, requests) ==
    LET codes == {r \in requests : r.id = "code"}
        here == {r \in requests : r.here}
        bridge == w.page.at = "bridge" /\ \E r \in here : r.id = "config"
    IN  [w EXCEPT !.page.timer = IF codes # {} THEN (IF w.page.forApp THEN "app" ELSE "login")
                                 ELSE IF bridge THEN "app" ELSE @,
                  !.page.error = @ \/ codes \cap here # {},
                  !.page.loading = @ /\ \A r \in here : r.id \in {"wallet", "work", "config", "code"}]

-----------------------------------------------------------------------------
(* The response interceptor                                                 *)

\* The first call that is refused asks for new tokens, the others wait with it; a
\* call that was sent again is not sent a third time.
Unauthorized(w, r) ==
    IF r.retry THEN Rejected(w, {r})
    ELSE IF ~w.page.auth THEN Rejected(LoggedOut(w), {r})
    ELSE [page |-> [w.page EXCEPT !.waiting = @ \cup {r}, !.refreshing = TRUE],
          net  |-> IF w.page.refreshing THEN w.net ELSE Asking(w.net, "refresh", None)]

Deliver(id) ==
    \E c \in {x \in Came("call") : x.to.id = id} :
        LET w == [Now EXCEPT !.net = Without(@, "call", c)]
            reply == IF Ok(c) THEN c.ans ELSE "refused"
        IN  /\ Becomes(CASE reply = "ok"  -> Resolved(w, c.to)
                         [] reply = "401" -> Unauthorized(w, c.to)
                         [] reply = "402" -> Rejected([w EXCEPT !.page.recharge = TRUE], {c.to})
                         [] OTHER         -> Rejected(w, {c.to}))
            /\ Same

DeliverCall == \E id \in Ids : Deliver(id)

\* n with the calls that waited, sent again with the new token.
Again(n, requests) ==
    [n EXCEPT !["call"] = @ \cup {Sent([r EXCEPT !.retry = TRUE, !.token = TRUE]) : r \in requests}]

\* All calls that waited go on together: again with the new tokens, or signed out.
DeliverRefresh ==
    \E c \in Came("refresh") :
        LET w == [page |-> [page EXCEPT !.refreshing = FALSE, !.waiting = {}],
                  net  |-> Without(net, "refresh", c)]
        IN  /\ IF Ok(c)
               THEN LET v == SetTokens(w)
                    IN  page' = v.page /\ net' = Again(v.net, page.waiting)
               ELSE Becomes(Rejected(LoggedOut(w), page.waiting))
            /\ Same

-----------------------------------------------------------------------------
(* The pages                                                                *)

At(places) == page.at \in places
Goes(at) == Becomes(GoTo(Now, at)) /\ Same

\* A call of any page.
Work == "calls" \in does /\ At({"app", "room"}) /\ CanCall("work") /\ Becomes(Asks(Now, "work")) /\ Same

\* The sidebar of AppLayout: what it shows, and Logout.
InShell == At({"app"})
ShownSections == IF page.collapsed THEN Sections ELSE Sections \ page.closed
LogoutShown == InShell /\ ~page.collapsed
ToggleSidebar ==
    "shell" \in does /\ InShell /\ Stays([page EXCEPT !.collapsed = ~@])
ToggleSection(s) ==
    /\ "shell" \in does /\ InShell /\ ~page.collapsed
    /\ Stays([page EXCEPT !.closed = IF s \in ShownSections THEN @ \cup {s} ELSE @ \ {s}])
Logout ==
    /\ "logout" \in does /\ LogoutShown
    /\ Becomes(GoTo([Now EXCEPT !.page.auth = FALSE, !.page.user = FALSE], "landing")) /\ Same

\* The recharge prompt is in AppLayout; it leads to the billing page, which is a page of it.
RechargeShown == InShell /\ page.recharge
CloseRecharge == RechargeShown /\ Stays([page EXCEPT !.recharge = FALSE])

EnterRoom == "room" \in does /\ At({"app"}) /\ Goes("room")
LeaveRoom == At({"room"}) /\ Goes("app")
Enter == At({"landing"}) /\ Goes(IF "calls" \in does THEN "app" ELSE "login")

\* AuthPage.  The buttons of the providers wait for the configuration, and all but
\* Google's for a sign-in that is under way.
CanSubmit == At(Signing) /\ ~page.loading
CanUseProvider == At(Signing) /\ page.config /\ ~page.loading
Submit ==
    /\ "signin" \in does /\ CanSubmit /\ CanCall("password")
    /\ Becomes(Asks([Now EXCEPT !.page.loading = TRUE], "password")) /\ Same
AppleSignIn ==
    /\ "social" \in does /\ CanUseProvider /\ CanCall("apple")
    /\ Becomes(Asks([Now EXCEPT !.page.loading = TRUE], "apple")) /\ Same
GoogleSignIn ==
    /\ "social" \in does /\ At(Signing) /\ page.config /\ CanCall("google")
    /\ Becomes(Asks([Now EXCEPT !.page.loading = TRUE], "google")) /\ Same
RedirectSignIn == "social" \in does /\ CanUseProvider /\ Goes("provider")
SwitchMode ==
    /\ "forgot" \in does
    /\ \/ At({"login"}) /\ Goes("register")
       \/ At({"register"}) /\ Goes("login")

\* The provider sends the browser back, with a code or with an error.
ProviderReturns == At({"provider"}) /\ Goes("callback")
ProviderRefuses ==
    /\ At({"provider"})
    /\ page' = [page EXCEPT !.at = "callback", !.error = TRUE,
                            !.timer = IF page.forApp THEN "app" ELSE "login"]
    /\ UNCHANGED net /\ Same

\* ForgotPassword: a code by mail, the code, a new password; and ResetPassword,
\* which a link with a token opens.
CanUseForm == ~page.loading
Forgot == "forgot" \in does /\ At({"login"}) /\ Goes("forgot")
Form(step, id) ==
    /\ At({"forgot"}) /\ page.step = step /\ CanUseForm /\ CanCall(id)
    /\ Becomes(Asks([Now EXCEPT !.page.loading = TRUE], id)) /\ Same
SendCode == Form("request", "sendCode")
VerifyCode == Form("verify", "verifyCode")
ResetPassword == Form("reset", "resetPassword")
UseDifferentEmail ==
    At({"forgot"}) /\ page.step = "verify" /\ Stays([page EXCEPT !.step = "request"])
BackToSignIn == At({"forgot"}) /\ page.step = "request" /\ Goes("login")
NewPasswordShown == At({"reset"}) /\ page.step = "request"
SubmitNewPassword ==
    /\ NewPasswordShown /\ CanUseForm /\ CanCall("resetPassword")
    /\ Becomes(Asks([Now EXCEPT !.page.loading = TRUE], "resetPassword")) /\ Same

\* The timers that leave a page fire wherever the browser is by then.
TimerFires ==
    /\ page.timer # None
    /\ Becomes(IF page.timer = "app"
               THEN [Now EXCEPT !.page.timer = None, !.page.at = "handed", !.page.handed = "error"]
               ELSE GoTo([Now EXCEPT !.page.timer = None], page.timer))
    /\ Same

-----------------------------------------------------------------------------
(* The server                                                               *)

OnlyNet == UNCHANGED <<page, server, lost, does>>

Serve(id) ==
    \E c \in {x \in Asked("call") : x.to.id = id} :
        /\ \/ /\ id \in {"wallet", "work"} => server.account /\ c.to.token
              /\ id \in SignIns => server.account
              /\ Answer("call", c, "ok")
           \/ id \in {"wallet", "work"} \cup SignIns /\ Answer("call", c, "401")
           \/ id \in {"sendCode", "verifyCode", "resetPassword", "config"} /\ Answer("call", c, "refused")
           \/ "credits" \in does /\ id = "work" /\ Answer("call", c, "402")
        /\ OnlyNet
ServeCall == \E id \in Ids : Serve(id)

\* The refresh looks at the token and at the account.
ServeRefresh ==
    \E c \in Asked("refresh") :
        /\ IF server.account THEN Answer("refresh", c, "tokens") ELSE Refuse("refresh", c)
        /\ OnlyNet

\* An account is deleted.
Deleted == "deleted" \in does /\ server.account /\ server' = [server EXCEPT !.account = FALSE]
           /\ UNCHANGED <<page, net, lost, does>>

Lose ==
    /\ "lose" \in does /\ \E k \in Kinds : \E c \in net[k] : Lost(k, c)
    /\ UNCHANGED <<page, server, does>>

SessionNext ==
    \/ DeliverCall \/ DeliverRefresh \/ Work
    \/ ToggleSidebar \/ (\E s \in Sections : ToggleSection(s)) \/ Logout \/ CloseRecharge
    \/ EnterRoom \/ LeaveRoom \/ Enter
    \/ Submit \/ AppleSignIn \/ GoogleSignIn \/ RedirectSignIn \/ SwitchMode
    \/ ProviderReturns \/ ProviderRefuses
    \/ Forgot \/ SendCode \/ VerifyCode \/ ResetPassword \/ UseDifferentEmail \/ BackToSignIn
    \/ SubmitNewPassword \/ TimerFires
    \/ ServeCall \/ ServeRefresh \/ Deleted \/ Lose

SessionSpec == SessionInit /\ [][SessionNext]_sessionVars

\* The server answers, and the browser delivers.
SessionFairSpec ==
    /\ SessionSpec
    /\ WF_sessionVars(Deliver("work")) /\ WF_sessionVars(DeliverRefresh)
    /\ WF_sessionVars(Serve("work")) /\ WF_sessionVars(ServeRefresh)

-----------------------------------------------------------------------------
(* Properties                                                               *)

\* Calls that were refused wait for one refresh that is under way, whatever is
\* answered, lost, left or signed out in the meantime: none waits for ever, and
\* no second refresh is sent.
WaitersAreServed ==
    /\ page.refreshing <=> InFlight("refresh")
    /\ page.waiting # {} => page.refreshing
    /\ Cardinality(net["refresh"]) <= 1
=============================================================================
