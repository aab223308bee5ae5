------------------------- MODULE MobileSessionProofs -------------------------
(***************************************************************************)
(* The session of the mobile app, for any number of tokens, calls and      *)
(* sign-ins.  A handler that goes on changes a record w of the page and    *)
(* the calls, by one operator after another: Good says of w, with what the *)
(* device holds, all that the properties need, and each operator keeps it. *)
(***************************************************************************)
EXTENDS MobileSession, FiniteSetTheorems, TLAPS

CallAnswers == [reply: {"ok", "401", "402"}, token: Tokens]

Fits(c, asked, answers) ==
    \/ c = [to |-> c.to, phase |-> c.phase] /\ c.to \in asked /\ c.phase \in {"sent", "failed"}
    \/ c = [to |-> c.to, phase |-> c.phase, ans |-> c.ans]
       /\ c.to \in asked /\ c.phase = "answered" /\ c.ans \in answers

CallsFit(n) ==
    /\ DOMAIN n = Kinds
    /\ \A c \in n["call"] : Fits(c, Request, CallAnswers)
    /\ \A c \in n["refresh"] : Fits(c, Tokens, Tokens)

\* The session is on its way to the device, or did not come there, or it is there.
Written(p, stored) == p.writing \/ p.missed \/ stored = p.session

\* One call for new tokens, exactly when the calls that were refused wait for it.
Shared(w) ==
    /\ w.page.refreshing => \E c \in w.net["refresh"] : w.net["refresh"] = {c}
    /\ ~w.page.refreshing => w.net["refresh"] = {} /\ w.page.waiting = {}

\* Good, but for the navigator, which has not followed the token yet.
Fair(w, stored) ==
    /\ w = [page |-> w.page, net |-> w.net]
    /\ w.page \in Page /\ w.page.hydrated /\ CallsFit(w.net)
    /\ Written(w.page, stored) /\ Shared(w)

Good(w, stored) ==
    Fair(w, stored) /\ (w.page.at = "drawer" <=> w.page.session.token # 0)

\* The inductive invariant: before it is hydrated, the app has done nothing.
SessionInv ==
    /\ server \in Server
    /\ \/ page = AppStarts /\ net = NoCalls(Kinds)
       \/ Good(Now, server.stored)

-----------------------------------------------------------------------------
(* Calls                                                                    *)

LEMMA SentFits ==
    ASSUME NEW n, CallsFit(n), NEW r \in Request,
           NEW m, m = Asking(n, "call", r)
    PROVE  CallsFit(m) /\ m["refresh"] = n["refresh"]
<1>1. /\ DOMAIN m = Kinds /\ m["call"] = n["call"] \cup {Sent(r)} /\ m["refresh"] = n["refresh"]
  BY DEF Asking, CallsFit, Kinds
<1>2. Fits(Sent(r), Request, CallAnswers)
  BY DEF Fits, Sent
<1> QED  BY <1>1, <1>2 DEF CallsFit

LEMMA RefreshFits ==
    ASSUME NEW n, CallsFit(n), NEW t \in Tokens,
           NEW m, m = Asking(n, "refresh", t)
    PROVE  CallsFit(m) /\ m["refresh"] = n["refresh"] \cup {Sent(t)}
<1>1. /\ DOMAIN m = Kinds /\ m["call"] = n["call"] /\ m["refresh"] = n["refresh"] \cup {Sent(t)}
  BY DEF Asking, CallsFit, Kinds
<1>2. Fits(Sent(t), Tokens, Tokens)
  BY DEF Fits, Sent
<1> QED  BY <1>1, <1>2 DEF CallsFit

LEMMA TakenFits ==
    ASSUME NEW n, CallsFit(n), NEW k \in Kinds, NEW c, NEW m, m = Without(n, k, c)
    PROVE  CallsFit(m) /\ m[k] = n[k] \ {c} /\ \A l \in Kinds \ {k} : m[l] = n[l]
<1>1. DOMAIN m = Kinds /\ m[k] = n[k] \ {c} /\ \A l \in Kinds \ {k} : m[l] = n[l]
  BY DEF Without, CallsFit
<1> QED  BY <1>1 DEF CallsFit, Kinds

LEMMA NoneFit == CallsFit(NoCalls(Kinds)) /\ NoCalls(Kinds)["refresh"] = {}
BY DEF CallsFit, NoCalls, Kinds

-----------------------------------------------------------------------------
(* What the handlers are made of                                            *)

\* A page that keeps its session, what is written of it and what is asked for it.
Besides(p, q) ==
    /\ q.hydrated = p.hydrated /\ q.session = p.session
    /\ q.writing = p.writing /\ q.missed = p.missed
    /\ q.refreshing = p.refreshing /\ q.waiting = p.waiting

LEMMA BesidesFair ==
    ASSUME NEW w, NEW stored, Fair(w, stored),
           NEW q \in Page, Besides(w.page, q), NEW n, CallsFit(n), n["refresh"] = w.net["refresh"],
           NEW v, v = [page |-> q, net |-> n]
    PROVE  Fair(v, stored)
<1>1. v.page = q /\ v.net = n /\ v = [page |-> v.page, net |-> v.net]
  OBVIOUS
<1> QED  BY <1>1 DEF Fair, Besides, Written, Shared

LEMMA BesidesGood ==
    ASSUME NEW w, NEW stored, Good(w, stored),
           NEW q \in Page, Besides(w.page, q), q.at = "drawer" <=> w.page.at = "drawer",
           NEW n, CallsFit(n), n["refresh"] = w.net["refresh"],
           NEW v, v = [page |-> q, net |-> n]
    PROVE  Good(v, stored)
<1>1. v.page = q
  OBVIOUS
<1>2. Fair(v, stored)
  BY BesidesFair DEF Good
<1> QED  BY <1>1, <1>2 DEF Good, Besides

LEMMA AsksGood ==
    ASSUME NEW w, NEW stored, Good(w, stored), NEW id \in CallIds, NEW v, v = Asks(w, id)
    PROVE  Good(v, stored)
<1> DEFINE r == [id |-> id, retry |-> FALSE, token |-> w.page.session.token]
<1>1. w = [page |-> w.page, net |-> w.net] /\ w.page \in Page /\ CallsFit(w.net)
  BY DEF Good, Fair
<1>2. r \in Request
  BY <1>1 DEF Page, Kept, Request
<1>3. v = [page |-> w.page, net |-> Asking(w.net, "call", r)]
  BY <1>1 DEF Asks
<1>4. CallsFit(Asking(w.net, "call", r)) /\ Asking(w.net, "call", r)["refresh"] = w.net["refresh"]
  BY <1>1, <1>2, SentFits
<1> HIDE DEF r
<1> QED  BY <1>1, <1>3, <1>4, BesidesGood DEF Besides

LEMMA NavigatedGood ==
    ASSUME NEW w, NEW stored, Fair(w, stored), NEW v, v = Navigated(w)
    PROVE  Good(v, stored)
<1> DEFINE signedIn == w.page.session.token # 0
           p == [w.page EXCEPT !.at = IF signedIn THEN "drawer" ELSE "Login",
                     !.loading = FALSE, !.step = "request", !.oauthCfg = FALSE, !.social = None,
                     !.active = "AI Workspace", !.builderExpanded = TRUE]
           u == [page |-> p, net |-> w.net]
<1>1. w = [page |-> w.page, net |-> w.net] /\ w.page \in Page /\ CallsFit(w.net)
  BY DEF Fair
<1>2. p \in Page
  BY ZenonT(90), <1>1 DEF Page, Menu
<1>3. Besides(w.page, p) /\ p.at = IF signedIn THEN "drawer" ELSE "Login"
  BY <1>1 DEF Page, Besides
<1>4. v = IF signedIn <=> w.page.at = "drawer" THEN w
          ELSE IF signedIn THEN [w EXCEPT !.page = p] ELSE Asks([w EXCEPT !.page = p], "config")
  BY DEF Navigated
<1>5. [w EXCEPT !.page = p] = u
  <2> HIDE DEF p
  <2> QED  BY <1>1
<1> HIDE DEF p
<1>6. Good(u, stored)
  <2>1. Fair(u, stored)
    BY <1>1, <1>2, <1>3, BesidesFair
  <2> QED  BY <2>1, <1>3 DEF Good, Besides
<1> HIDE DEF u
<1>7. Good(Asks(u, "config"), stored)
  BY <1>6, AsksGood DEF CallIds
<1> QED  BY <1>4, <1>5, <1>6, <1>7 DEF Good

LEMMA KeepsGood ==
    ASSUME NEW w, NEW stored, Fair(w, stored), NEW s \in Kept, NEW v, v = Keeps(w, s)
    PROVE  Good(v, stored)
<1>1. w = [page |-> w.page, net |-> w.net] /\ w.page \in Page /\ CallsFit(w.net)
  BY DEF Fair
<1>a. PICK ws : ws = IF w.page.writing THEN w.page.late \cup {w.page.session} ELSE w.page.late
  OBVIOUS
<1>2. ws \in SUBSET Kept
  BY <1>1, <1>a DEF Page
<1> DEFINE p1 == [w.page EXCEPT !.session = s]
           p2 == [p1 EXCEPT !.writing = TRUE]
           p == [p2 EXCEPT !.late = ws]
           u == [page |-> p, net |-> w.net]
<1>3. v = Navigated(u)
  <2>1. [w EXCEPT !.page = p1] = [page |-> p1, net |-> w.net]
    BY <1>1
  <2>2. [[page |-> p1, net |-> w.net] EXCEPT !.page = p2] = [page |-> p2, net |-> w.net]
    OBVIOUS
  <2>3. p2.late = w.page.late
    BY <1>1 DEF Page
  <2>4. v = Navigated([[[w EXCEPT !.page = p1] EXCEPT !.page = p2] EXCEPT !.page = [p2 EXCEPT !.late =
               IF w.page.writing THEN p2.late \cup {w.page.session} ELSE p2.late]])
    BY <2>1 DEF Keeps
  <2>5. v = Navigated([[page |-> p2, net |-> w.net] EXCEPT !.page = p])
    BY <1>a, <2>1, <2>2, <2>3, <2>4
  <2> QED  BY <2>5
<1>4. /\ p \in Page /\ p.hydrated = w.page.hydrated /\ p.session = s /\ p.writing
      /\ p.refreshing = w.page.refreshing /\ p.waiting = w.page.waiting
  BY <1>1, <1>2 DEF Page
<1>5. u.page = p /\ u.net = w.net /\ u = [page |-> u.page, net |-> u.net]
  OBVIOUS
<1> HIDE DEF p, u
<1>6. Fair(u, stored)
  BY <1>1, <1>4, <1>5 DEF Fair, Written, Shared
<1> QED  BY <1>3, <1>6, NavigatedGood

LEMMA LoggedOutGood ==
    ASSUME MaxTokens \in Nat, NEW w, NEW stored, Fair(w, stored), NEW v, v = LoggedOut(w)
    PROVE  Good(v, stored)
<1>1. NoSession \in Kept
  BY DEF NoSession, Kept, Tokens
<1> QED  BY <1>1, KeepsGood DEF LoggedOut

LEMMA UnauthorizedGood ==
    ASSUME MaxTokens \in Nat, NEW w, NEW stored, Good(w, stored), NEW r \in Request,
           NEW v, v = Unauthorized(w, r)
    PROVE  Good(v, stored)
<1>1. w = [page |-> w.page, net |-> w.net] /\ w.page \in Page /\ CallsFit(w.net) /\ Shared(w)
  BY DEF Good, Fair
<1>2. CASE w.page.session.token = 0
  BY <1>2, LoggedOutGood DEF Unauthorized, Good
<1>3. CASE w.page.session.token # 0
  <2> DEFINE p == [w.page EXCEPT !.waiting = @ \cup {r}, !.refreshing = TRUE]
             t == w.page.session.token
  <2>a. PICK n : n = IF w.page.refreshing THEN w.net ELSE Asking(w.net, "refresh", t)
    OBVIOUS
  <2>1. v = [page |-> p, net |-> n]
    BY <1>3, <2>a DEF Unauthorized
  <2>2. /\ p \in Page /\ p.hydrated = w.page.hydrated /\ p.session = w.page.session
        /\ p.writing = w.page.writing /\ p.missed = w.page.missed
        /\ p.at = w.page.at /\ p.refreshing
    BY <1>1 DEF Page
  <2>3. t \in Tokens
    BY <1>1 DEF Page, Kept
  <2> HIDE DEF p, t
  <2>4. CallsFit(n) /\ \E c : n["refresh"] = {c}
    <3>1. CASE w.page.refreshing
      BY <3>1, <1>1, <2>a DEF Shared
    <3>2. CASE ~w.page.refreshing
      <4>1. CallsFit(n) /\ n["refresh"] = w.net["refresh"] \cup {Sent(t)}
        BY <3>2, <1>1, <2>a, <2>3, RefreshFits
      <4> QED  BY <4>1, <3>2, <1>1 DEF Shared
    <3> QED  BY <3>1, <3>2
  <2>5. v.page = p /\ v.net = n /\ v = [page |-> v.page, net |-> v.net]
    BY <2>1
  <2> QED  BY <2>2, <2>4, <2>5 DEF Good, Fair, Written, Shared
<1> QED  BY <1>2, <1>3

LEMMA RejectedGood ==
    ASSUME NEW w, NEW stored, Good(w, stored), NEW r, NEW v, v = Rejected(w, r)
    PROVE  Good(v, stored)
<1>1. w = [page |-> w.page, net |-> w.net] /\ w.page \in Page /\ CallsFit(w.net)
  BY DEF Good, Fair
<1>2. CASE r.id = "config"
  <2> DEFINE p1 == [w.page EXCEPT !.bridge = IF @ = "config" THEN None ELSE @]
             p2 == [p1 EXCEPT !.social = IF w.page.bridge = "config" THEN None ELSE @]
             p3 == [p2 EXCEPT !.apple = IF @ = "config" THEN None ELSE @]
  <2>1. p1 \in Page /\ Besides(w.page, p1) /\ p1.at = w.page.at
    BY <1>1 DEF Page, Besides
  <2>2. p2 \in Page /\ Besides(p1, p2) /\ p2.at = p1.at
    <3> HIDE DEF p1
    <3> QED  BY <2>1 DEF Page, Besides
  <2>3. p3 \in Page /\ Besides(p2, p3) /\ p3.at = p2.at
    <3> HIDE DEF p2
    <3> QED  BY <2>2 DEF Page, Besides
  <2>4. v = [page |-> p3, net |-> w.net]
    BY <1>1, <1>2 DEF Rejected
  <2> HIDE DEF p1, p2, p3
  <2> QED  BY <1>1, <2>1, <2>2, <2>3, <2>4, BesidesGood DEF Besides
<1>3. CASE r.id # "config" /\ r.id \in Forms
  <2> DEFINE p == [w.page EXCEPT !.loading = FALSE]
  <2>1. p \in Page /\ Besides(w.page, p) /\ p.at = w.page.at
    BY <1>1 DEF Page, Besides
  <2>2. v = [page |-> p, net |-> w.net]
    BY <1>1, <1>3 DEF Rejected
  <2> HIDE DEF p
  <2> QED  BY <1>1, <2>1, <2>2, BesidesGood
<1>4. CASE r.id # "config" /\ r.id \notin Forms
  BY <1>4 DEF Rejected
<1> QED  BY <1>2, <1>3, <1>4

LEMMA SetAuthGood ==
    ASSUME NEW w, NEW stored, Fair(w, stored), NEW t \in Tokens, NEW v, v = SetAuth(w, t)
    PROVE  Good(v, stored)
<1>1. [token |-> t, user |-> TRUE] \in Kept
  BY DEF Kept
<1> QED  BY <1>1, KeepsGood DEF SetAuth

LEMMA ResolvedGood ==
    ASSUME NEW w, NEW stored, Good(w, stored), NEW r \in Request, NEW ans \in CallAnswers,
           NEW v, v = Resolved(w, r, ans)
    PROVE  Good(v, stored)
<1>1. w = [page |-> w.page, net |-> w.net] /\ w.page \in Page /\ CallsFit(w.net)
  BY DEF Good, Fair
<1>2. ASSUME NEW p \in Page, Besides(w.page, p), p.at = w.page.at
      PROVE  Good([page |-> p, net |-> w.net], stored)
  BY <1>1, <1>2, BesidesGood
<1>3. CASE r.id \in {"login", "register"}
  <2> DEFINE p == [w.page EXCEPT !.loading = FALSE]
  <2>1. p \in Page /\ Besides(w.page, p) /\ p.at = w.page.at
    BY <1>1 DEF Page, Besides
  <2>2. v = SetAuth([page |-> p, net |-> w.net], ans.token)
    <3>1. v = SetAuth([w EXCEPT !.page = p], ans.token)
      BY <1>3 DEF Resolved, SetAuth
    <3>2. [w EXCEPT !.page = p] = [page |-> p, net |-> w.net]
      <4> HIDE DEF p
      <4> QED  BY <1>1
    <3> QED  BY <3>1, <3>2
  <2> HIDE DEF p
  <2>3. ans.token \in Tokens
    BY DEF CallAnswers
  <2> QED  BY <1>2, <2>1, <2>2, <2>3, SetAuthGood DEF Good
<1>4. CASE r.id = "config" /\ w.page.at # "drawer"
  <2> DEFINE p1 == [w.page EXCEPT !.oauthCfg = TRUE]
             p2 == [p1 EXCEPT !.bridge = IF @ = "config" THEN "browser" ELSE @]
             p3 == [p2 EXCEPT !.apple = IF @ = "config" THEN "browser" ELSE @]
  <2>1. p1 \in Page /\ Besides(w.page, p1) /\ p1.at = w.page.at
    BY <1>1 DEF Page, Besides
  <2>2. p2 \in Page /\ Besides(p1, p2) /\ p2.at = p1.at
    <3> HIDE DEF p1
    <3> QED  BY <2>1 DEF Page, Besides
  <2>3. p3 \in Page /\ Besides(p2, p3) /\ p3.at = p2.at
    <3> HIDE DEF p2
    <3> QED  BY <2>2 DEF Page, Besides
  <2>4. v = [page |-> p3, net |-> w.net]
    BY <1>1, <1>4 DEF Resolved
  <2> HIDE DEF p1, p2, p3
  <2> QED  BY <1>2, <2>1, <2>2, <2>3, <2>4 DEF Besides
<1>5. CASE r.id \in {"sendCode", "verifyCode"}
  <2> DEFINE p == [w.page EXCEPT !.step = IF r.id = "sendCode" THEN "verify" ELSE "reset",
                                 !.loading = FALSE]
  <2>1. p \in Page /\ Besides(w.page, p) /\ p.at = w.page.at
    BY <1>1 DEF Page, Besides
  <2>2. v = [page |-> p, net |-> w.net]
    BY <1>1, <1>5 DEF Resolved
  <2> HIDE DEF p
  <2> QED  BY <1>2, <2>1, <2>2
<1>6. CASE r.id = "resetPassword"
  <2> DEFINE p == [w.page EXCEPT !.step = "done", !.loading = FALSE, !.timer = TRUE]
  <2>1. p \in Page /\ Besides(w.page, p) /\ p.at = w.page.at
    BY <1>1 DEF Page, Besides
  <2>2. v = [page |-> p, net |-> w.net]
    BY <1>1, <1>6 DEF Resolved
  <2> HIDE DEF p
  <2> QED  BY <1>2, <2>1, <2>2
<1>7. CASE /\ r.id \notin {"login", "register", "sendCode", "verifyCode", "resetPassword"}
           /\ r.id = "config" => w.page.at = "drawer"
  BY <1>7, Zenon DEF Resolved
<1> QED  BY <1>3, <1>4, <1>5, <1>6, <1>7

-----------------------------------------------------------------------------
(* The app and the device                                                   *)

\* Nothing else happens before the app knows whether there is a session.
LEMMA Asleep ==
    ASSUME page = AppStarts, net = NoCalls(Kinds), AppNext  PROVE Hydrate
<1>1. /\ ~page.hydrated /\ page.at = "Login" /\ ~page.writing /\ page.late = {} /\ ~page.timer
      /\ page.bridge = None /\ page.apple = None /\ ~page.prompt /\ page.step = "request"
  BY DEF AppStarts
<1>2. net["call"] = {} /\ net["refresh"] = {}
  BY DEF NoCalls, Kinds
<1>3. ~DeviceWrites /\ ~DeviceFails /\ ~Killed /\ ~SwitchScreen /\ ~Submit /\ ~Recover
  BY <1>1 DEF DeviceWrites, DeviceFails, Killed, SwitchScreen, Submit, Signing, Recover
<1>4. ~UseDifferentEmail /\ ~ToLogin /\ ~AnswerPrompt /\ ~BridgeReturns /\ ~AppleReturns
  BY <1>1 DEF UseDifferentEmail, ToLogin, AnswerPrompt, BridgeReturns, AppleReturns, None
<1>5. ~AppleSignIn /\ \A p \in Providers : ~SocialSignIn(p)
  BY <1>1 DEF AppleSignIn, SocialSignIn, CanUse, Signing
<1>6. /\ ~ToggleBuilder /\ ~Logout /\ (\A id \in WorkIds : ~Work(id)) /\ \A s \in Menu : ~GoTo(s)
  BY <1>1 DEF ToggleBuilder, Logout, Work, GoTo, InApp
<1>7. ~DeliverCall /\ ~DeliverRefresh /\ ~ServeCall /\ ~ServeRefresh /\ ~Lose
  BY <1>2 DEF DeliverCall, Deliver, DeliverRefresh, ServeCall, Serve, ServeRefresh, Lose, Lost,
              Came, Asked, Kinds
<1> QED  BY <1>3, <1>4, <1>5, <1>6, <1>7 DEF AppNext

LEMMA NowIs == Now.page = page /\ Now.net = net /\ Now = [page |-> Now.page, net |-> Now.net]
BY DEF Now

LEMMA BecomesGood ==
    ASSUME SessionInv, UNCHANGED server, NEW w, Becomes(w), Good(w, server.stored)
    PROVE  SessionInv'
<1>1. w = [page |-> w.page, net |-> w.net]
  BY DEF Good, Fair
<1>2. Now' = w
  BY <1>1 DEF Now, Becomes
<1> QED  BY <1>2 DEF SessionInv

\* The server may have issued a token.
LEMMA IssuedGood ==
    ASSUME SessionInv, server' \in Server, server'.stored = server.stored,
           NEW w, Becomes(w), Good(w, server.stored)
    PROVE  SessionInv'
<1>1. w = [page |-> w.page, net |-> w.net]
  BY DEF Good, Fair
<1>2. Now' = w
  BY <1>1 DEF Now, Becomes
<1> QED  BY <1>2 DEF SessionInv

LEMMA StartsTyped ==
    ASSUME MaxTokens \in Nat
    PROVE  AppStarts \in Page /\ AppStarts.at = "Login" /\ NoSession \in Kept
<1>1. NoSession \in Kept
  BY DEF Kept, NoSession, Tokens
<1> HIDE DEF Kept, NoSession
<1> QED  BY <1>1 DEF AppStarts, Page, Menu

LEMMA StartsGood ==
    ASSUME MaxTokens \in Nat, NEW s \in Kept, NEW m \in BOOLEAN, NEW stored, m \/ stored = s, NEW w,
           w = [page |-> [AppStarts EXCEPT !.hydrated = TRUE, !.session = s, !.missed = m],
                net |-> NoCalls(Kinds)]
    PROVE  Fair(w, stored)
<1>1. AppStarts \in Page
  BY StartsTyped
<1> DEFINE p == [AppStarts EXCEPT !.hydrated = TRUE, !.session = s, !.missed = m]
<1>2. p \in Page /\ p.hydrated /\ p.session = s /\ p.missed = m
  BY <1>1 DEF Page
<1>3. ~p.refreshing /\ p.waiting = {}
  BY DEF AppStarts
<1> HIDE DEF p
<1>4. w.page = p /\ w.net = NoCalls(Kinds) /\ w = [page |-> w.page, net |-> w.net]
  BY DEF p
<1> QED  BY <1>2, <1>3, <1>4, NoneFit DEF Fair, Written, Shared

LEMMA HydratedGood ==
    ASSUME MaxTokens \in Nat, page = AppStarts, net = NoCalls(Kinds),
           NEW s \in Kept, NEW m \in BOOLEAN, NEW stored, m \/ stored = s,
           NEW v, v = Hydrated(s, m)
    PROVE  Good(v, stored)
<1> DEFINE p1 == [page EXCEPT !.hydrated = TRUE]
           p2 == [p1 EXCEPT !.session = s]
           p3 == [p2 EXCEPT !.missed = m]
           w0 == [page |-> p3, net |-> net]
           w1 == Navigated(w0)
<1>1. [Now EXCEPT !.page.hydrated = TRUE, !.page.session = s, !.page.missed = m] = w0
  <2>1. [Now EXCEPT !.page = [Now.page EXCEPT !.hydrated = TRUE]] = [page |-> p1, net |-> net]
    <3>1. [Now EXCEPT !.page = [Now.page EXCEPT !.hydrated = TRUE]] = [Now EXCEPT !.page = p1]
      BY NowIs
    <3> HIDE DEF p1
    <3> QED  BY <3>1 DEF Now
  <2> HIDE DEF p1
  <2>2. [[page |-> p1, net |-> net] EXCEPT !.page = p2] = [page |-> p2, net |-> net]
    OBVIOUS
  <2>3. [Now EXCEPT !.page.hydrated = TRUE, !.page.session = s, !.page.missed = m]
          = [[[page |-> p1, net |-> net] EXCEPT !.page = p2] EXCEPT !.page = [p2 EXCEPT !.missed = m]]
    BY <2>1
  <2> HIDE DEF p2
  <2>4. [[page |-> p2, net |-> net] EXCEPT !.page = [p2 EXCEPT !.missed = m]] = w0
    OBVIOUS
  <2> QED  BY <2>2, <2>3, <2>4
<1>2. v = IF s.token = 0 THEN Asks(w1, "config") ELSE w1
  <2>1. v = LET w == Navigated([Now EXCEPT !.page.hydrated = TRUE, !.page.session = s, !.page.missed = m])
            IN  IF s.token = 0 THEN Asks(w, "config") ELSE w
    BY DEF Hydrated
  <2> HIDE DEF w0
  <2> QED  BY <1>1, <2>1
<1>3. Good(w1, stored)
  <2>1. w0 = [page |-> [AppStarts EXCEPT !.hydrated = TRUE, !.session = s, !.missed = m],
              net |-> NoCalls(Kinds)]
    OBVIOUS
  <2>2. Fair(w0, stored)
    BY <2>1, StartsGood
  <2> HIDE DEF w0
  <2> QED  BY <2>2, NavigatedGood
<1> HIDE DEF w1
<1>4. Good(Asks(w1, "config"), stored)
  BY <1>3, AsksGood DEF CallIds
<1> QED  BY <1>2, <1>3, <1>4

LEMMA HydrateGood ==
    ASSUME MaxTokens \in Nat, SessionInv, Hydrate  PROVE SessionInv'
<1>1. page = AppStarts /\ net = NoCalls(Kinds) /\ UNCHANGED server /\ server.stored \in Kept
  BY NowIs DEF SessionInv, Hydrate, Same, Good, Fair, Server
<1>2. PICK s \in Kept, m \in BOOLEAN : (m \/ server.stored = s) /\ Becomes(Hydrated(s, m))
  <2>1. NoSession \in Kept
    BY StartsTyped
  <2> QED  BY <1>1, <2>1 DEF Hydrate
<1>3. Good(Hydrated(s, m), server.stored)
  BY <1>1, <1>2, HydratedGood
<1> QED  BY <1>1, <1>2, <1>3, BecomesGood

\* What the device does leaves the app as it is, but for what is written.
LEMMA DeviceGood ==
    ASSUME Good(Now, server.stored), server' \in Server, UNCHANGED net,
           NEW b \in BOOLEAN, NEW late \in SUBSET Kept, NEW m \in BOOLEAN,
           page' = [page EXCEPT !.writing = b, !.late = late, !.missed = m],
           b \/ m \/ server'.stored = page.session
    PROVE  SessionInv'
<1>1. page \in Page /\ page.hydrated /\ CallsFit(net) /\ Shared(Now)
      /\ (page.at = "drawer" <=> page.session.token # 0)
  BY NowIs DEF Good, Fair
<1>2. /\ page' \in Page /\ page'.hydrated /\ page'.session = page.session /\ page'.at = page.at
      /\ page'.refreshing = page.refreshing /\ page'.waiting = page.waiting
      /\ page'.writing = b /\ page'.missed = m
  BY <1>1 DEF Page
<1>3. Now' = [page |-> page', net |-> net]
  BY DEF Now
<1>4. Now'.page = page' /\ Now'.net = net /\ Now' = [page |-> Now'.page, net |-> Now'.net]
  BY <1>3
<1>5. Good(Now', server'.stored)
  BY <1>1, <1>2, <1>4, NowIs DEF Good, Fair, Shared, Written
<1> QED  BY <1>5 DEF SessionInv

\* Before it is hydrated, the app has nothing on its way to the device.
LEMMA Awake ==
    ASSUME SessionInv, page.writing \/ page.late # {}
    PROVE  /\ Good(Now, server.stored) /\ server \in Server /\ page \in Page
           /\ page.writing \in BOOLEAN /\ page.late \in SUBSET Kept /\ page.missed \in BOOLEAN
           /\ page.session \in Kept /\ Written(page, server.stored)
<1>1. ~AppStarts.writing /\ AppStarts.late = {}
  BY DEF AppStarts
<1>2. Good(Now, server.stored) /\ server \in Server
  BY <1>1 DEF SessionInv
<1>3. page \in Page /\ Written(page, server.stored)
  BY <1>2, NowIs DEF Good, Fair
<1> QED  BY <1>2, <1>3 DEF Page

LEMMA DeviceWritesGood ==
    ASSUME SessionInv, DeviceWrites  PROVE SessionInv'
<1>1. UNCHANGED net
  BY DEF DeviceWrites
<1>2. CASE /\ page.writing
           /\ server' = [server EXCEPT !.stored = page.session]
           /\ page' = [page EXCEPT !.writing = FALSE, !.missed = FALSE]
  <2>1. Good(Now, server.stored) /\ server \in Server /\ page \in Page /\ page.session \in Kept
        /\ page.late \in SUBSET Kept
    BY <1>2, Awake
  <2>2. server' \in Server /\ server'.stored = page.session
    BY <1>2, <2>1 DEF Server
  <2>3. page' = [page EXCEPT !.writing = FALSE, !.late = page.late, !.missed = FALSE]
    BY <1>2, <2>1 DEF Page
  <2>4. PICK b \in BOOLEAN : b = FALSE
    OBVIOUS
  <2>5. page' = [page EXCEPT !.writing = b, !.late = page.late, !.missed = b]
    BY <2>3, <2>4
  <2> QED  BY <1>1, <2>1, <2>2, <2>4, <2>5, DeviceGood
<1>3. ASSUME NEW session \in page.late,
             server' = [server EXCEPT !.stored = session],
             page' = [page EXCEPT !.late = @ \ {session}, !.missed = @ \/ ~page.writing]
      PROVE  SessionInv'
  <2>1. Good(Now, server.stored) /\ server \in Server /\ page \in Page
        /\ page.late \in SUBSET Kept /\ page.writing \in BOOLEAN /\ page.missed \in BOOLEAN
    BY <1>3, Awake
  <2>2. server' \in Server
    BY <1>3, <2>1 DEF Server
  <2>3. PICK b \in BOOLEAN : b = page.writing
    BY <2>1
  <2>4. PICK m \in BOOLEAN : m = (page.missed \/ ~page.writing)
    BY <2>1
  <2>5. PICK late \in SUBSET Kept : late = page.late \ {session}
    BY <2>1
  <2>6. page' = [page EXCEPT !.writing = b, !.late = late, !.missed = m]
    BY <1>3, <2>1, <2>3, <2>4, <2>5 DEF Page
  <2>7. b \/ m \/ server'.stored = page.session
    BY <2>3, <2>4
  <2> QED  BY <1>1, <2>1, <2>2, <2>6, <2>7, DeviceGood
<1> QED  BY <1>2, <1>3 DEF DeviceWrites

\* A write that failed leaves what was there.
LEMMA DeviceFailsGood ==
    ASSUME SessionInv, DeviceFails  PROVE SessionInv'
<1>1. UNCHANGED <<net, server>> /\ (page.writing \/ page.late # {})
  BY DEF DeviceFails
<1>2. /\ Good(Now, server.stored) /\ server \in Server /\ page \in Page
      /\ page.late \in SUBSET Kept /\ page.writing \in BOOLEAN /\ page.missed \in BOOLEAN
      /\ Written(page, server.stored)
  BY <1>1, Awake
<1>3. CASE page.writing /\ page' = [page EXCEPT !.writing = FALSE, !.missed = TRUE]
  <2>1. PICK b \in BOOLEAN, m \in BOOLEAN : b = FALSE /\ m = TRUE
    OBVIOUS
  <2>2. page' = [page EXCEPT !.writing = b, !.late = page.late, !.missed = m]
    BY <1>2, <1>3, <2>1 DEF Page
  <2> QED  BY <1>1, <1>2, <2>1, <2>2, DeviceGood
<1>4. ASSUME NEW session \in page.late, page' = [page EXCEPT !.late = @ \ {session}]
      PROVE  SessionInv'
  <2>1. PICK b \in BOOLEAN, m \in BOOLEAN : b = page.writing /\ m = page.missed
    BY <1>2
  <2>2. PICK late \in SUBSET Kept : late = page.late \ {session}
    BY <1>2
  <2>3. page' = [page EXCEPT !.writing = b, !.late = late, !.missed = m]
    BY <1>2, <1>4, <2>1, <2>2 DEF Page
  <2> QED  BY <1>1, <1>2, <2>1, <2>3, DeviceGood DEF Written
<1> QED  BY <1>3, <1>4 DEF DeviceFails

\* Killed, the app loses what it had not written, and all it had asked for.
LEMMA KilledGood ==
    ASSUME SessionInv, Killed  PROVE SessionInv'
BY DEF SessionInv, Killed, Same

-----------------------------------------------------------------------------
(* The interceptor                                                          *)

LEMMA TakenGood ==
    ASSUME Good(Now, server.stored), NEW c,
           NEW w, w = [Now EXCEPT !.net = Without(@, "call", c)]
    PROVE  Good(w, server.stored)
<1>1. page \in Page /\ CallsFit(net)
  BY NowIs DEF Good, Fair
<1>2. PICK n : n = Without(net, "call", c)
  OBVIOUS
<1>3. CallsFit(n) /\ n["refresh"] = net["refresh"]
  BY <1>1, <1>2, TakenFits DEF Kinds
<1>4. w = [page |-> page, net |-> n]
  BY <1>2, NowIs DEF Now
<1> QED  BY <1>1, <1>3, <1>4, NowIs, BesidesGood DEF Besides

LEMMA DeliverCallGood ==
    ASSUME MaxTokens \in Nat, SessionInv, Good(Now, server.stored), DeliverCall  PROVE SessionInv'
<1>1. PICK id \in CallIds, c \in Came("call") :
        /\ Becomes(LET w == [Now EXCEPT !.net = Without(@, "call", c)]
                       reply == IF Ok(c) THEN c.ans.reply ELSE "refused"
                   IN  CASE ~Here(c.to) -> w
                         [] Here(c.to) /\ reply = "ok" -> Resolved(w, c.to, c.ans)
                         [] Here(c.to) /\ reply = "401" /\ ~c.to.retry -> Unauthorized(Rejected(w, c.to), c.to)
                         [] Here(c.to) /\ reply = "402" -> [w EXCEPT !.page.prompt = TRUE]
                         [] OTHER -> Rejected(w, c.to))
        /\ UNCHANGED server
  BY DEF DeliverCall, Deliver, Same
<1>2. PICK w : w = [Now EXCEPT !.net = Without(@, "call", c)]
  OBVIOUS
<1>3. Good(w, server.stored)
  BY <1>2, TakenGood
<1>4. PICK reply : reply = IF Ok(c) THEN c.ans.reply ELSE "refused"
  OBVIOUS
<1>5. c.to \in Request /\ (reply = "ok" => c.ans \in CallAnswers)
  <2>1. Fits(c, Request, CallAnswers)
    BY NowIs DEF Good, Fair, CallsFit, Came
  <2> QED  BY <2>1, <1>4 DEF Fits, Ok
<1>6. \/ Becomes(w)
      \/ reply = "ok" /\ Becomes(Resolved(w, c.to, c.ans))
      \/ Becomes(Unauthorized(Rejected(w, c.to), c.to))
      \/ Becomes([w EXCEPT !.page.prompt = TRUE])
      \/ Becomes(Rejected(w, c.to))
  BY <1>1, <1>2, <1>4, Zenon
<1>7. Good(Resolved(w, c.to, c.ans), server.stored) \/ reply # "ok"
  BY <1>3, <1>5, ResolvedGood
<1>8. Good(Rejected(w, c.to), server.stored)
  BY <1>3, RejectedGood
<1>9. Good(Unauthorized(Rejected(w, c.to), c.to), server.stored)
  BY <1>5, <1>8, UnauthorizedGood
<1>10. Good([w EXCEPT !.page.prompt = TRUE], server.stored)
  <2> DEFINE p == [w.page EXCEPT !.prompt = TRUE]
  <2>1. w = [page |-> w.page, net |-> w.net] /\ w.page \in Page /\ CallsFit(w.net)
    BY <1>3 DEF Good, Fair
  <2>2. p \in Page /\ Besides(w.page, p) /\ p.at = w.page.at
    BY <2>1 DEF Page, Besides
  <2> HIDE DEF p
  <2>3. [w EXCEPT !.page = p] = [page |-> p, net |-> w.net]
    BY <2>1
  <2>4. Good([w EXCEPT !.page = p], server.stored)
    BY <1>3, <2>1, <2>2, <2>3, BesidesGood
  <2> QED  BY <2>4 DEF p
<1> QED  BY <1>1, <1>3, <1>6, <1>7, <1>8, <1>9, <1>10, BecomesGood

\* The calls that waited are asked again.
LEMMA AgainFits ==
    ASSUME NEW n, CallsFit(n), NEW asked \in SUBSET Request, NEW t \in Tokens,
           NEW m, m = Again(n, asked, t)
    PROVE  CallsFit(m) /\ m["refresh"] = n["refresh"]
<1>1. /\ DOMAIN m = Kinds /\ m["refresh"] = n["refresh"]
      /\ m["call"] = n["call"] \cup {Sent([r EXCEPT !.retry = TRUE, !.token = t]) : r \in asked}
  BY DEF Again, CallsFit, Kinds
<1>2. ASSUME NEW r \in asked
      PROVE  Fits(Sent([r EXCEPT !.retry = TRUE, !.token = t]), Request, CallAnswers)
  <2>1. PICK q : q = [r EXCEPT !.retry = TRUE, !.token = t]
    OBVIOUS
  <2>2. q \in Request
    BY <2>1 DEF Request
  <2> QED  BY <2>1, <2>2 DEF Fits, Sent
<1> QED  BY <1>1, <1>2 DEF CallsFit

LEMMA DeliverRefreshGood ==
    ASSUME MaxTokens \in Nat, SessionInv, Good(Now, server.stored), DeliverRefresh
    PROVE  SessionInv'
<1>1. PICK c \in Came("refresh") :
        LET w == [page |-> [page EXCEPT !.refreshing = FALSE, !.waiting = {}],
                  net  |-> Without(net, "refresh", c)]
        IN  /\ UNCHANGED server
            /\ IF Ok(c)
               THEN LET v == SetTokens(w, c.ans)
                    IN  page' = v.page /\ net' = Again(v.net, page.waiting, c.ans)
               ELSE Becomes(LoggedOut(w))
  BY DEF DeliverRefresh, Same
<1>2. page \in Page /\ page.hydrated /\ CallsFit(net) /\ Written(page, server.stored)
      /\ Shared(Now) /\ c \in net["refresh"]
  BY NowIs DEF Good, Fair, Came
<1> DEFINE p == [page EXCEPT !.refreshing = FALSE, !.waiting = {}]
<1>3. PICK n : n = Without(net, "refresh", c)
  OBVIOUS
<1>4. PICK w : w = [page |-> p, net |-> n]
  OBVIOUS
<1>5. CallsFit(n) /\ n["refresh"] = {}
  <2>1. CallsFit(n) /\ n["refresh"] = net["refresh"] \ {c}
    BY <1>2, <1>3, TakenFits DEF Kinds
  <2>2. \E d : net["refresh"] = {d}
    BY <1>2, NowIs DEF Shared
  <2> QED  BY <2>1, <2>2, <1>2
<1>6. /\ p \in Page /\ p.hydrated /\ p.session = page.session /\ p.writing = page.writing /\ p.missed = page.missed
      /\ ~p.refreshing /\ p.waiting = {}
  BY <1>2 DEF Page
<1>7. Fits(c, Tokens, Tokens)
  BY <1>2 DEF CallsFit
<1>8. \/ Ok(c) /\ page' = SetTokens(w, c.ans).page
              /\ net' = Again(SetTokens(w, c.ans).net, page.waiting, c.ans)
      \/ Becomes(LoggedOut(w))
  BY <1>1, <1>3, <1>4
<1> HIDE DEF p
<1>9. Fair(w, server.stored) /\ w.page = p
  BY <1>2, <1>4, <1>5, <1>6 DEF Fair, Written, Shared
<1>10. CASE Becomes(LoggedOut(w))
  BY <1>1, <1>9, <1>10, LoggedOutGood, BecomesGood
<1>11. CASE /\ Ok(c) /\ page' = SetTokens(w, c.ans).page
            /\ net' = Again(SetTokens(w, c.ans).net, page.waiting, c.ans)
  <2>1. c.ans \in Tokens
    BY <1>7, <1>11 DEF Fits, Ok
  <2>2. PICK s : s = [w.page.session EXCEPT !.token = c.ans]
    OBVIOUS
  <2>3. s \in Kept
    BY <2>1, <2>2, <1>6, <1>9 DEF Page, Kept
  <2>4. PICK v : v = SetTokens(w, c.ans)
    OBVIOUS
  <2>5. Good(v, server.stored)
    BY <2>2, <2>3, <2>4, <1>9, KeepsGood DEF SetTokens
  <2>6. PICK m : m = Again(v.net, page.waiting, c.ans)
    OBVIOUS
  <2>7. page.waiting \in SUBSET Request
    BY <1>2 DEF Page
  <2>8. CallsFit(m) /\ m["refresh"] = v.net["refresh"] /\ v.page \in Page
    BY <2>1, <2>5, <2>6, <2>7, AgainFits DEF Good, Fair
  <2>9. Good([page |-> v.page, net |-> m], server.stored)
    BY <2>5, <2>8, BesidesGood DEF Besides
  <2>10. Becomes([page |-> v.page, net |-> m])
    BY <1>11, <2>4, <2>6 DEF Becomes
  <2> QED  BY <1>1, <2>9, <2>10, BecomesGood
<1> QED  BY <1>8, <1>10, <1>11

-----------------------------------------------------------------------------
(* The screens                                                              *)

LEMMA PageGood ==
    ASSUME SessionInv, Good(Now, server.stored), UNCHANGED <<net, server>>, page' \in Page,
           Besides(page, page'), page'.at = "drawer" <=> page.at = "drawer"
    PROVE  SessionInv'
<1>1. Good([page |-> page', net |-> net], server.stored)
  BY NowIs, BesidesGood DEF Good, Fair
<1> QED  BY <1>1, BecomesGood DEF Becomes

\* A handler that changes the page and then asks for something.
LEMMA PageAsks ==
    ASSUME SessionInv, Good(Now, server.stored), UNCHANGED server, NEW p \in Page,
           Besides(page, p), p.at = page.at, NEW id \in CallIds,
           Becomes(Asks([page |-> p, net |-> net], id))
    PROVE  SessionInv'
<1>1. Good([page |-> p, net |-> net], server.stored)
  BY NowIs, BesidesGood DEF Good, Fair
<1>2. Good(Asks([page |-> p, net |-> net], id), server.stored)
  BY <1>1, AsksGood
<1> QED  BY <1>2, BecomesGood

LEMMA NowWith ==
    ASSUME NEW p, NEW q
    PROVE  /\ [Now EXCEPT !.page = p] = [page |-> p, net |-> net]
           /\ [[page |-> p, net |-> net] EXCEPT !.page = q] = [page |-> q, net |-> net]
BY DEF Now

LEMMA StaysGood ==
    ASSUME SessionInv, Good(Now, server.stored),
           SwitchScreen \/ UseDifferentEmail \/ ToLogin \/ ToggleBuilder
               \/ (\E s \in Menu : GoTo(s)) \/ AnswerPrompt
    PROVE  SessionInv'
<1>1. page \in Page
  BY NowIs DEF Good, Fair
<1>2. CASE SwitchScreen
  <2>1. PICK at \in {"Login", "Register", "ForgotPassword"} :
          page' = [page EXCEPT !.at = at, !.loading = FALSE, !.step = "request"]
    BY <1>2 DEF SwitchScreen, Navigate
  <2>2. UNCHANGED <<net, server>> /\ page.at # "drawer"
    BY <1>2 DEF SwitchScreen, Navigate, Same
  <2>3. page' \in Page /\ Besides(page, page') /\ page'.at # "drawer"
    BY <1>1, <2>1 DEF Page, Besides
  <2> QED  BY <2>2, <2>3, PageGood
<1>3. CASE UseDifferentEmail
  <2>1. page' = [page EXCEPT !.step = "request"] /\ UNCHANGED <<net, server>>
    BY <1>3 DEF UseDifferentEmail, Stays, Same
  <2>2. page' \in Page /\ Besides(page, page') /\ page'.at = page.at
    BY <1>1, <2>1 DEF Page, Besides
  <2> QED  BY <2>1, <2>2, PageGood
<1>4. CASE ToLogin
  <2>1. page' = [page EXCEPT !.timer = FALSE,
                     !.at = IF @ = "ForgotPassword" THEN "Login" ELSE @, !.step = "request"]
        /\ UNCHANGED <<net, server>>
    BY <1>4 DEF ToLogin, Stays, Same
  <2>2. page' \in Page /\ Besides(page, page') /\ (page'.at = "drawer" <=> page.at = "drawer")
    BY <1>1, <2>1 DEF Page, Besides
  <2> QED  BY <2>1, <2>2, PageGood
<1>5. CASE ToggleBuilder
  <2>1. page' = [page EXCEPT !.builderExpanded = ~@] /\ UNCHANGED <<net, server>>
    BY <1>5 DEF ToggleBuilder, Stays, Same
  <2>2. page' \in Page /\ Besides(page, page') /\ page'.at = page.at
    BY <1>1, <2>1 DEF Page, Besides
  <2> QED  BY <2>1, <2>2, PageGood
<1>6. CASE \E s \in Menu : GoTo(s)
  <2>1. PICK s \in Menu : page' = [page EXCEPT !.active = s] /\ UNCHANGED <<net, server>>
    BY <1>6 DEF GoTo, Stays, Same
  <2>2. page' \in Page /\ Besides(page, page') /\ page'.at = page.at
    BY <1>1, <2>1 DEF Page, Besides
  <2> QED  BY <2>1, <2>2, PageGood
<1>7. CASE AnswerPrompt
  <2>1. PICK s \in Menu : page' = [page EXCEPT !.prompt = FALSE, !.active = s]
    <3>1. CASE Stays([page EXCEPT !.prompt = FALSE])
      <4>1. page.active \in Menu
        BY <1>1 DEF Page
      <4>2. page' = [page EXCEPT !.prompt = FALSE, !.active = page.active]
        BY <3>1, <1>1 DEF Stays, Page
      <4> QED  BY <4>1, <4>2
    <3>2. CASE Stays([page EXCEPT !.prompt = FALSE, !.active = "Billing"])
      BY <3>2 DEF Stays, Menu
    <3> QED  BY <1>7, <3>1, <3>2 DEF AnswerPrompt
  <2>2. UNCHANGED <<net, server>>
    BY <1>7 DEF AnswerPrompt, Stays, Same
  <2>3. page' \in Page /\ Besides(page, page') /\ page'.at = page.at
    BY <1>1, <2>1 DEF Page, Besides
  <2> QED  BY <2>2, <2>3, PageGood
<1> QED  BY <1>2, <1>3, <1>4, <1>5, <1>6, <1>7

LEMMA FormGood ==
    ASSUME SessionInv, Good(Now, server.stored), Submit \/ Recover  PROVE SessionInv'
<1> DEFINE p == [page EXCEPT !.loading = TRUE]
<1>1. PICK id \in CallIds :
        UNCHANGED server /\ Becomes(Asks([Now EXCEPT !.page.loading = TRUE], id))
  <2>1. CASE Submit
    BY <2>1 DEF Submit, SendForm, Same, CallIds, Forms
  <2>2. CASE Recover
    <3>1. StepForm[page.step] \in CallIds
      BY <2>2, NowIs DEF Recover, StepForm, Good, Fair, Page, CallIds, Forms
    <3> QED  BY <2>2, <3>1 DEF Recover, SendForm, Same
  <2> QED  BY <2>1, <2>2
<1>2. [Now EXCEPT !.page.loading = TRUE] = [Now EXCEPT !.page = p]
  BY NowIs
<1>3. p \in Page /\ Besides(page, p) /\ p.at = page.at
  BY NowIs DEF Good, Fair, Page, Besides
<1> HIDE DEF p
<1> QED  BY <1>1, <1>2, <1>3, NowWith, PageAsks

LEMMA ButtonGood ==
    ASSUME SessionInv, Good(Now, server.stored),
           (\E p \in Providers : SocialSignIn(p)) \/ AppleSignIn \/ (\E id \in WorkIds : Work(id))
    PROVE  SessionInv'
<1>1. page \in Page
  BY NowIs DEF Good, Fair
<1>2. CASE \E p \in Providers : SocialSignIn(p)
  <2>1. PICK s \in Providers :
          UNCHANGED server
          /\ Becomes(Asks([Now EXCEPT !.page.social = s, !.page.bridge = "config"], "config"))
    BY <1>2 DEF SocialSignIn, Same
  <2> DEFINE p == [page EXCEPT !.social = s]
             q == [p EXCEPT !.bridge = "config"]
  <2>2. p \in Page /\ Besides(page, p) /\ p.at = page.at
    BY <1>1 DEF Page, Besides
  <2>3. q \in Page /\ Besides(p, q) /\ q.at = p.at
    <3> HIDE DEF p
    <3> QED  BY <2>2 DEF Page, Besides
  <2>4. [Now EXCEPT !.page.social = s, !.page.bridge = "config"] = [page |-> q, net |-> net]
    <3>1. [Now EXCEPT !.page = [Now.page EXCEPT !.social = s]] = [page |-> p, net |-> net]
      BY NowIs, NowWith
    <3> HIDE DEF p
    <3> QED  BY <3>1, NowWith
  <2> HIDE DEF p, q
  <2> QED  BY <2>1, <2>2, <2>3, <2>4, PageAsks DEF Besides, CallIds
<1>3. CASE AppleSignIn
  <2> DEFINE p == [page EXCEPT !.apple = "config"]
  <2>1. UNCHANGED server /\ Becomes(Asks([Now EXCEPT !.page.apple = "config"], "config"))
    BY <1>3 DEF AppleSignIn, Same
  <2>2. [Now EXCEPT !.page.apple = "config"] = [Now EXCEPT !.page = p]
    BY NowIs
  <2>3. p \in Page /\ Besides(page, p) /\ p.at = page.at
    BY <1>1 DEF Page, Besides
  <2> HIDE DEF p
  <2> QED  BY <2>1, <2>2, <2>3, NowWith, PageAsks DEF CallIds
<1>4. CASE \E id \in WorkIds : Work(id)
  <2>1. PICK id \in WorkIds : UNCHANGED server /\ Becomes(Asks(Now, id))
    BY <1>4 DEF Work, Same
  <2> QED  BY <2>1, AsksGood, BecomesGood DEF CallIds
<1> QED  BY <1>2, <1>3, <1>4

LEMMA LogoutGood ==
    ASSUME MaxTokens \in Nat, SessionInv, Good(Now, server.stored), Logout  PROVE SessionInv'
BY LoggedOutGood, BecomesGood DEF Logout, Same, Good

\* The page of a provider signs the app in with a token the server issues, or is closed.
LEMMA ReturnsGood ==
    ASSUME SessionInv, Good(Now, server.stored), MaxTokens \in Nat, NEW p \in Page,
           Besides(page, p), p.at = page.at, NEW w, w = [page |-> p, net |-> net],
           \/ /\ server.issued < MaxTokens
              /\ server' = [server EXCEPT !.issued = @ + 1]
              /\ Becomes(SetAuth(w, server.issued + 1))
           \/ Becomes(w) /\ UNCHANGED server
    PROVE  SessionInv'
<1>1. Good(w, server.stored)
  BY NowIs, BesidesGood DEF Good, Fair
<1>2. CASE Becomes(w) /\ UNCHANGED server
  BY <1>1, <1>2, BecomesGood
<1>3. CASE /\ server.issued < MaxTokens
           /\ server' = [server EXCEPT !.issued = @ + 1]
           /\ Becomes(SetAuth(w, server.issued + 1))
  <2>1. server.issued + 1 \in Tokens /\ server' \in Server /\ server'.stored = server.stored
    BY <1>3 DEF SessionInv, Server, Tokens
  <2>2. Good(SetAuth(w, server.issued + 1), server.stored)
    BY <1>1, <2>1, SetAuthGood DEF Good
  <2> QED  BY <1>3, <2>1, <2>2, IssuedGood
<1> QED  BY <1>2, <1>3

LEMMA SignedInGood ==
    ASSUME SessionInv, Good(Now, server.stored), MaxTokens \in Nat, BridgeReturns \/ AppleReturns
    PROVE  SessionInv'
<1>1. page \in Page
  BY NowIs DEF Good, Fair
<1>2. CASE BridgeReturns
  <2> DEFINE p == [page EXCEPT !.bridge = None]
             q == [p EXCEPT !.social = None]
  <2>1. p \in Page /\ Besides(page, p) /\ p.at = page.at
    BY <1>1 DEF Page, Besides
  <2>2. q \in Page /\ Besides(p, q) /\ q.at = p.at
    <3> HIDE DEF p
    <3> QED  BY <2>1 DEF Page, Besides
  <2>3. Idle(Now) = [page |-> q, net |-> net]
    <3>1. [Now EXCEPT !.page = [Now.page EXCEPT !.bridge = None]] = [page |-> p, net |-> net]
      BY NowIs, NowWith
    <3> HIDE DEF p
    <3> QED  BY <3>1, NowWith DEF Idle
  <2>4. \/ /\ server.issued < MaxTokens
           /\ server' = [server EXCEPT !.issued = @ + 1]
           /\ Becomes(SetAuth(Idle(Now), server.issued + 1))
        \/ Becomes(Idle(Now)) /\ UNCHANGED server
    BY <1>2 DEF BridgeReturns
  <2> HIDE DEF p, q
  <2> QED  BY <2>1, <2>2, <2>3, <2>4, ReturnsGood DEF Besides
<1>3. CASE AppleReturns
  <2> DEFINE p == [page EXCEPT !.apple = None]
  <2>1. p \in Page /\ Besides(page, p) /\ p.at = page.at
    BY <1>1 DEF Page, Besides
  <2>2. [Now EXCEPT !.page.apple = None] = [Now EXCEPT !.page = p]
    BY NowIs
  <2>3. PICK w : w = [Now EXCEPT !.page.apple = None]
    OBVIOUS
  <2>4. \/ /\ server.issued < MaxTokens
           /\ server' = [server EXCEPT !.issued = @ + 1]
           /\ Becomes(SetAuth(w, server.issued + 1))
        \/ Becomes(w) /\ UNCHANGED server
    BY <1>3, <2>3 DEF AppleReturns
  <2> HIDE DEF p
  <2> QED  BY <2>1, <2>2, <2>3, <2>4, NowWith, ReturnsGood
<1> QED  BY <1>2, <1>3

-----------------------------------------------------------------------------
(* The server                                                               *)

\* A call comes as far as the answer, or fails.
LEMMA AnsweredGood ==
    ASSUME SessionInv, server' \in Server, server'.stored = server.stored, UNCHANGED page,
           NEW k \in Kinds, NEW c \in net[k], NEW d,
           IF k = "call" THEN Fits(d, Request, CallAnswers) ELSE Fits(d, Tokens, Tokens),
           net' = [net EXCEPT ![k] = (@ \ {c}) \cup {d}]
    PROVE  SessionInv'
<1>1. Good(Now, server.stored)
  BY DEF SessionInv, NoCalls
<1>2. /\ page \in Page /\ page.hydrated /\ CallsFit(net) /\ Written(page, server.stored)
      /\ Shared(Now) /\ (page.at = "drawer" <=> page.session.token # 0)
  BY <1>1, NowIs DEF Good, Fair
<1>3. DOMAIN net' = Kinds /\ net'[k] = (net[k] \ {c}) \cup {d}
      /\ \A l \in Kinds \ {k} : net'[l] = net[l]
  BY <1>2 DEF CallsFit
<1>4. CallsFit(net')
  BY <1>2, <1>3 DEF CallsFit, Kinds
<1>5. Now'.page = page /\ Now'.net = net' /\ Now' = [page |-> Now'.page, net |-> Now'.net]
  BY DEF Now
<1>6. Shared(Now')
  <2>1. CASE k = "call"
    BY <2>1, <1>2, <1>3, <1>5, NowIs DEF Shared, Kinds
  <2>2. CASE k = "refresh"
    <3>1. page.refreshing /\ net["refresh"] = {c}
      BY <2>2, <1>2, NowIs DEF Shared
    <3>2. net'["refresh"] = {d}
      BY <2>2, <3>1, <1>3
    <3> QED  BY <3>1, <3>2, <1>5 DEF Shared
  <2> QED  BY <2>1, <2>2 DEF Kinds
<1>7. Good(Now', server.stored)
  BY <1>2, <1>4, <1>5, <1>6 DEF Good, Fair
<1> QED  BY <1>7 DEF SessionInv

LEMMA AskedFits ==
    ASSUME SessionInv, NEW k \in Kinds, NEW c \in net[k]
    PROVE  IF k = "call" THEN Fits(c, Request, CallAnswers) ELSE Fits(c, Tokens, Tokens)
<1>1. CallsFit(net)
  BY NowIs, NoneFit DEF SessionInv, Good, Fair
<1> QED  BY <1>1 DEF CallsFit, Kinds

LEMMA RefusedGood ==
    ASSUME SessionInv, UNCHANGED <<page, server>>, NEW k \in Kinds, NEW c \in net[k], Refuse(k, c)
    PROVE  SessionInv'
<1>1. PICK d : d = [to |-> c.to, phase |-> "failed"]
  OBVIOUS
<1>2. IF k = "call" THEN Fits(d, Request, CallAnswers) ELSE Fits(d, Tokens, Tokens)
  BY <1>1, AskedFits DEF Fits
<1>3. net' = [net EXCEPT ![k] = (@ \ {c}) \cup {d}]
  BY <1>1 DEF Refuse
<1>4. server' \in Server /\ server'.stored = server.stored
  BY DEF SessionInv
<1> QED  BY <1>2, <1>3, <1>4, AnsweredGood

LEMMA RepliedGood ==
    ASSUME SessionInv, server' \in Server, server'.stored = server.stored, UNCHANGED page,
           NEW k \in Kinds, NEW c \in net[k], NEW a,
           IF k = "call" THEN a \in CallAnswers ELSE a \in Tokens, Answer(k, c, a)
    PROVE  SessionInv'
<1>1. PICK d : d = [to |-> c.to, phase |-> "answered", ans |-> a]
  OBVIOUS
<1>2. IF k = "call" THEN Fits(d, Request, CallAnswers) ELSE Fits(d, Tokens, Tokens)
  BY <1>1, AskedFits DEF Fits
<1>3. net' = [net EXCEPT ![k] = (@ \ {c}) \cup {d}]
  BY <1>1 DEF Answer
<1> QED  BY <1>2, <1>3, AnsweredGood

LEMMA IssuedToken ==
    ASSUME MaxTokens \in Nat, SessionInv, server.issued < MaxTokens,
           server' = [server EXCEPT !.issued = @ + 1]
    PROVE  server' \in Server /\ server'.stored = server.stored /\ server.issued + 1 \in Tokens
BY DEF SessionInv, Server, Tokens

LEMMA ServeCallGood ==
    ASSUME MaxTokens \in Nat, SessionInv, ServeCall  PROVE SessionInv'
<1>1. PICK id \in CallIds, c \in Asked("call") :
        \/ /\ server.issued < MaxTokens
           /\ Answer("call", c, [reply |-> "ok", token |-> server.issued + 1])
           /\ server' = [server EXCEPT !.issued = @ + 1]
           /\ UNCHANGED page
        \/ /\ \/ \E reply \in {"ok", "401", "402"} : Answer("call", c, [reply |-> reply, token |-> 0])
              \/ Refuse("call", c)
           /\ UNCHANGED <<page, server>>
  BY DEF ServeCall, Serve
<1>2. c \in net["call"] /\ "call" \in Kinds
  BY DEF Asked, Kinds
<1>3. CASE /\ server.issued < MaxTokens
           /\ Answer("call", c, [reply |-> "ok", token |-> server.issued + 1])
           /\ server' = [server EXCEPT !.issued = @ + 1]
           /\ UNCHANGED page
  <2>1. server' \in Server /\ server'.stored = server.stored /\ server.issued + 1 \in Tokens
    BY <1>3, IssuedToken
  <2>2. [reply |-> "ok", token |-> server.issued + 1] \in CallAnswers
    BY <2>1 DEF CallAnswers
  <2> QED  BY <1>2, <1>3, <2>1, <2>2, RepliedGood
<1>4. ASSUME NEW reply \in {"ok", "401", "402"}, Answer("call", c, [reply |-> reply, token |-> 0]),
             UNCHANGED <<page, server>>
      PROVE  SessionInv'
  <2>1. [reply |-> reply, token |-> 0] \in CallAnswers
    BY DEF CallAnswers, Tokens
  <2>2. server' \in Server /\ server'.stored = server.stored
    BY <1>4 DEF SessionInv
  <2> QED  BY <1>2, <1>4, <2>1, <2>2, RepliedGood
<1>5. CASE Refuse("call", c) /\ UNCHANGED <<page, server>>
  BY <1>2, <1>5, RefusedGood
<1> QED  BY <1>1, <1>3, <1>4, <1>5

LEMMA ServeRefreshGood ==
    ASSUME MaxTokens \in Nat, SessionInv, ServeRefresh  PROVE SessionInv'
<1>1. PICK c \in Asked("refresh") :
        \/ /\ server.issued < MaxTokens
           /\ Answer("refresh", c, server.issued + 1)
           /\ server' = [server EXCEPT !.issued = @ + 1]
        \/ Refuse("refresh", c) /\ UNCHANGED server
  BY DEF ServeRefresh
<1>2. c \in net["refresh"] /\ "refresh" \in Kinds /\ UNCHANGED page
  BY DEF Asked, Kinds, ServeRefresh
<1>3. CASE /\ server.issued < MaxTokens
           /\ Answer("refresh", c, server.issued + 1)
           /\ server' = [server EXCEPT !.issued = @ + 1]
  BY <1>2, <1>3, IssuedToken, RepliedGood
<1>4. CASE Refuse("refresh", c) /\ UNCHANGED server
  BY <1>2, <1>4, RefusedGood
<1> QED  BY <1>1, <1>3, <1>4

LEMMA LoseGood ==
    ASSUME SessionInv, Lose  PROVE SessionInv'
<1>1. PICK k \in Kinds : \E c \in net[k] : Refuse(k, c)
  BY DEF Lose, Lost
<1> QED  BY <1>1, RefusedGood DEF Lose

-----------------------------------------------------------------------------
(* The theorems                                                             *)

LEMMA AtStart ==
    AppStarts.hydrated = FALSE /\ AppStarts.refreshing = FALSE /\ AppStarts.waiting = {}
BY DEF AppStarts

LEMMA InitSession ==
    ASSUME MaxTokens \in Nat \ {0}, AppInit  PROVE SessionInv
<1>1. PICK t \in 0 .. 1 : server = [stored |-> [token |-> t, user |-> t # 0], issued |-> t]
  BY DEF AppInit
<1>2. server \in Server
  BY <1>1 DEF Server, Kept, Tokens
<1> QED  BY <1>2 DEF AppInit, SessionInv

LEMMA NextSession ==
    ASSUME MaxTokens \in Nat \ {0}, SessionInv, [AppNext]_appVars  PROVE SessionInv'
<1>1. CASE UNCHANGED appVars
  BY <1>1 DEF appVars, SessionInv, Now
<1>2. CASE AppNext /\ page = AppStarts /\ net = NoCalls(Kinds)
  BY <1>2, Asleep, HydrateGood
<1>3. CASE AppNext /\ Good(Now, server.stored)
  <2>1. CASE DeliverCall \/ DeliverRefresh \/ Logout
    BY <1>3, <2>1, DeliverCallGood, DeliverRefreshGood, LogoutGood
  <2>2. CASE Hydrate \/ DeviceWrites \/ DeviceFails \/ Killed
    BY <2>2, HydrateGood, DeviceWritesGood, DeviceFailsGood, KilledGood
  <2>3. CASE ServeCall \/ ServeRefresh \/ Lose
    BY <2>3, ServeCallGood, ServeRefreshGood, LoseGood
  <2>4. CASE SwitchScreen \/ UseDifferentEmail \/ ToLogin \/ ToggleBuilder
                 \/ (\E s \in Menu : GoTo(s)) \/ AnswerPrompt
    BY <1>3, <2>4, StaysGood
  <2>5. CASE Submit \/ Recover
    BY <1>3, <2>5, FormGood
  <2>6. CASE (\E p \in Providers : SocialSignIn(p)) \/ AppleSignIn \/ (\E id \in WorkIds : Work(id))
    BY <1>3, <2>6, ButtonGood
  <2>7. CASE BridgeReturns \/ AppleReturns
    BY <1>3, <2>7, SignedInGood
  <2> QED  BY <1>3, <2>1, <2>2, <2>3, <2>4, <2>5, <2>6, <2>7 DEF AppNext
<1> QED  BY <1>1, <1>2, <1>3 DEF SessionInv

\* authStorage.js: once the session of the app is not on its way to the device any more,
\* the device holds it, unless its write failed or was overtaken by a late one or the
\* device could not be read, for any number of tokens and of writes that end in any order
\* or fail, with the app killed at any point.
THEOREM StorageCatchesUpInvariant ==
    MaxTokens \in Nat \ {0} => (AppSpec => []StorageCatchesUp)
<1>1. SessionInv => StorageCatchesUp
  <2> SUFFICES ASSUME SessionInv, page.hydrated, ~page.writing, ~page.missed
               PROVE  server.stored = page.session
    BY DEF StorageCatchesUp
  <2>1. Good(Now, server.stored)
    BY AtStart DEF SessionInv
  <2> QED  BY <2>1, NowIs DEF Good, Fair, Written
<1>2. CASE MaxTokens \in Nat \ {0}
  <2>1. AppInit => SessionInv
    BY <1>2, InitSession
  <2>2. SessionInv /\ [AppNext]_appVars => SessionInv'
    BY <1>2, NextSession
  <2> QED  BY <1>1, <2>1, <2>2, PTL DEF AppSpec
<1> QED  BY <1>2

\* api.js: however many calls are refused at once, and whatever signs the app in or out
\* meanwhile, one refresh is under way exactly while calls may wait for it.
THEOREM RefreshIsSharedInvariant ==
    MaxTokens \in Nat \ {0} => (AppSpec => []RefreshIsShared)
<1>1. SessionInv => RefreshIsShared
  <2> SUFFICES ASSUME SessionInv  PROVE RefreshIsShared
    OBVIOUS
  <2>1. Shared(Now)
    <3>1. CASE page = AppStarts /\ net = NoCalls(Kinds)
      BY <3>1, NoneFit, AtStart, NowIs DEF Shared
    <3> QED  BY <3>1 DEF SessionInv, Good, Fair
  <2>2. net["refresh"] = {} \/ \E c : net["refresh"] = {c}
    BY <2>1, NowIs DEF Shared
  <2>3. Cardinality(net["refresh"]) <= 1
    BY <2>2, FS_EmptySet, FS_Singleton
  <2>4. (page.refreshing <=> InFlight("refresh")) /\ (page.waiting # {} => page.refreshing)
    <3>1. page.refreshing \in BOOLEAN
      <4>1. CASE page = AppStarts
        BY <4>1, AtStart
      <4>2. CASE page \in Page
        BY <4>2 DEF Page
      <4> QED  BY <4>1, <4>2, NowIs DEF SessionInv, Good, Fair
    <3> QED  BY <2>1, <3>1, NowIs DEF Shared, InFlight
  <2> QED  BY <2>3, <2>4 DEF RefreshIsShared
<1>2. CASE MaxTokens \in Nat \ {0}
  <2>1. AppInit => SessionInv
    BY <1>2, InitSession
  <2>2. SessionInv /\ [AppNext]_appVars => SessionInv'
    BY <1>2, NextSession
  <2> QED  BY <1>1, <2>1, <2>2, PTL DEF AppSpec
<1> QED  BY <1>2

LEMMA LossesCounted ==
    ASSUME MaxLost \in Nat, does \in Workloads, lost \in 0 .. MaxLost, [AppNext]_appVars
    PROVE  (does \in Workloads)' /\ (lost \in 0 .. MaxLost)'
<1>1. CASE UNCHANGED <<lost, does>>
  BY <1>1
<1>2. CASE Lose
  BY <1>2 DEF Lose, Lost
<1>3. \/ UNCHANGED <<lost, does>> \/ Lose
  <2>1. DeliverCall \/ DeliverRefresh \/ Logout => UNCHANGED <<lost, does>>
    BY DEF DeliverCall, Deliver, DeliverRefresh, Logout, Same
  <2>2. Hydrate \/ DeviceWrites \/ DeviceFails \/ Killed => UNCHANGED <<lost, does>>
    BY DEF Hydrate, DeviceWrites, DeviceFails, Killed, Same
  <2>3. ServeCall \/ ServeRefresh => UNCHANGED <<lost, does>>
    BY DEF ServeCall, Serve, ServeRefresh
  <2>4. SwitchScreen \/ UseDifferentEmail \/ ToLogin \/ ToggleBuilder
          \/ (\E s \in Menu : GoTo(s)) \/ AnswerPrompt => UNCHANGED <<lost, does>>
    BY DEF SwitchScreen, UseDifferentEmail, ToLogin, ToggleBuilder, GoTo, AnswerPrompt,
           Navigate, Stays, Same
  <2>5. Submit \/ Recover \/ (\E p \in Providers : SocialSignIn(p)) \/ AppleSignIn
          \/ (\E id \in WorkIds : Work(id)) => UNCHANGED <<lost, does>>
    BY DEF Submit, Recover, SendForm, SocialSignIn, AppleSignIn, Work, Same
  <2>6. BridgeReturns \/ AppleReturns => UNCHANGED <<lost, does>>
    BY DEF BridgeReturns, AppleReturns
  <2>7. UNCHANGED appVars => UNCHANGED <<lost, does>>
    BY DEF appVars
  <2> QED  BY <2>1, <2>2, <2>3, <2>4, <2>5, <2>6, <2>7 DEF AppNext
<1> QED  BY <1>1, <1>2, <1>3

\* authSlice.js, App.js, api.js and the screens of signing in: in every state the app
\* can be in, whatever is answered, lost, killed or pressed, its session and its screens
\* are of their types, and it shows the drawer exactly while it has loaded a token.
THEOREM AppTypeInvariant ==
    MaxTokens \in Nat \ {0} /\ MaxLost \in Nat => (AppSpec => []AppTypeOK)
<1> DEFINE Typed == SessionInv /\ does \in Workloads /\ lost \in 0 .. MaxLost
<1>1. CASE MaxTokens \in Nat \ {0} /\ MaxLost \in Nat
  <2>1. AppInit => Typed
    BY <1>1, InitSession DEF AppInit
  <2>2. Typed /\ [AppNext]_appVars => Typed'
    BY <1>1, NextSession, LossesCounted
  <2>3. Typed => AppTypeOK
    <3> SUFFICES ASSUME Typed  PROVE AppTypeOK
      OBVIOUS
    <3>1. CASE page = AppStarts /\ net = NoCalls(Kinds)
      BY <1>1, <3>1, StartsTyped, AtStart, NoneFit DEF SessionInv, AppTypeOK, CallsFit
    <3>2. CASE Good(Now, server.stored)
      BY <3>2, NowIs DEF SessionInv, Good, Fair, CallsFit, AppTypeOK
    <3> QED  BY <3>1, <3>2 DEF SessionInv
  <2> HIDE DEF Typed
  <2> QED  BY <2>1, <2>2, <2>3, PTL DEF AppSpec
<1> QED  BY <1>1
=============================================================================
