-------------------------- MODULE InterviewSession --------------------------
(***************************************************************************)
(* The mock-interview session of apps/api/services/interview_service.py    *)
(* with the proctoring of proctoring_service.py: one document per session  *)
(* in MongoDB, the entitlement grants that pay for sessions, the request   *)
(* handlers that candidates call and the background sweep.                 *)
(*                                                                         *)
(* The server is one asyncio event loop.  A handler runs without           *)
(* interruption between two awaits, and MongoDB applies each update of one *)
(* document atomically, so an action of this module is the code from one   *)
(* await to the next: what a handler decides from a document it has read,  *)
(* it keeps in req[p] and acts on in a later step, when the document may   *)
(* have changed.                                                           *)
(***************************************************************************)
EXTENDS Integers, Sequences, FiniteSets

CONSTANTS
    Users,                 \* candidates
    Admins,                \* those allowed to create a session with no grant
    Sessions,              \* ids a new session document may get
    Grants,                \* ids a new entitlement grant may get
    GrantOwner,            \* the user each grant is issued to
    GrantSize,             \* sessions in a freshly issued grant
    IssuedGrants,          \* grants issued before the behaviour begins
    Requests,              \* request handlers that may be in flight at once
    Sweeper,               \* the perpetual task that runs the sweep
    NoUser, NoGrant, NoSession,
    MinQuestions,          \* scored questions before a round may be ended
    TechnicalMinutes, BehavioralMinutes,
    AbandonedGrace,        \* age at which the sweep abandons a created session
    HardExpire,            \* age at which the sweep expires any session
    WarningsBeforeTermination,
    Offered,               \* which operations clients call in this instance
    MaxTime, LastCreate,   \* bounds: end of the clock, last creation time
    MaxCalls, MaxCrashes   \* bounds: client requests, server restarts

Rounds == {"technical", "behavioral"}
Operations == {"grant", "create", "start", "turn", "voice", "language",
               "status", "acknowledge", "end", "violation"}

ASSUME ConstantsAssumption ==
    /\ Admins \subseteq Users /\ NoUser \notin Users
    /\ NoGrant \notin Grants /\ NoSession \notin Sessions
    /\ Sweeper \notin Requests /\ IsFiniteSet(Requests)
    /\ GrantOwner \in [Grants -> Users] /\ IssuedGrants \subseteq Grants
    /\ GrantSize \in Nat
    /\ MinQuestions \in [Rounds -> Nat]
    /\ TechnicalMinutes \in Nat /\ BehavioralMinutes \in Nat
    /\ AbandonedGrace \in Nat /\ HardExpire \in Nat
    /\ WarningsBeforeTermination \in Nat \ {0}
    /\ Offered \subseteq Operations
    /\ MaxTime \in Nat /\ LastCreate \in Nat
    /\ MaxCalls \in Nat /\ MaxCrashes \in Nat

VARIABLES
    sess,        \* interview_sessions: the document of each session
    turns,       \* interview_turns: what was inserted, in insertion order
    scored,      \* interview_score_events: distinct questions scored per round
    violations,  \* interview_violations: documents per session
    reports,     \* report tasks started for each session
    issued, remaining,     \* grants: sessions_total and sessions_remaining
    consumeTx, refundTx,   \* entitlement_tx: entries per grant
    refundsOf,   \* refund entries that carry the session's reservation
    now,         \* the clock; 0 stands for a timestamp that is not set
    req,         \* what each handler, and the sweep, is in the middle of
    calls, crashes         \* counted against the bounds

docVars == <<sess, turns, scored, violations, reports>>
grantVars == <<issued, remaining, consumeTx, refundTx, refundsOf>>
boundVars == <<calls, crashes>>
vars == <<docVars, grantVars, now, req, boundVars>>

Procs == Requests \cup {Sweeper}
TERMINATE_AT_COUNT == WarningsBeforeTermination + 1
Unset == 0

InProgress == {"technical_in_progress", "behavioral_in_progress"}
ACTIVE_STATUSES == {"created"} \cup InProgress
TerminalStatuses == {"completed", "abandoned", "expired", "terminated_violations"}
Statuses == {"none"} \cup ACTIVE_STATUSES \cup TerminalStatuses

SessionDoc ==
    [status: Statuses, user: Users \cup {NoUser}, grant: Grants \cup {NoGrant},
     behavioral: BOOLEAN, round: Rounds, ends: [Rounds -> Nat],
     warnings: Nat, paused: Nat, voice: BOOLEAN, created: Nat]

NoDoc ==
    [status |-> "none", user |-> NoUser, grant |-> NoGrant,
     behavioral |-> FALSE, round |-> "technical", ends |-> [r \in Rounds |-> Unset],
     warnings |-> 0, paused |-> Unset, voice |-> FALSE, created |-> 0]

Turn == [index: Nat, speaker: {"candidate", "interviewer"}]

PCs == {"idle", "advance_behavioral", "advance_complete", "reread",
        "create_reserve", "create_log", "create_insert", "refund", "refund_log",
        "start_write", "start_agent",
        "turn_start", "turn_voice", "turn_history", "turn_agent", "turn_reply",
        "turn_end", "language_history", "language_agent",
        "acknowledge_write", "end_count", "end_complete", "end_abandon",
        "violation_read", "violation_insert", "violation_count",
        "violation_terminate", "violation_pause",
        "sweep_stale", "sweep_created", "sweep_old"}

Request ==
    [pc: PCs, op: Operations \cup {"none", "sweep"},
     s: Sessions \cup {NoSession}, user: Users \cup {NoUser}, grant: Grants \cup {NoGrant},
     behavioral: BOOLEAN,    \* create: does the session have a behavioral round
     status: Statuses,       \* acknowledge: session["status"] as read
     round: Rounds,          \* session["current_round"] as read
     at: Nat,                \* the handler's local `now`; acknowledge: the end the status goes by
     ends: Nat,              \* a round end computed before the await
     n: Nat,                 \* len(prior_turns)
     end: BOOLEAN,           \* result["end_requested"]
     voice: BOOLEAN,         \* was a reference embedding in the document read
     todo: SUBSET Sessions,  \* sweep: documents of the cursor still to visit
     seen: [Sessions -> SessionDoc]]   \* sweep: those documents as the cursor read them

Idle ==
    [pc |-> "idle", op |-> "none", s |-> NoSession, user |-> NoUser,
     grant |-> NoGrant, behavioral |-> FALSE, status |-> "none",
     round |-> "technical", at |-> 0, ends |-> 0, n |-> 0, end |-> FALSE,
     voice |-> FALSE, todo |-> {}, seen |-> [s \in Sessions |-> NoDoc]]

\* A handler is about a session, and a refund about a grant, except where
\* it has none in hand yet or any more.
NoSessionPCs == {"idle", "create_reserve", "sweep_stale", "sweep_created", "sweep_old"}
GrantPCs == {"create_log", "refund", "refund_log"}

InHand(q) ==
    /\ q.pc \notin NoSessionPCs => q.s \in Sessions
    /\ q.pc \in GrantPCs => q.grant \in Grants

DocsOK ==
    /\ sess \in [Sessions -> SessionDoc]
    /\ turns \in [Sessions -> Seq(Turn)]
    /\ scored \in [Sessions -> [Rounds -> Nat]]
    /\ violations \in [Sessions -> Nat]
    /\ reports \in [Sessions -> Nat]

GrantsOK ==
    /\ issued \in [Grants -> Nat]
    /\ remaining \in [Grants -> Nat]
    /\ consumeTx \in [Grants -> Nat]
    /\ refundTx \in [Grants -> Nat]
    /\ refundsOf \in [Sessions -> Nat]

RequestsOK ==
    /\ req \in [Procs -> Request]
    /\ \A p \in Procs : InHand(req[p])

TypeOK ==
    /\ DocsOK /\ GrantsOK /\ RequestsOK
    /\ now \in Nat /\ calls \in Nat /\ crashes \in Nat

Init ==
    /\ sess = [s \in Sessions |-> NoDoc]
    /\ turns = [s \in Sessions |-> <<>>]
    /\ scored = [s \in Sessions |-> [r \in Rounds |-> 0]]
    /\ violations = [s \in Sessions |-> 0]
    /\ reports = [s \in Sessions |-> 0]
    /\ issued = [g \in Grants |-> IF g \in IssuedGrants THEN GrantSize ELSE 0]
    /\ remaining = issued
    /\ consumeTx = [g \in Grants |-> 0]
    /\ refundTx = [g \in Grants |-> 0]
    /\ refundsOf = [s \in Sessions |-> 0]
    /\ now = 1
    /\ req = [p \in Procs |-> Idle]
    /\ calls = 0 /\ crashes = 0

-----------------------------------------------------------------------------
(* Reads and the decisions taken on them                                    *)

IsActive(s) == sess[s].status \in ACTIVE_STATUSES

ActiveOf(u) == {s \in Sessions : sess[s].user = u /\ IsActive(s)}

\* Mutant: the index is missing, the check at the top of create_session is all
\* there is.
IndexAllows_Missing(s, u) == TRUE

\* The partial unique index on user_id over the active statuses: a write that
\* would make s the second active session of its user fails in MongoDB.
IndexAllows(s, u) == ActiveOf(u) \subseteq {s}

Exists(s) == sess[s].status # "none"

\* Is a time-based transition due for a document with these fields?
Due(status, ends, paused) ==
    /\ paused = Unset
    /\ \/ status = "technical_in_progress"
          /\ ends["technical"] # Unset /\ now > ends["technical"]
       \/ status = "behavioral_in_progress"
          /\ ends["behavioral"] # Unset /\ now > ends["behavioral"]

\* Where the handler of q goes once _advance_time_based_transitions has given
\* it a document with this status and current_round.
Continue(q, status, round, voice) ==
    LET active == status \in ACTIVE_STATUSES
        go(pc) == [q EXCEPT !.pc = pc, !.round = round, !.at = now, !.ends = 0,
                            !.voice = voice]
    IN  CASE q.op = "create" ->
                IF active THEN Idle
                ELSE [q EXCEPT !.pc = "create_reserve", !.s = NoSession, !.ends = 0,
                                  !.voice = FALSE]
          [] q.op = "turn" ->
                IF ~active THEN Idle
                ELSE go(IF status = "created" THEN "turn_start" ELSE "turn_voice")
          [] q.op = "language" ->
                IF active /\ round = "technical" THEN go("language_history") ELSE Idle
          [] q.op = "end" ->
                IF active THEN [Idle EXCEPT !.pc = "end_count", !.op = "end", !.s = q.s]
                ELSE Idle
          [] q.op = "violation" ->
                IF active THEN [Idle EXCEPT !.pc = "violation_insert",
                                            !.op = "violation", !.s = q.s]
                ELSE Idle
          [] q.op = "voice" ->   \* record_violation called from inside a turn
                IF active THEN [q EXCEPT !.pc = "violation_insert", !.ends = 0]
                ELSE [q EXCEPT !.pc = "turn_history", !.op = "turn", !.ends = 0]
          [] q.op = "sweep" -> [q EXCEPT !.pc = "sweep_stale", !.s = NoSession, !.ends = 0,
                                            !.voice = FALSE]
          [] OTHER -> Idle

\* _advance_time_based_transitions, of a document d that was read: either a
\* transition is due, and its write is the next await, or the handler goes on.
Advance(q, d) ==
    IF Due(d.status, d.ends, d.paused)
    THEN [q EXCEPT !.ends = now + BehavioralMinutes, !.voice = d.voice,
                   !.pc = IF d.status = "technical_in_progress" /\ d.behavioral
                          THEN "advance_behavioral" ELSE "advance_complete"]
    ELSE Continue(q, d.status, d.round, d.voice)

\* find_one followed by it at once.
Read(q) == Advance(q, sess[q.s])

\* What is left of a handler whose write raised DuplicateKeyError: a voice
\* check swallows it, a request answers 500, a sweep gives up until its next run.
Raise(q) ==
    IF q.op = "voice" THEN [q EXCEPT !.pc = "turn_history", !.op = "turn", !.ends = 0]
    ELSE Idle

Go(p, pc) == req' = [req EXCEPT ![p].pc = pc]
Return(p) == req' = [req EXCEPT ![p] = Idle]

AtPc(p, pc) == req[p].pc = pc

-----------------------------------------------------------------------------
(* Writes                                                                   *)

SetDoc(s, d) == sess' = [sess EXCEPT ![s] = d]

\* update_one({"_id": s}, {"$set": ...}) with an active status: no guard on the
\* status the document has by now, only the unique index can refuse it.
\* q is what the handler goes on with when the write succeeds.
WriteActive(p, s, d, q) ==
    \/ /\ IndexAllows(s, d.user)
       /\ SetDoc(s, d)
       /\ req' = [req EXCEPT ![p] = q]
    \/ /\ ~IndexAllows(s, d.user)
       /\ req' = [req EXCEPT ![p] = Raise(req[p])]
       /\ UNCHANGED sess

ToBehavioral(s, ends) ==
    [sess[s] EXCEPT !.status = "behavioral_in_progress", !.round = "behavioral",
                    !.ends["behavioral"] = ends]

ToTechnical(s, at) ==
    [sess[s] EXCEPT !.status = "technical_in_progress",
                    !.ends["technical"] = at + TechnicalMinutes]

KickOffReport(s) == reports' = [reports EXCEPT ![s] = @ + 1]

\* Mutant: the update matches on the session id alone.
FinishIfActive_Unguarded(s, status) ==
    /\ SetDoc(s, [sess[s] EXCEPT !.status = status])
    /\ KickOffReport(s)

\* An update guarded on the session still being active; only the caller whose
\* update matched starts the report.
FinishIfActive(s, status) ==
    \/ /\ IsActive(s)
       /\ SetDoc(s, [sess[s] EXCEPT !.status = status])
       /\ KickOffReport(s)
    \/ /\ ~IsActive(s)
       /\ UNCHANGED <<sess, reports>>

CompleteSession(s) == FinishIfActive(s, "completed")

InsertTurn(s, index, speaker) ==
    turns' = [turns EXCEPT ![s] = Append(@, [index |-> index, speaker |-> speaker])]

\* The agent's tool loop may record scores for any number of questions; counts
\* beyond the minimum are not distinguished.
AgentScores(s, round) ==
    \E k \in scored[s][round] .. MinQuestions[round] :
        scored' = [scored EXCEPT ![s][round] = k]

-----------------------------------------------------------------------------
(* A request comes in                                                       *)

Calls(p, op) ==
    /\ op \in Offered /\ calls < MaxCalls
    /\ req[p] = Idle
    /\ calls' = calls + 1

\* A handler that reads the session and answers without a write leaves no
\* trace, so the actions below ask that something remains to be done.
Enters(p, q) ==
    /\ q # Idle
    /\ req' = [req EXCEPT ![p] = q]
    /\ UNCHANGED <<docVars, grantVars, now, crashes>>

\* A purchase or an admin grant: always a new grant document, logged at once.
GrantSessions(g) ==
    /\ "grant" \in Offered /\ calls < MaxCalls
    /\ issued[g] = 0
    /\ issued' = [issued EXCEPT ![g] = GrantSize]
    /\ remaining' = [remaining EXCEPT ![g] = GrantSize]
    /\ calls' = calls + 1
    /\ UNCHANGED <<docVars, consumeTx, refundTx, refundsOf, now, req, crashes>>

\* The session id stands for the reservation made for it, too.
Fresh(s) ==
    /\ ~Exists(s) /\ refundsOf[s] = 0
    /\ \A p \in Procs : req[p].s # s

\* Bound: every create in flight finds an id.
IdsLeft ==
    Cardinality({s \in Sessions : Fresh(s)}) >
        Cardinality({p \in Requests : req[p].op = "create"
                                      /\ req[p].pc \in {"create_reserve", "advance_behavioral",
                                                        "advance_complete", "reread"}})

\* create_session up to its first write: the caller's active session, if any,
\* is brought up to date before it counts as a conflict.
Create(p, u, g, behavioral) ==
    LET q == [Idle EXCEPT !.op = "create", !.user = u, !.grant = g,
                          !.behavioral = behavioral]
    IN  /\ Calls(p, "create")
        /\ IF g = NoGrant THEN u \in Admins ELSE GrantOwner[g] = u /\ issued[g] > 0
        /\ now <= LastCreate /\ IdsLeft
        /\ \/ /\ ActiveOf(u) = {}
              /\ Enters(p, Continue(q, "none", "technical", FALSE))
           \/ \E e \in ActiveOf(u) : Enters(p, Read([q EXCEPT !.s = e]))

\* start_session: with an opening stored it replays it, otherwise only a
\* created session may start.
Start(p, s) ==
    LET q == [Idle EXCEPT !.op = "start", !.s = s]
        opened == \E i \in DOMAIN turns[s] : turns[s][i].index = 0
    IN  /\ Calls(p, "start") /\ Exists(s)
        /\ \/ opened /\ Enters(p, Read(q))
           \/ /\ ~opened /\ sess[s].status = "created"
              /\ Enters(p, [q EXCEPT !.pc = "start_write", !.at = now])

\* handle_turn with typed text, or with recorded speech.
TurnRequest(p, s) ==
    /\ Calls(p, "turn") /\ Exists(s)
    /\ Enters(p, Read([Idle EXCEPT !.op = "turn", !.s = s]))

ChangeLanguage(p, s) ==
    /\ Calls(p, "language") /\ Exists(s)
    /\ Enters(p, Read([Idle EXCEPT !.op = "language", !.s = s]))

GetStatus(p, s) ==
    /\ Calls(p, "status") /\ Exists(s)
    /\ Enters(p, Read([Idle EXCEPT !.op = "status", !.s = s]))

EndEarly(p, s) ==
    /\ Calls(p, "end") /\ Exists(s)
    /\ Enters(p, Read([Idle EXCEPT !.op = "end", !.s = s]))

RecordViolation(p, s) ==
    /\ Calls(p, "violation") /\ Exists(s)
    /\ Enters(p, Read([Idle EXCEPT !.op = "violation", !.s = s]))

\* The round whose end _advance_time_based_transitions looks at.
RoundOf(status) == IF status = "technical_in_progress" THEN "technical" ELSE "behavioral"

Lasted(since) == IF now > since THEN now - since ELSE 0

\* acknowledge_warning reads the document and computes the compensated end of
\* its current_round at once; with no pause pending it is a status call. What
\* ends next goes by the status, and StartWrite or TurnStart may have set that
\* back to the technical round alone: at is the end the status goes by.
Acknowledge(p, s) ==
    LET d == sess[s]
        q == [Idle EXCEPT !.op = "acknowledge", !.s = s]
        held == IF d.ends[d.round] = Unset THEN Unset
                ELSE d.ends[d.round] + Lasted(d.paused)
    IN  /\ Calls(p, "acknowledge") /\ Exists(s)
        /\ \/ d.paused = Unset /\ Enters(p, Read(q))
           \/ /\ d.paused # Unset
              /\ Enters(p, [q EXCEPT
                     !.pc = "acknowledge_write", !.status = d.status, !.round = d.round,
                     !.ends = held,
                     !.at = IF d.round = RoundOf(d.status) THEN held
                            ELSE d.ends[RoundOf(d.status)]])

-----------------------------------------------------------------------------
(* Time-based transitions                                                   *)

AdvanceBehavioral(p) ==
    LET q == req[p] IN
    /\ AtPc(p, "advance_behavioral")
    /\ WriteActive(p, q.s, ToBehavioral(q.s, q.ends),
                   Continue(q, "behavioral_in_progress", "behavioral", q.voice))
    /\ UNCHANGED <<turns, scored, violations, reports, grantVars, now, boundVars>>

AdvanceComplete(p) ==
    /\ AtPc(p, "advance_complete")
    /\ CompleteSession(req[p].s)
    /\ Go(p, "reread")
    /\ UNCHANGED <<turns, scored, violations, grantVars, now, boundVars>>

\* The document as it is after the guarded completion, whoever won.
Reread(p) ==
    LET q == req[p] IN
    /\ AtPc(p, "reread")
    /\ req' = [req EXCEPT ![p] = Continue(q, sess[q.s].status, sess[q.s].round, sess[q.s].voice)]
    /\ UNCHANGED <<docVars, grantVars, now, boundVars>>

-----------------------------------------------------------------------------
(* create_session: reserve, log, insert; give back if the insert loses      *)

\* Mutant: the reservation does not ask for sessions_remaining > 0.
CreateReserve_Unchecked(p, s) ==
    /\ AtPc(p, "create_reserve") /\ Fresh(s) /\ req[p].grant # NoGrant
    /\ remaining' = [remaining EXCEPT ![req[p].grant] = @ - 1]
    /\ req' = [req EXCEPT ![p].pc = "create_log", ![p].s = s]
    /\ UNCHANGED <<docVars, issued, consumeTx, refundTx, refundsOf, now, boundVars>>

CreateReserve(p, s) ==
    LET g == req[p].grant IN
    /\ AtPc(p, "create_reserve") /\ Fresh(s)
    /\ \/ /\ g = NoGrant
          /\ req' = [req EXCEPT ![p].pc = "create_insert", ![p].s = s]
          /\ UNCHANGED remaining
       \/ /\ g # NoGrant /\ remaining[g] > 0
          /\ remaining' = [remaining EXCEPT ![g] = @ - 1]
          /\ req' = [req EXCEPT ![p].pc = "create_log", ![p].s = s]
       \/ /\ g # NoGrant /\ remaining[g] = 0   \* 402
          /\ Return(p)
          /\ UNCHANGED remaining
    /\ UNCHANGED <<docVars, issued, consumeTx, refundTx, refundsOf, now, boundVars>>

CreateLog(p) ==
    /\ AtPc(p, "create_log")
    /\ consumeTx' = [consumeTx EXCEPT ![req[p].grant] = @ + 1]
    /\ Go(p, "create_insert")
    /\ UNCHANGED <<docVars, issued, remaining, refundTx, refundsOf, now, boundVars>>

\* Mutant: a create that loses the race does not give its session back.
CreateInsert_NoRefund(p) ==
    LET q == req[p] IN
    /\ AtPc(p, "create_insert")
    /\ IF IndexAllows(q.s, q.user)
       THEN SetDoc(q.s, [NoDoc EXCEPT !.status = "created", !.user = q.user,
                                      !.grant = q.grant, !.created = now])
       ELSE UNCHANGED sess
    /\ Return(p)
    /\ UNCHANGED <<turns, scored, violations, reports, grantVars, now, boundVars>>

CreateInsert(p) ==
    LET q == req[p] IN
    /\ AtPc(p, "create_insert")
    /\ \/ /\ IndexAllows(q.s, q.user)
          /\ SetDoc(q.s, [NoDoc EXCEPT !.status = "created", !.user = q.user,
                                       !.grant = q.grant, !.behavioral = q.behavioral,
                                       !.created = now])
          /\ Return(p)
       \/ /\ ~IndexAllows(q.s, q.user)
          /\ IF q.grant = NoGrant THEN Return(p) ELSE Go(p, "refund")
          /\ UNCHANGED sess
    /\ UNCHANGED <<turns, scored, violations, reports, grantVars, now, boundVars>>

\* refund_session, for a lost create, an abandoned session and the sweep alike.
Refund(p) ==
    /\ AtPc(p, "refund")
    /\ remaining' = [remaining EXCEPT ![req[p].grant] = @ + 1]
    /\ Go(p, "refund_log")
    /\ UNCHANGED <<docVars, issued, consumeTx, refundTx, refundsOf, now, boundVars>>

\* Mutants: the refund is applied but not logged; the report is not started.
RefundLog_Unlogged(p) ==
    /\ AtPc(p, "refund_log")
    /\ Return(p)
    /\ UNCHANGED <<docVars, grantVars, now, boundVars>>

RefundLog_NoReport(p) ==
    LET q == req[p] IN
    /\ AtPc(p, "refund_log")
    /\ refundTx' = [refundTx EXCEPT ![q.grant] = @ + 1]
    /\ refundsOf' = [refundsOf EXCEPT ![q.s] = @ + 1]
    /\ IF q.op = "sweep" THEN Go(p, "sweep_created") ELSE Return(p)
    /\ UNCHANGED <<docVars, issued, remaining, consumeTx, now, boundVars>>

RefundLog(p) ==
    LET q == req[p] IN
    /\ AtPc(p, "refund_log")
    /\ refundTx' = [refundTx EXCEPT ![q.grant] = @ + 1]
    /\ refundsOf' = [refundsOf EXCEPT ![q.s] = @ + 1]
    /\ IF q.op = "create" THEN UNCHANGED reports ELSE KickOffReport(q.s)
    /\ IF q.op = "sweep"
       THEN req' = [req EXCEPT ![p].pc = "sweep_created", ![p].s = NoSession,
                               ![p].grant = NoGrant]
       ELSE Return(p)
    /\ UNCHANGED <<sess, turns, scored, violations, issued, remaining, consumeTx, now, boundVars>>

-----------------------------------------------------------------------------
(* start_session and handle_turn                                            *)

\* Unguarded: whatever the status has become since it was read as "created",
\* the session is in the technical round from here.
StartWrite(p) ==
    LET q == req[p] IN
    /\ AtPc(p, "start_write")
    /\ WriteActive(p, q.s, ToTechnical(q.s, q.at), [q EXCEPT !.pc = "start_agent", !.at = 0])
    /\ UNCHANGED <<turns, scored, violations, reports, grantVars, now, boundVars>>

StartAgent(p) ==
    LET q == req[p] IN
    /\ AtPc(p, "start_agent")
    /\ AgentScores(q.s, "technical")
    /\ InsertTurn(q.s, 0, "interviewer")
    /\ Return(p)
    /\ UNCHANGED <<sess, violations, reports, grantVars, now, boundVars>>

TurnStart(p) ==
    LET q == req[p] IN
    /\ AtPc(p, "turn_start")
    /\ WriteActive(p, q.s, ToTechnical(q.s, q.at), [q EXCEPT !.pc = "turn_voice"])
    /\ UNCHANGED <<turns, scored, violations, reports, grantVars, now, boundVars>>

\* Typed text, or speech: speech may be empty or fail to transcribe, enrols
\* the reference voice if the document read had none, and otherwise may be
\* found not to match it.
TurnVoice(p) ==
    LET q == req[p] IN
    /\ AtPc(p, "turn_voice")
    /\ \/ Go(p, "turn_history") /\ UNCHANGED sess
       \/ Return(p) /\ UNCHANGED sess
       \/ /\ "voice" \in Offered /\ ~q.voice
          /\ SetDoc(q.s, [sess[q.s] EXCEPT !.voice = TRUE])
          /\ Go(p, "turn_history")
       \/ /\ "voice" \in Offered /\ q.voice
          /\ req' = [req EXCEPT ![p].pc = "violation_read", ![p].op = "voice"]
          /\ UNCHANGED sess
    /\ UNCHANGED <<turns, scored, violations, reports, grantVars, now, boundVars>>

\* prior_turns is read before the agent is called, and its length numbers the
\* turns inserted after.
ReadHistory(p, from, to) ==
    /\ AtPc(p, from)
    /\ req' = [req EXCEPT ![p].pc = to, ![p].n = Len(turns[req[p].s])]
    /\ UNCHANGED <<docVars, grantVars, now, boundVars>>

TurnHistory(p) == ReadHistory(p, "turn_history", "turn_agent")

TurnAgent(p) ==
    LET q == req[p] IN
    /\ AtPc(p, "turn_agent")
    /\ AgentScores(q.s, q.round)
    /\ InsertTurn(q.s, q.n, "candidate")
    /\ \E end \in BOOLEAN : req' = [req EXCEPT ![p].pc = "turn_reply", ![p].end = end]
    /\ UNCHANGED <<sess, violations, reports, grantVars, now, boundVars>>

TurnReply(p) ==
    LET q == req[p] IN
    /\ AtPc(p, "turn_reply")
    /\ InsertTurn(q.s, q.n + 1, "interviewer")
    /\ IF q.end THEN Go(p, "turn_end") ELSE Return(p)
    /\ UNCHANGED <<sess, scored, violations, reports, grantVars, now, boundVars>>

\* Mutant: one question short.
EnoughQuestions_OffByOne(s, round) == scored[s][round] + 1 >= MinQuestions[round]

EnoughQuestions(s, round) == scored[s][round] >= MinQuestions[round]

\* end_round is honoured once enough questions are scored.  The technical round
\* gives way to the behavioral one by an unguarded write of the `now` the
\* handler started from; anything else completes the session.
TurnEnd(p) ==
    LET q == req[p]
        toBehavioral == q.round = "technical" /\ sess[q.s].behavioral
    IN  /\ AtPc(p, "turn_end")
        /\ \/ /\ EnoughQuestions(q.s, q.round) /\ toBehavioral
              /\ WriteActive(p, q.s, ToBehavioral(q.s, q.at + BehavioralMinutes), Idle)
              /\ UNCHANGED reports
           \/ /\ EnoughQuestions(q.s, q.round) /\ ~toBehavioral
              /\ CompleteSession(q.s)
              /\ Return(p)
           \/ /\ ~EnoughQuestions(q.s, q.round)
              /\ Return(p)
              /\ UNCHANGED <<sess, reports>>
        /\ UNCHANGED <<turns, scored, violations, grantVars, now, boundVars>>

-----------------------------------------------------------------------------
(* change_language, acknowledge_warning and end_session_early               *)

LanguageHistory(p) == ReadHistory(p, "language_history", "language_agent")

LanguageAgent(p) ==
    LET q == req[p] IN
    /\ AtPc(p, "language_agent")
    /\ AgentScores(q.s, "technical")
    /\ InsertTurn(q.s, q.n, "interviewer")
    /\ Return(p)
    /\ UNCHANGED <<sess, violations, reports, grantVars, now, boundVars>>

\* Clears the pause and stores the end computed from the document as read;
\* then _advance_time_based_transitions looks at that same stale document.
AcknowledgeWrite(p) ==
    LET q == req[p]
        ends == IF q.ends = Unset THEN sess[q.s].ends
                ELSE [sess[q.s].ends EXCEPT ![q.round] = q.ends]
    IN  /\ AtPc(p, "acknowledge_write")
        /\ SetDoc(q.s, [sess[q.s] EXCEPT !.paused = Unset, !.ends = ends])
        /\ req' = [req EXCEPT ![p] =
              IF q.status \in InProgress /\ q.at # Unset /\ now > q.at
              THEN [Idle EXCEPT !.op = "acknowledge", !.s = q.s,
                                !.ends = now + BehavioralMinutes,
                                !.pc = IF q.status = "technical_in_progress" /\ sess[q.s].behavioral
                                       THEN "advance_behavioral" ELSE "advance_complete"]
              ELSE Idle]
        /\ UNCHANGED <<turns, scored, violations, reports, grantVars, now, boundVars>>

EndCount(p) ==
    /\ AtPc(p, "end_count")
    /\ Go(p, IF turns[req[p].s] = <<>> THEN "end_abandon" ELSE "end_complete")
    /\ UNCHANGED <<docVars, grantVars, now, boundVars>>

EndComplete(p) ==
    /\ AtPc(p, "end_complete")
    /\ CompleteSession(req[p].s)
    /\ Return(p)
    /\ UNCHANGED <<turns, scored, violations, grantVars, now, boundVars>>

\* Mutant: the session is abandoned and nothing is given back.
EndAbandon_NoRefund(p) ==
    LET s == req[p].s IN
    /\ AtPc(p, "end_abandon")
    /\ FinishIfActive(s, "abandoned")
    /\ Return(p)
    /\ UNCHANGED <<turns, scored, violations, grantVars, now, boundVars>>

\* Find-and-update guarded on the status: the caller that wins refunds, and the
\* report task is started after the refund is logged.
EndAbandon(p) ==
    LET s == req[p].s IN
    /\ AtPc(p, "end_abandon")
    /\ \/ /\ IsActive(s)
          /\ SetDoc(s, [sess[s] EXCEPT !.status = "abandoned"])
          /\ \/ /\ sess[s].grant # NoGrant
                /\ req' = [req EXCEPT ![p].pc = "refund", ![p].grant = sess[s].grant]
                /\ UNCHANGED reports
             \/ sess[s].grant = NoGrant /\ KickOffReport(s) /\ Return(p)
       \/ ~IsActive(s) /\ Return(p) /\ UNCHANGED <<sess, reports>>
    /\ UNCHANGED <<turns, scored, violations, grantVars, now, boundVars>>

-----------------------------------------------------------------------------
(* record_violation                                                         *)

\* What follows record_violation: the rest of the turn it was called from, or
\* the response.
AfterViolation(q) ==
    IF q.op = "voice" THEN [q EXCEPT !.pc = "turn_history", !.op = "turn"] ELSE Idle

ViolationRead(p) ==
    /\ AtPc(p, "violation_read")
    /\ req' = [req EXCEPT ![p] = Read(req[p])]
    /\ UNCHANGED <<docVars, grantVars, now, boundVars>>

\* Mutant: a violation whose clip failed to upload is counted and not stored.
ViolationInsert_Skipped(p) ==
    /\ AtPc(p, "violation_insert")
    /\ Go(p, "violation_count")
    /\ UNCHANGED <<docVars, grantVars, now, boundVars>>

ViolationInsert(p) ==
    /\ AtPc(p, "violation_insert")
    /\ violations' = [violations EXCEPT ![req[p].s] = @ + 1]
    /\ Go(p, "violation_count")
    /\ UNCHANGED <<sess, turns, scored, reports, grantVars, now, boundVars>>

\* Mutant: the last warning terminates.
ViolationCount_OffByOne(p) ==
    LET q == req[p]
        count == sess[q.s].warnings + 1
    IN  /\ AtPc(p, "violation_count") /\ IsActive(q.s)
        /\ SetDoc(q.s, [sess[q.s] EXCEPT !.warnings = count])
        /\ req' = [req EXCEPT ![p] =
              IF count >= WarningsBeforeTermination THEN [q EXCEPT !.pc = "violation_terminate"]
              ELSE AfterViolation(q)]
        /\ UNCHANGED <<turns, scored, violations, reports, grantVars, now, boundVars>>

\* The guarded $inc returns the new count, which decides what follows.
ViolationCount(p) ==
    LET q == req[p]
        count == sess[q.s].warnings + 1
    IN  /\ AtPc(p, "violation_count")
        /\ \/ /\ IsActive(q.s)
              /\ SetDoc(q.s, [sess[q.s] EXCEPT !.warnings = count])
              /\ req' = [req EXCEPT ![p] =
                    IF count >= TERMINATE_AT_COUNT THEN [q EXCEPT !.pc = "violation_terminate"]
                    ELSE IF count = WarningsBeforeTermination
                         THEN [q EXCEPT !.pc = "violation_pause"]
                         ELSE AfterViolation(q)]
           \/ /\ ~IsActive(q.s)
              /\ req' = [req EXCEPT ![p] = AfterViolation(q)]
              /\ UNCHANGED sess
        /\ UNCHANGED <<turns, scored, violations, reports, grantVars, now, boundVars>>

ViolationTerminate(p) ==
    LET q == req[p] IN
    /\ AtPc(p, "violation_terminate")
    /\ FinishIfActive(q.s, "terminated_violations")
    /\ req' = [req EXCEPT ![p] = AfterViolation(q)]
    /\ UNCHANGED <<turns, scored, violations, grantVars, now, boundVars>>

ViolationPause(p) ==
    LET q == req[p]
        d == sess[q.s]
    IN  /\ AtPc(p, "violation_pause")
        /\ SetDoc(q.s, [d EXCEPT !.paused = IF d.paused = Unset THEN now ELSE @])
        /\ req' = [req EXCEPT ![p] = AfterViolation(q)]
        /\ UNCHANGED <<turns, scored, violations, reports, grantVars, now, boundVars>>

-----------------------------------------------------------------------------
(* sweep_stale_sessions: advance what is due, abandon what never started,   *)
(* expire what is too old; each part is a query followed by a loop          *)

SweepTo(pc, todo) == req' = [req EXCEPT ![Sweeper].pc = pc, ![Sweeper].todo = todo]

OlderThan(s, age) == sess[s].created + age < req[Sweeper].at

\* Would a sweep that starts now find anything to do?
Stale(s) ==
    \/ Due(sess[s].status, sess[s].ends, sess[s].paused)
    \/ sess[s].status = "created" /\ sess[s].created + AbandonedGrace < now
    \/ IsActive(s) /\ sess[s].created + HardExpire < now

\* A sweep that finds nothing changes nothing and is left out.  The cursor reads all
\* that is in progress as one batch; a document is visited as it was then.
SweepBegin ==
    /\ req[Sweeper] = Idle
    /\ \E s \in Sessions : Stale(s)
    /\ req' = [req EXCEPT ![Sweeper] =
          [Idle EXCEPT !.pc = "sweep_stale", !.op = "sweep", !.at = now,
                       !.todo = {s \in Sessions : sess[s].status \in InProgress},
                       !.seen = [s \in Sessions |-> IF sess[s].status \in InProgress
                                                    THEN sess[s] ELSE NoDoc]]]
    /\ UNCHANGED <<docVars, grantVars, now, boundVars>>

SweepStale(s) ==
    LET q == [req[Sweeper] EXCEPT !.todo = @ \ {s}, !.s = s, !.seen[s] = NoDoc] IN
    /\ AtPc(Sweeper, "sweep_stale") /\ s \in req[Sweeper].todo
    /\ req' = [req EXCEPT ![Sweeper] = Advance(q, req[Sweeper].seen[s])]
    /\ UNCHANGED <<docVars, grantVars, now, boundVars>>

SweepFindCreated ==
    /\ AtPc(Sweeper, "sweep_stale") /\ req[Sweeper].todo = {}
    /\ SweepTo("sweep_created", {s \in Sessions : sess[s].status = "created"
                                                  /\ OlderThan(s, AbandonedGrace)})
    /\ UNCHANGED <<docVars, grantVars, now, boundVars>>

\* The update is guarded on "created", the refund that follows is not: it does
\* not ask whether the update matched.
SweepAbandon(s) ==
    LET g == sess[s].grant IN
    /\ AtPc(Sweeper, "sweep_created") /\ s \in req[Sweeper].todo
    /\ IF sess[s].status = "created"
       THEN SetDoc(s, [sess[s] EXCEPT !.status = "abandoned"]) ELSE UNCHANGED sess
    /\ \/ /\ g # NoGrant
          /\ req' = [req EXCEPT ![Sweeper].pc = "refund", ![Sweeper].todo = @ \ {s},
                                ![Sweeper].s = s, ![Sweeper].grant = g]
          /\ UNCHANGED reports
       \/ /\ g = NoGrant
          /\ req' = [req EXCEPT ![Sweeper].todo = @ \ {s}]
          /\ KickOffReport(s)
    /\ UNCHANGED <<turns, scored, violations, grantVars, now, boundVars>>

\* Mutant: the last part of the sweep leaves paused sessions alone.
SweepFindOld_SkipsPaused ==
    /\ AtPc(Sweeper, "sweep_created") /\ req[Sweeper].todo = {}
    /\ SweepTo("sweep_old", {s \in Sessions : IsActive(s) /\ sess[s].paused = Unset
                                              /\ OlderThan(s, HardExpire)})
    /\ UNCHANGED <<docVars, grantVars, now, boundVars>>

SweepFindOld ==
    /\ AtPc(Sweeper, "sweep_created") /\ req[Sweeper].todo = {}
    /\ SweepTo("sweep_old", {s \in Sessions : IsActive(s) /\ OlderThan(s, HardExpire)})
    /\ UNCHANGED <<docVars, grantVars, now, boundVars>>

\* Here too only the update is guarded; the report starts either way.
SweepExpire(s) ==
    /\ AtPc(Sweeper, "sweep_old") /\ s \in req[Sweeper].todo
    /\ IF IsActive(s) THEN SetDoc(s, [sess[s] EXCEPT !.status = "expired"]) ELSE UNCHANGED sess
    /\ KickOffReport(s)
    /\ req' = [req EXCEPT ![Sweeper].todo = @ \ {s}]
    /\ UNCHANGED <<turns, scored, violations, grantVars, now, boundVars>>

SweepEnd ==
    /\ AtPc(Sweeper, "sweep_old") /\ req[Sweeper].todo = {}
    /\ Return(Sweeper)
    /\ UNCHANGED <<docVars, grantVars, now, boundVars>>

-----------------------------------------------------------------------------
(* Time, restarts and the next-state relation                               *)

\* Bound: past LastCreate the clock waits for the create calls in flight.
Tick ==
    /\ now < MaxTime
    /\ now < LastCreate \/ \A p \in Requests : req[p].op # "create"
    /\ now' = now + 1
    /\ UNCHANGED <<docVars, grantVars, req, boundVars>>

\* The process restarts: whatever was in flight never happens.
Crash ==
    /\ crashes < MaxCrashes
    /\ crashes' = crashes + 1
    /\ req' = [p \in Procs |-> Idle]
    /\ UNCHANGED <<docVars, grantVars, now, calls>>

ClientCall(p) ==
    \/ \E u \in Users, g \in Grants \cup {NoGrant}, b \in BOOLEAN : Create(p, u, g, b)
    \/ \E s \in Sessions :
          \/ Start(p, s) \/ TurnRequest(p, s) \/ ChangeLanguage(p, s) \/ GetStatus(p, s)
          \/ Acknowledge(p, s) \/ EndEarly(p, s) \/ RecordViolation(p, s)

\* What any handler, and the sweep, may be resumed to do.
Resume(p) ==
    \/ AdvanceBehavioral(p) \/ AdvanceComplete(p) \/ Reread(p)
    \/ \E s \in Sessions : CreateReserve(p, s)
    \/ CreateLog(p) \/ CreateInsert(p) \/ Refund(p) \/ RefundLog(p)
    \/ StartWrite(p) \/ StartAgent(p)
    \/ TurnStart(p) \/ TurnVoice(p) \/ TurnHistory(p) \/ TurnAgent(p) \/ TurnReply(p)
    \/ TurnEnd(p)
    \/ LanguageHistory(p) \/ LanguageAgent(p) \/ AcknowledgeWrite(p)
    \/ EndCount(p) \/ EndComplete(p) \/ EndAbandon(p)
    \/ ViolationRead(p) \/ ViolationInsert(p) \/ ViolationCount(p)
    \/ ViolationTerminate(p) \/ ViolationPause(p)

SweepStep ==
    \/ SweepBegin \/ SweepFindCreated \/ SweepFindOld \/ SweepEnd
    \/ \E s \in Sessions : SweepStale(s) \/ SweepAbandon(s) \/ SweepExpire(s)

Next ==
    \/ \E g \in Grants : GrantSessions(g)
    \/ \E p \in Requests : ClientCall(p)
    \/ \E p \in Procs : Resume(p)
    \/ SweepStep
    \/ Tick
    \/ Crash

\* The event loop resumes every handler, the sweep loop never exits, and the
\* clock advances; nothing obliges a client to call or the server to crash.
Fairness ==
    /\ \A p \in Procs : WF_vars(Resume(p))
    /\ WF_vars(SweepStep)
    /\ WF_vars(Tick)

Spec == Init /\ [][Next]_vars
FairSpec == Spec /\ Fairness

-----------------------------------------------------------------------------
(* Properties                                                               *)

\* A candidate never has two active sessions, however many create calls, late
\* starts and round changes race: the unique index stands behind every write.
OneActiveSession ==
    \A s, t \in Sessions :
        IsActive(s) /\ IsActive(t) /\ sess[s].user = sess[t].user => s = t

At(pcs) == {p \in Procs : req[p].pc \in pcs}

\* The entitlement log explains the balance: what a grant has left is what was
\* issued, minus the logged reservations, plus the logged refunds, up to the
\* entries whose handlers are between the $inc and the log insert.
LedgerBalances ==
    crashes = 0 =>
        \A g \in Grants :
            remaining[g] + consumeTx[g] + Cardinality({p \in At({"create_log"}) : req[p].grant = g})
            = issued[g] + refundTx[g] + Cardinality({p \in At({"refund_log"}) : req[p].grant = g})

\* A session taken from a grant is never lost: what is missing from the grant is
\* matched by session documents paid from it and not refunded, and by handlers
\* that still hold a reservation or a refund.
NoSessionLost ==
    crashes = 0 =>
        \A g \in Grants :
            issued[g] - remaining[g] <=
                Cardinality({s \in Sessions : sess[s].grant = g /\ refundsOf[s] = 0})
                + Cardinality({p \in At({"create_log", "create_insert"}) : req[p].grant = g})
                + Cardinality({p \in At({"refund"}) : req[p].grant = g /\ req[p].op = "create"})

\* A session that ended as abandoned has been refunded, or its refund is on its
\* way.
AbandonedIsRefunded ==
    crashes = 0 =>
        \A s \in Sessions :
            sess[s].status = "abandoned" /\ sess[s].grant # NoGrant =>
                refundsOf[s] > 0 \/ \E p \in At({"refund", "refund_log"}) : req[p].s = s

\* Among the ways to end, the first stands: no handler turns one terminal status
\* into another.
FirstVerdictStands ==
    [][\A s \in Sessions :
         sess[s].status \in TerminalStatuses =>
             sess'[s].status \in {sess[s].status} \cup ACTIVE_STATUSES]_vars

\* Every warning counted is backed by a stored violation of its own.
WarningsBacked ==
    \A s \in Sessions :
        sess[s].warnings + Cardinality({p \in At({"violation_count"}) : req[p].s = s})
            <= violations[s]

\* A session ends as terminated only with the full count of warnings, and its
\* clock is paused only for a final warning.
WarningsJustify ==
    \A s \in Sessions :
        /\ sess[s].status = "terminated_violations" => sess[s].warnings >= TERMINATE_AT_COUNT
        /\ sess[s].paused # Unset => sess[s].warnings >= WarningsBeforeTermination

\* No candidate is moved out of the technical round early: the session has lasted
\* longer than that round, or enough questions were scored; and a round that gave
\* way to the behavioral one does not come back.  (A late start may restart the
\* clock under a transition already decided, so the age is measured from the
\* creation of the session and not from the round's current end.)
RoundEndsForAReason ==
    [][\A s \in Sessions :
         /\ sess[s].round = "behavioral" => sess'[s].round = "behavioral"
         /\ sess[s].round = "technical" /\ sess'[s].round = "behavioral" =>
               /\ sess[s].behavioral
               /\ \/ now > sess[s].created + TechnicalMinutes
                  \/ scored[s]["technical"] >= MinQuestions["technical"]]_vars

\* No session stays active for ever: crashes, pauses that nobody acknowledges and
\* late writes notwithstanding, the sweep closes it.
EverySessionCloses == \A s \in Sessions : IsActive(s) ~> ~IsActive(s)

\* A session that ended has a report task started for it, unless the server
\* restarted: the task is started from memory, and nothing retries it.
ReportFollows ==
    \A s \in Sessions :
        (sess[s].status \in TerminalStatuses) ~> (reports[s] > 0 \/ crashes > 0)

\* The opening is generated once: start_session called again replays it.
StartIsIdempotent ==
    \A s \in Sessions :
        Cardinality({i \in DOMAIN turns[s] : turns[s][i] = [index |-> 0, speaker |-> "interviewer"]}) <= 1

\* Termination for violations is final.
TerminationIsFinal ==
    [][\A s \in Sessions :
         sess[s].status = "terminated_violations" =>
             sess'[s].status = "terminated_violations"]_vars

\* Only a session that never started is refunded as such: a refunded session is
\* abandoned.
RefundMeansAbandoned ==
    \A s \in Sessions : refundsOf[s] > 0 /\ Exists(s) => sess[s].status = "abandoned"
=============================================================================
