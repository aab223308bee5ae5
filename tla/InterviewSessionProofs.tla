----------------------- MODULE InterviewSessionProofs -----------------------
(***************************************************************************)
(* Proofs about InterviewSession, for every value of its constants: its    *)
(* types, which decide which handler holds what; one active session for a  *)
(* candidate; and that it implements InterviewLifecycle.  From there, what *)
(* handlers that are between two awaits leave unsaid, for any number of    *)
(* them at once: each invariant counts them, or says what they carry.      *)
(*                                                                         *)
(* A warning counted in a session is backed by a violation stored for it.  *)
(* No candidate is moved out of the technical round early, although a      *)
(* transition is decided from a document read before: what it carries is   *)
(* compared with the creation of the session, which no later write         *)
(* touches.  What a grant has left is explained by the entitlement log, an *)
(* abandoned session is refunded, and no interview disappears from a       *)
(* grant; these do not outlive a restart, which forgets the handlers.      *)
(***************************************************************************)
EXTENDS InterviewRefinement, FiniteSetTheorems, TLAPS

USE DEF Unset

LEMMA NoDocType == NoDoc \in SessionDoc
BY DEF NoDoc, SessionDoc, Rounds, Statuses

LEMMA IdleType == Idle \in Request /\ InHand(Idle)
<1>1. [s \in Sessions |-> NoDoc] \in [Sessions -> SessionDoc]
  BY NoDocType
<1> QED
  BY <1>1 DEF Idle, Request, PCs, Operations, InHand, NoSessionPCs, GrantPCs, Statuses, Rounds

LEMMA RequestUpdate ==
    ASSUME RequestsOK, NEW p \in Procs, NEW q \in Request, InHand(q),
           req' = [req EXCEPT ![p] = q]
    PROVE  RequestsOK'
BY DEF RequestsOK, InHand

LEMMA DocUpdate ==
    ASSUME DocsOK, NEW s \in Sessions, NEW d \in SessionDoc, SetDoc(s, d),
           UNCHANGED <<turns, scored, violations, reports>>
    PROVE  DocsOK'
BY DEF DocsOK, SetDoc

\* A handler on its way in session s with none of its locals set.
LEMMA NewRequestType ==
    ASSUME NEW pc \in PCs \ GrantPCs, NEW op \in Operations \cup {"none", "sweep"},
           NEW s \in Sessions
    PROVE  LET r == [Idle EXCEPT !.pc = pc, !.op = op, !.s = s]
           IN  r \in Request /\ InHand(r)
<1> DEFINE r == [Idle EXCEPT !.pc = pc, !.op = op, !.s = s]
<1>1. r \in Request /\ r.pc = pc /\ r.s = s
  BY IdleType DEF Request
<1> HIDE DEF r
<1>2. InHand(r)
  BY <1>1 DEF InHand
<1> QED  BY <1>1, <1>2 DEF r

LEMMA ContinueType ==
    ASSUME TypeOK, NEW q \in Request, q.s \in Sessions, NEW status \in Statuses,
           NEW round \in Rounds, NEW voice \in BOOLEAN
    PROVE  /\ Continue(q, status, round, voice) \in Request
           /\ InHand(Continue(q, status, round, voice))
<1> DEFINE C == Continue(q, status, round, voice)
<1> now \in Nat  BY DEF TypeOK
<1> SUFFICES C \in Request /\ InHand(C)  OBVIOUS
<1> USE DEF InHand, NoSessionPCs, GrantPCs
<1>1. CASE q.op = "create"
  <2> DEFINE X1 == [q EXCEPT !.pc = "create_reserve", !.s = NoSession, !.ends = 0, !.voice = FALSE]
  <2>1. C \in {Idle, X1}
    BY <1>1 DEF Continue
  <2>2. X1 \in Request /\ InHand(X1)
    BY ZenonT(30) DEF Request, PCs, Operations
  <2> QED  BY <2>1, <2>2, IdleType
<1>2. CASE q.op = "turn"
  <2> DEFINE X1 == [q EXCEPT !.pc = "turn_start", !.round = round, !.at = now, !.ends = 0, !.voice = voice]
             X2 == [q EXCEPT !.pc = "turn_voice", !.round = round, !.at = now, !.ends = 0, !.voice = voice]
  <2>1. C \in {Idle, X1, X2}
    BY <1>2 DEF Continue
  <2>2. X1 \in Request /\ InHand(X1)
    BY ZenonT(30) DEF Request, PCs, Operations
  <2>3. X2 \in Request /\ InHand(X2)
    BY ZenonT(30) DEF Request, PCs, Operations
  <2> QED  BY <2>1, <2>2, <2>3, IdleType
<1>3. CASE q.op = "language"
  <2> DEFINE X1 == [q EXCEPT !.pc = "language_history", !.round = round, !.at = now, !.ends = 0, !.voice = voice]
  <2>1. C \in {Idle, X1}
    BY <1>3 DEF Continue
  <2>2. X1 \in Request /\ InHand(X1)
    BY ZenonT(30) DEF Request, PCs, Operations
  <2> QED  BY <2>1, <2>2, IdleType
<1>4. CASE q.op = "end"
  <2> DEFINE X1 == [Idle EXCEPT !.pc = "end_count", !.op = "end", !.s = q.s]
  <2>1. C \in {Idle, X1}
    BY <1>4 DEF Continue
  <2>2. X1 \in Request /\ InHand(X1)
    BY NewRequestType DEF PCs, Operations, GrantPCs
  <2> QED  BY <2>1, <2>2, IdleType
<1>5. CASE q.op = "violation"
  <2> DEFINE X1 == [Idle EXCEPT !.pc = "violation_insert", !.op = "violation", !.s = q.s]
  <2>1. C \in {Idle, X1}
    BY <1>5 DEF Continue
  <2>2. X1 \in Request /\ InHand(X1)
    BY NewRequestType DEF PCs, Operations, GrantPCs
  <2> QED  BY <2>1, <2>2, IdleType
<1>6. CASE q.op = "voice"
  <2> DEFINE X1 == [q EXCEPT !.pc = "violation_insert", !.ends = 0]
             X2 == [q EXCEPT !.pc = "turn_history", !.op = "turn", !.ends = 0]
  <2>1. C \in {Idle, X1, X2}
    BY <1>6 DEF Continue
  <2>2. X1 \in Request /\ InHand(X1)
    BY ZenonT(30) DEF Request, PCs, Operations
  <2>3. X2 \in Request /\ InHand(X2)
    BY ZenonT(30) DEF Request, PCs, Operations
  <2> QED  BY <2>1, <2>2, <2>3, IdleType
<1>7. CASE q.op = "sweep"
  <2> DEFINE X1 == [q EXCEPT !.pc = "sweep_stale", !.s = NoSession, !.ends = 0, !.voice = FALSE]
  <2>1. C \in {Idle, X1}
    BY <1>7 DEF Continue
  <2>2. X1 \in Request /\ InHand(X1)
    BY ZenonT(30) DEF Request, PCs, Operations
  <2> QED  BY <2>1, <2>2, IdleType
<1>8. CASE q.op \notin {"create", "turn", "language", "end", "violation", "voice", "sweep"}
  BY <1>8, IdleType DEF Continue
<1>. QED  BY <1>1, <1>2, <1>3, <1>4, <1>5, <1>6, <1>7, <1>8

LEMMA AdvanceType ==
    ASSUME TypeOK, NEW q \in Request, q.s \in Sessions, NEW d \in SessionDoc
    PROVE  Advance(q, d) \in Request /\ InHand(Advance(q, d))
<1>2. /\ d.status \in Statuses /\ d.round \in Rounds /\ d.voice \in BOOLEAN
  BY DEF SessionDoc
<1>3. CASE Due(d.status, d.ends, d.paused)
  <2>1. now + BehavioralMinutes \in Nat
    BY ConstantsAssumption DEF TypeOK
  <2>2. ASSUME NEW pc \in {"advance_behavioral", "advance_complete"}
        PROVE  LET r == [q EXCEPT !.ends = now + BehavioralMinutes, !.voice = d.voice, !.pc = pc]
               IN  r \in Request /\ InHand(r)
    BY <1>2, <2>1 DEF Request, PCs, InHand, GrantPCs
  <2> QED
    BY <1>3, <2>2 DEF Advance
<1>4. CASE ~Due(d.status, d.ends, d.paused)
  BY <1>2, <1>4, ContinueType DEF Advance
<1> QED  BY <1>3, <1>4

LEMMA ReadType ==
    ASSUME TypeOK, NEW q \in Request, q.s \in Sessions
    PROVE  Read(q) \in Request /\ InHand(Read(q))
BY AdvanceType DEF Read, TypeOK, DocsOK

-----------------------------------------------------------------------------
(* What a step may do to the session documents                              *)

\* s becomes d: it is brought (back) into a round, which the unique index must
\* allow; it is created; its status stays; or it is active and ends.
Allowed(s, d) ==
    \/ /\ d.user = sess[s].user /\ d.status \in InProgress
       /\ IndexAllows(s, d.user)
    \/ /\ d.status = "created" /\ IndexAllows(s, d.user)
       /\ \E p \in Procs : AtPc(p, "create_insert") /\ req[p].s = s
    \/ d.user = sess[s].user /\ d.status = sess[s].status
    \/ d.user = sess[s].user /\ IsActive(s) /\ d.status \in TerminalStatuses

SessWrite ==
    \/ UNCHANGED sess
    \/ \E s \in Sessions : \E d \in SessionDoc : SetDoc(s, d) /\ Allowed(s, d)

LEMMA AtSession ==
    ASSUME TypeOK, NEW p \in Procs
    PROVE  /\ req[p] \in Request /\ InHand(req[p])
           /\ req[p].pc \notin NoSessionPCs =>
                /\ req[p].s \in Sessions
                /\ sess[req[p].s] \in SessionDoc
                /\ turns[req[p].s] \in Seq(Turn)
                /\ scored[req[p].s] \in [Rounds -> Nat]
BY DEF TypeOK, RequestsOK, DocsOK, InHand

LEMMA GoType ==
    ASSUME RequestsOK, NEW p \in Procs, NEW pc \in PCs,
           req[p].pc \notin NoSessionPCs, pc \notin GrantPCs, Go(p, pc)
    PROVE  RequestsOK'
<1> DEFINE q == [req[p] EXCEPT !.pc = pc]
<1>1. q \in Request /\ InHand(q)
  BY DEF RequestsOK, Request, InHand
<1>2. req' = [req EXCEPT ![p] = q]
  BY DEF Go
<1> QED  BY <1>1, <1>2, RequestUpdate

LEMMA ReturnType ==
    ASSUME RequestsOK, NEW p \in Procs, Return(p)
    PROVE  RequestsOK'
BY IdleType, RequestUpdate DEF Return

\* A write that the unique index stands behind.
LEMMA WriteActiveType ==
    ASSUME TypeOK, NEW p \in Procs, NEW s \in Sessions, req[p].pc \notin NoSessionPCs,
           NEW d \in SessionDoc, d.user = sess[s].user, d.status \in InProgress,
           NEW q \in Request, InHand(q),
           WriteActive(p, s, d, q), UNCHANGED <<turns, scored, violations, reports>>
    PROVE  DocsOK' /\ RequestsOK' /\ SessWrite
<1>1. Raise(req[p]) \in Request /\ InHand(Raise(req[p]))
  <2> DEFINE r == [req[p] EXCEPT !.pc = "turn_history", !.op = "turn", !.ends = 0]
  <2>1. req[p] \in Request /\ req[p].s \in Sessions
    BY AtSession
  <2>2. "turn_history" \in PCs \ GrantPCs /\ "turn" \in Operations
    BY DEF PCs, GrantPCs, Operations
  <2>3. r \in Request /\ r.pc = "turn_history" /\ r.s = req[p].s
    BY <2>1, <2>2 DEF Request
  <2>4. InHand(r)
    BY <2>1, <2>2, <2>3 DEF InHand
  <2> QED  BY <2>3, <2>4, IdleType DEF Raise
<1>2. CASE IndexAllows(s, d.user)
  <2>1. SetDoc(s, d) /\ req' = [req EXCEPT ![p] = q]
    BY <1>2 DEF WriteActive
  <2>2. QED
    BY <1>2, <2>1, DocUpdate, RequestUpdate DEF TypeOK, SessWrite, Allowed
<1>3. CASE ~IndexAllows(s, d.user)
  <2>1. UNCHANGED sess /\ req' = [req EXCEPT ![p] = Raise(req[p])]
    BY <1>3 DEF WriteActive
  <2>2. QED
    BY <1>1, <2>1, RequestUpdate DEF TypeOK, DocsOK, SessWrite
<1> QED  BY <1>2, <1>3

LEMMA KickType ==
    ASSUME DocsOK, NEW s \in Sessions, KickOffReport(s)
    PROVE  reports' \in [Sessions -> Nat]
BY DEF DocsOK, KickOffReport

\* An update guarded on the session being active.
LEMMA FinishType ==
    ASSUME TypeOK, NEW s \in Sessions, NEW status \in TerminalStatuses,
           FinishIfActive(s, status), UNCHANGED <<turns, scored, violations>>
    PROVE  DocsOK' /\ SessWrite
<1> DEFINE d == [sess[s] EXCEPT !.status = status]
<1>1. sess[s] \in SessionDoc
  BY DEF TypeOK, DocsOK
<1>2. d \in SessionDoc /\ d.user = sess[s].user /\ d.status = status
  BY <1>1 DEF SessionDoc, Statuses
<1>3. CASE IsActive(s) /\ SetDoc(s, d) /\ KickOffReport(s)
  BY <1>2, <1>3, KickType DEF TypeOK, DocsOK, SetDoc, SessWrite, Allowed
<1>4. CASE UNCHANGED <<sess, reports>>
  BY <1>4 DEF TypeOK, DocsOK, SessWrite
<1> QED  BY <1>3, <1>4 DEF FinishIfActive

LEMMA InsertTurnType ==
    ASSUME DocsOK, NEW s \in Sessions, NEW n \in Nat,
           NEW speaker \in {"candidate", "interviewer"}, InsertTurn(s, n, speaker)
    PROVE  turns' \in [Sessions -> Seq(Turn)]
<1>1. [index |-> n, speaker |-> speaker] \in Turn
  BY DEF Turn
<1>2. turns[s] \in Seq(Turn)
  BY DEF DocsOK
<1>3. Append(turns[s], [index |-> n, speaker |-> speaker]) \in Seq(Turn)
  BY <1>1, <1>2
<1> QED  BY <1>3 DEF DocsOK, InsertTurn

LEMMA AgentScoresType ==
    ASSUME DocsOK, NEW s \in Sessions, NEW round \in Rounds, AgentScores(s, round)
    PROVE  scored' \in [Sessions -> [Rounds -> Nat]]
<1>1. scored[s] \in [Rounds -> Nat] /\ MinQuestions[round] \in Nat
  BY ConstantsAssumption DEF DocsOK
<1>2. PICK k \in scored[s][round] .. MinQuestions[round] :
        scored' = [scored EXCEPT ![s][round] = k]
  BY DEF AgentScores
<1>3. k \in Nat
  BY <1>1, <1>2
<1> QED  BY <1>1, <1>2, <1>3 DEF DocsOK

-----------------------------------------------------------------------------
(* Every action preserves TypeOK and writes at most one document, as Allowed *)

LEMMA GrantUpdate ==
    ASSUME NEW f \in [Grants -> Nat], NEW g \in Grants, NEW n \in Nat
    PROVE  [f EXCEPT ![g] = n] \in [Grants -> Nat]
OBVIOUS

\* Entering a handler writes nothing.
LEMMA EntersType ==
    ASSUME TypeOK, NEW p \in Requests, NEW q \in Request, InHand(q), Enters(p, q),
           calls' \in Nat
    PROVE  TypeOK' /\ SessWrite
<1>1. RequestsOK'
  BY RequestUpdate DEF Enters, TypeOK, Procs
<1>2. DocsOK' /\ GrantsOK' /\ now' \in Nat /\ crashes' \in Nat /\ UNCHANGED sess
  BY DEF Enters, TypeOK, DocsOK, GrantsOK, docVars, grantVars
<1> QED  BY <1>1, <1>2 DEF TypeOK, SessWrite

\* A handler that has not read anything yet, about session s.
LEMMA FreshRequestType ==
    ASSUME NEW op \in Operations, NEW s \in Sessions
    PROVE  [Idle EXCEPT !.op = op, !.s = s] \in Request
BY IdleType DEF Request

LEMMA CallsType ==
    ASSUME TypeOK, NEW p, NEW op, Calls(p, op)
    PROVE  calls' \in Nat
BY DEF TypeOK, Calls

LEMMA ClientCallType ==
    ASSUME TypeOK, NEW p \in Requests, ClientCall(p)
    PROVE  TypeOK' /\ SessWrite
<1>1. ASSUME NEW u \in Users, NEW g \in Grants \cup {NoGrant}, NEW b \in BOOLEAN,
             Create(p, u, g, b)
      PROVE  TypeOK' /\ SessWrite
  <2> DEFINE q == [Idle EXCEPT !.op = "create", !.user = u, !.grant = g, !.behavioral = b]
  <2>1. calls' \in Nat
    BY <1>1, CallsType DEF Create
  <2>2. q \in Request
    BY IdleType DEF Request, Operations
  <2>3. CASE Enters(p, Continue(q, "none", "technical", FALSE))
    <3> DEFINE c == Continue(q, "none", "technical", FALSE)
    <3>1. q.op = "create"
      BY IdleType DEF Request
    <3> DEFINE r == [q EXCEPT !.pc = "create_reserve", !.s = NoSession, !.ends = 0, !.voice = FALSE]
    <3> HIDE DEF q
    <3>2. c = r
      BY <3>1 DEF Continue, ACTIVE_STATUSES, InProgress
    <3>0. "create_reserve" \in PCs /\ "create_reserve" \in NoSessionPCs /\ "create_reserve" \notin GrantPCs
      BY DEF PCs, NoSessionPCs, GrantPCs
    <3>4. r \in Request /\ r.pc = "create_reserve"
      BY <2>2, <3>0 DEF Request
    <3>3. c \in Request /\ InHand(c)
      BY <3>0, <3>2, <3>4 DEF InHand
    <3> USE DEF q
    <3> QED  BY <2>1, <2>3, <3>3, EntersType
  <2>4. ASSUME NEW e \in ActiveOf(u), Enters(p, Read([q EXCEPT !.s = e]))
        PROVE  TypeOK' /\ SessWrite
    <3> DEFINE r == [q EXCEPT !.s = e]
    <3>1. e \in Sessions
      BY DEF ActiveOf
    <3>2. r \in Request /\ r.s \in Sessions
      BY <2>2, <3>1 DEF Request
    <3>3. Read(r) \in Request /\ InHand(Read(r))
      BY <3>2, ReadType
    <3> QED  BY <2>1, <2>4, <3>3, EntersType
  <2> QED  BY <1>1, <2>3, <2>4 DEF Create
<1>2. ASSUME NEW s \in Sessions, NEW op \in Operations, Calls(p, op),
             Enters(p, Read([Idle EXCEPT !.op = op, !.s = s]))
      PROVE  TypeOK' /\ SessWrite
  <2> DEFINE q == [Idle EXCEPT !.op = op, !.s = s]
  <2>1. q \in Request /\ q.s = s
    BY IdleType, FreshRequestType DEF Request
  <2>2. Read(q) \in Request /\ InHand(Read(q))
    BY <2>1, ReadType
  <2> QED  BY <1>2, <2>2, CallsType, EntersType
<1>3. ASSUME NEW s \in Sessions, Start(p, s)  PROVE TypeOK' /\ SessWrite
  <2> DEFINE q == [Idle EXCEPT !.op = "start", !.s = s]
             r == [q EXCEPT !.pc = "start_write", !.at = now]
  <2>1. q \in Request /\ q.s = s
    BY IdleType DEF Request, Operations
  <2>0. r \in Request /\ InHand(r)
    BY ZenonT(30), <2>1 DEF TypeOK, Request, PCs, InHand, GrantPCs
  <2>2. CASE Enters(p, r)
    BY <1>3, <2>0, <2>2, CallsType, EntersType DEF Start
  <2>3. CASE Enters(p, Read(q))
    BY <1>2, <1>3, <2>3 DEF Start, Operations
  <2> QED  BY <1>3, <2>2, <2>3 DEF Start
<1>4. ASSUME NEW s \in Sessions, Acknowledge(p, s)  PROVE TypeOK' /\ SessWrite
  <2> DEFINE d == sess[s]
             q == [Idle EXCEPT !.op = "acknowledge", !.s = s]
             ends == IF d.ends[d.round] = Unset THEN Unset
                     ELSE d.ends[d.round] + Lasted(d.paused)
             at == IF d.round = RoundOf(d.status) THEN ends ELSE d.ends[RoundOf(d.status)]
             r == [q EXCEPT !.pc = "acknowledge_write", !.status = d.status,
                            !.round = d.round, !.ends = ends, !.at = at]
  <2>1. CASE Enters(p, Read(q))
    BY <1>2, <1>4, <2>1 DEF Acknowledge, Operations
  <2>2. CASE Enters(p, r)
    <3>1. d \in SessionDoc /\ now \in Nat
      BY DEF TypeOK, DocsOK
    <3>2. d.status \in Statuses /\ d.round \in Rounds /\ d.ends[d.round] \in Nat
      BY <3>1 DEF SessionDoc
    <3>3. d.paused \in Nat
      BY <3>1 DEF SessionDoc
    <3>4. ends \in Nat
      BY <3>1, <3>2, <3>3 DEF Lasted
    <3>5. q \in Request /\ q.s = s
      BY IdleType DEF Request, Operations
    <3>6. at \in Nat
      BY <3>1, <3>4 DEF SessionDoc, RoundOf, Rounds
    <3> HIDE DEF ends, at
    <3>7. r \in Request /\ InHand(r)
      BY ZenonT(30), <3>2, <3>4, <3>5, <3>6 DEF Request, PCs, InHand, GrantPCs
    <3> USE DEF ends, at
    <3> QED  BY <1>4, <2>2, <3>7, CallsType, EntersType DEF Acknowledge
  <2> QED  BY <1>4, <2>1, <2>2 DEF Acknowledge
<1> QED
  BY <1>1, <1>2, <1>3, <1>4
     DEF ClientCall, TurnRequest, ChangeLanguage, GetStatus, EndEarly, RecordViolation,
         Operations
-----------------------------------------------------------------------------
(* The steps a handler is resumed for                                       *)

\* What is left alone keeps its type.
LEMMA Frame ==
    ASSUME TypeOK
    PROVE  /\ UNCHANGED docVars => DocsOK'
           /\ UNCHANGED grantVars => GrantsOK'
           /\ UNCHANGED boundVars => calls' \in Nat /\ crashes' \in Nat
           /\ UNCHANGED now => now' \in Nat
BY DEF TypeOK, DocsOK, GrantsOK, docVars, grantVars, boundVars

\* A handler with session s in hand, moved to pc.
LEMMA MovedType ==
    ASSUME NEW q \in Request, q.s \in Sessions, NEW pc \in PCs \ GrantPCs
    PROVE  LET r == [q EXCEPT !.pc = pc] IN r \in Request /\ InHand(r) /\ r.s = q.s
<1> DEFINE r == [q EXCEPT !.pc = pc]
<1>1. r \in Request /\ r.pc = pc /\ r.s = q.s
  BY DEF Request
<1> HIDE DEF r
<1>2. InHand(r)
  BY <1>1 DEF InHand
<1> QED  BY <1>1, <1>2 DEF r

LEMMA AfterViolationType ==
    ASSUME NEW q \in Request, q.s \in Sessions
    PROVE  AfterViolation(q) \in Request /\ InHand(AfterViolation(q))
<1> DEFINE r == [q EXCEPT !.pc = "turn_history", !.op = "turn"]
<1>1. "turn_history" \in PCs \ GrantPCs /\ "turn" \in Operations
  BY DEF PCs, GrantPCs, Operations
<1>2. r \in Request /\ r.pc = "turn_history" /\ r.s = q.s
  BY <1>1 DEF Request
<1>3. InHand(r)
  BY <1>1, <1>2 DEF InHand
<1> QED  BY <1>2, <1>3, IdleType DEF AfterViolation

LEMMA RereadType ==
    ASSUME TypeOK, NEW p \in Procs, Reread(p)  PROVE TypeOK' /\ SessWrite
<1>1. req[p] \in Request /\ req[p].s \in Sessions /\ sess[req[p].s] \in SessionDoc
  BY AtSession DEF Reread, AtPc, NoSessionPCs
<1> DEFINE d == sess[req[p].s]
<1>2. d.status \in Statuses /\ d.round \in Rounds /\ d.voice \in BOOLEAN
  BY <1>1 DEF SessionDoc
<1>3. RequestsOK'
  BY <1>1, <1>2, ContinueType, RequestUpdate DEF Reread, TypeOK
<1> QED  BY <1>3, Frame DEF Reread, TypeOK, SessWrite, docVars

LEMMA CreateReserveType ==
    ASSUME TypeOK, NEW p \in Procs, NEW s \in Sessions, CreateReserve(p, s)
    PROVE  TypeOK' /\ SessWrite
<1> DEFINE g == req[p].grant
           Moved(pc) == [[req[p] EXCEPT !.pc = pc] EXCEPT !.s = s]
<1>1. req[p] \in Request /\ g \in Grants \cup {NoGrant}
  BY DEF TypeOK, RequestsOK, Request
<1>2. ASSUME NEW pc \in {"create_insert", "create_log"}, pc = "create_log" => g \in Grants
      PROVE  Moved(pc) \in Request /\ InHand(Moved(pc))
  <2>1. pc \in PCs /\ pc \notin NoSessionPCs /\ (pc \in GrantPCs => pc = "create_log")
    BY DEF PCs, NoSessionPCs, GrantPCs
  <2>2. /\ Moved(pc) \in Request /\ Moved(pc).pc = pc /\ Moved(pc).s = s
        /\ Moved(pc).grant = g
    BY <1>1, <2>1 DEF Request
  <2> HIDE DEF Moved
  <2>3. InHand(Moved(pc))
    BY <1>2, <2>1, <2>2 DEF InHand
  <2> QED  BY <2>2, <2>3
<1>3. RequestsOK' /\ remaining' \in [Grants -> Nat]
  <2>1. CASE g = NoGrant /\ req' = [req EXCEPT ![p] = Moved("create_insert")] /\ UNCHANGED remaining
    BY <2>1, <1>2, RequestUpdate DEF TypeOK, GrantsOK
  <2>2. CASE /\ g # NoGrant /\ remaining[g] > 0
             /\ remaining' = [remaining EXCEPT ![g] = @ - 1]
             /\ req' = [req EXCEPT ![p] = Moved("create_log")]
    <3>1. g \in Grants /\ remaining[g] - 1 \in Nat
      BY <1>1, <2>2 DEF TypeOK, GrantsOK
    <3> QED  BY <1>2, <2>2, <3>1, RequestUpdate DEF TypeOK, GrantsOK
  <2>3. CASE Return(p) /\ UNCHANGED remaining
    BY <2>3, ReturnType DEF TypeOK, GrantsOK
  <2> QED  BY <2>1, <2>2, <2>3 DEF CreateReserve
<1>4. GrantsOK'
  BY <1>3 DEF CreateReserve, TypeOK, GrantsOK
<1> QED  BY <1>3, <1>4, Frame DEF CreateReserve, TypeOK, SessWrite, docVars

LEMMA CreateLogType ==
    ASSUME TypeOK, NEW p \in Procs, CreateLog(p)  PROVE TypeOK' /\ SessWrite
<1>1. req[p].grant \in Grants /\ req[p].pc = "create_log"
  BY DEF CreateLog, AtPc, TypeOK, RequestsOK, InHand, GrantPCs
<1>2. GrantsOK'
  BY <1>1 DEF CreateLog, TypeOK, GrantsOK
<1>3. RequestsOK'
  BY <1>1, GoType DEF CreateLog, TypeOK, PCs, NoSessionPCs, GrantPCs
<1> QED  BY <1>2, <1>3, Frame DEF CreateLog, TypeOK, SessWrite, docVars

LEMMA RefundType ==
    ASSUME TypeOK, NEW p \in Procs, Refund(p)  PROVE TypeOK' /\ SessWrite
<1> DEFINE r == [req[p] EXCEPT !.pc = "refund_log"]
<1>1. req[p] \in Request /\ req[p].pc = "refund" /\ req[p].grant \in Grants
  BY DEF Refund, AtPc, TypeOK, RequestsOK, InHand, GrantPCs
<1>2. req[p].s \in Sessions
  BY <1>1, AtSession DEF NoSessionPCs
<1>3. GrantsOK'
  BY <1>1 DEF Refund, TypeOK, GrantsOK
<1>4. "refund_log" \in PCs
  BY DEF PCs
<1>5. r \in Request /\ InHand(r)
  BY <1>1, <1>2, <1>4 DEF Request, InHand
<1>6. RequestsOK'
  BY <1>5, RequestUpdate DEF Refund, Go, TypeOK
<1> QED  BY <1>3, <1>6, Frame DEF Refund, TypeOK, SessWrite, docVars

LEMMA RefundLogType ==
    ASSUME TypeOK, NEW p \in Procs, RefundLog(p)  PROVE TypeOK' /\ SessWrite
<1> DEFINE r == [[[req[p] EXCEPT !.pc = "sweep_created"] EXCEPT !.s = NoSession]
                 EXCEPT !.grant = NoGrant]
<1>1. req[p] \in Request /\ req[p].pc = "refund_log" /\ req[p].grant \in Grants
  BY DEF RefundLog, AtPc, TypeOK, RequestsOK, InHand, GrantPCs
<1>2. req[p].s \in Sessions
  BY <1>1, AtSession DEF NoSessionPCs
<1>3. GrantsOK'
  BY <1>1, <1>2 DEF RefundLog, TypeOK, GrantsOK
<1>4. DocsOK' /\ UNCHANGED sess
  BY <1>2, KickType DEF RefundLog, TypeOK, DocsOK
<1>5. "sweep_created" \in PCs
  BY DEF PCs
<1>6. r \in Request /\ r.pc = "sweep_created"
  BY <1>1, <1>5 DEF Request
<1>7. InHand(r)
  BY <1>6 DEF InHand, NoSessionPCs, GrantPCs
<1>8. RequestsOK'
  <2>1. CASE req' = [req EXCEPT ![p].pc = "sweep_created", ![p].s = NoSession,
                                ![p].grant = NoGrant]
    <3>1. req' = [req EXCEPT ![p] = r]
      BY <2>1
    <3> QED  BY <1>6, <1>7, <3>1, RequestUpdate DEF TypeOK
  <2>2. CASE Return(p)
    BY <2>2, ReturnType DEF TypeOK
  <2> QED  BY <2>1, <2>2 DEF RefundLog
<1> QED  BY <1>3, <1>4, <1>8, Frame DEF RefundLog, TypeOK, SessWrite
\* The three writes that bring a session into a round.
LEMMA ToRoundType ==
    ASSUME TypeOK, NEW s \in Sessions, NEW n \in Nat
    PROVE  /\ ToBehavioral(s, n) \in SessionDoc
           /\ ToBehavioral(s, n).user = sess[s].user
           /\ ToBehavioral(s, n).status \in InProgress
           /\ ToTechnical(s, n) \in SessionDoc
           /\ ToTechnical(s, n).user = sess[s].user
           /\ ToTechnical(s, n).status \in InProgress
<1>1. sess[s] \in SessionDoc /\ n + TechnicalMinutes \in Nat
  BY ConstantsAssumption DEF TypeOK, DocsOK
<1> QED
  BY <1>1 DEF ToBehavioral, ToTechnical, SessionDoc, InProgress, Statuses,
              ACTIVE_STATUSES, Rounds

LEMMA AdvanceBehavioralType ==
    ASSUME TypeOK, NEW p \in Procs, AdvanceBehavioral(p)  PROVE TypeOK' /\ SessWrite
<1> DEFINE q == req[p]
           next == Continue(q, "behavioral_in_progress", "behavioral", q.voice)
<1>1. q \in Request /\ q.pc \notin NoSessionPCs /\ q.s \in Sessions
  BY AtSession DEF AdvanceBehavioral, AtPc, NoSessionPCs
<1>2. q.ends \in Nat /\ q.voice \in BOOLEAN
  BY <1>1 DEF Request
<1>3. next \in Request /\ InHand(next)
  BY <1>1, <1>2, ContinueType DEF Rounds, Statuses, ACTIVE_STATUSES, InProgress
<1>4. DocsOK' /\ RequestsOK' /\ SessWrite
  BY <1>1, <1>2, <1>3, ToRoundType, WriteActiveType DEF AdvanceBehavioral
<1> QED  BY <1>4, Frame DEF AdvanceBehavioral, TypeOK

LEMMA StartWriteType ==
    ASSUME TypeOK, NEW p \in Procs, StartWrite(p)  PROVE TypeOK' /\ SessWrite
<1> DEFINE q == req[p]
           next == [q EXCEPT !.pc = "start_agent", !.at = 0]
<1>1. q \in Request /\ q.pc \notin NoSessionPCs /\ q.s \in Sessions
  BY AtSession DEF StartWrite, AtPc, NoSessionPCs
<1>2. "start_agent" \in PCs \ GrantPCs /\ q.at \in Nat
  BY <1>1 DEF PCs, GrantPCs, Request
<1>3. next \in Request /\ next.pc = "start_agent" /\ next.s = q.s
  BY <1>1, <1>2 DEF Request
<1>4. InHand(next)
  BY <1>1, <1>2, <1>3 DEF InHand
<1>5. DocsOK' /\ RequestsOK' /\ SessWrite
  BY <1>1, <1>2, <1>3, <1>4, ToRoundType, WriteActiveType DEF StartWrite
<1> QED  BY <1>5, Frame DEF StartWrite, TypeOK

LEMMA TurnStartType ==
    ASSUME TypeOK, NEW p \in Procs, TurnStart(p)  PROVE TypeOK' /\ SessWrite
<1> DEFINE q == req[p]
           next == [q EXCEPT !.pc = "turn_voice"]
<1>1. q \in Request /\ q.pc \notin NoSessionPCs /\ q.s \in Sessions
  BY AtSession DEF TurnStart, AtPc, NoSessionPCs
<1>2. "turn_voice" \in PCs \ GrantPCs /\ q.at \in Nat
  BY <1>1 DEF PCs, GrantPCs, Request
<1>3. next \in Request /\ InHand(next)
  BY <1>1, <1>2, MovedType
<1>4. DocsOK' /\ RequestsOK' /\ SessWrite
  BY <1>1, <1>2, <1>3, ToRoundType, WriteActiveType DEF TurnStart
<1> QED  BY <1>4, Frame DEF TurnStart, TypeOK

LEMMA TurnEndType ==
    ASSUME TypeOK, NEW p \in Procs, TurnEnd(p)  PROVE TypeOK' /\ SessWrite
<1> DEFINE q == req[p]
<1>1. q \in Request /\ q.pc \notin NoSessionPCs /\ q.s \in Sessions
  BY AtSession DEF TurnEnd, AtPc, NoSessionPCs
<1>2. q.at + BehavioralMinutes \in Nat
  BY <1>1, ConstantsAssumption DEF Request
<1>3. CASE /\ WriteActive(p, q.s, ToBehavioral(q.s, q.at + BehavioralMinutes), Idle)
           /\ UNCHANGED reports
  <2>1. DocsOK' /\ RequestsOK' /\ SessWrite
    BY <1>1, <1>2, <1>3, IdleType, ToRoundType, WriteActiveType DEF TurnEnd
  <2> QED  BY <2>1, Frame DEF TurnEnd, TypeOK
<1>4. CASE CompleteSession(q.s) /\ Return(p)
  <2>1. DocsOK' /\ SessWrite
    BY <1>1, <1>4, FinishType DEF TurnEnd, CompleteSession, TerminalStatuses
  <2> QED  BY <1>4, <2>1, ReturnType, Frame DEF TurnEnd, TypeOK
<1>5. CASE Return(p) /\ UNCHANGED <<sess, reports>>
  <2>1. UNCHANGED docVars
    BY <1>5 DEF TurnEnd, docVars
  <2> QED  BY <1>5, <2>1, ReturnType, Frame DEF TurnEnd, TypeOK, SessWrite
<1> QED  BY <1>3, <1>4, <1>5 DEF TurnEnd

LEMMA AdvanceCompleteType ==
    ASSUME TypeOK, NEW p \in Procs, AdvanceComplete(p)  PROVE TypeOK' /\ SessWrite
<1>1. req[p].pc \notin NoSessionPCs /\ req[p].s \in Sessions
  BY AtSession DEF AdvanceComplete, AtPc, NoSessionPCs
<1>2. DocsOK' /\ SessWrite
  BY <1>1, FinishType DEF AdvanceComplete, CompleteSession, TerminalStatuses
<1>3. RequestsOK'
  BY <1>1, GoType DEF AdvanceComplete, TypeOK, PCs, GrantPCs
<1> QED  BY <1>2, <1>3, Frame DEF AdvanceComplete, TypeOK

LEMMA EndCompleteType ==
    ASSUME TypeOK, NEW p \in Procs, EndComplete(p)  PROVE TypeOK' /\ SessWrite
<1>1. req[p].s \in Sessions
  BY AtSession DEF EndComplete, AtPc, NoSessionPCs
<1>2. DocsOK' /\ SessWrite
  BY <1>1, FinishType DEF EndComplete, CompleteSession, TerminalStatuses
<1> QED  BY <1>2, ReturnType, Frame DEF EndComplete, TypeOK

LEMMA ViolationTerminateType ==
    ASSUME TypeOK, NEW p \in Procs, ViolationTerminate(p)  PROVE TypeOK' /\ SessWrite
<1>1. req[p] \in Request /\ req[p].s \in Sessions
  BY AtSession DEF ViolationTerminate, AtPc, NoSessionPCs
<1>2. DocsOK' /\ SessWrite
  BY <1>1, FinishType DEF ViolationTerminate, TerminalStatuses
<1>3. RequestsOK'
  BY <1>1, AfterViolationType, RequestUpdate DEF ViolationTerminate, TypeOK
<1> QED  BY <1>2, <1>3, Frame DEF ViolationTerminate, TypeOK
\* A write that leaves user and status as they are.
LEMMA SameStatusWrite ==
    ASSUME TypeOK, NEW s \in Sessions, NEW d \in SessionDoc, SetDoc(s, d),
           d.user = sess[s].user, d.status = sess[s].status,
           UNCHANGED <<turns, scored, violations, reports>>
    PROVE  DocsOK' /\ SessWrite
BY DocUpdate DEF TypeOK, SessWrite, Allowed

LEMMA CreateInsertType ==
    ASSUME TypeOK, NEW p \in Procs, CreateInsert(p)  PROVE TypeOK' /\ SessWrite
<1> DEFINE q == req[p]
           d == [NoDoc EXCEPT !.status = "created", !.user = q.user, !.grant = q.grant,
                              !.behavioral = q.behavioral, !.created = now]
<1>1. q \in Request /\ q.s \in Sessions /\ q.pc = "create_insert"
  BY AtSession DEF CreateInsert, AtPc, NoSessionPCs
<1>2. CASE IndexAllows(q.s, q.user) /\ SetDoc(q.s, d) /\ Return(p)
  <2>1. /\ q.user \in Users \cup {NoUser} /\ q.grant \in Grants \cup {NoGrant}
        /\ q.behavioral \in BOOLEAN /\ now \in Nat /\ "created" \in Statuses
    BY <1>1 DEF Request, TypeOK, Statuses, ACTIVE_STATUSES
  <2>2. d \in SessionDoc /\ d.status = "created" /\ d.user = q.user
    BY <2>1, NoDocType DEF SessionDoc
  <2>3. Allowed(q.s, d)
    BY <1>1, <1>2, <2>2 DEF Allowed, AtPc
  <2>4. DocsOK'
    BY <1>1, <1>2, <2>2, DocUpdate DEF CreateInsert, TypeOK
  <2>5. SessWrite
    BY <1>1, <1>2, <2>2, <2>3 DEF SessWrite
  <2> QED  BY <1>2, <2>4, <2>5, ReturnType, Frame DEF CreateInsert, TypeOK
<1>3. CASE /\ ~IndexAllows(q.s, q.user)
           /\ IF q.grant = NoGrant THEN Return(p) ELSE Go(p, "refund")
           /\ UNCHANGED sess
  <2> DEFINE r == [q EXCEPT !.pc = "refund"]
  <2>1. q.grant \in Grants \cup {NoGrant} /\ "refund" \in PCs
    BY <1>1 DEF Request, PCs
  <2>2. r \in Request /\ r.s = q.s /\ r.grant = q.grant
    BY <1>1, <2>1 DEF Request
  <2>3. q.grant # NoGrant => InHand(r)
    BY <1>1, <2>1, <2>2 DEF InHand
  <2>4. RequestsOK'
    BY <1>3, <2>2, <2>3, RequestUpdate, ReturnType DEF Go, TypeOK
  <2>5. UNCHANGED docVars
    BY <1>3 DEF CreateInsert, docVars
  <2> QED  BY <1>3, <2>4, <2>5, Frame DEF CreateInsert, TypeOK, SessWrite
<1> QED  BY <1>2, <1>3 DEF CreateInsert

LEMMA StartAgentType ==
    ASSUME TypeOK, NEW p \in Procs, StartAgent(p)  PROVE TypeOK' /\ SessWrite
<1>1. req[p].s \in Sessions
  BY AtSession DEF StartAgent, AtPc, NoSessionPCs
<1>2. scored' \in [Sessions -> [Rounds -> Nat]] /\ turns' \in [Sessions -> Seq(Turn)]
  BY <1>1, AgentScoresType, InsertTurnType DEF StartAgent, TypeOK, Rounds
<1>3. DocsOK'
  BY <1>2 DEF StartAgent, TypeOK, DocsOK
<1> QED  BY <1>3, ReturnType, Frame DEF StartAgent, TypeOK, SessWrite

LEMMA TurnVoiceType ==
    ASSUME TypeOK, NEW p \in Procs, TurnVoice(p)  PROVE TypeOK' /\ SessWrite
<1> DEFINE q == req[p]
           d == [sess[q.s] EXCEPT !.voice = TRUE]
           r == [[q EXCEPT !.pc = "violation_read"] EXCEPT !.op = "voice"]
<1>1. /\ q \in Request /\ q.pc \notin NoSessionPCs
      /\ q.s \in Sessions /\ sess[q.s] \in SessionDoc
  BY AtSession DEF TurnVoice, AtPc, NoSessionPCs
<1>2. /\ d \in SessionDoc /\ d.user = sess[q.s].user /\ d.status = sess[q.s].status
  BY <1>1 DEF SessionDoc
<1>3. DocsOK' /\ SessWrite
  <2>1. CASE UNCHANGED sess
    BY <2>1, Frame DEF TurnVoice, SessWrite, docVars
  <2>2. CASE SetDoc(q.s, d)
    BY <1>1, <1>2, <2>2, SameStatusWrite DEF TurnVoice
  <2> QED  BY <2>1, <2>2 DEF TurnVoice
<1>4. RequestsOK'
  <2>1. CASE Go(p, "turn_history")
    BY <1>1, <2>1, GoType DEF TypeOK, PCs, GrantPCs
  <2>2. CASE Return(p)
    BY <2>2, ReturnType DEF TypeOK
  <2>3. CASE req' = [req EXCEPT ![p].pc = "violation_read", ![p].op = "voice"]
    <3>1. "violation_read" \in PCs \ GrantPCs /\ "voice" \in Operations
      BY DEF PCs, GrantPCs, Operations
    <3>2. r \in Request /\ r.pc = "violation_read" /\ r.s = q.s
      BY <1>1, <3>1 DEF Request
    <3>3. InHand(r)
      BY <1>1, <3>1, <3>2 DEF InHand
    <3>4. req' = [req EXCEPT ![p] = r]
      BY <2>3
    <3> HIDE DEF r
    <3> QED  BY <3>2, <3>3, <3>4, RequestUpdate DEF TypeOK
  <2> QED  BY <2>1, <2>2, <2>3 DEF TurnVoice
<1> QED  BY <1>3, <1>4, Frame DEF TurnVoice, TypeOK

LEMMA ReadHistoryType ==
    ASSUME TypeOK, NEW p \in Procs, NEW from, from \notin NoSessionPCs,
           NEW to \in PCs \ GrantPCs, ReadHistory(p, from, to)
    PROVE  TypeOK' /\ SessWrite
<1> DEFINE q == req[p]
           r == [[q EXCEPT !.pc = to] EXCEPT !.n = Len(turns[q.s])]
<1>1. q \in Request /\ q.s \in Sessions /\ Len(turns[q.s]) \in Nat
  BY AtSession DEF ReadHistory, AtPc
<1>2. r \in Request /\ r.pc = to /\ r.s = q.s
  BY <1>1 DEF Request
<1>3. InHand(r)
  BY <1>1, <1>2 DEF InHand
<1>4. req' = [req EXCEPT ![p] = r]
  BY DEF ReadHistory
<1> HIDE DEF r
<1>5. RequestsOK'
  BY <1>2, <1>3, <1>4, RequestUpdate DEF TypeOK
<1> QED  BY <1>5, Frame DEF ReadHistory, TypeOK, SessWrite, docVars

LEMMA TurnAgentType ==
    ASSUME TypeOK, NEW p \in Procs, TurnAgent(p)  PROVE TypeOK' /\ SessWrite
<1> DEFINE q == req[p]
<1>1. q \in Request /\ q.s \in Sessions /\ q.round \in Rounds /\ q.n \in Nat
  BY AtSession DEF TurnAgent, AtPc, NoSessionPCs, Request
<1>2. DocsOK'
  BY <1>1, AgentScoresType, InsertTurnType DEF TurnAgent, TypeOK, DocsOK
<1>3. RequestsOK'
  <2>1. PICK end \in BOOLEAN : req' = [req EXCEPT ![p].pc = "turn_reply", ![p].end = end]
    BY DEF TurnAgent
  <2> DEFINE r == [[q EXCEPT !.pc = "turn_reply"] EXCEPT !.end = end]
  <2>2. "turn_reply" \in PCs \ GrantPCs
    BY DEF PCs, GrantPCs
  <2>3. r \in Request /\ r.pc = "turn_reply" /\ r.s = q.s
    BY <1>1, <2>2 DEF Request
  <2>4. InHand(r)
    BY <1>1, <2>2, <2>3 DEF InHand
  <2>5. req' = [req EXCEPT ![p] = r]
    BY <2>1
  <2> HIDE DEF r
  <2> QED  BY <2>3, <2>4, <2>5, RequestUpdate DEF TypeOK
<1> QED  BY <1>2, <1>3, Frame DEF TurnAgent, TypeOK, SessWrite

LEMMA TurnReplyType ==
    ASSUME TypeOK, NEW p \in Procs, TurnReply(p)  PROVE TypeOK' /\ SessWrite
<1> DEFINE q == req[p]
<1>1. q \in Request /\ q.pc \notin NoSessionPCs /\ q.s \in Sessions /\ q.n + 1 \in Nat
  BY AtSession DEF TurnReply, AtPc, NoSessionPCs, Request
<1>2. DocsOK'
  BY <1>1, InsertTurnType DEF TurnReply, TypeOK, DocsOK
<1>3. RequestsOK'
  BY <1>1, GoType, ReturnType DEF TurnReply, TypeOK, PCs, GrantPCs
<1> QED  BY <1>2, <1>3, Frame DEF TurnReply, TypeOK, SessWrite

LEMMA LanguageAgentType ==
    ASSUME TypeOK, NEW p \in Procs, LanguageAgent(p)  PROVE TypeOK' /\ SessWrite
<1>1. req[p].s \in Sessions /\ req[p].n \in Nat
  BY AtSession DEF LanguageAgent, AtPc, NoSessionPCs, Request
<1>2. DocsOK'
  BY <1>1, AgentScoresType, InsertTurnType DEF LanguageAgent, TypeOK, DocsOK, Rounds
<1> QED  BY <1>2, ReturnType, Frame DEF LanguageAgent, TypeOK, SessWrite
LEMMA AcknowledgeWriteType ==
    ASSUME TypeOK, NEW p \in Procs, AcknowledgeWrite(p)  PROVE TypeOK' /\ SessWrite
<1> DEFINE q == req[p]
           ends == IF q.ends = Unset THEN sess[q.s].ends
                   ELSE [sess[q.s].ends EXCEPT ![q.round] = q.ends]
           d == [sess[q.s] EXCEPT !.paused = Unset, !.ends = ends]
           Onward(pc) == [[Idle EXCEPT !.pc = pc, !.op = "acknowledge", !.s = q.s]
                          EXCEPT !.ends = now + BehavioralMinutes]
<1>1. q \in Request /\ q.s \in Sessions /\ sess[q.s] \in SessionDoc
  BY AtSession DEF AcknowledgeWrite, AtPc, NoSessionPCs
<1>2. DocsOK' /\ SessWrite
  <2>1. q.round \in Rounds /\ q.ends \in Nat /\ sess[q.s].ends \in [Rounds -> Nat]
    BY <1>1 DEF Request, SessionDoc
  <2>2. ends \in [Rounds -> Nat]
    BY <2>1
  <2>3. d \in SessionDoc /\ d.user = sess[q.s].user /\ d.status = sess[q.s].status
    BY <1>1, <2>2 DEF SessionDoc
  <2> QED  BY <1>1, <2>3, SameStatusWrite DEF AcknowledgeWrite
<1>3. ASSUME NEW pc \in {"advance_behavioral", "advance_complete"}
      PROVE  Onward(pc) \in Request /\ InHand(Onward(pc))
  <2> DEFINE r == [Idle EXCEPT !.pc = pc, !.op = "acknowledge", !.s = q.s]
  <2>1. pc \in PCs \ GrantPCs /\ "acknowledge" \in Operations
    BY DEF PCs, GrantPCs, Operations
  <2>2. r \in Request /\ InHand(r)
    BY <1>1, <2>1, NewRequestType
  <2>3. now + BehavioralMinutes \in Nat
    BY ConstantsAssumption DEF TypeOK
  <2> HIDE DEF r
  <2>4. [r EXCEPT !.ends = now + BehavioralMinutes] \in Request
        /\ InHand([r EXCEPT !.ends = now + BehavioralMinutes])
    BY <2>2, <2>3 DEF Request, InHand
  <2> QED  BY <2>4 DEF r
<1>4. \/ req' = [req EXCEPT ![p] = Idle]
      \/ \E pc \in {"advance_behavioral", "advance_complete"} :
            req' = [req EXCEPT ![p] = Onward(pc)]
  <2> DEFINE e == now + BehavioralMinutes
             L(pc) == [Idle EXCEPT !.op = "acknowledge", !.s = q.s, !.ends = e, !.pc = pc]
  <2>1. \A pc : L(pc) = Onward(pc)
    BY IdleType DEF Request
  <2>2. \/ req' = [req EXCEPT ![p] = Idle]
        \/ \E pc \in {"advance_behavioral", "advance_complete"} :
              req' = [req EXCEPT ![p] = L(pc)]
    BY DEF AcknowledgeWrite
  <2> HIDE DEF Onward, L
  <2> QED  BY <2>1, <2>2
<1> HIDE DEF Onward
<1>5. RequestsOK'
  BY <1>3, <1>4, IdleType, RequestUpdate DEF TypeOK
<1> QED  BY <1>2, <1>5, Frame DEF AcknowledgeWrite, TypeOK

LEMMA EndCountType ==
    ASSUME TypeOK, NEW p \in Procs, EndCount(p)  PROVE TypeOK' /\ SessWrite
<1>1. req[p].pc \notin NoSessionPCs
  BY DEF EndCount, AtPc, NoSessionPCs
<1>2. RequestsOK'
  BY <1>1, GoType DEF EndCount, TypeOK, PCs, GrantPCs
<1> QED  BY <1>2, Frame DEF EndCount, TypeOK, SessWrite, docVars

LEMMA EndAbandonType ==
    ASSUME TypeOK, NEW p \in Procs, EndAbandon(p)  PROVE TypeOK' /\ SessWrite
<1> DEFINE q == req[p]
           s == q.s
           g == sess[s].grant
           d == [sess[s] EXCEPT !.status = "abandoned"]
           r == [[q EXCEPT !.pc = "refund"] EXCEPT !.grant = g]
<1>1. q \in Request /\ s \in Sessions /\ sess[s] \in SessionDoc
  BY AtSession DEF EndAbandon, AtPc, NoSessionPCs
<1>2. CASE IsActive(s) /\ SetDoc(s, d) /\ (UNCHANGED reports \/ KickOffReport(s))
  <2>1. d \in SessionDoc /\ d.user = sess[s].user /\ d.status = "abandoned"
    BY <1>1 DEF SessionDoc, Statuses, TerminalStatuses
  <2>2. SessWrite
    BY <1>1, <1>2, <2>1 DEF SessWrite, Allowed, TerminalStatuses
  <2>3. reports' \in [Sessions -> Nat]
    BY <1>1, <1>2, KickType DEF TypeOK, DocsOK
  <2>4. DocsOK'
    BY <1>1, <1>2, <2>1, <2>3 DEF EndAbandon, TypeOK, DocsOK, SetDoc
  <2>5. CASE Return(p)
    BY <2>2, <2>4, <2>5, ReturnType, Frame DEF EndAbandon, TypeOK
  <2>6. CASE g # NoGrant /\ req' = [req EXCEPT ![p].pc = "refund", ![p].grant = g]
    <3>1. g \in Grants /\ "refund" \in PCs
      BY <1>1, <2>6 DEF SessionDoc, PCs
    <3>2. r \in Request /\ r.s = s /\ r.grant = g
      BY <1>1, <3>1 DEF Request
    <3>3. InHand(r)
      BY <1>1, <3>1, <3>2 DEF InHand
    <3>4. req' = [req EXCEPT ![p] = r]
      BY <2>6
    <3> HIDE DEF r
    <3>5. RequestsOK'
      BY <3>2, <3>3, <3>4, RequestUpdate DEF TypeOK
    <3> QED  BY <2>2, <2>4, <3>5, Frame DEF EndAbandon, TypeOK
  <2> QED  BY <1>2, <2>5, <2>6 DEF EndAbandon
<1>3. CASE Return(p) /\ UNCHANGED <<sess, reports>>
  <2>1. UNCHANGED docVars
    BY <1>3 DEF EndAbandon, docVars
  <2> QED  BY <1>3, <2>1, ReturnType, Frame DEF EndAbandon, TypeOK, SessWrite
<1> QED  BY <1>2, <1>3 DEF EndAbandon

LEMMA ViolationReadType ==
    ASSUME TypeOK, NEW p \in Procs, ViolationRead(p)  PROVE TypeOK' /\ SessWrite
<1>1. req[p] \in Request /\ req[p].s \in Sessions
  BY AtSession DEF ViolationRead, AtPc, NoSessionPCs
<1>2. RequestsOK'
  BY <1>1, ReadType, RequestUpdate DEF ViolationRead, TypeOK
<1> QED  BY <1>2, Frame DEF ViolationRead, TypeOK, SessWrite, docVars

LEMMA ViolationInsertType ==
    ASSUME TypeOK, NEW p \in Procs, ViolationInsert(p)  PROVE TypeOK' /\ SessWrite
<1>1. req[p].pc \notin NoSessionPCs /\ req[p].s \in Sessions
  BY AtSession DEF ViolationInsert, AtPc, NoSessionPCs
<1>2. RequestsOK'
  BY <1>1, GoType DEF ViolationInsert, TypeOK, PCs, GrantPCs
<1>3. DocsOK'
  BY <1>1 DEF ViolationInsert, TypeOK, DocsOK
<1> QED  BY <1>2, <1>3, Frame DEF ViolationInsert, TypeOK, SessWrite

LEMMA ViolationCountType ==
    ASSUME TypeOK, NEW p \in Procs, ViolationCount(p)  PROVE TypeOK' /\ SessWrite
<1> DEFINE q == req[p]
           count == sess[q.s].warnings + 1
           d == [sess[q.s] EXCEPT !.warnings = count]
<1>1. q \in Request /\ q.s \in Sessions /\ sess[q.s] \in SessionDoc
  BY AtSession DEF ViolationCount, AtPc, NoSessionPCs
<1>2. d \in SessionDoc /\ d.user = sess[q.s].user /\ d.status = sess[q.s].status
  BY <1>1 DEF SessionDoc
<1>3. DocsOK' /\ SessWrite
  <2>1. CASE UNCHANGED sess
    BY <2>1, Frame DEF ViolationCount, SessWrite, docVars
  <2>2. CASE SetDoc(q.s, d)
    BY <1>1, <1>2, <2>2, SameStatusWrite DEF ViolationCount
  <2> QED  BY <2>1, <2>2 DEF ViolationCount
<1>4. \E r \in {AfterViolation(q), [q EXCEPT !.pc = "violation_terminate"],
                [q EXCEPT !.pc = "violation_pause"]} : req' = [req EXCEPT ![p] = r]
  BY DEF ViolationCount
<1>5. /\ AfterViolation(q) \in Request /\ InHand(AfterViolation(q))
      /\ \A pc \in {"violation_terminate", "violation_pause"} :
            [q EXCEPT !.pc = pc] \in Request /\ InHand([q EXCEPT !.pc = pc])
  BY <1>1, AfterViolationType, MovedType DEF PCs, GrantPCs
<1>6. RequestsOK'
  BY <1>4, <1>5, RequestUpdate DEF TypeOK
<1> QED  BY <1>3, <1>6, Frame DEF ViolationCount, TypeOK

LEMMA ViolationPauseType ==
    ASSUME TypeOK, NEW p \in Procs, ViolationPause(p)  PROVE TypeOK' /\ SessWrite
<1> DEFINE q == req[p]
           paused == IF sess[q.s].paused = Unset THEN now ELSE sess[q.s].paused
           d == [sess[q.s] EXCEPT !.paused = paused]
<1>1. q \in Request /\ q.s \in Sessions /\ sess[q.s] \in SessionDoc
  BY AtSession DEF ViolationPause, AtPc, NoSessionPCs
<1>2. paused \in Nat
  BY <1>1 DEF SessionDoc, TypeOK
<1>3. d \in SessionDoc /\ d.user = sess[q.s].user /\ d.status = sess[q.s].status
  BY <1>1, <1>2 DEF SessionDoc
<1>4. SetDoc(q.s, d)
  BY DEF ViolationPause
<1>5. DocsOK' /\ SessWrite
  BY <1>1, <1>3, <1>4, SameStatusWrite DEF ViolationPause
<1>6. RequestsOK'
  BY <1>1, AfterViolationType, RequestUpdate DEF ViolationPause, TypeOK
<1> QED  BY <1>5, <1>6, Frame DEF ViolationPause, TypeOK

LEMMA ResumeType ==
    ASSUME TypeOK, NEW p \in Procs, Resume(p)  PROVE TypeOK' /\ SessWrite
<1>1. TurnHistory(p) \/ LanguageHistory(p) => TypeOK' /\ SessWrite
  BY ReadHistoryType
     DEF TurnHistory, LanguageHistory, PCs, GrantPCs, NoSessionPCs
<1> QED
  BY <1>1, AdvanceBehavioralType, AdvanceCompleteType, RereadType, CreateReserveType,
     CreateLogType, CreateInsertType, RefundType, RefundLogType, StartWriteType,
     StartAgentType, TurnStartType, TurnVoiceType, TurnAgentType, TurnReplyType,
     TurnEndType, LanguageAgentType, AcknowledgeWriteType, EndCountType, EndCompleteType,
     EndAbandonType, ViolationReadType, ViolationInsertType, ViolationCountType,
     ViolationTerminateType, ViolationPauseType
     DEF Resume
-----------------------------------------------------------------------------
(* The sweep, and the steps of the environment                              *)

\* The sweep moved on, with the sessions it still has to visit.
LEMMA SweepRequestType ==
    ASSUME TypeOK, NEW pc \in {"sweep_stale", "sweep_created", "sweep_old"},
           NEW todo \in SUBSET Sessions
    PROVE  LET r == [req[Sweeper] EXCEPT !.pc = pc, !.todo = todo]
           IN  r \in Request /\ InHand(r)
<1> DEFINE r == [req[Sweeper] EXCEPT !.pc = pc, !.todo = todo]
<1>1. req[Sweeper] \in Request
  BY DEF TypeOK, RequestsOK, Procs
<1>2. pc \in PCs /\ pc \in NoSessionPCs /\ pc \notin GrantPCs
  BY DEF PCs, NoSessionPCs, GrantPCs
<1>3. r \in Request /\ r.pc = pc
  BY <1>1, <1>2 DEF Request
<1> HIDE DEF r
<1>4. InHand(r)
  BY <1>2, <1>3 DEF InHand
<1> QED  BY <1>3, <1>4 DEF r

LEMMA SweepToType ==
    ASSUME TypeOK, NEW pc \in {"sweep_stale", "sweep_created", "sweep_old"},
           NEW todo \in SUBSET Sessions, SweepTo(pc, todo)
    PROVE  RequestsOK'
<1> DEFINE r == [[req[Sweeper] EXCEPT !.pc = pc] EXCEPT !.todo = todo]
<1>1. req' = [req EXCEPT ![Sweeper] = r]
  BY DEF SweepTo
<1>2. r \in Request /\ InHand(r)
  BY SweepRequestType
<1> HIDE DEF r
<1> QED  BY <1>1, <1>2, RequestUpdate DEF TypeOK, Procs

LEMMA SweepBeginType ==
    ASSUME TypeOK, SweepBegin  PROVE TypeOK' /\ SessWrite
<1> DEFINE todo == {s \in Sessions : sess[s].status \in InProgress}
           seen == [s \in Sessions |-> IF sess[s].status \in InProgress THEN sess[s] ELSE NoDoc]
           r == [Idle EXCEPT !.pc = "sweep_stale", !.op = "sweep", !.at = now, !.todo = todo,
                             !.seen = seen]
<1>1. "sweep_stale" \in PCs /\ "sweep_stale" \in NoSessionPCs /\ "sweep_stale" \notin GrantPCs
  BY DEF PCs, NoSessionPCs, GrantPCs
<1>2. now \in Nat
  BY DEF TypeOK
<1>3. r \in Request /\ r.pc = "sweep_stale"
  <2>1. todo \in SUBSET Sessions /\ seen \in [Sessions -> SessionDoc]
    BY NoDocType DEF TypeOK, DocsOK
  <2> HIDE DEF todo, seen
  <2> QED  BY <1>1, <1>2, <2>1, IdleType DEF Request
<1>4. req' = [req EXCEPT ![Sweeper] = r]
  BY DEF SweepBegin
<1> HIDE DEF r
<1>5. InHand(r)
  BY <1>1, <1>3 DEF InHand
<1>6. RequestsOK'
  BY <1>3, <1>4, <1>5, RequestUpdate DEF TypeOK, Procs
<1> QED  BY <1>6, Frame DEF SweepBegin, TypeOK, SessWrite, docVars

LEMMA SweepStaleType ==
    ASSUME TypeOK, NEW s \in Sessions, SweepStale(s)  PROVE TypeOK' /\ SessWrite
<1> DEFINE todo == req[Sweeper].todo \ {s}
           seen == [req[Sweeper].seen EXCEPT ![s] = NoDoc]
           q == [req[Sweeper] EXCEPT !.todo = todo, !.s = s, !.seen = seen]
           d == req[Sweeper].seen[s]
<1>0. req[Sweeper] \in Request
  BY DEF TypeOK, RequestsOK, Procs
<1>1. todo \in SUBSET Sessions /\ seen \in [Sessions -> SessionDoc] /\ d \in SessionDoc
  BY <1>0, NoDocType DEF Request
<1>2. req' = [req EXCEPT ![Sweeper] = Advance(q, d)]
  BY DEF SweepStale
<1>4. q \in Request /\ q.s = s
  <2> HIDE DEF todo, seen
  <2> QED  BY <1>0, <1>1 DEF Request
<1> HIDE DEF q, d
<1>3. RequestsOK'
  BY <1>1, <1>2, <1>4, AdvanceType, RequestUpdate DEF TypeOK, Procs
<1> QED  BY <1>3, Frame DEF SweepStale, TypeOK, SessWrite, docVars

LEMMA SweepAbandonType ==
    ASSUME TypeOK, NEW s \in Sessions, SweepAbandon(s)  PROVE TypeOK' /\ SessWrite
<1> DEFINE q == req[Sweeper]
           g == sess[s].grant
           d == [sess[s] EXCEPT !.status = "abandoned"]
           todo == q.todo \ {s}
           r == [[[[q EXCEPT !.pc = "refund"] EXCEPT !.todo = todo] EXCEPT !.s = s]
                 EXCEPT !.grant = g]
           r0 == [q EXCEPT !.todo = todo]
<1>1. /\ q \in Request /\ q.pc = "sweep_created" /\ sess[s] \in SessionDoc
  BY DEF SweepAbandon, AtPc, TypeOK, RequestsOK, DocsOK, Procs
<1>2. todo \in SUBSET Sessions
  BY <1>1 DEF Request
<1>3. reports' \in [Sessions -> Nat]
  BY KickType DEF SweepAbandon, TypeOK, DocsOK
<1>4. DocsOK' /\ SessWrite
  <2>1. d \in SessionDoc /\ d.user = sess[s].user /\ d.status = "abandoned"
    BY <1>1 DEF SessionDoc, Statuses, TerminalStatuses
  <2>2. CASE sess[s].status = "created" /\ SetDoc(s, d)
    <3>1. IsActive(s)
      BY <2>2 DEF IsActive, ACTIVE_STATUSES
    <3>2. SessWrite
      BY <2>1, <2>2, <3>1 DEF SessWrite, Allowed, TerminalStatuses
    <3> QED  BY <1>3, <2>1, <2>2, <3>2 DEF SweepAbandon, TypeOK, DocsOK, SetDoc
  <2>3. CASE UNCHANGED sess
    BY <1>3, <2>3 DEF SweepAbandon, TypeOK, DocsOK, SessWrite
  <2> QED  BY <2>2, <2>3 DEF SweepAbandon
<1>5. RequestsOK'
  <2>1. CASE /\ g # NoGrant
             /\ req' = [req EXCEPT ![Sweeper].pc = "refund", ![Sweeper].todo = @ \ {s},
                                   ![Sweeper].s = s, ![Sweeper].grant = g]
    <3>1. g \in Grants /\ "refund" \in PCs
      BY <1>1, <2>1 DEF SessionDoc, PCs
    <3>2. req' = [req EXCEPT ![Sweeper] = r]
      BY <2>1 DEF TypeOK, RequestsOK, Procs, Request
    <3> HIDE DEF todo
    <3>3. r \in Request /\ r.s = s /\ r.grant = g
      BY <1>1, <1>2, <3>1 DEF Request
    <3> HIDE DEF r
    <3>4. InHand(r)
      BY <3>1, <3>3 DEF InHand
    <3> QED  BY <3>2, <3>3, <3>4, RequestUpdate DEF TypeOK, Procs
  <2>2. CASE req' = [req EXCEPT ![Sweeper].todo = @ \ {s}]
    <3>1. req' = [req EXCEPT ![Sweeper] = r0]
      BY <2>2 DEF TypeOK, RequestsOK, Procs
    <3> HIDE DEF todo
    <3>2. r0 \in Request /\ r0.pc = "sweep_created"
      BY <1>1, <1>2 DEF Request
    <3> HIDE DEF r0
    <3>3. InHand(r0)
      BY <3>2 DEF InHand, NoSessionPCs, GrantPCs
    <3> QED  BY <3>1, <3>2, <3>3, RequestUpdate DEF TypeOK, Procs
  <2> QED  BY <2>1, <2>2 DEF SweepAbandon
<1> QED  BY <1>4, <1>5, Frame DEF SweepAbandon, TypeOK

LEMMA SweepExpireType ==
    ASSUME TypeOK, NEW s \in Sessions, SweepExpire(s)  PROVE TypeOK' /\ SessWrite
<1> DEFINE q == req[Sweeper]
           d == [sess[s] EXCEPT !.status = "expired"]
           todo == q.todo \ {s}
           r == [q EXCEPT !.todo = todo]
<1>1. /\ q \in Request /\ q.pc = "sweep_old" /\ sess[s] \in SessionDoc
  BY DEF SweepExpire, AtPc, TypeOK, RequestsOK, DocsOK, Procs
<1>2. todo \in SUBSET Sessions
  BY <1>1 DEF Request
<1>3. reports' \in [Sessions -> Nat]
  BY KickType DEF SweepExpire, TypeOK, DocsOK
<1>4. DocsOK' /\ SessWrite
  <2>1. d \in SessionDoc /\ d.user = sess[s].user /\ d.status = "expired"
    BY <1>1 DEF SessionDoc, Statuses, TerminalStatuses
  <2>2. CASE IsActive(s) /\ SetDoc(s, d)
    <3>1. SessWrite
      BY <2>1, <2>2 DEF SessWrite, Allowed, TerminalStatuses
    <3> QED  BY <1>3, <2>1, <2>2, <3>1 DEF SweepExpire, TypeOK, DocsOK, SetDoc
  <2>3. CASE UNCHANGED sess
    BY <1>3, <2>3 DEF SweepExpire, TypeOK, DocsOK, SessWrite
  <2> QED  BY <2>2, <2>3 DEF SweepExpire
<1>5. RequestsOK'
  <2>1. req' = [req EXCEPT ![Sweeper] = r]
    BY DEF SweepExpire, TypeOK, RequestsOK, Procs
  <2> HIDE DEF todo
  <2>2. r \in Request /\ r.pc = "sweep_old"
    BY <1>1, <1>2 DEF Request
  <2> HIDE DEF r
  <2>3. InHand(r)
    BY <2>2 DEF InHand, NoSessionPCs, GrantPCs
  <2> QED  BY <2>1, <2>2, <2>3, RequestUpdate DEF TypeOK, Procs
<1> QED  BY <1>4, <1>5, Frame DEF SweepExpire, TypeOK

LEMMA SweepType ==
    ASSUME TypeOK, SweepStep  PROVE TypeOK' /\ SessWrite
<1>1. CASE SweepFindCreated
  <2>1. RequestsOK'
    BY <1>1, SweepToType DEF SweepFindCreated
  <2> QED  BY <1>1, <2>1, Frame DEF SweepFindCreated, TypeOK, SessWrite, docVars
<1>2. CASE SweepFindOld
  <2>1. RequestsOK'
    BY <1>2, SweepToType DEF SweepFindOld
  <2> QED  BY <1>2, <2>1, Frame DEF SweepFindOld, TypeOK, SessWrite, docVars
<1>3. CASE SweepEnd
  <2>1. RequestsOK'
    BY <1>3, ReturnType DEF SweepEnd, TypeOK, Procs
  <2> QED  BY <1>3, <2>1, Frame DEF SweepEnd, TypeOK, SessWrite, docVars
<1> QED
  BY <1>1, <1>2, <1>3, SweepBeginType, SweepStaleType, SweepAbandonType, SweepExpireType
     DEF SweepStep

LEMMA EnvironmentType ==
    ASSUME TypeOK, Tick \/ Crash \/ \E g \in Grants : GrantSessions(g)
    PROVE  TypeOK' /\ UNCHANGED sess
<1>1. CASE Tick
  BY <1>1 DEF Tick, TypeOK, docVars, grantVars, boundVars, DocsOK, GrantsOK, RequestsOK
<1>2. CASE Crash
  <2>1. RequestsOK'
    BY <1>2, IdleType DEF Crash, RequestsOK
  <2>2. calls' \in Nat /\ crashes' \in Nat
    BY <1>2 DEF Crash, TypeOK
  <2> QED  BY <1>2, <2>1, <2>2, Frame DEF Crash, TypeOK, docVars
<1>3. ASSUME NEW g \in Grants, GrantSessions(g)
      PROVE  TypeOK' /\ UNCHANGED sess
  <2>1. GrantsOK' /\ calls' \in Nat /\ crashes' \in Nat
    BY <1>3, ConstantsAssumption DEF GrantSessions, TypeOK, GrantsOK
  <2>2. RequestsOK'
    BY <1>3 DEF GrantSessions, TypeOK, RequestsOK
  <2> QED  BY <1>3, <2>1, <2>2, Frame DEF GrantSessions, TypeOK, docVars
<1> QED  BY <1>1, <1>2, <1>3

LEMMA NextType ==
    ASSUME TypeOK, Next  PROVE TypeOK' /\ SessWrite
BY ClientCallType, ResumeType, SweepType, EnvironmentType DEF Next, SessWrite

LEMMA StutterType ==
    ASSUME TypeOK, UNCHANGED vars  PROVE TypeOK'
BY DEF TypeOK, DocsOK, GrantsOK, RequestsOK, vars, docVars, grantVars, boundVars

LEMMA InitType ==
    ASSUME Init  PROVE TypeOK
<1>1. DocsOK
  BY NoDocType DEF Init, DocsOK
<1>2. GrantsOK
  BY ConstantsAssumption DEF Init, GrantsOK
<1>3. RequestsOK
  BY IdleType DEF Init, RequestsOK
<1> QED  BY <1>1, <1>2, <1>3 DEF Init, TypeOK

\* Every variable keeps its type, and a handler that is past its first read has
\* a session in hand, and a grant where it reserves or refunds.
THEOREM TypeInvariant == Spec => []TypeOK
<1>1. Init => TypeOK
  BY InitType
<1>2. TypeOK /\ [Next]_vars => TypeOK'
  BY NextType, StutterType
<1> QED  BY <1>1, <1>2, PTL DEF Spec

-----------------------------------------------------------------------------
(* What the cursor of the sweep has read                                    *)

\* A step of handler p does to what it has seen of the cursor's documents.
KeepsSeen(q, r) == r.seen \in {q.seen, Idle.seen}

LEMMA ContinueSeen ==
    ASSUME NEW q \in Request, NEW status, NEW round, NEW voice
    PROVE  KeepsSeen(q, Continue(q, status, round, voice))
<1>1. /\ [q EXCEPT !.pc = "create_reserve", !.s = NoSession, !.ends = 0, !.voice = FALSE].seen
            = q.seen
      /\ \A pc : [q EXCEPT !.pc = pc, !.round = round, !.at = now, !.ends = 0,
                           !.voice = voice].seen = q.seen
      /\ [Idle EXCEPT !.pc = "end_count", !.op = "end", !.s = q.s].seen = Idle.seen
      /\ [Idle EXCEPT !.pc = "violation_insert", !.op = "violation", !.s = q.s].seen = Idle.seen
      /\ [q EXCEPT !.pc = "violation_insert", !.ends = 0].seen = q.seen
      /\ [q EXCEPT !.pc = "turn_history", !.op = "turn", !.ends = 0].seen = q.seen
      /\ [q EXCEPT !.pc = "sweep_stale", !.s = NoSession, !.ends = 0, !.voice = FALSE].seen
            = q.seen
  BY DEF Request, Idle
<1> QED  BY <1>1 DEF Continue, KeepsSeen

LEMMA AdvanceSeen ==
    ASSUME NEW q \in Request, NEW d  PROVE KeepsSeen(q, Advance(q, d))
<1>1. \A pc : [q EXCEPT !.ends = now + BehavioralMinutes, !.voice = d.voice, !.pc = pc].seen = q.seen
  BY DEF Request
<1> QED  BY <1>1, ContinueSeen DEF Advance, KeepsSeen

LEMMA AfterwardsSeen ==
    ASSUME NEW q \in Request
    PROVE  KeepsSeen(q, Raise(q)) /\ KeepsSeen(q, AfterViolation(q)) /\ KeepsSeen(q, Idle)
BY DEF Raise, AfterViolation, KeepsSeen, Request

LEMMA ResumeSeen ==
    ASSUME TypeOK, NEW p \in Procs, Resume(p)
    PROVE  KeepsSeen(req[p], req'[p]) /\ \A o \in Procs \ {p} : req'[o] = req[o]
<1> DEFINE q == req[p]
<1>0. q \in Request
  BY AtSession
<1> HIDE DEF q
<1>1. ASSUME NEW r, req' = [req EXCEPT ![p] = r], KeepsSeen(q, r)
      PROVE  KeepsSeen(q, req'[p]) /\ \A o \in Procs \ {p} : req'[o] = req[o]
  BY <1>1 DEF TypeOK, RequestsOK
<1>2. ASSUME NEW pc, Go(p, pc) \/ Return(p)
      PROVE  KeepsSeen(q, req'[p]) /\ \A o \in Procs \ {p} : req'[o] = req[o]
  <2>1. KeepsSeen(q, [q EXCEPT !.pc = pc]) /\ KeepsSeen(q, Idle)
    BY <1>0 DEF KeepsSeen, Request
  <2> QED  BY <1>1, <1>2, <2>1 DEF Go, Return, q
<1>3. CASE AdvanceBehavioral(p) \/ Reread(p)
  BY <1>0, <1>1, <1>3, ContinueSeen, AfterwardsSeen DEF AdvanceBehavioral, Reread, WriteActive, q
<1>4. CASE StartWrite(p) \/ TurnStart(p)
  <2>1. /\ KeepsSeen(q, [q EXCEPT !.pc = "start_agent", !.at = 0])
        /\ KeepsSeen(q, [q EXCEPT !.pc = "turn_voice"])
    BY <1>0 DEF Request, KeepsSeen
  <2> QED
    BY <1>0, <1>1, <1>4, <2>1, AfterwardsSeen DEF StartWrite, TurnStart, WriteActive, q
<1>5. CASE TurnEnd(p)
  BY <1>0, <1>1, <1>5, AfterwardsSeen DEF TurnEnd, WriteActive, Return, q
<1>6. CASE AcknowledgeWrite(p)
  <2>1. \A s, ends, pc : [Idle EXCEPT !.op = "acknowledge", !.s = s, !.ends = ends, !.pc = pc].seen
                            = Idle.seen
    BY DEF Idle
  <2> QED  BY <1>0, <1>1, <1>6, <2>1 DEF AcknowledgeWrite, KeepsSeen
<1>7. CASE ViolationRead(p)
  BY <1>0, <1>1, <1>7, AdvanceSeen DEF ViolationRead, Read, q
<1>8. CASE ViolationCount(p) \/ ViolationTerminate(p) \/ ViolationPause(p)
  <2>1. /\ KeepsSeen(q, [q EXCEPT !.pc = "violation_terminate"])
        /\ KeepsSeen(q, [q EXCEPT !.pc = "violation_pause"])
    BY <1>0 DEF Request, KeepsSeen
  <2> QED
    BY <1>0, <1>1, <1>8, <2>1, AfterwardsSeen
       DEF ViolationCount, ViolationTerminate, ViolationPause, q
<1>9. CASE EndAbandon(p) \/ RefundLog(p)
  <2>1. /\ \A g : KeepsSeen(q, [q EXCEPT !.pc = "refund", !.grant = g])
        /\ KeepsSeen(q, [q EXCEPT !.pc = "sweep_created", !.s = NoSession, !.grant = NoGrant])
    BY <1>0 DEF Request, KeepsSeen
  <2>2. \/ Return(p)
        \/ \E g : req' = [req EXCEPT ![p] = [q EXCEPT !.pc = "refund", !.grant = g]]
        \/ req' = [req EXCEPT ![p] =
                      [q EXCEPT !.pc = "sweep_created", !.s = NoSession, !.grant = NoGrant]]
    BY <1>9 DEF EndAbandon, RefundLog, q
  <2> QED  BY <1>1, <1>2, <2>1, <2>2 DEF q
<1>10. CASE \E s \in Sessions : CreateReserve(p, s)
  <2>1. PICK s \in Sessions : CreateReserve(p, s)
    BY <1>10
  <2>2. /\ KeepsSeen(q, [q EXCEPT !.pc = "create_insert", !.s = s])
        /\ KeepsSeen(q, [q EXCEPT !.pc = "create_log", !.s = s])
    BY <1>0 DEF Request, KeepsSeen
  <2>3. \/ req' = [req EXCEPT ![p] = [q EXCEPT !.pc = "create_insert", !.s = s]]
        \/ req' = [req EXCEPT ![p] = [q EXCEPT !.pc = "create_log", !.s = s]]
        \/ Return(p)
    BY <2>1 DEF CreateReserve, q
  <2> QED  BY <1>1, <1>2, <2>2, <2>3 DEF q
<1>11. CASE TurnVoice(p) \/ TurnHistory(p) \/ LanguageHistory(p) \/ TurnAgent(p)
  <2>1. req \in [Procs -> Request]
    BY DEF TypeOK, RequestsOK
  <2>2. CASE TurnVoice(p)
    <3>1. KeepsSeen(q, [q EXCEPT !.pc = "violation_read", !.op = "voice"])
      BY <1>0 DEF Request, KeepsSeen
    <3>2. \/ Return(p) \/ Go(p, "turn_history")
          \/ req' = [req EXCEPT ![p] = [q EXCEPT !.pc = "violation_read", !.op = "voice"]]
      BY <2>1, <2>2 DEF TurnVoice, q
    <3> QED  BY <1>1, <1>2, <3>1, <3>2 DEF q
  <2>3. CASE TurnHistory(p) \/ LanguageHistory(p)
    <3>1. \A pc, n : KeepsSeen(q, [q EXCEPT !.pc = pc, !.n = n])
      BY <1>0 DEF Request, KeepsSeen
    <3>2. \E pc, n : req' = [req EXCEPT ![p] = [q EXCEPT !.pc = pc, !.n = n]]
      BY <2>1, <2>3 DEF TurnHistory, LanguageHistory, ReadHistory, q
    <3> QED  BY <1>1, <3>1, <3>2 DEF q
  <2>4. CASE TurnAgent(p)
    <3>1. \A end : KeepsSeen(q, [q EXCEPT !.pc = "turn_reply", !.end = end])
      BY <1>0 DEF Request, KeepsSeen
    <3>2. \E end : req' = [req EXCEPT ![p] = [q EXCEPT !.pc = "turn_reply", !.end = end]]
      BY <2>1, <2>4 DEF TurnAgent, q
    <3> QED  BY <1>1, <3>1, <3>2 DEF q
  <2> QED  BY <1>11, <2>2, <2>3, <2>4
<1>12. CASE \/ TurnReply(p) \/ EndCount(p) \/ AdvanceComplete(p) \/ CreateLog(p) \/ CreateInsert(p)
            \/ Refund(p) \/ ViolationInsert(p) \/ StartAgent(p) \/ LanguageAgent(p)
            \/ EndComplete(p)
  <2>1. Return(p) \/ \E pc : Go(p, pc)
    BY <1>12
       DEF TurnReply, EndCount, AdvanceComplete, CreateLog, CreateInsert, Refund, ViolationInsert,
           StartAgent, LanguageAgent, EndComplete
  <2> QED  BY <1>2, <2>1 DEF q
<1> USE DEF q
<1> QED
  BY <1>3, <1>4, <1>5, <1>6, <1>7, <1>8, <1>9, <1>10, <1>11, <1>12 DEF Resume

\* A document seen stays as it was seen, is dropped, or is read as the sweep begins.
SeenStep ==
    \A s \in Sessions :
        \/ req'[Sweeper].seen[s] \in {req[Sweeper].seen[s], NoDoc}
        \/ req'[Sweeper].seen[s] = sess[s] /\ UNCHANGED sess

LEMMA SweepSeen ==
    ASSUME TypeOK, SweepStep  PROVE SeenStep
<1> DEFINE q == req[Sweeper]
<1>0. Sweeper \in Procs /\ q \in Request /\ q.seen \in [Sessions -> SessionDoc]
  BY DEF TypeOK, RequestsOK, Procs, Request
<1>1. ASSUME NEW r, req' = [req EXCEPT ![Sweeper] = r], KeepsSeen(q, r)  PROVE SeenStep
  <2>1. req'[Sweeper] = r
    BY <1>0, <1>1 DEF TypeOK, RequestsOK
  <2>2. \A s \in Sessions : Idle.seen[s] = NoDoc
    BY DEF Idle
  <2> HIDE DEF q
  <2> QED  BY <1>1, <2>1, <2>2 DEF SeenStep, KeepsSeen, q
<1>2. CASE SweepBegin
  <2> DEFINE read == [s \in Sessions |-> IF sess[s].status \in InProgress THEN sess[s] ELSE NoDoc]
             r == [Idle EXCEPT !.pc = "sweep_stale", !.op = "sweep", !.at = now,
                               !.todo = {s \in Sessions : sess[s].status \in InProgress},
                               !.seen = read]
  <2>1. req'[Sweeper] = r /\ UNCHANGED sess
    BY <1>0, <1>2 DEF SweepBegin, docVars, TypeOK, RequestsOK
  <2>2. r.seen = read
    BY DEF Idle
  <2> HIDE DEF r
  <2> QED  BY <2>1, <2>2 DEF SeenStep
<1>3. ASSUME NEW s \in Sessions, SweepStale(s)  PROVE SeenStep
  <2> DEFINE todo == q.todo \ {s}
             seen == [q.seen EXCEPT ![s] = NoDoc]
             r == [q EXCEPT !.todo = todo, !.s = s, !.seen = seen]
  <2>1. req' = [req EXCEPT ![Sweeper] = Advance(r, q.seen[s])]
    BY <1>3 DEF SweepStale
  <2>2. todo \in SUBSET Sessions /\ seen \in [Sessions -> SessionDoc]
    BY <1>0, NoDocType DEF Request
  <2>3. r \in Request /\ r.seen = seen
    <3> HIDE DEF todo, seen
    <3> QED  BY <1>0, <2>2 DEF Request
  <2>4. req'[Sweeper] = Advance(r, q.seen[s])
    BY <1>0, <2>1 DEF TypeOK, RequestsOK
  <2> HIDE DEF r, q
  <2>5. req'[Sweeper].seen \in {seen, Idle.seen}
    BY <2>3, <2>4, AdvanceSeen DEF KeepsSeen
  <2>6. \A t \in Sessions : seen[t] \in {q.seen[t], NoDoc} /\ Idle.seen[t] = NoDoc
    BY <1>0 DEF Idle
  <2> HIDE DEF seen
  <2> QED  BY <2>5, <2>6 DEF SeenStep, q
<1>4. CASE SweepFindCreated \/ SweepFindOld
  <2>1. \A pc, todo : KeepsSeen(q, [q EXCEPT !.pc = pc, !.todo = todo])
    BY <1>0 DEF Request, KeepsSeen
  <2>2. \E pc, todo : req' = [req EXCEPT ![Sweeper] = [q EXCEPT !.pc = pc, !.todo = todo]]
    BY <1>4 DEF SweepFindCreated, SweepFindOld, SweepTo
  <2> QED  BY <1>1, <2>1, <2>2
<1>5. ASSUME NEW s \in Sessions, SweepAbandon(s) \/ SweepExpire(s)  PROVE SeenStep
  <2>0. req \in [Procs -> Request]
    BY DEF TypeOK, RequestsOK
  <2>1. /\ \A todo, g : KeepsSeen(q, [q EXCEPT !.pc = "refund", !.todo = todo, !.s = s, !.grant = g])
        /\ \A todo : KeepsSeen(q, [q EXCEPT !.todo = todo])
    BY <1>0 DEF Request, KeepsSeen
  <2>2. CASE req' = [req EXCEPT ![Sweeper].todo = @ \ {s}]
    <3>1. req' = [req EXCEPT ![Sweeper] = [q EXCEPT !.todo = @ \ {s}]]
      BY <1>0, <2>0, <2>2
    <3> QED  BY <1>1, <2>1, <3>1
  <2>3. ASSUME NEW g, req' = [req EXCEPT ![Sweeper].pc = "refund", ![Sweeper].todo = @ \ {s},
                                         ![Sweeper].s = s, ![Sweeper].grant = g]
        PROVE  SeenStep
    <3>1. req' = [req EXCEPT ![Sweeper] =
                     [q EXCEPT !.pc = "refund", !.todo = @ \ {s}, !.s = s, !.grant = g]]
      BY <1>0, <2>0, <2>3
    <3> QED  BY <1>1, <2>1, <3>1
  <2> QED  BY <1>5, <2>2, <2>3 DEF SweepAbandon, SweepExpire
<1>6. CASE SweepEnd
  BY <1>0, <1>1, <1>6, AfterwardsSeen DEF SweepEnd, Return
<1> QED  BY <1>2, <1>3, <1>4, <1>5, <1>6 DEF SweepStep

LEMMA NextSeen ==
    ASSUME TypeOK, [Next]_vars  PROVE SeenStep
<1>1. ASSUME UNCHANGED req \/ req'[Sweeper] = req[Sweeper]  PROVE SeenStep
  BY <1>1 DEF SeenStep
<1>2. ASSUME NEW p \in Requests, ClientCall(p)  PROVE SeenStep
  <2>1. \E q : req' = [req EXCEPT ![p] = q]
    BY <1>2 DEF ClientCall, Create, Start, TurnRequest, ChangeLanguage, GetStatus, Acknowledge,
                EndEarly, RecordViolation, Enters
  <2>2. p # Sweeper /\ Sweeper \in Procs
    BY ConstantsAssumption DEF Procs
  <2> QED  BY <1>1, <2>1, <2>2 DEF TypeOK, RequestsOK
<1>3. ASSUME NEW p \in Procs, Resume(p)  PROVE SeenStep
  <2>1. Sweeper \in Procs /\ \A s \in Sessions : Idle.seen[s] = NoDoc
    BY DEF Procs, Idle
  <2>2. CASE p = Sweeper
    BY <1>3, <2>1, <2>2, ResumeSeen DEF SeenStep, KeepsSeen
  <2> QED  BY <1>1, <1>3, <2>1, <2>2, ResumeSeen
<1>4. CASE Crash
  <2>1. req'[Sweeper] = Idle
    BY <1>4 DEF Crash, Procs
  <2> QED  BY <2>1 DEF SeenStep, Idle
<1> QED
  BY <1>1, <1>2, <1>3, <1>4, SweepSeen DEF Next, Tick, GrantSessions, vars

\* A session that was seen exists.
SeenExists == \A s \in Sessions : req[Sweeper].seen[s].status # "none" => Exists(s)

LEMMA SeenExistsHolds ==
    ASSUME TypeOK, SeenExists, [Next]_vars  PROVE SeenExists'
<1>1. SeenStep
  BY NextSeen
<1>2. \A s \in Sessions : Exists(s) => sess'[s].status # "none"
  <2>1. CASE UNCHANGED sess
    BY <2>1 DEF Exists
  <2>2. ASSUME NEW t \in Sessions, NEW d \in SessionDoc, SetDoc(t, d), Allowed(t, d)
        PROVE  \A s \in Sessions : Exists(s) => sess'[s].status # "none"
    <3>1. Exists(t) => d.status # "none"
      BY <2>2 DEF Allowed, Exists, InProgress, TerminalStatuses
    <3> QED  BY <2>2, <3>1 DEF SetDoc, TypeOK, DocsOK, Exists
  <2> QED  BY <2>1, <2>2, NextType DEF SessWrite, vars, docVars
<1>3. NoDoc.status = "none"
  BY DEF NoDoc
<1> QED  BY <1>1, <1>2, <1>3 DEF SeenStep, SeenExists, Exists

-----------------------------------------------------------------------------
(* One active session per candidate                                         *)

LEMMA SessWriteUnique ==
    ASSUME TypeOK, OneActiveSession, SessWrite
    PROVE  OneActiveSession'
<1>1. CASE UNCHANGED sess
  BY <1>1 DEF OneActiveSession, IsActive
<1>2. ASSUME NEW s \in Sessions, NEW d \in SessionDoc, SetDoc(s, d), Allowed(s, d)
      PROVE  OneActiveSession'
  <2>1. sess' = [sess EXCEPT ![s] = d] /\ sess \in [Sessions -> SessionDoc]
    BY <1>2 DEF SetDoc, TypeOK, DocsOK
  <2>2. CASE IndexAllows(s, d.user)
    BY <2>1, <2>2 DEF OneActiveSession, IndexAllows, ActiveOf, IsActive
  <2>3. CASE d.user = sess[s].user /\ d.status = sess[s].status
    BY <2>1, <2>3 DEF OneActiveSession, IsActive
  <2>4. CASE d.status \in TerminalStatuses
    <3>1. d.status \notin ACTIVE_STATUSES
      BY <2>4 DEF TerminalStatuses, ACTIVE_STATUSES, InProgress
    <3> QED  BY <2>1, <3>1 DEF OneActiveSession, IsActive
  <2> QED  BY <1>2, <2>2, <2>3, <2>4 DEF Allowed
<1> QED  BY <1>1, <1>2 DEF SessWrite

\* However creates, late starts and round changes race, no candidate ever has
\* two active sessions.
THEOREM OneActiveSessionInvariant == Spec => []OneActiveSession
<1>1. Init => OneActiveSession
  BY DEF Init, OneActiveSession, IsActive, NoDoc, ACTIVE_STATUSES, InProgress
<1>2. TypeOK /\ OneActiveSession /\ [Next]_vars => OneActiveSession'
  <2>1. ASSUME TypeOK, OneActiveSession, UNCHANGED vars
        PROVE  OneActiveSession'
    BY <2>1 DEF OneActiveSession, IsActive, vars, docVars
  <2> QED  BY <2>1, NextType, SessWriteUnique
<1> QED  BY <1>1, <1>2, TypeInvariant, PTL DEF Spec

-----------------------------------------------------------------------------
(***************************************************************************)
(* The lifecycle                                                           *)
(*                                                                         *)
(* A handler that writes a document late matches it by its id alone: what  *)
(* keeps such a write within the lifecycle is that the session it holds    *)
(* exists, that a pause or a termination it decided on was backed by       *)
(* warnings, which are never taken back, and that a session id being       *)
(* created is held by one handler.  Invariant says so.                     *)
(***************************************************************************)

\* Where a handler holds a session it has read.
ReaderPCs == {"advance_behavioral", "advance_complete", "reread", "start_write", "start_agent",
              "turn_start", "turn_voice", "turn_history", "turn_agent", "turn_reply",
              "turn_end", "language_history", "language_agent",
              "acknowledge_write", "end_count", "end_complete", "end_abandon",
              "violation_read", "violation_insert", "violation_count",
              "violation_terminate", "violation_pause"}
\* Among them, those with no violation inserted and not yet dealt with.
OpenPCs == ReaderPCs \ {"violation_count", "violation_terminate", "violation_pause"}
\* Where it holds the id of a session to be inserted.
ReservedPCs == {"create_log", "create_insert"}

HandlerFits(q, docs) ==
    /\ q.pc \in ReaderPCs => docs[q.s].status # "none"
    /\ q.pc = "violation_pause" => docs[q.s].warnings >= WarningsBeforeTermination
    /\ q.pc = "violation_terminate" => docs[q.s].warnings > WarningsBeforeTermination
    /\ q.pc \in ReservedPCs => docs[q.s].status = "none"
    /\ q.pc = "sweep_stale" => q.op = "sweep"

HandlersFit == \A p \in Procs : HandlerFits(req[p], sess)

OneReservation ==
    \A p, o \in Procs :
        req[p].pc \in ReservedPCs /\ req[o].pc \in ReservedPCs /\ req[p].s = req[o].s => p = o

FreshIsEmpty == \A s \in Sessions : ~Exists(s) => sess[s] = NoDoc

Invariant == HandlersFit /\ OneReservation /\ FreshIsEmpty /\ WarningsJustify /\ SeenExists

-----------------------------------------------------------------------------
(* What a write may do to a document, seen from outside                     *)

SamePause(s, d) == (d.paused # Unset) <=> (sess[s].paused # Unset)
SameRound(s, d) == d.round = sess[s].round
SameWarnings(s, d) == d.warnings = sess[s].warnings
SameStatus(s, d) == d.status = sess[s].status

Unseen(s, d) == SameStatus(s, d) /\ SameRound(s, d) /\ SameWarnings(s, d) /\ SamePause(s, d)
Starts(s, d) ==
    /\ d.status = "technical_in_progress"
    /\ SameRound(s, d) /\ SameWarnings(s, d) /\ SamePause(s, d)
ChangesRound(s, d) ==
    /\ d.status = "behavioral_in_progress" /\ d.round = "behavioral"
    /\ SameWarnings(s, d) /\ SamePause(s, d)
Ends(s, d) ==
    /\ IsActive(s) /\ d.status \in TerminalStatuses
    /\ d.status = "terminated_violations" => sess[s].warnings > WarningsBeforeTermination
    /\ SameRound(s, d) /\ SameWarnings(s, d) /\ SamePause(s, d)
Warned(s, d) ==
    /\ IsActive(s) /\ d.warnings = sess[s].warnings + 1
    /\ SameStatus(s, d) /\ SameRound(s, d) /\ SamePause(s, d)
Paused(s, d) ==
    /\ sess[s].warnings >= WarningsBeforeTermination /\ d.paused # Unset
    /\ SameStatus(s, d) /\ SameRound(s, d) /\ SameWarnings(s, d)
Unpaused(s, d) ==
    /\ d.paused = Unset
    /\ SameStatus(s, d) /\ SameRound(s, d) /\ SameWarnings(s, d)

LifeMove(s, d) ==
    \/ Unseen(s, d) \/ Starts(s, d) \/ ChangesRound(s, d) \/ Ends(s, d)
    \/ Warned(s, d) \/ Paused(s, d) \/ Unpaused(s, d)

\* At most one session that exists is written, as the lifecycle allows.
LifeWrite ==
    \/ UNCHANGED sess
    \/ \E s \in Sessions : \E d \in SessionDoc : SetDoc(s, d) /\ Exists(s) /\ LifeMove(s, d)

\* Handler p has a grant to refund: its own reservation, or that of a session.
Refunding(p) ==
    \/ CreateInsert(p) /\ req'[p].grant = req[p].grant
    \/ \E s \in Sessions : req'[p].s = s /\ req'[p].grant = sess[s].grant

\* A step of handler p that creates no session.
Moved(p) ==
    /\ LifeWrite
    /\ \A o \in Procs \ {p} : req'[o] = req[o]
    /\ HandlerFits(req'[p], sess')
    /\ req'[p].pc \in ReservedPCs =>
           req[p].pc \in ReservedPCs /\ req'[p].s = req[p].s /\ req'[p].grant = req[p].grant
    /\ req'[p].pc = "violation_count" => ViolationInsert(p)
    /\ req'[p].pc = "refund" => Refunding(p)
    /\ req'[p].pc = "refund_log" => Refund(p)
    /\ req'[p].pc # "create_log"

LEMMA LifeWriteDocs ==
    ASSUME TypeOK, LifeWrite, NEW t \in Sessions, NEW e, e = sess'[t]
    PROVE  /\ sess[t] \in SessionDoc /\ e \in SessionDoc
           /\ ~Exists(t) => e = sess[t]
           /\ Exists(t) => LifeMove(t, e) /\ e.status # "none"
           /\ e.warnings >= sess[t].warnings
<1>0. sess \in [Sessions -> SessionDoc]
  BY DEF TypeOK, DocsOK
<1>1. CASE e = sess[t]
  <2>1. sess[t] \in SessionDoc /\ sess[t].warnings \in Nat
    BY <1>0 DEF SessionDoc
  <2>2. Unseen(t, e)
    BY <1>1 DEF Unseen, SamePause, SameRound, SameWarnings, SameStatus
  <2> QED  BY <1>1, <2>1, <2>2 DEF LifeMove, Exists
<1>2. ASSUME NEW s \in Sessions, NEW d \in SessionDoc, Exists(s), LifeMove(s, d)
      PROVE  d.status # "none" /\ d.warnings >= sess[s].warnings
  <2>1. sess[s].warnings \in Nat
    BY <1>0 DEF SessionDoc
  <2>2. d.status # "none"
    BY <1>2 DEF LifeMove, Unseen, Starts, ChangesRound, Ends, Warned, Paused, Unpaused,
                SameStatus, TerminalStatuses, Exists
  <2>3. d.warnings = sess[s].warnings \/ d.warnings = sess[s].warnings + 1
    BY <1>2 DEF LifeMove, Unseen, Starts, ChangesRound, Ends, Warned, Paused, Unpaused,
                SameWarnings
  <2> QED  BY <2>1, <2>2, <2>3
<1>3. CASE UNCHANGED sess
  BY <1>1, <1>3
<1>4. ASSUME NEW s \in Sessions, NEW d \in SessionDoc, SetDoc(s, d), Exists(s), LifeMove(s, d),
             e # sess[t]
      PROVE  s = t /\ d = e
  BY <1>0, <1>4 DEF SetDoc
<1> QED  BY <1>0, <1>1, <1>2, <1>3, <1>4 DEF LifeWrite

\* Such a write is a step of the lifecycle of each session, or none.
LEMMA LifeMoveIsStep ==
    ASSUME NEW s \in Sessions, NEW d, sess'[s] = d, d = sess[s] \/ (Exists(s) /\ LifeMove(s, d)),
           sess[s] \in SessionDoc, d \in SessionDoc
    PROVE  [Life(s)!LifeNext]_(Life(s)!lifeVars)
<1> USE DEF Life!lifeVars, Life!LifeNext
<1>1. CASE d = sess[s] \/ Unseen(s, d)
  BY <1>1 DEF Unseen, SameStatus, SameRound, SameWarnings, SamePause
<1>2. CASE Exists(s) /\ Starts(s, d)
  <2>1. Life(s)!ToTechnical
    BY <1>2 DEF Starts, SameRound, SameWarnings, SamePause, Exists, Life!ToTechnical
  <2> QED  BY <2>1
<1>3. CASE Exists(s) /\ ChangesRound(s, d)
  <2>1. Life(s)!ToBehavioral
    BY <1>3 DEF ChangesRound, SameWarnings, SamePause, Exists, Life!ToBehavioral
  <2> QED  BY <2>1
<1>4. CASE Ends(s, d)
  <2>1. Life(s)!Close(d.status) /\ d.status \in Life(s)!Terminal
    BY <1>4 DEF Ends, SameRound, SameWarnings, SamePause, IsActive, ACTIVE_STATUSES, InProgress,
       TerminalStatuses, Life!Close, Life!Active, Life!ACTIVE_STATUSES, Life!InProgress, Life!Terminal
  <2> QED  BY <2>1
<1>5. CASE Warned(s, d)
  <2>1. Life(s)!Warn
    BY <1>5 DEF Warned, SameRound, SameStatus, SamePause, IsActive, ACTIVE_STATUSES, InProgress,
       Life!Warn, Life!Active, Life!ACTIVE_STATUSES, Life!InProgress
  <2> QED  BY <2>1
<1>6. CASE Paused(s, d)
  <2>1. Life(s)!Pause
    BY <1>6 DEF Paused, SameRound, SameStatus, SameWarnings, Life!Pause
  <2> QED  BY <2>1
<1>7. CASE Exists(s) /\ Unpaused(s, d)
  <2>1. Life(s)!Unpause
    BY <1>7 DEF Unpaused, SameRound, SameStatus, SameWarnings, Exists, Life!Unpause
  <2> QED  BY <2>1
<1> QED  BY <1>1, <1>2, <1>3, <1>4, <1>5, <1>6, <1>7 DEF LifeMove

-----------------------------------------------------------------------------
(* What a step of a handler keeps                                           *)

LEMMA JustifiedAfter ==
    ASSUME TypeOK, WarningsJustify, LifeWrite  PROVE WarningsJustify'
<1> SUFFICES ASSUME NEW s \in Sessions
             PROVE  /\ sess'[s].status = "terminated_violations" =>
                           sess'[s].warnings >= TERMINATE_AT_COUNT
                    /\ sess'[s].paused # Unset => sess'[s].warnings >= WarningsBeforeTermination
  BY DEF WarningsJustify
<1> DEFINE c == sess[s]
<1>0. PICK d : d = sess'[s]
  OBVIOUS
<1>1. /\ c \in SessionDoc /\ d \in SessionDoc
      /\ ~Exists(s) => d = c
      /\ Exists(s) => LifeMove(s, d)
      /\ d.warnings >= c.warnings
  BY <1>0, LifeWriteDocs
<1>2. /\ c.warnings \in Nat /\ d.warnings \in Nat /\ WarningsBeforeTermination \in Nat
      /\ TERMINATE_AT_COUNT = WarningsBeforeTermination + 1
  BY <1>1, ConstantsAssumption DEF SessionDoc, TERMINATE_AT_COUNT
<1>3. /\ c.status = "terminated_violations" => c.warnings >= TERMINATE_AT_COUNT
      /\ c.paused # Unset => c.warnings >= WarningsBeforeTermination
  BY DEF WarningsJustify
<1>4. CASE ~Exists(s)
  BY <1>0, <1>1, <1>3, <1>4
<1>5. CASE LifeMove(s, d)
  <2>1. /\ d.status = "terminated_violations" =>
               c.status = d.status \/ c.warnings > WarningsBeforeTermination
        /\ d.paused # Unset => c.paused # Unset \/ c.warnings >= WarningsBeforeTermination
    BY <1>5 DEF LifeMove, Unseen, Starts, ChangesRound, Ends, Warned, Paused, Unpaused,
                SameStatus, SamePause
  <2> HIDE DEF c
  <2> QED  BY <1>0, <1>1, <1>2, <1>3, <2>1
<1> QED  BY <1>1, <1>4, <1>5

LEMMA MovedKeeps ==
    ASSUME TypeOK, TypeOK', SeenExists', Invariant, NEW p \in Procs, Moved(p)  PROVE Invariant'
<1>1. \A s \in Sessions : /\ ~Exists(s) => sess'[s] = sess[s]
                          /\ Exists(s) => sess'[s].status # "none"
                          /\ sess[s].warnings \in Nat /\ sess'[s].warnings \in Nat
                          /\ sess'[s].warnings >= sess[s].warnings
  BY LifeWriteDocs DEF Moved, SessionDoc
<1>2. HandlersFit'
  <2> SUFFICES ASSUME NEW o \in Procs  PROVE HandlerFits(req'[o], sess')
    BY DEF HandlersFit
  <2>1. CASE o = p
    BY <2>1 DEF Moved
  <2>2. CASE o # p
    <3> DEFINE q == req[o]
    <3>1. req'[o] = q /\ HandlerFits(q, sess)
      BY <2>2 DEF Moved, Invariant, HandlersFit
    <3>2. q.pc \in ReaderPCs \cup ReservedPCs \cup {"violation_pause", "violation_terminate"}
             => q.s \in Sessions
      BY AtSession DEF ReaderPCs, ReservedPCs, NoSessionPCs
    <3>3. WarningsBeforeTermination \in Nat
      BY ConstantsAssumption
    <3> HIDE DEF q
    <3>4. CASE q.s \in Sessions
      BY <1>1, <3>1, <3>3, <3>4 DEF HandlerFits, Exists
    <3>5. CASE q.s \notin Sessions
      BY <3>1, <3>2, <3>5 DEF HandlerFits
    <3> QED  BY <3>4, <3>5
  <2> QED  BY <2>1, <2>2
<1>3. OneReservation'
  BY DEF OneReservation, Invariant, Moved
<1>4. FreshIsEmpty'
  BY <1>1 DEF FreshIsEmpty, Invariant, Exists
<1>5. WarningsJustify'
  BY JustifiedAfter DEF Invariant, Moved
<1> QED  BY <1>2, <1>3, <1>4, <1>5 DEF Invariant

LEMMA LifeWriteSteps ==
    ASSUME TypeOK, LifeWrite  PROVE LifeStep
<1> SUFFICES ASSUME NEW s \in Sessions  PROVE [Life(s)!LifeNext]_(Life(s)!lifeVars)
  BY DEF LifeStep
<1>1. PICK d : d = sess'[s]
  OBVIOUS
<1>2. /\ sess[s] \in SessionDoc /\ d \in SessionDoc
      /\ ~Exists(s) => d = sess[s]
      /\ Exists(s) => LifeMove(s, d)
  BY <1>1, LifeWriteDocs
<1>3. CASE Exists(s)
  BY <1>1, <1>2, <1>3, LifeMoveIsStep
<1>4. CASE ~Exists(s)
  <2>1. sess'[s] = sess[s]
    BY <1>1, <1>2, <1>4
  <2> QED  BY <2>1 DEF Life!lifeVars
<1> QED  BY <1>3, <1>4

-----------------------------------------------------------------------------
(* Where a handler goes on                                                  *)

\* In session s, or with none in hand.
Reads(q, s) == q.pc \in OpenPCs /\ q.s = s
Elsewhere(q) ==
    \/ q.pc \in NoSessionPCs \ {"sweep_stale"}
    \/ q.pc = "sweep_stale" /\ q.op = "sweep"
GoesOn(q, s) == Reads(q, s) \/ Elsewhere(q)

LEMMA IdleElsewhere == Elsewhere(Idle)
BY DEF Elsewhere, Idle, NoSessionPCs

LEMMA MovesOn ==
    ASSUME TypeOK, LifeWrite, NEW p \in Procs, NEW q, NEW s,
           req' = [req EXCEPT ![p] = q], GoesOn(q, s),
           (s \in Sessions /\ Exists(s)) \/ Elsewhere(q)
    PROVE  Moved(p)
<1>1. req'[p] = q /\ \A o \in Procs \ {p} : req'[o] = req[o]
  BY DEF TypeOK, RequestsOK
<1>2. CASE Elsewhere(q)
  <2>1. /\ HandlerFits(q, sess')
        /\ q.pc \notin ReservedPCs \cup {"violation_count", "refund", "refund_log"}
    BY <1>2 DEF Elsewhere, HandlerFits, ReservedPCs, ReaderPCs, NoSessionPCs
  <2> QED  BY <1>1, <2>1 DEF Moved, ReservedPCs
<1>3. CASE Reads(q, s) /\ s \in Sessions /\ Exists(s)
  <2>1. sess'[s].status # "none"
    <3>1. PICK e : e = sess'[s]
      OBVIOUS
    <3> QED  BY <1>3, <3>1, LifeWriteDocs
  <2>2. /\ HandlerFits(q, sess')
        /\ q.pc \notin ReservedPCs \cup {"violation_count", "refund", "refund_log"}
    BY <1>3, <2>1 DEF Reads, HandlerFits, ReservedPCs, ReaderPCs, OpenPCs
  <2> QED  BY <1>1, <2>2 DEF Moved, ReservedPCs
<1> QED  BY <1>2, <1>3 DEF GoesOn

LEMMA ContinueGoesOn ==
    ASSUME NEW q \in Request, NEW status, NEW round, NEW voice
    PROVE  /\ GoesOn(Continue(q, status, round, voice), q.s)
           /\ q.op \in {"sweep", "create"} => Elsewhere(Continue(q, status, round, voice))
<1> DEFINE C == Continue(q, status, round, voice)
<1> SUFFICES GoesOn(C, q.s) /\ (q.op \in {"sweep", "create"} => Elsewhere(C))
  OBVIOUS
<1> USE DEF GoesOn, Reads, Elsewhere, NoSessionPCs, ReaderPCs, OpenPCs
<1>1. CASE q.op = "create"
  <2> DEFINE X1 == [q EXCEPT !.pc = "create_reserve", !.s = NoSession, !.ends = 0, !.voice = FALSE]
  <2>1. C \in {Idle, X1}
    BY <1>1 DEF Continue
  <2>2. X1.pc = "create_reserve"
    BY DEF Request
  <2> QED  BY <1>1, <2>1, <2>2, IdleElsewhere
<1>2. CASE q.op = "turn"
  <2> DEFINE X1 == [q EXCEPT !.pc = "turn_start", !.round = round, !.at = now, !.ends = 0,
                             !.voice = voice]
             X2 == [q EXCEPT !.pc = "turn_voice", !.round = round, !.at = now, !.ends = 0,
                             !.voice = voice]
  <2>1. C \in {Idle, X1, X2}
    BY <1>2 DEF Continue
  <2>2. X1.pc = "turn_start" /\ X1.s = q.s /\ X2.pc = "turn_voice" /\ X2.s = q.s
    BY DEF Request
  <2> QED  BY <1>2, <2>1, <2>2, IdleElsewhere
<1>3. CASE q.op = "language"
  <2> DEFINE X1 == [q EXCEPT !.pc = "language_history", !.round = round, !.at = now, !.ends = 0,
                             !.voice = voice]
  <2>1. C \in {Idle, X1}
    BY <1>3 DEF Continue
  <2>2. X1.pc = "language_history" /\ X1.s = q.s
    BY DEF Request
  <2> QED  BY <1>3, <2>1, <2>2, IdleElsewhere
<1>4. CASE q.op = "end"
  <2> DEFINE X1 == [Idle EXCEPT !.pc = "end_count", !.op = "end", !.s = q.s]
  <2>1. C \in {Idle, X1}
    BY <1>4 DEF Continue
  <2>2. X1.pc = "end_count" /\ X1.s = q.s
    BY DEF Idle
  <2> QED  BY <1>4, <2>1, <2>2, IdleElsewhere
<1>5. CASE q.op = "violation"
  <2> DEFINE X1 == [Idle EXCEPT !.pc = "violation_insert", !.op = "violation", !.s = q.s]
  <2>1. C \in {Idle, X1}
    BY <1>5 DEF Continue
  <2>2. X1.pc = "violation_insert" /\ X1.s = q.s
    BY DEF Idle
  <2> QED  BY <1>5, <2>1, <2>2, IdleElsewhere
<1>6. CASE q.op = "voice"
  <2> DEFINE X1 == [q EXCEPT !.pc = "violation_insert", !.ends = 0]
             X2 == [q EXCEPT !.pc = "turn_history", !.op = "turn", !.ends = 0]
  <2>1. C \in {Idle, X1, X2}
    BY <1>6 DEF Continue
  <2>2. X1.pc = "violation_insert" /\ X1.s = q.s /\ X2.pc = "turn_history" /\ X2.s = q.s
    BY DEF Request
  <2> QED  BY <1>6, <2>1, <2>2, IdleElsewhere
<1>7. CASE q.op = "sweep"
  <2> DEFINE X1 == [q EXCEPT !.pc = "sweep_stale", !.s = NoSession, !.ends = 0, !.voice = FALSE]
  <2>1. C \in {Idle, X1}
    BY <1>7 DEF Continue
  <2>2. X1.pc = "sweep_stale" /\ X1.op = q.op
    BY DEF Request
  <2> QED  BY <1>7, <2>1, <2>2, IdleElsewhere
<1>8. CASE q.op \notin {"create", "turn", "language", "end", "violation", "voice", "sweep"}
  <2>1. C = Idle
    BY <1>8 DEF Continue
  <2> QED  BY <1>8, <2>1, IdleElsewhere
<1> QED  BY <1>1, <1>2, <1>3, <1>4, <1>5, <1>6, <1>7, <1>8

LEMMA AdvanceGoesOn ==
    ASSUME NEW q \in Request, Exists(q.s) \/ q.op = "sweep",
           NEW d, d.status # "none" => Exists(q.s)
    PROVE  GoesOn(Advance(q, d), q.s) /\ (Exists(q.s) \/ Elsewhere(Advance(q, d)))
<1>1. CASE Due(d.status, d.ends, d.paused)
  <2> DEFINE X(pc) == [q EXCEPT !.ends = now + BehavioralMinutes, !.voice = d.voice, !.pc = pc]
  <2>1. Advance(q, d) \in {X("advance_behavioral"), X("advance_complete")}
    BY <1>1 DEF Advance
  <2>2. \A pc \in {"advance_behavioral", "advance_complete"} : X(pc).pc = pc /\ X(pc).s = q.s
    BY DEF Request
  <2>3. Reads(Advance(q, d), q.s)
    BY <2>1, <2>2 DEF Reads, ReaderPCs, OpenPCs
  <2>4. Exists(q.s)
    BY <1>1 DEF Due
  <2> QED  BY <2>3, <2>4 DEF GoesOn
<1>2. CASE ~Due(d.status, d.ends, d.paused)
  <2>1. Advance(q, d) = Continue(q, d.status, d.round, d.voice)
    BY <1>2 DEF Advance
  <2> QED  BY <2>1, ContinueGoesOn
<1> QED  BY <1>1, <1>2

LEMMA ReadGoesOn ==
    ASSUME NEW q \in Request, Exists(q.s) \/ q.op = "sweep"
    PROVE  GoesOn(Read(q), q.s) /\ (Exists(q.s) \/ Elsewhere(Read(q)))
BY AdvanceGoesOn DEF Read, Exists

LEMMA RefundingMoves ==
    ASSUME TypeOK, LifeWrite, NEW p \in Procs, NEW q, req' = [req EXCEPT ![p] = q],
           q.pc = "refund", Refunding(p)
    PROVE  Moved(p)
<1>1. req'[p] = q /\ \A o \in Procs \ {p} : req'[o] = req[o]
  BY DEF TypeOK, RequestsOK
<1>2. HandlerFits(q, sess')
  BY DEF HandlerFits, ReaderPCs, ReservedPCs
<1> QED  BY <1>1, <1>2 DEF Moved, ReservedPCs

\* A handler that holds a session holds one that exists.
LEMMA ExistsHere ==
    ASSUME TypeOK, Invariant, NEW p \in Procs, req[p].pc \in ReaderPCs
    PROVE  /\ req[p] \in Request /\ req[p].s \in Sessions
           /\ Exists(req[p].s) /\ sess[req[p].s] \in SessionDoc
<1>1. req[p].pc \notin NoSessionPCs
  BY DEF ReaderPCs, NoSessionPCs
<1> QED  BY <1>1, AtSession DEF Invariant, HandlersFit, HandlerFits, Exists

LEMMA ReturnMoves ==
    ASSUME TypeOK, LifeWrite, NEW p \in Procs, Return(p)  PROVE Moved(p)
BY MovesOn, IdleElsewhere DEF Return, GoesOn

LEMMA GoMoves ==
    ASSUME TypeOK, LifeWrite, NEW p \in Procs, req[p] \in Request, NEW pc, Go(p, pc),
           pc \in OpenPCs, req[p].s \in Sessions, Exists(req[p].s)
    PROVE  Moved(p)
<1> DEFINE q == [req[p] EXCEPT !.pc = pc]
<1>1. req' = [req EXCEPT ![p] = q]
  BY DEF Go
<1>2. q.pc = pc /\ q.s = req[p].s
  BY DEF Request
<1>3. Reads(q, req[p].s)
  BY <1>2 DEF Reads
<1> HIDE DEF q
<1> QED  BY <1>1, <1>3, MovesOn DEF GoesOn

LEMMA ReadMoves ==
    ASSUME TypeOK, LifeWrite, NEW p \in Procs, NEW q \in Request,
           q.s \in Sessions, Exists(q.s) \/ q.op = "sweep",
           req' = [req EXCEPT ![p] = Read(q)]
    PROVE  Moved(p)
BY MovesOn, ReadGoesOn

LEMMA EntersMoves ==
    ASSUME TypeOK, NEW p \in Procs, NEW s \in Sessions, NEW q, Enters(p, q),
           Exists(s), GoesOn(q, s)
    PROVE  Moved(p)
<1>1. LifeWrite
  BY DEF Enters, docVars, LifeWrite
<1> QED  BY <1>1, MovesOn DEF Enters

LEMMA EntersReading ==
    ASSUME TypeOK, NEW p \in Procs, NEW s \in Sessions, Exists(s),
           NEW q \in Request, q.s = s, Enters(p, Read(q))
    PROVE  Moved(p)
BY EntersMoves, ReadGoesOn

-----------------------------------------------------------------------------
(* What the writes of the handlers are to the session                       *)

LEMMA FinishMoves ==
    ASSUME TypeOK, NEW s \in Sessions, NEW v \in TerminalStatuses,
           v = "terminated_violations" => sess[s].warnings > WarningsBeforeTermination,
           FinishIfActive(s, v)
    PROVE  LifeWrite
<1> DEFINE d == [sess[s] EXCEPT !.status = v]
<1>1. sess[s] \in SessionDoc /\ v \in Statuses
  BY DEF TypeOK, DocsOK, Statuses
<1>2. CASE IsActive(s) /\ SetDoc(s, d)
  <2>1. d \in SessionDoc /\ Ends(s, d)
    BY <1>1, <1>2 DEF SessionDoc, Ends, SameRound, SameWarnings, SamePause
  <2>2. Exists(s)
    BY <1>2 DEF IsActive, ACTIVE_STATUSES, InProgress, Exists
  <2> QED  BY <1>2, <2>1, <2>2 DEF LifeWrite, LifeMove
<1> QED  BY <1>2 DEF FinishIfActive, LifeWrite

LEMMA CompleteMoves ==
    ASSUME TypeOK, NEW s \in Sessions, CompleteSession(s)  PROVE LifeWrite
BY FinishMoves DEF CompleteSession, TerminalStatuses

\* The writes that bring a session into a round.
LEMMA RoundMoves ==
    ASSUME TypeOK, NEW s \in Sessions, NEW n \in Nat, Exists(s),
           SetDoc(s, ToBehavioral(s, n)) \/ SetDoc(s, ToTechnical(s, n))
    PROVE  LifeWrite
<1>1. sess[s] \in SessionDoc
  BY DEF TypeOK, DocsOK
<1>2. ToBehavioral(s, n) \in SessionDoc /\ ToTechnical(s, n) \in SessionDoc
  BY ToRoundType
<1>3. ChangesRound(s, ToBehavioral(s, n))
  BY <1>1 DEF ToBehavioral, ChangesRound, SameWarnings, SamePause, SessionDoc
<1>4. Starts(s, ToTechnical(s, n))
  BY <1>1 DEF ToTechnical, Starts, SameRound, SameWarnings, SamePause, SessionDoc
<1> QED  BY <1>2, <1>3, <1>4 DEF LifeWrite, LifeMove

LEMMA RaiseGoesOn ==
    ASSUME NEW q \in Request  PROVE GoesOn(Raise(q), q.s)
<1> DEFINE r == [q EXCEPT !.pc = "turn_history", !.op = "turn", !.ends = 0]
<1>1. Reads(r, q.s)
  BY DEF Request, Reads, ReaderPCs, OpenPCs
<1> QED  BY <1>1, IdleElsewhere DEF Raise, GoesOn

LEMMA WriteActiveMoves ==
    ASSUME TypeOK, Invariant, NEW p \in Procs, req[p].pc \in ReaderPCs,
           NEW d, NEW q, SetDoc(req[p].s, d) => LifeWrite,
           GoesOn(q, req[p].s), WriteActive(p, req[p].s, d, q)
    PROVE  Moved(p)
<1>1. req[p] \in Request /\ req[p].s \in Sessions /\ Exists(req[p].s)
  BY ExistsHere
<1>2. CASE SetDoc(req[p].s, d) /\ req' = [req EXCEPT ![p] = q]
  BY <1>1, <1>2, MovesOn
<1>3. CASE UNCHANGED sess /\ req' = [req EXCEPT ![p] = Raise(req[p])]
  <2>1. LifeWrite
    BY <1>3 DEF LifeWrite
  <2> QED  BY <1>1, <1>3, <2>1, MovesOn, RaiseGoesOn
<1> QED  BY <1>2, <1>3 DEF WriteActive

LEMMA AfterViolationGoesOn ==
    ASSUME NEW q \in Request  PROVE GoesOn(AfterViolation(q), q.s)
<1> DEFINE r == [q EXCEPT !.pc = "turn_history", !.op = "turn"]
<1>1. Reads(r, q.s)
  BY DEF Request, Reads, ReaderPCs, OpenPCs
<1> QED  BY <1>1, IdleElsewhere DEF AfterViolation, GoesOn

-----------------------------------------------------------------------------
(* The steps of the handlers                                                *)

LEMMA ClientCallMoves ==
    ASSUME TypeOK, NEW p \in Requests, ClientCall(p)  PROVE Moved(p)
<1>0. p \in Procs
  BY DEF Procs
<1>1. ASSUME NEW u \in Users, NEW g \in Grants \cup {NoGrant}, NEW b \in BOOLEAN,
             Create(p, u, g, b)
      PROVE  Moved(p)
  <2> DEFINE q == [Idle EXCEPT !.op = "create", !.user = u, !.grant = g, !.behavioral = b]
  <2>1. q \in Request /\ q.op = "create"
    BY IdleType DEF Request, Operations
  <2>2. CASE Enters(p, Continue(q, "none", "technical", FALSE))
    <3> HIDE DEF q
    <3>1. Elsewhere(Continue(q, "none", "technical", FALSE))
      BY <2>1, ContinueGoesOn
    <3>2. LifeWrite
      BY <2>2 DEF Enters, docVars, LifeWrite
    <3> QED  BY <1>0, <2>2, <3>1, <3>2, MovesOn DEF Enters, GoesOn
  <2>3. ASSUME NEW e \in ActiveOf(u), Enters(p, Read([q EXCEPT !.s = e]))
        PROVE  Moved(p)
    <3>1. e \in Sessions /\ Exists(e)
      BY DEF ActiveOf, IsActive, ACTIVE_STATUSES, InProgress, Exists
    <3>2. [q EXCEPT !.s = e] \in Request /\ [q EXCEPT !.s = e].s = e
      BY <2>1, <3>1 DEF Request
    <3> QED  BY <1>0, <2>3, <3>1, <3>2, EntersReading
  <2> QED  BY <1>1, <2>2, <2>3 DEF Create
<1>2. ASSUME NEW s \in Sessions, NEW op \in Operations, Exists(s),
             Enters(p, Read([Idle EXCEPT !.op = op, !.s = s]))
      PROVE  Moved(p)
  <2> DEFINE q == [Idle EXCEPT !.op = op, !.s = s]
  <2>1. q \in Request /\ q.s = s
    BY IdleType, FreshRequestType DEF Request
  <2> QED  BY <1>0, <1>2, <2>1, EntersReading
<1>3. ASSUME NEW s \in Sessions, Start(p, s)  PROVE Moved(p)
  <2> DEFINE r == [Idle EXCEPT !.op = "start", !.s = s, !.pc = "start_write", !.at = now]
  <2>1. CASE Enters(p, r)
    <3>1. GoesOn(r, s)
      BY IdleType DEF Request, GoesOn, Reads, ReaderPCs, OpenPCs
    <3> QED  BY <1>0, <1>3, <2>1, <3>1, EntersMoves DEF Start
  <2>2. CASE Enters(p, Read([Idle EXCEPT !.op = "start", !.s = s]))
    BY <1>2, <1>3, <2>2 DEF Start, Operations
  <2> QED  BY <1>3, <2>1, <2>2 DEF Start
<1>4. ASSUME NEW s \in Sessions, Acknowledge(p, s)  PROVE Moved(p)
  <2> DEFINE d == sess[s]
             held == IF d.ends[d.round] = Unset THEN Unset
                     ELSE d.ends[d.round] + Lasted(d.paused)
             r == [Idle EXCEPT !.op = "acknowledge", !.s = s,
                     !.pc = "acknowledge_write", !.status = d.status, !.round = d.round,
                     !.ends = held,
                     !.at = IF d.round = RoundOf(d.status) THEN held
                            ELSE d.ends[RoundOf(d.status)]]
  <2>1. CASE Enters(p, r)
    <3>1. GoesOn(r, s)
      BY IdleType DEF Request, GoesOn, Reads, ReaderPCs, OpenPCs
    <3> QED  BY <1>0, <1>4, <2>1, <3>1, EntersMoves DEF Acknowledge
  <2>2. CASE Enters(p, Read([Idle EXCEPT !.op = "acknowledge", !.s = s]))
    BY <1>2, <1>4, <2>2 DEF Acknowledge, Operations
  <2> QED  BY <1>4, <2>1, <2>2 DEF Acknowledge
<1> QED
  BY <1>1, <1>2, <1>3, <1>4
     DEF ClientCall, TurnRequest, ChangeLanguage, GetStatus, EndEarly, RecordViolation,
         Operations

LEMMA AdvanceBehavioralMoves ==
    ASSUME TypeOK, Invariant, NEW p \in Procs, AdvanceBehavioral(p)  PROVE Moved(p)
<1>1. req[p].pc \in ReaderPCs
  BY DEF AdvanceBehavioral, AtPc, ReaderPCs
<1>2. /\ req[p] \in Request /\ req[p].s \in Sessions /\ Exists(req[p].s)
      /\ req[p].ends \in Nat
  BY <1>1, ExistsHere DEF Request
<1>3. SetDoc(req[p].s, ToBehavioral(req[p].s, req[p].ends)) => LifeWrite
  BY <1>2, RoundMoves
<1> QED  BY <1>1, <1>2, <1>3, ContinueGoesOn, WriteActiveMoves DEF AdvanceBehavioral

LEMMA AdvanceCompleteMoves ==
    ASSUME TypeOK, Invariant, NEW p \in Procs, AdvanceComplete(p)  PROVE Moved(p)
<1>1. req[p].pc \in ReaderPCs /\ "reread" \in OpenPCs
  BY DEF AdvanceComplete, AtPc, ReaderPCs, OpenPCs
<1>2. req[p] \in Request /\ req[p].s \in Sessions /\ Exists(req[p].s)
  BY <1>1, ExistsHere
<1>3. LifeWrite
  BY <1>2, CompleteMoves DEF AdvanceComplete
<1>4. Exists(req[p].s)
  BY <1>2
<1> QED  BY <1>1, <1>2, <1>3, <1>4, GoMoves DEF AdvanceComplete

LEMMA RereadMoves ==
    ASSUME TypeOK, Invariant, NEW p \in Procs, Reread(p)  PROVE Moved(p)
<1>1. req[p].pc \in ReaderPCs
  BY DEF Reread, AtPc, ReaderPCs
<1>2. req[p] \in Request /\ req[p].s \in Sessions /\ Exists(req[p].s)
  BY <1>1, ExistsHere
<1>3. LifeWrite
  BY DEF Reread, docVars, LifeWrite
<1> QED  BY <1>2, <1>3, ContinueGoesOn, MovesOn DEF Reread

LEMMA RefundMoves ==
    ASSUME TypeOK, NEW p \in Procs, Refund(p) \/ RefundLog(p)  PROVE Moved(p)
<1>0. req[p] \in Request
  BY DEF TypeOK, RequestsOK
<1>1. LifeWrite
  BY DEF Refund, RefundLog, docVars, LifeWrite
<1>2. CASE Refund(p)
  <2> DEFINE r == [req[p] EXCEPT !.pc = "refund_log"]
  <2>1. r.pc = "refund_log"
    BY <1>0 DEF Request
  <2>2. req'[p] = r /\ \A o \in Procs \ {p} : req'[o] = req[o]
    BY <1>2 DEF Refund, Go, TypeOK, RequestsOK
  <2> HIDE DEF r
  <2> QED  BY <1>1, <1>2, <2>1, <2>2 DEF Moved, HandlerFits, ReaderPCs, ReservedPCs
<1>3. CASE RefundLog(p)
  <2> DEFINE r == [req[p] EXCEPT !.pc = "sweep_created", !.s = NoSession, !.grant = NoGrant]
  <2>1. CASE req' = [req EXCEPT ![p].pc = "sweep_created", ![p].s = NoSession,
                                ![p].grant = NoGrant]
    <3>1. req' = [req EXCEPT ![p] = r]
      BY <2>1
    <3>2. Elsewhere(r)
      BY <1>0 DEF Request, Elsewhere, NoSessionPCs
    <3> HIDE DEF r
    <3> QED  BY <1>1, <3>1, <3>2, MovesOn DEF GoesOn
  <2>2. CASE Return(p)
    BY <1>1, <2>2, ReturnMoves
  <2> QED  BY <1>3, <2>1, <2>2 DEF RefundLog
<1> QED  BY <1>2, <1>3

LEMMA ViolationInsertMoves ==
    ASSUME TypeOK, Invariant, NEW p \in Procs, ViolationInsert(p)  PROVE Moved(p)
<1> DEFINE r == [req[p] EXCEPT !.pc = "violation_count"]
<1>1. req[p].pc \in ReaderPCs
  BY DEF ViolationInsert, AtPc, ReaderPCs
<1>2. req[p] \in Request /\ Exists(req[p].s)
  BY <1>1, ExistsHere
<1>3. UNCHANGED sess /\ LifeWrite
  BY DEF ViolationInsert, LifeWrite
<1>4. r.pc = "violation_count" /\ r.s = req[p].s
  BY <1>2 DEF Request
<1>5. req'[p] = r /\ \A o \in Procs \ {p} : req'[o] = req[o]
  BY DEF ViolationInsert, Go, TypeOK, RequestsOK
<1> HIDE DEF r
<1>6. HandlerFits(r, sess') /\ r.pc \notin ReservedPCs
  BY <1>2, <1>3, <1>4 DEF HandlerFits, ReservedPCs, Exists
<1> QED  BY <1>3, <1>4, <1>5, <1>6 DEF Moved

\* The steps that read, insert turns, or return.
LEMMA QuietMoves ==
    ASSUME TypeOK, Invariant, NEW p \in Procs,
           \/ StartAgent(p) \/ TurnHistory(p) \/ TurnAgent(p) \/ TurnReply(p)
           \/ LanguageHistory(p) \/ LanguageAgent(p) \/ EndCount(p)
           \/ ViolationRead(p)
    PROVE  Moved(p)
<1>1. req[p].pc \in ReaderPCs
  BY DEF StartAgent, TurnHistory, TurnAgent, TurnReply, LanguageHistory, LanguageAgent, EndCount,
         ViolationRead, ReadHistory, AtPc, ReaderPCs
<1>2. req[p] \in Request /\ req[p].s \in Sessions /\ Exists(req[p].s)
  BY <1>1, ExistsHere
<1>3. LifeWrite
  BY DEF StartAgent, TurnHistory, TurnAgent, TurnReply, LanguageHistory, LanguageAgent, EndCount,
         ViolationRead, ReadHistory, docVars, LifeWrite
<1>4. CASE Return(p)
  BY <1>3, <1>4, ReturnMoves
<1>5. ASSUME NEW pc \in {"turn_end", "end_abandon", "end_complete"}, Go(p, pc)
      PROVE  Moved(p)
  <2>1. pc \in OpenPCs
    BY DEF ReaderPCs, OpenPCs
  <2> QED  BY <1>2, <1>3, <1>5, <2>1, GoMoves
<1>6. CASE ViolationRead(p)
  BY <1>2, <1>3, <1>6, ReadMoves DEF ViolationRead
<1>7. ASSUME NEW pc \in {"turn_agent", "language_agent", "turn_reply"}, NEW n, NEW e,
             \/ req' = [req EXCEPT ![p].pc = pc, ![p].n = n]
             \/ req' = [req EXCEPT ![p].pc = pc, ![p].end = e]
      PROVE  Moved(p)
  <2> DEFINE q1 == [req[p] EXCEPT !.pc = pc, !.n = n]
             q2 == [req[p] EXCEPT !.pc = pc, !.end = e]
  <2>1. req' = [req EXCEPT ![p] = q1] \/ req' = [req EXCEPT ![p] = q2]
    BY <1>7
  <2>2. /\ q1.pc = pc /\ q1.s = req[p].s
        /\ q2.pc = pc /\ q2.s = req[p].s
    BY <1>2 DEF Request
  <2>3. GoesOn(q1, req[p].s) /\ GoesOn(q2, req[p].s)
    BY <2>2 DEF GoesOn, Reads, ReaderPCs, OpenPCs
  <2> HIDE DEF q1, q2
  <2> QED  BY <1>2, <1>3, <2>1, <2>3, MovesOn
<1>8. CASE TurnAgent(p)
  <2>1. PICK end \in BOOLEAN : req' = [req EXCEPT ![p].pc = "turn_reply", ![p].end = end]
    BY <1>8 DEF TurnAgent
  <2> QED  BY <1>7, <2>1
<1>9. CASE TurnHistory(p) \/ LanguageHistory(p)
  <2> DEFINE n == Len(turns[req[p].s])
  <2>1. PICK pc \in {"turn_agent", "language_agent"} : req' = [req EXCEPT ![p].pc = pc, ![p].n = n]
    BY <1>9 DEF TurnHistory, LanguageHistory, ReadHistory
  <2> HIDE DEF n
  <2> QED  BY <1>7, <2>1
<1>10. CASE EndCount(p)
  BY <1>5, <1>10 DEF EndCount
<1>11. CASE TurnReply(p)
  BY <1>4, <1>5, <1>11 DEF TurnReply
<1> QED
  BY <1>4, <1>5, <1>6, <1>8, <1>9, <1>10, <1>11 DEF StartAgent, LanguageAgent

LEMMA StartMoves ==
    ASSUME TypeOK, Invariant, NEW p \in Procs, StartWrite(p) \/ TurnStart(p)  PROVE Moved(p)
<1> DEFINE q == req[p]
           r1 == [q EXCEPT !.pc = "start_agent", !.at = 0]
           r2 == [q EXCEPT !.pc = "turn_voice"]
<1>1. q.pc \in ReaderPCs
  BY DEF StartWrite, TurnStart, AtPc, ReaderPCs
<1>2. q \in Request /\ q.s \in Sessions /\ Exists(q.s) /\ q.at \in Nat
  BY <1>1, ExistsHere DEF Request
<1>3. SetDoc(q.s, ToTechnical(q.s, q.at)) => LifeWrite
  BY <1>2, RoundMoves
<1>4. GoesOn(r1, q.s) /\ GoesOn(r2, q.s)
  BY <1>2 DEF Request, GoesOn, Reads, ReaderPCs, OpenPCs
<1> QED  BY <1>1, <1>3, <1>4, WriteActiveMoves DEF StartWrite, TurnStart

LEMMA TurnVoiceMoves ==
    ASSUME TypeOK, Invariant, NEW p \in Procs, TurnVoice(p)  PROVE Moved(p)
<1> DEFINE q == req[p]
           d == [sess[q.s] EXCEPT !.voice = TRUE]
           r == [q EXCEPT !.pc = "violation_read", !.op = "voice"]
<1>1. q.pc \in ReaderPCs /\ "turn_history" \in OpenPCs
  BY DEF TurnVoice, AtPc, ReaderPCs, OpenPCs
<1>2. q \in Request /\ q.s \in Sessions /\ Exists(q.s) /\ sess[q.s] \in SessionDoc
  BY <1>1, ExistsHere
<1>3. d \in SessionDoc /\ Unseen(q.s, d)
  BY <1>2 DEF SessionDoc, Unseen, SameStatus, SameRound, SameWarnings, SamePause
<1>4. LifeWrite
  <2>1. UNCHANGED sess \/ SetDoc(q.s, d)
    BY DEF TurnVoice
  <2> HIDE DEF d
  <2> QED  BY <1>2, <1>3, <2>1 DEF LifeWrite, LifeMove
<1>5. CASE Go(p, "turn_history")
  <2>1. Exists(q.s)
    BY <1>2
  <2> QED  BY <1>1, <1>2, <1>4, <1>5, <2>1, GoMoves
<1>6. CASE Return(p)
  BY <1>4, <1>6, ReturnMoves
<1>7. CASE req' = [req EXCEPT ![p].pc = "violation_read", ![p].op = "voice"]
  <2>1. req' = [req EXCEPT ![p] = r]
    BY <1>7
  <2>2. GoesOn(r, q.s)
    BY <1>2 DEF Request, GoesOn, Reads, ReaderPCs, OpenPCs
  <2> HIDE DEF r
  <2> QED  BY <1>2, <1>4, <2>1, <2>2, MovesOn
<1> QED  BY <1>5, <1>6, <1>7 DEF TurnVoice

LEMMA TurnEndMoves ==
    ASSUME TypeOK, Invariant, NEW p \in Procs, TurnEnd(p)  PROVE Moved(p)
<1> DEFINE q == req[p]
           n == q.at + BehavioralMinutes
<1>1. q.pc \in ReaderPCs
  BY DEF TurnEnd, AtPc, ReaderPCs
<1>2. q \in Request /\ q.s \in Sessions /\ Exists(q.s) /\ n \in Nat
  BY <1>1, ExistsHere, ConstantsAssumption DEF Request
<1>3. CASE WriteActive(p, q.s, ToBehavioral(q.s, n), Idle)
  <2>1. SetDoc(q.s, ToBehavioral(q.s, n)) => LifeWrite
    BY <1>2, RoundMoves
  <2>2. GoesOn(Idle, q.s)
    BY IdleElsewhere DEF GoesOn
  <2> QED  BY <1>1, <1>3, <2>1, <2>2, WriteActiveMoves
<1>4. CASE CompleteSession(q.s) /\ Return(p)
  BY <1>2, <1>4, CompleteMoves, ReturnMoves
<1>5. CASE UNCHANGED sess /\ Return(p)
  BY <1>5, ReturnMoves DEF LifeWrite
<1> QED  BY <1>3, <1>4, <1>5 DEF TurnEnd

LEMMA AcknowledgeWriteMoves ==
    ASSUME TypeOK, Invariant, NEW p \in Procs, AcknowledgeWrite(p)  PROVE Moved(p)
<1> DEFINE q == req[p]
           ends == IF q.ends = Unset THEN sess[q.s].ends
                   ELSE [sess[q.s].ends EXCEPT ![q.round] = q.ends]
           d == [sess[q.s] EXCEPT !.paused = Unset, !.ends = ends]
           r(pc) == [Idle EXCEPT !.op = "acknowledge", !.s = q.s,
                                 !.ends = now + BehavioralMinutes, !.pc = pc]
           next == IF q.status \in InProgress /\ q.at # Unset /\ now > q.at
                   THEN r(IF q.status = "technical_in_progress" /\ sess[q.s].behavioral
                          THEN "advance_behavioral" ELSE "advance_complete")
                   ELSE Idle
<1>1. q.pc \in ReaderPCs
  BY DEF AcknowledgeWrite, AtPc, ReaderPCs
<1>2. /\ q \in Request /\ q.s \in Sessions /\ Exists(q.s) /\ sess[q.s] \in SessionDoc
      /\ q.ends \in Nat /\ q.round \in Rounds
  BY <1>1, ExistsHere DEF Request
<1>3. ends \in [Rounds -> Nat]
  BY <1>2 DEF SessionDoc
<1>4. d \in SessionDoc /\ Unpaused(q.s, d)
  <2> HIDE DEF ends
  <2> QED  BY <1>2, <1>3 DEF SessionDoc, Unset, Unpaused, SameStatus, SameRound, SameWarnings
<1>5. SetDoc(q.s, d)
  BY DEF AcknowledgeWrite
<1>6. LifeWrite
  <2> HIDE DEF d
  <2> QED  BY <1>2, <1>4, <1>5 DEF LifeWrite, LifeMove
<1>7. req' = [req EXCEPT ![p] = next]
  BY DEF AcknowledgeWrite
<1>8. next = Idle \/ \E pc \in {"advance_behavioral", "advance_complete"} : next = r(pc)
  OBVIOUS
<1>9. \A pc \in {"advance_behavioral", "advance_complete"} : r(pc).pc = pc /\ r(pc).s = q.s
  BY DEF Idle
<1>10. GoesOn(next, q.s)
  <2> HIDE DEF next, r
  <2> QED  BY <1>8, <1>9, IdleElsewhere DEF GoesOn, Reads, ReaderPCs, OpenPCs
<1> HIDE DEF next
<1> QED  BY <1>2, <1>6, <1>7, <1>10, MovesOn

LEMMA EndMoves ==
    ASSUME TypeOK, Invariant, NEW p \in Procs, EndComplete(p) \/ EndAbandon(p)  PROVE Moved(p)
<1> DEFINE q == req[p]
           d == [sess[q.s] EXCEPT !.status = "abandoned"]
           r == [q EXCEPT !.pc = "refund", !.grant = sess[q.s].grant]
<1>1. q.pc \in ReaderPCs
  BY DEF EndComplete, EndAbandon, AtPc, ReaderPCs
<1>2. q \in Request /\ q.s \in Sessions
  BY <1>1, ExistsHere
<1>3. CASE EndComplete(p)
  BY <1>2, <1>3, CompleteMoves, ReturnMoves DEF EndComplete
<1>4. CASE EndAbandon(p)
  <2>1. LifeWrite
    <3>1. CASE UNCHANGED sess
      BY <3>1 DEF LifeWrite
    <3>2. CASE IsActive(q.s) /\ SetDoc(q.s, d)
      <4>1. sess[q.s] \in SessionDoc
        BY <1>2 DEF TypeOK, DocsOK
      <4>2. d \in SessionDoc /\ Ends(q.s, d)
        BY <3>2, <4>1 DEF SessionDoc, Statuses, TerminalStatuses, Ends, SameRound, SameWarnings,
                          SamePause
      <4>3. Exists(q.s)
        BY <3>2 DEF IsActive, ACTIVE_STATUSES, InProgress, Exists
      <4> HIDE DEF d
      <4> QED  BY <1>2, <3>2, <4>2, <4>3 DEF LifeWrite, LifeMove
    <3> QED  BY <1>4, <3>1, <3>2 DEF EndAbandon
  <2>2. CASE Return(p)
    BY <2>1, <2>2, ReturnMoves
  <2>3. CASE req' = [req EXCEPT ![p].pc = "refund", ![p].grant = sess[q.s].grant]
    <3>1. req' = [req EXCEPT ![p] = r]
      BY <2>3
    <3>2. r.pc = "refund" /\ r.s = q.s /\ r.grant = sess[q.s].grant
      BY <1>2 DEF Request
    <3> HIDE DEF r
    <3>3. req'[p] = r
      BY <3>1 DEF TypeOK, RequestsOK
    <3>4. Refunding(p)
      BY <1>2, <3>2, <3>3 DEF Refunding
    <3> QED  BY <2>1, <3>1, <3>2, <3>4, RefundingMoves
  <2> QED  BY <1>4, <2>2, <2>3 DEF EndAbandon
<1> QED  BY <1>3, <1>4

LEMMA ViolationCountMoves ==
    ASSUME TypeOK, Invariant, NEW p \in Procs, ViolationCount(p)  PROVE Moved(p)
<1> DEFINE q == req[p]
           count == sess[q.s].warnings + 1
           d == [sess[q.s] EXCEPT !.warnings = count]
           r(pc) == [q EXCEPT !.pc = pc]
<1>1. q.pc \in ReaderPCs
  BY DEF ViolationCount, AtPc, ReaderPCs
<1>2. /\ q \in Request /\ q.s \in Sessions /\ Exists(q.s) /\ sess[q.s] \in SessionDoc
      /\ sess \in [Sessions -> SessionDoc]
  BY <1>1, ExistsHere DEF TypeOK, DocsOK
<1>3. CASE UNCHANGED sess /\ req' = [req EXCEPT ![p] = AfterViolation(q)]
  <2>1. LifeWrite
    BY <1>3 DEF LifeWrite
  <2> QED  BY <1>2, <1>3, <2>1, AfterViolationGoesOn, MovesOn
<1>4. CASE IsActive(q.s) /\ SetDoc(q.s, d)
  <2>1. d \in SessionDoc /\ Warned(q.s, d)
    BY <1>2, <1>4 DEF SessionDoc, Warned, SameStatus, SameRound, SamePause
  <2>2. LifeWrite
    <3> HIDE DEF d
    <3> QED  BY <1>2, <1>4, <2>1 DEF LifeWrite, LifeMove
  <2>3. /\ sess'[q.s].warnings = count /\ sess'[q.s].status # "none"
        /\ count \in Nat /\ WarningsBeforeTermination \in Nat
    BY <1>2, <1>4, ConstantsAssumption DEF SessionDoc, SetDoc, Exists
  <2>4. CASE req' = [req EXCEPT ![p] = AfterViolation(q)]
    BY <1>2, <2>2, <2>4, AfterViolationGoesOn, MovesOn
  <2>5. ASSUME NEW pc \in {"violation_terminate", "violation_pause"}, req' = [req EXCEPT ![p] = r(pc)],
               pc = "violation_terminate" => count >= TERMINATE_AT_COUNT,
               pc = "violation_pause" => count = WarningsBeforeTermination
        PROVE  Moved(p)
    <3>1. r(pc).pc = pc /\ r(pc).s = q.s
      BY <1>2 DEF Request
    <3> HIDE DEF r, count
    <3>2. /\ HandlerFits(r(pc), sess')
          /\ r(pc).pc \notin ReservedPCs \cup {"violation_count", "refund", "refund_log"}
      BY <2>3, <2>5, <3>1 DEF HandlerFits, ReservedPCs, TERMINATE_AT_COUNT
    <3>3. req'[p] = r(pc) /\ \A o \in Procs \ {p} : req'[o] = req[o]
      BY <2>5 DEF TypeOK, RequestsOK
    <3> QED  BY <2>2, <3>2, <3>3 DEF Moved, ReservedPCs
  <2>6. \/ count >= TERMINATE_AT_COUNT /\ req' = [req EXCEPT ![p] = r("violation_terminate")]
        \/ count = WarningsBeforeTermination /\ req' = [req EXCEPT ![p] = r("violation_pause")]
        \/ req' = [req EXCEPT ![p] = AfterViolation(q)]
    BY <1>4 DEF ViolationCount
  <2> HIDE DEF r, count
  <2> QED  BY <2>4, <2>5, <2>6
<1> QED  BY <1>3, <1>4 DEF ViolationCount

LEMMA ViolationTerminateMoves ==
    ASSUME TypeOK, Invariant, NEW p \in Procs, ViolationTerminate(p)  PROVE Moved(p)
<1>1. req[p].pc \in ReaderPCs /\ req[p].pc = "violation_terminate"
  BY DEF ViolationTerminate, AtPc, ReaderPCs
<1>2. /\ req[p] \in Request /\ req[p].s \in Sessions /\ Exists(req[p].s)
      /\ sess[req[p].s].warnings > WarningsBeforeTermination
  BY <1>1, ExistsHere DEF Invariant, HandlersFit, HandlerFits
<1>3. LifeWrite
  BY <1>2, FinishMoves DEF ViolationTerminate, TerminalStatuses
<1> QED  BY <1>2, <1>3, AfterViolationGoesOn, MovesOn DEF ViolationTerminate

LEMMA ViolationPauseMoves ==
    ASSUME TypeOK, Invariant, NEW p \in Procs, ViolationPause(p)  PROVE Moved(p)
<1> DEFINE q == req[p]
           c == sess[q.s]
           d == [c EXCEPT !.paused = IF c.paused = Unset THEN now ELSE @]
<1>1. req[p].pc \in ReaderPCs /\ req[p].pc = "violation_pause"
  BY DEF ViolationPause, AtPc, ReaderPCs
<1>2. /\ q \in Request /\ q.s \in Sessions /\ Exists(q.s) /\ c \in SessionDoc
      /\ c.warnings >= WarningsBeforeTermination
  BY <1>1, ExistsHere DEF Invariant, HandlersFit, HandlerFits
<1>3. d \in SessionDoc
  BY <1>2 DEF SessionDoc, TypeOK
<1>4. Paused(q.s, d) \/ Unseen(q.s, d)
  BY <1>2 DEF SessionDoc, Paused, Unseen, SameStatus, SameRound, SameWarnings, SamePause
<1>5. LifeWrite
  <2>1. SetDoc(q.s, d)
    BY DEF ViolationPause
  <2> HIDE DEF d
  <2> QED  BY <1>2, <1>3, <1>4, <2>1 DEF LifeWrite, LifeMove
<1> QED  BY <1>2, <1>5, AfterViolationGoesOn, MovesOn DEF ViolationPause

-----------------------------------------------------------------------------
(* create_session: an id is reserved, and inserted or given back            *)

\* A handler holds one request at a time, so the ids of the others stay theirs.
LEMMA CreateReserveKeeps ==
    ASSUME TypeOK, TypeOK', SeenExists', Invariant, NEW p \in Procs, NEW s \in Sessions, CreateReserve(p, s)
    PROVE  Invariant' /\ LifeWrite
<1>1. UNCHANGED sess /\ LifeWrite
  BY DEF CreateReserve, docVars, LifeWrite
<1>2. CASE Return(p)
  BY <1>1, <1>2, ReturnMoves, MovedKeeps
<1>3. ASSUME NEW pc \in ReservedPCs, req' = [req EXCEPT ![p].pc = pc, ![p].s = s]
      PROVE  Invariant'
  <2> DEFINE r == [req[p] EXCEPT !.pc = pc, !.s = s]
  <2>1. r.pc = pc /\ r.s = s /\ req'[p] = r /\ \A o \in Procs \ {p} : req'[o] = req[o]
    BY <1>3 DEF TypeOK, RequestsOK, Request
  <2>2. sess[s].status = "none" /\ \A o \in Procs : req[o].s # s
    BY DEF CreateReserve, Fresh, Exists
  <2> HIDE DEF r
  <2>3. HandlerFits(r, sess)
    BY <2>1, <2>2 DEF HandlerFits, ReservedPCs, ReaderPCs
  <2>4. HandlersFit'
    BY <1>1, <2>1, <2>3 DEF Invariant, HandlersFit
  <2>5. OneReservation'
    BY <2>1, <2>2 DEF Invariant, OneReservation
  <2> QED  BY <1>1, <2>4, <2>5 DEF Invariant, FreshIsEmpty, WarningsJustify, Exists
<1> QED  BY <1>1, <1>2, <1>3 DEF CreateReserve, ReservedPCs

LEMMA CreateLogMoves ==
    ASSUME TypeOK, Invariant, NEW p \in Procs, CreateLog(p)  PROVE Moved(p)
<1> DEFINE r == [req[p] EXCEPT !.pc = "create_insert"]
<1>1. req[p] \in Request /\ req[p].pc = "create_log" /\ HandlerFits(req[p], sess)
  BY DEF CreateLog, AtPc, TypeOK, RequestsOK, Invariant, HandlersFit
<1>2. r.pc = "create_insert" /\ r.s = req[p].s /\ r.grant = req[p].grant
  BY <1>1 DEF Request
<1>3. req'[p] = r /\ \A o \in Procs \ {p} : req'[o] = req[o]
  BY DEF CreateLog, Go, TypeOK, RequestsOK
<1>4. UNCHANGED sess
  BY DEF CreateLog, docVars
<1> HIDE DEF r
<1> QED  BY <1>1, <1>2, <1>3, <1>4 DEF Moved, LifeWrite, HandlerFits, ReservedPCs, ReaderPCs

\* The insert is the one step that brings a session into being.
LEMMA CreatedIsStep ==
    ASSUME NEW s \in Sessions, sess[s] = NoDoc, NEW d, sess'[s] = d,
           d.status = "created", d.round = "technical", d.warnings = 0, d.paused = Unset
    PROVE  Life(s)!LifeNext
<1>1. Life(s)!Created
  BY DEF NoDoc, Life!Created
<1> QED  BY <1>1 DEF Life!LifeNext

LEMMA CreateInsertKeeps ==
    ASSUME TypeOK, TypeOK', SeenExists', Invariant, NEW p \in Procs, CreateInsert(p)
    PROVE  Invariant' /\ LifeStep
<1> DEFINE q == req[p]
           d == [NoDoc EXCEPT !.status = "created", !.user = q.user, !.grant = q.grant,
                              !.behavioral = q.behavioral, !.created = now]
<1>1. q \in Request /\ q.s \in Sessions /\ q.pc = "create_insert"
  BY AtSession DEF CreateInsert, AtPc, NoSessionPCs
<1>2. ~Exists(q.s) /\ sess[q.s] = NoDoc
  BY <1>1 DEF Invariant, HandlersFit, HandlerFits, ReservedPCs, FreshIsEmpty, Exists
<1>3. CASE UNCHANGED sess /\ (Return(p) \/ Go(p, "refund"))
  <2>1. LifeWrite
    BY <1>3 DEF LifeWrite
  <2>2. CASE Return(p)
    BY <2>1, <2>2, ReturnMoves, MovedKeeps, LifeWriteSteps
  <2>3. CASE Go(p, "refund")
    <3> DEFINE r == [q EXCEPT !.pc = "refund"]
    <3>1. r.pc = "refund" /\ r.grant = q.grant /\ req' = [req EXCEPT ![p] = r]
      BY <1>1, <2>3 DEF Request, Go
    <3> HIDE DEF r
    <3>2. Refunding(p)
      BY <3>1 DEF Refunding, TypeOK, RequestsOK
    <3> QED  BY <2>1, <3>1, <3>2, RefundingMoves, MovedKeeps, LifeWriteSteps
  <2> QED  BY <1>3, <2>2, <2>3
<1>4. CASE SetDoc(q.s, d) /\ Return(p)
  <2>1. d.status = "created" /\ d.round = "technical" /\ d.warnings = 0 /\ d.paused = Unset
    BY DEF NoDoc
  <2>2. sess'[q.s] = d /\ \A t \in Sessions \ {q.s} : sess'[t] = sess[t]
    BY <1>1, <1>4 DEF SetDoc, TypeOK, DocsOK
  <2>3. req'[p] = Idle /\ \A o \in Procs \ {p} : req'[o] = req[o]
    BY <1>4 DEF Return, TypeOK, RequestsOK
  <2> HIDE DEF d
  <2>4. LifeStep
    <3> SUFFICES ASSUME NEW t \in Sessions  PROVE [Life(t)!LifeNext]_(Life(t)!lifeVars)
      BY DEF LifeStep
    <3>1. CASE t = q.s
      BY <1>1, <1>2, <2>1, <2>2, <3>1, CreatedIsStep
    <3>2. CASE t # q.s
      BY <2>2, <3>2 DEF Life!lifeVars
    <3> QED  BY <3>1, <3>2
  <2>5. HandlersFit'
    <3> SUFFICES ASSUME NEW o \in Procs  PROVE HandlerFits(req'[o], sess')
      BY DEF HandlersFit
    <3>1. CASE o = p
      BY <2>3, <3>1 DEF HandlerFits, Idle, ReaderPCs, ReservedPCs
    <3>2. CASE o # p
      <4> DEFINE r == req[o]
      <4>1. req'[o] = r /\ HandlerFits(r, sess)
        BY <2>3, <3>2 DEF Invariant, HandlersFit
      <4>2. r.pc \in ReservedPCs => r.s # q.s
        BY <1>1, <3>2 DEF Invariant, OneReservation, ReservedPCs
      <4>3. r.pc \in ReaderPCs => r.s # q.s /\ r.s \in Sessions
        BY <1>2, ExistsHere
      <4>4. r.pc \in ReservedPCs => r.s \in Sessions
        BY AtSession DEF ReservedPCs, NoSessionPCs
      <4>5. sess'[r.s] = sess[r.s] \/ r.pc \notin ReaderPCs \cup ReservedPCs
        BY <2>2, <4>2, <4>3, <4>4
      <4> HIDE DEF r
      <4> QED  BY <4>1, <4>5 DEF HandlerFits, ReaderPCs
    <3> QED  BY <3>1, <3>2
  <2>6. OneReservation'
    BY <2>3 DEF Invariant, OneReservation, ReservedPCs, Idle
  <2>7. FreshIsEmpty' /\ WarningsJustify'
    BY <2>1, <2>2 DEF Invariant, FreshIsEmpty, WarningsJustify, Exists
  <2> QED  BY <2>4, <2>5, <2>6, <2>7 DEF Invariant
<1> QED  BY <1>3, <1>4 DEF CreateInsert

-----------------------------------------------------------------------------
(* The sweep                                                                *)

LEMMA SweepToMoves ==
    ASSUME TypeOK, LifeWrite, NEW pc \in {"sweep_created", "sweep_old"}, NEW todo,
           SweepTo(pc, todo)
    PROVE  Moved(Sweeper)
<1> DEFINE r == [req[Sweeper] EXCEPT !.pc = pc, !.todo = todo]
<1>1. Sweeper \in Procs /\ req[Sweeper] \in Request
  BY DEF TypeOK, RequestsOK, Procs
<1>2. req' = [req EXCEPT ![Sweeper] = r]
  BY DEF SweepTo
<1>3. Elsewhere(r)
  BY <1>1 DEF Request, Elsewhere, NoSessionPCs
<1> HIDE DEF r
<1> QED  BY <1>1, <1>2, <1>3, MovesOn DEF GoesOn

LEMMA SweepBeginMoves ==
    ASSUME TypeOK, SweepBegin  PROVE Moved(Sweeper)
<1> DEFINE todo == {s \in Sessions : sess[s].status \in InProgress}
           seen == [s \in Sessions |-> IF sess[s].status \in InProgress THEN sess[s] ELSE NoDoc]
           r == [Idle EXCEPT !.pc = "sweep_stale", !.op = "sweep", !.at = now, !.todo = todo,
                             !.seen = seen]
<1>1. LifeWrite /\ Sweeper \in Procs
  BY DEF SweepBegin, docVars, LifeWrite, Procs
<1>2. req' = [req EXCEPT ![Sweeper] = r]
  BY DEF SweepBegin
<1>3. Elsewhere(r)
  BY DEF Idle, Elsewhere
<1> HIDE DEF r
<1> QED  BY <1>1, <1>2, <1>3, MovesOn DEF GoesOn

LEMMA SweepStaleMoves ==
    ASSUME TypeOK, Invariant, NEW s \in Sessions, SweepStale(s)  PROVE Moved(Sweeper)
<1> DEFINE todo == req[Sweeper].todo \ {s}
           seen == [req[Sweeper].seen EXCEPT ![s] = NoDoc]
           q == [req[Sweeper] EXCEPT !.todo = todo, !.s = s, !.seen = seen]
           d == req[Sweeper].seen[s]
<1>1. LifeWrite /\ Sweeper \in Procs /\ req[Sweeper] \in Request
  BY DEF SweepStale, docVars, LifeWrite, Procs, TypeOK, RequestsOK
<1>2. req[Sweeper].op = "sweep"
  BY <1>1 DEF SweepStale, AtPc, Invariant, HandlersFit, HandlerFits
<1>3. todo \in SUBSET Sessions /\ seen \in [Sessions -> SessionDoc]
  BY <1>1, NoDocType DEF Request
<1>4. req' = [req EXCEPT ![Sweeper] = Advance(q, d)]
  BY DEF SweepStale
<1>5. q \in Request /\ q.s = s /\ q.op = "sweep"
  <2> HIDE DEF todo, seen
  <2> QED  BY <1>1, <1>2, <1>3 DEF Request
<1>6. d.status # "none" => Exists(s)
  BY DEF Invariant, SeenExists
<1> HIDE DEF q, d
<1> QED  BY <1>1, <1>4, <1>5, <1>6, AdvanceGoesOn, MovesOn

\* A verdict of the sweep, and the request it leaves.
LEMMA SweepVerdict ==
    ASSUME TypeOK, NEW s \in Sessions, NEW v \in {"abandoned", "expired"},
           \/ UNCHANGED sess
           \/ IsActive(s) /\ SetDoc(s, [sess[s] EXCEPT !.status = v])
    PROVE  LifeWrite
<1> DEFINE d == [sess[s] EXCEPT !.status = v]
<1>1. CASE IsActive(s) /\ SetDoc(s, d)
  <2>1. sess[s] \in SessionDoc
    BY DEF TypeOK, DocsOK
  <2>2. d \in SessionDoc /\ Ends(s, d)
    BY <1>1, <2>1 DEF SessionDoc, Statuses, TerminalStatuses, Ends, SameRound, SameWarnings, SamePause
  <2>3. Exists(s)
    BY <1>1 DEF IsActive, ACTIVE_STATUSES, InProgress, Exists
  <2> HIDE DEF d
  <2> QED  BY <1>1, <2>2, <2>3 DEF LifeWrite, LifeMove
<1> QED  BY <1>1 DEF LifeWrite

LEMMA SweepAbandonMoves ==
    ASSUME TypeOK, NEW s \in Sessions, SweepAbandon(s)  PROVE Moved(Sweeper)
<1> DEFINE q == req[Sweeper]
           todo == q.todo \ {s}
           r1 == [q EXCEPT !.pc = "refund", !.todo = todo, !.s = s, !.grant = sess[s].grant]
           r2 == [q EXCEPT !.todo = todo]
<1>1. q \in Request /\ q.pc = "sweep_created" /\ Sweeper \in Procs
  BY DEF SweepAbandon, AtPc, TypeOK, RequestsOK, Procs
<1>2. LifeWrite
  <2>1. CASE sess[s].status = "created" /\ SetDoc(s, [sess[s] EXCEPT !.status = "abandoned"])
    BY <2>1, SweepVerdict DEF IsActive, ACTIVE_STATUSES
  <2>2. CASE UNCHANGED sess
    BY <2>2 DEF LifeWrite
  <2> QED  BY <2>1, <2>2 DEF SweepAbandon
<1>3. r1.pc = "refund" /\ r1.s = s /\ r1.grant = sess[s].grant /\ Elsewhere(r2)
  BY <1>1 DEF Request, Elsewhere, NoSessionPCs
<1>4. CASE req' = [req EXCEPT ![Sweeper].pc = "refund", ![Sweeper].todo = @ \ {s},
                              ![Sweeper].s = s, ![Sweeper].grant = sess[s].grant]
  <2>1. req' = [req EXCEPT ![Sweeper] = r1]
    BY <1>1, <1>4 DEF TypeOK, RequestsOK, Request
  <2> HIDE DEF r1
  <2>2. req'[Sweeper] = r1
    BY <1>1, <2>1 DEF TypeOK, RequestsOK
  <2>3. Refunding(Sweeper)
    BY <1>3, <2>2 DEF Refunding
  <2> QED  BY <1>1, <1>2, <1>3, <2>1, <2>3, RefundingMoves
<1>5. CASE req' = [req EXCEPT ![Sweeper].todo = @ \ {s}]
  <2>1. req' = [req EXCEPT ![Sweeper] = r2]
    BY <1>1, <1>5 DEF TypeOK, RequestsOK
  <2> HIDE DEF r2
  <2> QED  BY <1>1, <1>2, <1>3, <2>1, MovesOn DEF GoesOn
<1> QED  BY <1>4, <1>5 DEF SweepAbandon

LEMMA SweepExpireMoves ==
    ASSUME TypeOK, NEW s \in Sessions, SweepExpire(s)  PROVE Moved(Sweeper)
<1> DEFINE q == req[Sweeper]
           r == [q EXCEPT !.todo = q.todo \ {s}]
<1>1. q \in Request /\ q.pc = "sweep_old" /\ Sweeper \in Procs
  BY DEF SweepExpire, AtPc, TypeOK, RequestsOK, Procs
<1>2. LifeWrite
  BY SweepVerdict DEF SweepExpire
<1>3. Elsewhere(r)
  BY <1>1 DEF Request, Elsewhere, NoSessionPCs
<1>4. req' = [req EXCEPT ![Sweeper] = r]
  BY <1>1 DEF SweepExpire, TypeOK, RequestsOK
<1> HIDE DEF r
<1> QED  BY <1>1, <1>2, <1>3, <1>4, MovesOn DEF GoesOn

LEMMA SweepMoves ==
    ASSUME TypeOK, Invariant, SweepStep  PROVE Moved(Sweeper)
<1>1. CASE SweepFindCreated \/ SweepFindOld
  <2>1. LifeWrite
    BY <1>1 DEF SweepFindCreated, SweepFindOld, docVars, LifeWrite
  <2> QED  BY <1>1, <2>1, SweepToMoves DEF SweepFindCreated, SweepFindOld
<1>2. CASE SweepEnd
  <2>1. LifeWrite /\ Sweeper \in Procs
    BY <1>2 DEF SweepEnd, docVars, LifeWrite, Procs
  <2> QED  BY <1>2, <2>1, ReturnMoves DEF SweepEnd
<1> QED
  BY <1>1, <1>2, SweepBeginMoves, SweepStaleMoves, SweepAbandonMoves, SweepExpireMoves DEF SweepStep

-----------------------------------------------------------------------------
(* The whole                                                                *)

LEMMA ResumeKeeps ==
    ASSUME TypeOK, TypeOK', SeenExists', Invariant, NEW p \in Procs, Resume(p)  PROVE Invariant' /\ LifeStep
<1>1. CASE Moved(p)
  BY <1>1, MovedKeeps, LifeWriteSteps DEF Moved
<1>2. ASSUME NEW s \in Sessions, CreateReserve(p, s)  PROVE Invariant' /\ LifeStep
  BY <1>2, CreateReserveKeeps, LifeWriteSteps
<1>3. CASE CreateInsert(p)
  BY <1>3, CreateInsertKeeps
<1> QED
  BY <1>1, <1>2, <1>3, AdvanceBehavioralMoves, AdvanceCompleteMoves, RereadMoves, CreateLogMoves,
     RefundMoves, QuietMoves, ViolationInsertMoves, StartMoves, TurnVoiceMoves, TurnEndMoves,
     AcknowledgeWriteMoves, EndMoves, ViolationCountMoves, ViolationTerminateMoves, ViolationPauseMoves DEF Resume

LEMMA EnvironmentKeeps ==
    ASSUME TypeOK, SeenExists', Invariant,
           Tick \/ Crash \/ (\E g \in Grants : GrantSessions(g)) \/ UNCHANGED vars
    PROVE  Invariant' /\ LifeStep
<1>1. UNCHANGED sess
  BY DEF Tick, Crash, GrantSessions, vars, docVars
<1>2. LifeStep
  BY <1>1, LifeWriteSteps DEF LifeWrite
<1>3. CASE UNCHANGED req
  <2>1. HandlersFit' /\ OneReservation'
    BY <1>1, <1>3 DEF Invariant, HandlersFit, OneReservation
  <2>2. FreshIsEmpty' /\ WarningsJustify'
    BY <1>1 DEF Invariant, FreshIsEmpty, WarningsJustify, Exists
  <2> QED  BY <1>2, <2>1, <2>2 DEF Invariant
<1>4. CASE Crash
  <2>1. req' = [p \in Procs |-> Idle]
    BY <1>4 DEF Crash
  <2>2. HandlersFit' /\ OneReservation'
    BY <2>1 DEF HandlersFit, HandlerFits, OneReservation, Idle, ReaderPCs, ReservedPCs
  <2> QED  BY <1>1, <1>2, <2>2 DEF Invariant, FreshIsEmpty, WarningsJustify, Exists
<1> QED  BY <1>2, <1>3, <1>4 DEF Tick, GrantSessions, vars

LEMMA NextKeeps ==
    ASSUME TypeOK, TypeOK', SeenExists', Invariant, [Next]_vars  PROVE Invariant' /\ LifeStep
<1>1. ASSUME NEW p \in Procs, Moved(p)  PROVE Invariant' /\ LifeStep
  BY <1>1, MovedKeeps, LifeWriteSteps DEF Moved
<1>2. ASSUME NEW p \in Requests, ClientCall(p)  PROVE Invariant' /\ LifeStep
  BY <1>1, <1>2, ClientCallMoves DEF Procs
<1>3. CASE SweepStep
  BY <1>1, <1>3, SweepMoves DEF Procs
<1> QED  BY <1>2, <1>3, ResumeKeeps, EnvironmentKeeps DEF Next

LEMMA InitInvariant ==
    ASSUME Init  PROVE Invariant /\ \A s \in Sessions : Life(s)!LifeInit
<1>1. sess = [s \in Sessions |-> NoDoc] /\ req = [p \in Procs |-> Idle]
  BY DEF Init
<1>2. HandlersFit /\ OneReservation
  BY <1>1 DEF HandlersFit, HandlerFits, OneReservation, Idle, ReaderPCs, ReservedPCs
<1>3. FreshIsEmpty /\ WarningsJustify /\ SeenExists
  BY <1>1 DEF FreshIsEmpty, WarningsJustify, SeenExists, Idle, NoDoc, Procs
<1>4. ASSUME NEW s \in Sessions  PROVE Life(s)!LifeInit
  <2>1. sess[s].status = "none" /\ sess[s].round = "technical" /\ sess[s].warnings = 0
    BY <1>1 DEF NoDoc
  <2>2. sess[s].paused = Unset
    BY <1>1 DEF NoDoc
  <2>3. (sess[s].paused # Unset) = FALSE
    BY <2>2
  <2> QED  BY <2>1, <2>3 DEF Life!LifeInit
<1> QED  BY <1>2, <1>3, <1>4 DEF Invariant

LEMMA InvariantHolds == Spec => [](TypeOK /\ Invariant)
<1>1. Init => TypeOK /\ Invariant
  BY InitType, InitInvariant
<1>2. TypeOK /\ Invariant /\ [Next]_vars => (TypeOK /\ Invariant)'
  <2> SUFFICES ASSUME TypeOK, Invariant, [Next]_vars  PROVE TypeOK' /\ Invariant'
    OBVIOUS
  <2>1. TypeOK' /\ SeenExists'
    BY NextType, StutterType, SeenExistsHolds DEF Invariant
  <2> QED  BY <2>1, NextKeeps
<1> QED  BY <1>1, <1>2, PTL DEF Spec

\* A session ends as terminated only with the full count of warnings, and is
\* paused only for a final warning, however violations race with each other, with
\* late writes and with an acknowledgement.
THEOREM WarningsJustifyInvariant == Spec => []WarningsJustify
<1>1. Invariant => WarningsJustify
  BY DEF Invariant
<1> QED  BY <1>1, InvariantHolds, PTL

\* Every behaviour of the session handlers and the sweep is, session by session,
\* a behaviour of the lifecycle the clients rely on.
THEOREM Refinement == Spec => ImplementsLifecycle
<1>1. Init => \A s \in Sessions : Life(s)!LifeInit
  BY InitInvariant
<1>2. TypeOK /\ Invariant /\ (TypeOK /\ Invariant)' /\ [Next]_vars => [LifeStep]_vars
  BY NextKeeps DEF Invariant
<1> QED  BY <1>1, <1>2, InvariantHolds, PTL DEF Spec, ImplementsLifecycle

\* Among the ways to end, the first stands: whichever handlers, sweep and late
\* writes follow, a terminal status never becomes another one.
THEOREM FirstVerdictTheorem == Spec => FirstVerdictStands
<1> DEFINE Stands == \A s \in Sessions :
                        sess[s].status \in TerminalStatuses =>
                            sess'[s].status \in {sess[s].status} \cup ACTIVE_STATUSES
<1>1. ASSUME TypeOK, LifeStep  PROVE Stands
  <2> SUFFICES ASSUME NEW s \in Sessions, sess[s].status \in TerminalStatuses
               PROVE  sess'[s].status \in {sess[s].status} \cup ACTIVE_STATUSES
    OBVIOUS
  <2>1. [Life(s)!LifeNext]_(Life(s)!lifeVars)
    BY <1>1 DEF LifeStep
  <2>2. CASE UNCHANGED Life(s)!lifeVars
    BY <2>2 DEF Life!lifeVars
  <2>3. CASE \E verdict \in Life(s)!Terminal : Life(s)!Close(verdict)
    BY <2>3 DEF TerminalStatuses, Life!Close, Life!Active, Life!ACTIVE_STATUSES, Life!InProgress
  <2>4. CASE Life(s)!Created \/ Life(s)!ToTechnical \/ Life(s)!ToBehavioral
    BY <2>4 DEF Life!Created, Life!ToTechnical, Life!ToBehavioral, ACTIVE_STATUSES, InProgress
  <2>5. CASE Life(s)!Warn \/ Life(s)!Pause \/ Life(s)!Unpause
    BY <2>5 DEF Life!Warn, Life!Pause, Life!Unpause
  <2> QED  BY <2>1, <2>2, <2>3, <2>4, <2>5 DEF Life!LifeNext
<1>2. TypeOK /\ Invariant /\ (TypeOK /\ Invariant)' /\ [Next]_vars => [Stands]_vars
  <2> SUFFICES ASSUME TypeOK, Invariant, TypeOK', Invariant', [Next]_vars  PROVE Stands
    OBVIOUS
  <2>1. SeenExists'
    BY DEF Invariant
  <2> QED  BY <1>1, <2>1, NextKeeps
<1> QED  BY <1>2, InvariantHolds, PTL DEF Spec, FirstVerdictStands

-----------------------------------------------------------------------------
(* Warnings                                                                 *)

Counting(s) == {p \in At({"violation_count"}) : req[p].s = s}

LEMMA CountingFinite ==
    ASSUME NEW s  PROVE IsFiniteSet(Counting(s)) /\ Cardinality(Counting(s)) \in Nat
<1>1. IsFiniteSet(Procs)
  BY ConstantsAssumption, FS_AddElement DEF Procs
<1>2. Counting(s) \subseteq Procs
  BY DEF Counting, At
<1> QED  BY <1>1, <1>2, FS_Subset, FS_CardinalityType

-----------------------------------------------------------------------------
(* Only counting a violation raises the warnings                            *)

WarningsKept == \A s \in Sessions : sess'[s].warnings \in {sess[s].warnings, 0}

LEMMA WriteKeepsWarnings ==
    ASSUME TypeOK, NEW t \in Sessions, NEW d, d.warnings \in {sess[t].warnings, 0},
           UNCHANGED sess \/ SetDoc(t, d)
    PROVE  WarningsKept
BY DEF TypeOK, DocsOK, SetDoc, WarningsKept

LEMMA StatusKeepsWarnings ==
    ASSUME TypeOK, NEW t \in Sessions, NEW v,
           UNCHANGED sess \/ SetDoc(t, [sess[t] EXCEPT !.status = v])
    PROVE  WarningsKept
<1> DEFINE d == [sess[t] EXCEPT !.status = v]
<1>1. d.warnings = sess[t].warnings
  BY DEF TypeOK, DocsOK, SessionDoc
<1>2. UNCHANGED sess \/ SetDoc(t, d)
  OBVIOUS
<1> HIDE DEF d
<1> QED  BY <1>1, <1>2, WriteKeepsWarnings

LEMMA RoundKeepsWarnings ==
    ASSUME TypeOK, NEW t \in Sessions, NEW n,
           UNCHANGED sess \/ SetDoc(t, ToBehavioral(t, n)) \/ SetDoc(t, ToTechnical(t, n))
    PROVE  WarningsKept
<1>1. /\ ToBehavioral(t, n).warnings = sess[t].warnings
      /\ ToTechnical(t, n).warnings = sess[t].warnings
  BY DEF ToBehavioral, ToTechnical, TypeOK, DocsOK, SessionDoc
<1> QED  BY <1>1, WriteKeepsWarnings

LEMMA ResumeKeepsWarnings ==
    ASSUME TypeOK, NEW p \in Procs, Resume(p), ~ViolationCount(p)  PROVE WarningsKept
<1> DEFINE q == req[p]
           c == sess[q.s]
<1>0. CASE UNCHANGED sess
  BY <1>0 DEF WarningsKept
<1>1. CASE AdvanceBehavioral(p) \/ StartWrite(p) \/ TurnStart(p)
  <2>1. q.s \in Sessions
    BY <1>1, AtSession DEF AdvanceBehavioral, StartWrite, TurnStart, AtPc, NoSessionPCs
  <2> QED
    BY <1>1, <2>1, RoundKeepsWarnings DEF AdvanceBehavioral, StartWrite, TurnStart, WriteActive
<1>2. CASE AdvanceComplete(p) \/ EndComplete(p) \/ EndAbandon(p) \/ ViolationTerminate(p)
  <2>1. q.s \in Sessions
    BY <1>2, AtSession DEF AdvanceComplete, EndComplete, EndAbandon, ViolationTerminate, AtPc,
                           NoSessionPCs
  <2> QED
    BY <1>0, <1>2, <2>1, StatusKeepsWarnings
       DEF AdvanceComplete, EndComplete, EndAbandon, ViolationTerminate, CompleteSession,
           FinishIfActive
<1>3. CASE TurnEnd(p)
  <2>1. q.s \in Sessions
    BY <1>3, AtSession DEF TurnEnd, AtPc, NoSessionPCs
  <2>2. CASE CompleteSession(q.s)
    BY <2>1, <2>2, StatusKeepsWarnings DEF CompleteSession, FinishIfActive
  <2>3. CASE WriteActive(p, q.s, ToBehavioral(q.s, q.at + BehavioralMinutes), Idle)
    BY <2>1, <2>3, RoundKeepsWarnings DEF WriteActive
  <2> QED  BY <1>0, <1>3, <2>2, <2>3 DEF TurnEnd
<1>4. CASE CreateInsert(p)
  <2> DEFINE d == [NoDoc EXCEPT !.status = "created", !.user = q.user, !.grant = q.grant,
                                !.behavioral = q.behavioral, !.created = now]
  <2>1. q.s \in Sessions
    BY <1>4, AtSession DEF CreateInsert, AtPc, NoSessionPCs
  <2>2. d.warnings = 0
    BY DEF NoDoc
  <2>3. UNCHANGED sess \/ SetDoc(q.s, d)
    BY <1>4 DEF CreateInsert
  <2> HIDE DEF d
  <2> QED  BY <2>1, <2>2, <2>3, WriteKeepsWarnings
<1>5. CASE TurnVoice(p)
  <2> DEFINE d == [c EXCEPT !.voice = TRUE]
  <2>1. q.s \in Sessions /\ c \in SessionDoc
    BY <1>5, AtSession DEF TurnVoice, AtPc, NoSessionPCs
  <2>2. d.warnings = c.warnings
    BY <2>1 DEF SessionDoc
  <2>3. UNCHANGED sess \/ SetDoc(q.s, d)
    BY <1>5 DEF TurnVoice
  <2> HIDE DEF d
  <2> QED  BY <2>1, <2>2, <2>3, WriteKeepsWarnings
<1>6. ASSUME NEW v, NEW e, SetDoc(q.s, [c EXCEPT !.paused = v, !.ends = e])
                           \/ SetDoc(q.s, [c EXCEPT !.paused = v]),
             q.s \in Sessions
      PROVE  WarningsKept
  <2> DEFINE d1 == [c EXCEPT !.paused = v, !.ends = e]
             d2 == [c EXCEPT !.paused = v]
  <2>1. d1.warnings = c.warnings /\ d2.warnings = c.warnings
    BY <1>6 DEF TypeOK, DocsOK, SessionDoc
  <2>2. SetDoc(q.s, d1) \/ SetDoc(q.s, d2)
    BY <1>6
  <2> HIDE DEF d1, d2
  <2> QED  BY <1>6, <2>1, <2>2, WriteKeepsWarnings
<1>7. CASE AcknowledgeWrite(p) \/ ViolationPause(p)
  <2>1. q.s \in Sessions
    BY <1>7, AtSession DEF AcknowledgeWrite, ViolationPause, AtPc, NoSessionPCs
  <2> QED  BY <1>6, <1>7, <2>1 DEF AcknowledgeWrite, ViolationPause
<1> QED
  BY <1>0, <1>1, <1>2, <1>3, <1>4, <1>5, <1>7
     DEF Resume, docVars, Reread, CreateReserve, CreateLog, Refund, RefundLog, StartAgent,
         TurnHistory, TurnAgent, TurnReply, ReadHistory, LanguageHistory, LanguageAgent,
         EndCount, ViolationRead, ViolationInsert

LEMMA SweepKeepsWarnings ==
    ASSUME TypeOK, SweepStep  PROVE WarningsKept
<1>0. CASE UNCHANGED sess
  BY <1>0 DEF WarningsKept
<1>1. ASSUME NEW s \in Sessions, SweepAbandon(s) \/ SweepExpire(s)  PROVE WarningsKept
  BY <1>1, StatusKeepsWarnings DEF SweepAbandon, SweepExpire
<1> QED
  BY <1>0, <1>1 DEF SweepStep, SweepBegin, SweepFindCreated, SweepFindOld, SweepEnd, SweepStale,
                    docVars

-----------------------------------------------------------------------------
(* The steps, of the warnings                                               *)

\* With no new handler counting, no more warnings and no violation taken back,
\* what was backed stays so.
LEMMA BackedStays ==
    ASSUME TypeOK, WarningsBacked, WarningsKept, UNCHANGED violations,
           \A s \in Sessions : Counting(s)' \subseteq Counting(s)
    PROVE  WarningsBacked'
<1> SUFFICES ASSUME NEW s \in Sessions
             PROVE  sess'[s].warnings + Cardinality(Counting(s)') <= violations'[s]
  BY DEF WarningsBacked, Counting
<1> DEFINE n == Cardinality(Counting(s))
           m == Cardinality(Counting(s)')
           v == sess[s].warnings
           w == sess'[s].warnings
<1>1. sess[s].warnings + n <= violations[s]
  BY DEF WarningsBacked, Counting
<1>2. m <= n /\ m \in Nat /\ n \in Nat
  BY CountingFinite, FS_Subset, FS_CardinalityType
<1>3. v \in Nat /\ w \in {v, 0} /\ violations[s] \in Nat /\ violations'[s] = violations[s]
  BY DEF TypeOK, DocsOK, SessionDoc, WarningsKept
<1> HIDE DEF n, m, v, w
<1>4. v + n <= violations[s]
  BY <1>1 DEF v
<1>5. w + m <= violations'[s]
  BY <1>2, <1>3, <1>4
<1> QED  BY <1>5 DEF m, w

LEMMA ViolationInsertBacked ==
    ASSUME TypeOK, WarningsBacked, NEW p \in Procs, ViolationInsert(p)  PROVE WarningsBacked'
<1> DEFINE r == [req[p] EXCEPT !.pc = "violation_count"]
<1>0. PICK t \in Sessions : t = req[p].s
  BY AtSession DEF ViolationInsert, AtPc, NoSessionPCs
<1>1. req[p] \in Request
  BY DEF TypeOK, RequestsOK
<1>2. r.pc = "violation_count" /\ r.s = t
  BY <1>0, <1>1 DEF Request
<1>3. /\ req[p].pc = "violation_insert"
      /\ req'[p] = r /\ \A o \in Procs \ {p} : req'[o] = req[o]
  BY DEF ViolationInsert, AtPc, Go, TypeOK, RequestsOK
<1>4. UNCHANGED sess /\ violations' = [violations EXCEPT ![t] = @ + 1]
  BY <1>0 DEF ViolationInsert
<1> HIDE DEF r
<1>5. p \notin Counting(t) /\ Counting(t)' = Counting(t) \cup {p}
  BY <1>2, <1>3 DEF Counting, At
<1>6. \A s \in Sessions \ {t} : Counting(s)' = Counting(s)
  BY <1>2, <1>3 DEF Counting, At
<1> SUFFICES ASSUME NEW s \in Sessions
             PROVE  sess'[s].warnings + Cardinality(Counting(s)') <= violations'[s]
  BY DEF WarningsBacked, Counting
<1> DEFINE n == Cardinality(Counting(s))
           v == sess[s].warnings
<1>7. /\ v + n <= violations[s] /\ n \in Nat /\ v \in Nat /\ violations[s] \in Nat
  BY CountingFinite DEF WarningsBacked, Counting, TypeOK, DocsOK, SessionDoc
<1>8. CASE s = t
  <2>1. Cardinality(Counting(s)') = n + 1
    BY <1>5, <1>8, CountingFinite, FS_AddElement
  <2>2. violations'[s] = violations[s] + 1 /\ sess'[s].warnings = v
    BY <1>4, <1>8 DEF TypeOK, DocsOK
  <2> HIDE DEF n, v
  <2> QED  BY <1>7, <2>1, <2>2
<1>9. CASE s # t
  BY <1>4, <1>6, <1>7, <1>9 DEF TypeOK, DocsOK
<1> QED  BY <1>8, <1>9

LEMMA ViolationCountBacked ==
    ASSUME TypeOK, WarningsBacked, NEW p \in Procs, ViolationCount(p)  PROVE WarningsBacked'
<1> DEFINE q == req[p]
           d == [sess[q.s] EXCEPT !.warnings = sess[q.s].warnings + 1]
<1>0. PICK t \in Sessions : t = q.s
  BY AtSession DEF ViolationCount, AtPc, NoSessionPCs
<1>1. q \in Request /\ q.pc = "violation_count" /\ sess[t] \in SessionDoc
  BY DEF ViolationCount, AtPc, TypeOK, RequestsOK, DocsOK
<1>2. req'[p].pc # "violation_count" /\ \A o \in Procs \ {p} : req'[o] = req[o]
  <2>1. PICK r : req' = [req EXCEPT ![p] = r]
                 /\ \/ r = [q EXCEPT !.pc = "violation_terminate"]
                    \/ r = [q EXCEPT !.pc = "violation_pause"]
                    \/ r = [q EXCEPT !.pc = "turn_history", !.op = "turn"]
                    \/ r = Idle
    BY DEF ViolationCount, AfterViolation
  <2>2. r.pc # "violation_count"
    <3>1. /\ [q EXCEPT !.pc = "violation_terminate"].pc = "violation_terminate"
          /\ [q EXCEPT !.pc = "violation_pause"].pc = "violation_pause"
          /\ [q EXCEPT !.pc = "turn_history", !.op = "turn"].pc = "turn_history"
      BY <1>1 DEF Request
    <3>2. Idle.pc = "idle"
      BY DEF Idle
    <3> QED  BY <2>1, <3>1, <3>2
  <2> QED  BY <2>1, <2>2 DEF TypeOK, RequestsOK
<1>3. /\ UNCHANGED violations
      /\ \A s \in Sessions \ {t} : sess'[s] = sess[s]
      /\ sess'[t].warnings \in {sess[t].warnings, sess[t].warnings + 1}
  <2>1. UNCHANGED sess \/ SetDoc(t, d)
    BY <1>0 DEF ViolationCount
  <2>2. d.warnings = sess[t].warnings + 1
    BY <1>0, <1>1 DEF SessionDoc
  <2> HIDE DEF d
  <2> QED  BY <2>1, <2>2 DEF ViolationCount, SetDoc, TypeOK, DocsOK
<1>4. p \in Counting(t) /\ Counting(t)' = Counting(t) \ {p}
  BY <1>0, <1>1, <1>2 DEF Counting, At
<1>5. \A s \in Sessions \ {t} : Counting(s)' = Counting(s)
  BY <1>0, <1>1, <1>2 DEF Counting, At
<1> SUFFICES ASSUME NEW s \in Sessions
             PROVE  sess'[s].warnings + Cardinality(Counting(s)') <= violations'[s]
  BY DEF WarningsBacked, Counting
<1> DEFINE n == Cardinality(Counting(s))
           v == sess[s].warnings
<1>7. v + n <= violations[s] /\ n \in Nat /\ v \in Nat /\ violations[s] \in Nat
  BY CountingFinite DEF WarningsBacked, Counting, TypeOK, DocsOK, SessionDoc
<1>8. CASE s = t
  <2>1. Cardinality(Counting(s)') = n - 1
    BY <1>4, <1>8, CountingFinite, FS_RemoveElement
  <2>2. violations'[s] = violations[s] /\ sess'[s].warnings \in {v, v + 1}
    BY <1>3, <1>8
  <2> HIDE DEF n, v
  <2> QED  BY <1>7, <2>1, <2>2
<1>9. CASE s # t
  BY <1>3, <1>5, <1>7, <1>9
<1> QED  BY <1>8, <1>9

\* A step of a handler that inserts no violation leaves no new one to be counted.
LEMMA MovedCounts ==
    ASSUME NEW p \in Procs, Moved(p), ~ViolationInsert(p), NEW s \in Sessions
    PROVE  Counting(s)' \subseteq Counting(s)
BY DEF Moved, Counting, At

LEMMA ResumeBacked ==
    ASSUME TypeOK, Invariant, WarningsBacked, NEW p \in Procs, Resume(p)  PROVE WarningsBacked'
<1>1. CASE ViolationInsert(p)
  BY <1>1, ViolationInsertBacked
<1>2. CASE ViolationCount(p)
  BY <1>2, ViolationCountBacked
<1>3. CASE ~ViolationInsert(p) /\ ~ViolationCount(p)
  <2>1. WarningsKept
    BY <1>3, ResumeKeepsWarnings
  <2>2. UNCHANGED violations
    BY <1>3 DEF Resume, docVars, AdvanceBehavioral, AdvanceComplete, Reread, CreateReserve, CreateLog,
         CreateInsert, Refund, RefundLog, StartWrite, StartAgent, TurnStart, TurnVoice, TurnHistory,
         TurnAgent, TurnReply, TurnEnd, ReadHistory, LanguageHistory, LanguageAgent,
         AcknowledgeWrite, EndCount, EndComplete, EndAbandon, ViolationRead, ViolationTerminate,
         ViolationPause
  <2>3. CASE Moved(p)
    BY <1>3, <2>1, <2>2, <2>3, MovedCounts, BackedStays
  <2>4. CASE CreateInsert(p)
    <3>1. req'[p].pc # "violation_count" /\ \A o \in Procs \ {p} : req'[o] = req[o]
      BY <2>4 DEF CreateInsert, Return, Go, Idle, TypeOK, RequestsOK, Request
    <3>2. \A s \in Sessions : Counting(s)' \subseteq Counting(s)
      BY <3>1 DEF Counting, At
    <3> QED  BY <2>1, <2>2, <3>2, BackedStays
  <2>5. ASSUME NEW t \in Sessions, CreateReserve(p, t)  PROVE WarningsBacked'
    <3>1. req'[p].pc # "violation_count" /\ \A o \in Procs \ {p} : req'[o] = req[o]
      BY <2>5 DEF CreateReserve, Return, Idle, TypeOK, RequestsOK, Request
    <3>2. \A s \in Sessions : Counting(s)' \subseteq Counting(s)
      BY <3>1 DEF Counting, At
    <3> QED  BY <2>1, <2>2, <3>2, BackedStays
  <2> QED
    BY <1>3, <2>3, <2>4, <2>5, AdvanceBehavioralMoves, AdvanceCompleteMoves, RereadMoves,
       CreateLogMoves, RefundMoves, QuietMoves, StartMoves, TurnVoiceMoves, TurnEndMoves,
       AcknowledgeWriteMoves, EndMoves, ViolationTerminateMoves, ViolationPauseMoves DEF Resume
<1> QED  BY <1>1, <1>2, <1>3

LEMMA ClientCallEnters ==
    ASSUME NEW p \in Requests, ClientCall(p)
    PROVE  req[p].pc = "idle" /\ UNCHANGED <<sess, violations>>
<1>1. ASSUME NEW q, Enters(p, q)  PROVE UNCHANGED <<sess, violations>>
  BY <1>1 DEF Enters, docVars
<1>2. ASSUME NEW op, Calls(p, op)  PROVE req[p].pc = "idle"
  BY <1>2 DEF Calls, Idle
<1>3. ASSUME NEW u \in Users, NEW g \in Grants \cup {NoGrant}, NEW b \in BOOLEAN,
             Create(p, u, g, b)
      PROVE  (\E op : Calls(p, op)) /\ (\E q : Enters(p, q))
  BY <1>3, Zenon DEF Create
<1>4. ASSUME NEW s \in Sessions,
             \/ Start(p, s) \/ TurnRequest(p, s) \/ ChangeLanguage(p, s) \/ GetStatus(p, s)
             \/ Acknowledge(p, s) \/ EndEarly(p, s) \/ RecordViolation(p, s)
      PROVE  (\E op : Calls(p, op)) /\ (\E q : Enters(p, q))
  BY <1>4, Zenon DEF Start, TurnRequest, ChangeLanguage, GetStatus, Acknowledge, EndEarly,
                     RecordViolation
<1> QED  BY <1>1, <1>2, <1>3, <1>4 DEF ClientCall

LEMMA SweepStores ==
    ASSUME SweepStep  PROVE UNCHANGED violations
BY DEF SweepStep, SweepBegin, SweepFindCreated, SweepFindOld, SweepEnd, SweepStale,
       SweepAbandon, SweepExpire, docVars

LEMMA OthersBacked ==
    ASSUME TypeOK, Invariant, WarningsBacked,
           \/ \E p \in Requests : ClientCall(p)
           \/ SweepStep \/ Tick \/ Crash \/ (\E g \in Grants : GrantSessions(g)) \/ UNCHANGED vars
    PROVE  WarningsBacked'
<1>1. UNCHANGED violations
  BY ClientCallEnters, SweepStores DEF Tick, Crash, GrantSessions, vars, docVars
<1>2. CASE \E p \in Requests : ClientCall(p)
  <2>1. PICK p \in Requests : ClientCall(p)
    BY <1>2
  <2>2. p \in Procs /\ Moved(p) /\ UNCHANGED sess /\ ~ViolationInsert(p)
    BY <2>1, ClientCallMoves, ClientCallEnters DEF Procs, ViolationInsert, AtPc
  <2> QED  BY <1>1, <2>2, MovedCounts, BackedStays DEF WarningsKept
<1>3. CASE SweepStep
  <2>1. Sweeper \in Procs /\ Moved(Sweeper) /\ WarningsKept
    BY <1>3, SweepMoves, SweepKeepsWarnings DEF Procs
  <2>2. ~ViolationInsert(Sweeper)
    <3>1. SweepBegin => req[Sweeper].pc = "idle"
      BY DEF SweepBegin, Idle
    <3>2. SweepFindCreated \/ SweepFindOld \/ SweepEnd => req[Sweeper].pc # "violation_insert"
      BY DEF SweepFindCreated, SweepFindOld, SweepEnd, AtPc
    <3>3. \A s \in Sessions : SweepStale(s) \/ SweepAbandon(s) \/ SweepExpire(s) =>
                                 req[Sweeper].pc # "violation_insert"
      BY DEF SweepStale, SweepAbandon, SweepExpire, AtPc
    <3> QED  BY <1>3, <3>1, <3>2, <3>3 DEF SweepStep, ViolationInsert, AtPc
  <2> QED  BY <1>1, <2>1, <2>2, MovedCounts, BackedStays
<1>4. CASE UNCHANGED <<sess, req>>
  <2>1. \A s \in Sessions : Counting(s)' = Counting(s)
    BY <1>4 DEF Counting, At
  <2> QED  BY <1>1, <1>4, <2>1, BackedStays DEF WarningsKept
<1>5. CASE Crash
  <2>1. \A s \in Sessions : Counting(s)' = {}
    BY <1>5 DEF Crash, Counting, At, Idle
  <2>2. UNCHANGED sess
    BY <1>5 DEF Crash, docVars
  <2> QED  BY <1>1, <2>1, <2>2, BackedStays DEF WarningsKept
<1> QED  BY <1>2, <1>3, <1>4, <1>5 DEF Tick, GrantSessions, vars, docVars

LEMMA InitBacked ==
    ASSUME Init  PROVE WarningsBacked
<1> SUFFICES ASSUME NEW s \in Sessions
             PROVE  sess[s].warnings + Cardinality(Counting(s)) <= violations[s]
  BY DEF WarningsBacked, Counting
<1>1. Counting(s) = {}
  BY DEF Init, Counting, At, Idle
<1>2. sess[s].warnings = 0 /\ violations[s] = 0
  BY DEF Init, NoDoc
<1> QED  BY <1>1, <1>2, FS_EmptySet

\* Every warning counted is backed by a stored violation of its own, for any
\* number of concurrent reports, late writes and restarts.
THEOREM WarningsBackedInvariant == Spec => []WarningsBacked
<1>1. Init => WarningsBacked
  BY InitBacked
<1>2. TypeOK /\ Invariant /\ WarningsBacked /\ [Next]_vars => WarningsBacked'
  BY ResumeBacked, OthersBacked DEF Next
<1> QED  BY <1>1, <1>2, InvariantHolds, PTL DEF Spec

-----------------------------------------------------------------------------
(* When the technical round may end                                         *)

\* A technical round never ends sooner than its length after the creation.
DocTimed(d) ==
    /\ d.created <= now
    /\ d.ends["technical"] # Unset => d.ends["technical"] >= d.created + TechnicalMinutes

\* What a handler has decided from a document it read is still justified.
HandlerTimed(q, docs) ==
    /\ q.pc \in {"start_write", "turn_start"} => q.at >= docs[q.s].created
    /\ q.pc = "advance_behavioral" =>
           docs[q.s].behavioral /\ now > docs[q.s].created + TechnicalMinutes
    /\ q.pc = "acknowledge_write" /\ q.round = "technical" /\ q.ends # Unset =>
           q.ends >= docs[q.s].created + TechnicalMinutes
    /\ q.pc = "acknowledge_write" /\ q.status = "technical_in_progress" /\ q.at # Unset =>
           q.at >= docs[q.s].created + TechnicalMinutes

DocsTimed == \A s \in Sessions : DocTimed(sess[s])
HandlersTimed == \A p \in Procs : HandlerTimed(req[p], sess)
Timed == DocsTimed /\ HandlersTimed

\* A document the cursor has read is the session's, as it was.
SeenTimed ==
    \A s \in Sessions :
        LET d == req[Sweeper].seen[s]
        IN  d.status # "none" =>
                /\ d.created = sess[s].created /\ d.behavioral = sess[s].behavioral
                /\ d.ends["technical"] # Unset =>
                       d.ends["technical"] >= d.created + TechnicalMinutes

-----------------------------------------------------------------------------
(* What writes do to the rounds                                             *)

\* The technical round of s may give way to the behavioral one.
Justified(s) ==
    /\ sess[s].behavioral
    /\ \/ now > sess[s].created + TechnicalMinutes
       \/ scored[s]["technical"] >= MinQuestions["technical"]

RoundJustified(s, d) ==
    /\ sess[s].round = "behavioral" => d.round = "behavioral"
    /\ sess[s].round = "technical" /\ d.round = "behavioral" => Justified(s)

SameBirth(s, d) == d.created = sess[s].created /\ d.behavioral = sess[s].behavioral

FairDoc(s, d) ==
    /\ DocTimed(d) /\ RoundJustified(s, d)
    /\ Exists(s) => SameBirth(s, d)

FairWrite == \A s \in Sessions : FairDoc(s, sess'[s])

LEMMA FairSame ==
    ASSUME DocsTimed, NEW s \in Sessions,
           NEW d, d.created = sess[s].created, d.behavioral = sess[s].behavioral,
           d.ends = sess[s].ends, d.round = sess[s].round
    PROVE  FairDoc(s, d)
BY DEF DocsTimed, DocTimed, FairDoc, RoundJustified, SameBirth

LEMMA FairOne ==
    ASSUME TypeOK, DocsTimed, NEW t \in Sessions, NEW d, FairDoc(t, d),
           UNCHANGED sess \/ SetDoc(t, d)
    PROVE  FairWrite
<1> SUFFICES ASSUME NEW s \in Sessions  PROVE FairDoc(s, sess'[s])
  BY DEF FairWrite
<1>1. sess'[s] = sess[s] \/ (s = t /\ sess'[s] = d)
  BY DEF SetDoc, TypeOK, DocsOK
<1> QED  BY <1>1, FairSame

LEMMA FairUnchanged ==
    ASSUME DocsTimed, UNCHANGED sess  PROVE FairWrite
BY FairSame DEF FairWrite

LEMMA FairStatus ==
    ASSUME TypeOK, DocsTimed, NEW t \in Sessions, NEW v,
           UNCHANGED sess \/ SetDoc(t, [sess[t] EXCEPT !.status = v])
    PROVE  FairWrite
<1> DEFINE d == [sess[t] EXCEPT !.status = v]
<1>1. /\ d.created = sess[t].created /\ d.behavioral = sess[t].behavioral
      /\ d.ends = sess[t].ends /\ d.round = sess[t].round
  BY DEF TypeOK, DocsOK, SessionDoc
<1>2. UNCHANGED sess \/ SetDoc(t, d)
  OBVIOUS
<1> HIDE DEF d
<1> QED  BY <1>1, <1>2, FairSame, FairOne

\* The technical round starts no earlier than the session.
LEMMA FairTechnical ==
    ASSUME TypeOK, DocsTimed, NEW t \in Sessions, NEW n \in Nat, n >= sess[t].created,
           UNCHANGED sess \/ SetDoc(t, ToTechnical(t, n))
    PROVE  FairWrite
<1> DEFINE d == ToTechnical(t, n)
<1>1. /\ d.created = sess[t].created /\ d.behavioral = sess[t].behavioral
      /\ d.round = sess[t].round /\ d.ends["technical"] = n + TechnicalMinutes
  BY DEF ToTechnical, TypeOK, DocsOK, SessionDoc, Rounds
<1>2. sess[t].created \in Nat /\ TechnicalMinutes \in Nat
  BY ConstantsAssumption DEF TypeOK, DocsOK, SessionDoc
<1> HIDE DEF d
<1>3. FairDoc(t, d)
  BY <1>1, <1>2 DEF FairDoc, DocTimed, DocsTimed, RoundJustified, SameBirth
<1> QED  BY <1>3, FairOne DEF d

LEMMA FairBehavioral ==
    ASSUME TypeOK, DocsTimed, NEW t \in Sessions, NEW n \in Nat, Justified(t),
           UNCHANGED sess \/ SetDoc(t, ToBehavioral(t, n))
    PROVE  FairWrite
<1> DEFINE d == ToBehavioral(t, n)
<1>1. /\ d.created = sess[t].created /\ d.behavioral = sess[t].behavioral
      /\ d.round = "behavioral" /\ d.ends["technical"] = sess[t].ends["technical"]
  BY DEF ToBehavioral, TypeOK, DocsOK, SessionDoc, Rounds
<1> HIDE DEF d
<1>2. FairDoc(t, d)
  BY <1>1 DEF FairDoc, DocTimed, DocsTimed, RoundJustified, SameBirth
<1> QED  BY <1>2, FairOne DEF d

LEMMA CreateInsertFair ==
    ASSUME TypeOK, Invariant, Timed, NEW p \in Procs, CreateInsert(p)  PROVE FairWrite
<1> DEFINE q == req[p]
           d == [NoDoc EXCEPT !.status = "created", !.user = q.user, !.grant = q.grant,
                              !.behavioral = q.behavioral, !.created = now]
<1>1. q.s \in Sessions /\ ~Exists(q.s)
  BY AtSession DEF CreateInsert, AtPc, NoSessionPCs, Invariant, HandlersFit, HandlerFits,
                   ReservedPCs, Exists
<1>2. sess[q.s].round = "technical"
  BY <1>1 DEF Invariant, FreshIsEmpty, NoDoc
<1>3. d.created = now /\ d.round = "technical" /\ d.ends["technical"] = Unset
  BY DEF NoDoc, Rounds
<1>4. UNCHANGED sess \/ SetDoc(q.s, d)
  BY DEF CreateInsert
<1>5. now \in Nat
  BY DEF TypeOK
<1> HIDE DEF d
<1>6. FairDoc(q.s, d)
  BY <1>1, <1>2, <1>3, <1>5 DEF FairDoc, DocTimed, RoundJustified
<1> QED  BY <1>1, <1>4, <1>6, FairOne DEF Timed

LEMMA AcknowledgeWriteFair ==
    ASSUME TypeOK, Invariant, Timed, NEW p \in Procs, AcknowledgeWrite(p)  PROVE FairWrite
<1> DEFINE q == req[p]
           c == sess[q.s]
           ends == IF q.ends = Unset THEN c.ends ELSE [c.ends EXCEPT ![q.round] = q.ends]
           d == [c EXCEPT !.paused = Unset, !.ends = ends]
<1>1. q \in Request /\ q.s \in Sessions /\ c \in SessionDoc
  BY ExistsHere DEF AcknowledgeWrite, AtPc, ReaderPCs
<1>2. d.created = c.created /\ d.behavioral = c.behavioral /\ d.round = c.round /\ d.ends = ends
  BY <1>1 DEF SessionDoc
<1>3. \/ ends["technical"] = c.ends["technical"]
      \/ q.round = "technical" /\ q.ends # Unset /\ ends["technical"] = q.ends
  BY <1>1 DEF SessionDoc, Rounds, Request
<1>4. q.round = "technical" /\ q.ends # Unset => q.ends >= c.created + TechnicalMinutes
  BY DEF Timed, HandlersTimed, HandlerTimed, AcknowledgeWrite, AtPc
<1>5. DocTimed(c)
  BY <1>1 DEF Timed, DocsTimed
<1>6. SetDoc(q.s, d)
  BY DEF AcknowledgeWrite
<1> HIDE DEF ends, d
<1>7. FairDoc(q.s, d)
  BY <1>2, <1>3, <1>4, <1>5 DEF FairDoc, DocTimed, RoundJustified, SameBirth
<1> QED  BY <1>1, <1>6, <1>7, FairOne DEF Timed

\* The handler ends a round that has enough questions, or the clock ended it.
LEMMA RoundChangeFair ==
    ASSUME TypeOK, Invariant, Timed, NEW p \in Procs,
           AdvanceBehavioral(p) \/ StartWrite(p) \/ TurnStart(p) \/ TurnEnd(p)
    PROVE  FairWrite
<1> DEFINE q == req[p]
<1>0. /\ q \in Request /\ q.s \in Sessions /\ sess[q.s] \in SessionDoc
      /\ HandlerTimed(q, sess)
  BY ExistsHere DEF AdvanceBehavioral, StartWrite, TurnStart, TurnEnd, AtPc, ReaderPCs,
                    Timed, HandlersTimed
<1>1. q.ends \in Nat /\ q.at \in Nat /\ q.at + BehavioralMinutes \in Nat
  BY <1>0, ConstantsAssumption DEF Request
<1>2. CASE UNCHANGED sess
  BY <1>2, FairUnchanged DEF Timed
<1>3. CASE AdvanceBehavioral(p)
  <2>1. Justified(q.s)
    BY <1>0, <1>3 DEF HandlerTimed, AdvanceBehavioral, AtPc, Justified
  <2> QED
    BY <1>0, <1>1, <1>3, <2>1, FairBehavioral DEF AdvanceBehavioral, WriteActive, Timed
<1>4. CASE StartWrite(p) \/ TurnStart(p)
  <2>1. q.at >= sess[q.s].created
    BY <1>0, <1>4 DEF HandlerTimed, StartWrite, TurnStart, AtPc
  <2> QED
    BY <1>0, <1>1, <1>4, <2>1, FairTechnical DEF StartWrite, TurnStart, WriteActive, Timed
<1>5. CASE TurnEnd(p)
  <2>1. CASE CompleteSession(q.s)
    BY <1>0, <2>1, FairStatus DEF CompleteSession, FinishIfActive, Timed
  <2>2. CASE /\ EnoughQuestions(q.s, q.round) /\ q.round = "technical" /\ sess[q.s].behavioral
             /\ WriteActive(p, q.s, ToBehavioral(q.s, q.at + BehavioralMinutes), Idle)
    <3>1. Justified(q.s)
      BY <2>2 DEF EnoughQuestions, Justified
    <3> QED  BY <1>0, <1>1, <2>2, <3>1, FairBehavioral DEF WriteActive, Timed
  <2> QED  BY <1>2, <1>5, <2>1, <2>2 DEF TurnEnd
<1> QED  BY <1>3, <1>4, <1>5

LEMMA ResumeFair ==
    ASSUME TypeOK, Invariant, Timed, NEW p \in Procs, Resume(p)  PROVE FairWrite
<1> DEFINE q == req[p]
           c == sess[q.s]
<1> USE DEF Timed
<1>0. CASE UNCHANGED sess
  BY <1>0, FairUnchanged
<1>1. CASE AdvanceBehavioral(p) \/ StartWrite(p) \/ TurnStart(p) \/ TurnEnd(p)
  BY <1>1, RoundChangeFair
<1>2. CASE AdvanceComplete(p) \/ EndComplete(p) \/ EndAbandon(p) \/ ViolationTerminate(p)
  <2>1. q.s \in Sessions
    BY <1>2, AtSession DEF AdvanceComplete, EndComplete, EndAbandon, ViolationTerminate, AtPc,
                           NoSessionPCs
  <2> QED
    BY <1>0, <1>2, <2>1, FairStatus
       DEF AdvanceComplete, EndComplete, EndAbandon, ViolationTerminate, CompleteSession,
           FinishIfActive
<1>3. CASE CreateInsert(p) \/ AcknowledgeWrite(p)
  BY <1>3, CreateInsertFair, AcknowledgeWriteFair
<1>4. CASE TurnVoice(p) \/ ViolationCount(p) \/ ViolationPause(p)
  <2> DEFINE v == [c EXCEPT !.voice = TRUE]
             w == [c EXCEPT !.warnings = c.warnings + 1]
             n == IF c.paused = Unset THEN now ELSE c.paused
             z == [c EXCEPT !.paused = n]
  <2>1. q.s \in Sessions /\ c \in SessionDoc
    BY <1>4, AtSession DEF TurnVoice, ViolationCount, ViolationPause, AtPc, NoSessionPCs
  <2>2. \A d \in {v, w, z} : /\ d.created = c.created /\ d.behavioral = c.behavioral
                             /\ d.ends = c.ends /\ d.round = c.round
    <3> HIDE DEF n
    <3> QED  BY <2>1 DEF SessionDoc
  <2>3. UNCHANGED sess \/ SetDoc(q.s, v) \/ SetDoc(q.s, w) \/ SetDoc(q.s, z)
    BY <1>4 DEF TurnVoice, ViolationCount, ViolationPause
  <2> HIDE DEF v, w, z
  <2> QED  BY <2>1, <2>2, <2>3, FairSame, FairOne
<1> QED
  BY <1>0, <1>1, <1>2, <1>3, <1>4
     DEF Resume, docVars, Reread, CreateReserve, CreateLog, Refund, RefundLog, StartAgent,
         TurnHistory, TurnAgent, TurnReply, ReadHistory, LanguageHistory, LanguageAgent,
         EndCount, ViolationRead, ViolationInsert

LEMMA SweepFair ==
    ASSUME TypeOK, DocsTimed, SweepStep  PROVE FairWrite
<1>0. CASE UNCHANGED sess
  BY <1>0, FairUnchanged
<1>1. ASSUME NEW s \in Sessions, SweepAbandon(s) \/ SweepExpire(s)  PROVE FairWrite
  BY <1>1, FairStatus DEF SweepAbandon, SweepExpire
<1> QED
  BY <1>0, <1>1 DEF SweepStep, SweepBegin, SweepFindCreated, SweepFindOld, SweepEnd, SweepStale,
                    docVars

-----------------------------------------------------------------------------
(* What handlers carry                                                      *)

Timeless(q) == q.pc \notin {"start_write", "turn_start", "advance_behavioral", "acknowledge_write"}

\* q carries nothing, or the time at which it read session s.
Leads(q, s) == Timeless(q) \/ (q.pc = "turn_start" /\ q.s = s /\ q.at = now)

\* The other handlers hold sessions that exist, whose birth no write changes.
LEMMA StepTimed ==
    ASSUME TypeOK, Invariant, Timed, FairWrite, UNCHANGED now, NEW p \in Procs,
           \A o \in Procs \ {p} : req'[o] = req[o], HandlerTimed(req'[p], sess')
    PROVE  Timed'
<1>1. DocsTimed'
  BY DEF FairWrite, FairDoc, DocsTimed, DocTimed
<1>2. ASSUME NEW o \in Procs, o # p  PROVE HandlerTimed(req'[o], sess')
  <2> DEFINE q == req[o]
  <2>1. q = req'[o] /\ HandlerTimed(q, sess)
    BY <1>2 DEF Timed, HandlersTimed
  <2>2. CASE q.pc \in ReaderPCs
    <3>1. q.s \in Sessions /\ SameBirth(q.s, sess'[q.s])
      BY <2>2, ExistsHere DEF FairWrite, FairDoc
    <3> HIDE DEF q
    <3> QED  BY <2>1, <3>1 DEF HandlerTimed, SameBirth
  <2>3. CASE q.pc \notin ReaderPCs
    BY <2>1, <2>3 DEF HandlerTimed, ReaderPCs
  <2> QED  BY <2>2, <2>3
<1>3. HandlersTimed'
  <2> SUFFICES ASSUME NEW o \in Procs  PROVE HandlerTimed(req[o], sess)'
    BY DEF HandlersTimed
  <2> QED  BY <1>2 DEF HandlerTimed
<1> QED  BY <1>1, <1>3 DEF Timed

LEMMA LeadsTimed ==
    ASSUME FairWrite, NEW s \in Sessions, NEW q, Leads(q, s)  PROVE HandlerTimed(q, sess')
<1>1. sess'[s].created <= now
  BY DEF FairWrite, FairDoc, DocTimed
<1> QED  BY <1>1 DEF Leads, Timeless, HandlerTimed

LEMMA ContinueLeads ==
    ASSUME NEW q \in Request, NEW status, NEW round, NEW voice
    PROVE  Leads(Continue(q, status, round, voice), q.s)
<1> DEFINE C == Continue(q, status, round, voice)
<1>1. CASE q.op = "turn"
  <2> DEFINE X1 == [q EXCEPT !.pc = "turn_start", !.round = round, !.at = now, !.ends = 0,
                             !.voice = voice]
             X2 == [q EXCEPT !.pc = "turn_voice", !.round = round, !.at = now, !.ends = 0,
                             !.voice = voice]
  <2>1. C \in {Idle, X1, X2}
    BY <1>1 DEF Continue
  <2>2. X1.pc = "turn_start" /\ X1.s = q.s /\ X1.at = now /\ X2.pc = "turn_voice"
    BY DEF Request
  <2>3. Idle.pc = "idle"
    BY DEF Idle
  <2> QED  BY <2>1, <2>2, <2>3 DEF Leads, Timeless
<1>2. CASE q.op # "turn"
  <2>1. /\ [q EXCEPT !.pc = "create_reserve", !.s = NoSession, !.ends = 0, !.voice = FALSE].pc
              = "create_reserve"
        /\ [q EXCEPT !.pc = "language_history", !.round = round, !.at = now, !.ends = 0,
                     !.voice = voice].pc = "language_history"
        /\ [Idle EXCEPT !.pc = "end_count", !.op = "end", !.s = q.s].pc = "end_count"
        /\ [Idle EXCEPT !.pc = "violation_insert", !.op = "violation", !.s = q.s].pc
              = "violation_insert"
        /\ [q EXCEPT !.pc = "violation_insert", !.ends = 0].pc = "violation_insert"
        /\ [q EXCEPT !.pc = "turn_history", !.op = "turn", !.ends = 0].pc = "turn_history"
        /\ [q EXCEPT !.pc = "sweep_stale", !.s = NoSession, !.ends = 0, !.voice = FALSE].pc
              = "sweep_stale"
        /\ Idle.pc = "idle"
    BY DEF Request, Idle
  <2>2. C.pc \in {"create_reserve", "language_history", "end_count", "violation_insert",
                  "turn_history", "sweep_stale", "idle"}
    BY <1>2, <2>1 DEF Continue
  <2> QED  BY <2>2 DEF Leads, Timeless
<1> QED  BY <1>1, <1>2

\* A transition that is due by a document of the session is decided for good.
LEMMA AdvanceTimed ==
    ASSUME TypeOK, FairWrite, UNCHANGED sess, NEW q \in Request, q.s \in Sessions,
           NEW d \in SessionDoc,
           d.status # "none" =>
                /\ d.created = sess[q.s].created /\ d.behavioral = sess[q.s].behavioral
                /\ d.ends["technical"] # Unset =>
                       d.ends["technical"] >= d.created + TechnicalMinutes
    PROVE  HandlerTimed(Advance(q, d), sess')
<1>1. CASE Due(d.status, d.ends, d.paused)
  <2> DEFINE X(pc) == [q EXCEPT !.ends = now + BehavioralMinutes, !.voice = d.voice, !.pc = pc]
  <2>1. \/ /\ Advance(q, d) = X("advance_behavioral")
           /\ d.status = "technical_in_progress" /\ d.behavioral
        \/ Advance(q, d) = X("advance_complete")
    BY <1>1 DEF Advance
  <2>2. \A pc \in {"advance_behavioral", "advance_complete"} : X(pc).pc = pc /\ X(pc).s = q.s
    BY DEF Request
  <2>4. /\ d.created \in Nat /\ TechnicalMinutes \in Nat /\ now \in Nat
        /\ d.ends["technical"] \in Nat
    BY ConstantsAssumption DEF SessionDoc, TypeOK, Rounds
  <2>5. d.status = "technical_in_progress" => now > d.created + TechnicalMinutes
    BY <1>1, <2>4 DEF Due
  <2> HIDE DEF X
  <2> QED  BY <2>1, <2>2, <2>5 DEF HandlerTimed
<1>2. CASE ~Due(d.status, d.ends, d.paused)
  <2>1. Leads(Advance(q, d), q.s)
    BY <1>2, ContinueLeads DEF Advance
  <2> QED  BY <2>1, LeadsTimed
<1> QED  BY <1>1, <1>2

LEMMA ReadTimed ==
    ASSUME TypeOK, DocsTimed, FairWrite, UNCHANGED sess, NEW q \in Request, q.s \in Sessions
    PROVE  HandlerTimed(Read(q), sess')
<1>1. sess[q.s] \in SessionDoc /\ DocTimed(sess[q.s])
  BY DEF TypeOK, DocsOK, DocsTimed
<1> QED  BY <1>1, AdvanceTimed DEF Read, DocTimed

LEMMA RaiseTimeless == ASSUME NEW q \in Request  PROVE Timeless(Raise(q))
BY DEF Raise, Timeless, Request, Idle

LEMMA AfterViolationTimeless ==
    ASSUME NEW q \in Request  PROVE Timeless(AfterViolation(q))
BY DEF AfterViolation, Timeless, Request, Idle

LEMMA TimelessTimed == ASSUME NEW q, Timeless(q), NEW docs  PROVE HandlerTimed(q, docs)
BY DEF Timeless, HandlerTimed

LEMMA AcknowledgeWriteTimed ==
    ASSUME TypeOK, Invariant, Timed, FairWrite, NEW p \in Procs, AcknowledgeWrite(p)
    PROVE  HandlerTimed(req'[p], sess')
<1> DEFINE q == req[p]
           X(pc) == [Idle EXCEPT !.op = "acknowledge", !.s = q.s,
                                 !.ends = now + BehavioralMinutes, !.pc = pc]
<1>0. /\ q \in Request /\ q.s \in Sessions /\ Exists(q.s)
      /\ sess[q.s].created \in Nat /\ HandlerTimed(q, sess)
  BY ExistsHere DEF AcknowledgeWrite, AtPc, ReaderPCs, SessionDoc, Timed, HandlersTimed
<1>1. SameBirth(q.s, sess'[q.s])
  BY <1>0 DEF FairWrite, FairDoc
<1>2. \A pc \in {"advance_behavioral", "advance_complete"} : X(pc).pc = pc /\ X(pc).s = q.s
  BY DEF Idle
<1>3. \/ /\ req'[p] = X("advance_behavioral")
         /\ q.at # Unset /\ now > q.at /\ q.status = "technical_in_progress"
         /\ sess[q.s].behavioral
      \/ req'[p] = X("advance_complete")
      \/ req'[p] = Idle
  BY DEF AcknowledgeWrite, TypeOK, RequestsOK
<1>4. q.status = "technical_in_progress" /\ q.at # Unset =>
         q.at >= sess[q.s].created + TechnicalMinutes
  BY <1>0 DEF HandlerTimed, AcknowledgeWrite, AtPc
<1>5. q.at \in Nat /\ now \in Nat /\ TechnicalMinutes \in Nat /\ Idle.pc = "idle"
  BY <1>0, ConstantsAssumption DEF Request, TypeOK, Idle
<1> HIDE DEF X, q
<1> QED  BY <1>0, <1>1, <1>2, <1>3, <1>4, <1>5 DEF HandlerTimed, SameBirth

LEMMA ResumeHandlerTimed ==
    ASSUME TypeOK, Invariant, Timed, FairWrite, NEW p \in Procs, Resume(p)
    PROVE  HandlerTimed(req'[p], sess')
<1> DEFINE q == req[p]
<1>0. q \in Request /\ Timeless(Idle)
  BY AtSession DEF Timeless, Idle
<1>1. ASSUME NEW r, req' = [req EXCEPT ![p] = r], Timeless(r) \/ (q.s \in Sessions /\ Leads(r, q.s))
      PROVE  HandlerTimed(req'[p], sess')
  <2>1. req'[p] = r
    BY <1>1 DEF TypeOK, RequestsOK
  <2> QED  BY <1>1, <2>1, LeadsTimed, TimelessTimed
<1>2. ASSUME NEW pc \in PCs, Go(p, pc),
             pc \notin {"start_write", "turn_start", "advance_behavioral", "acknowledge_write"}
      PROVE  HandlerTimed(req'[p], sess')
  <2>1. [q EXCEPT !.pc = pc].pc = pc
    BY <1>0 DEF Request
  <2> QED  BY <1>1, <1>2, <2>1 DEF Go, Timeless
<1>3. CASE AdvanceBehavioral(p) \/ Reread(p)
  <2>1. q.s \in Sessions
    BY <1>3, AtSession DEF AdvanceBehavioral, Reread, AtPc, NoSessionPCs
  <2> QED
    BY <1>0, <1>1, <1>3, <2>1, ContinueLeads, RaiseTimeless
       DEF AdvanceBehavioral, Reread, WriteActive
<1>4. CASE StartWrite(p) \/ TurnStart(p)
  <2>1. /\ Timeless([q EXCEPT !.pc = "start_agent", !.at = 0])
        /\ Timeless([q EXCEPT !.pc = "turn_voice"])
    BY <1>0 DEF Request, Timeless
  <2> QED  BY <1>0, <1>1, <1>4, <2>1, RaiseTimeless DEF StartWrite, TurnStart, WriteActive
<1>5. CASE TurnEnd(p)
  BY <1>0, <1>1, <1>5, RaiseTimeless DEF TurnEnd, WriteActive, Return
<1>6. CASE AcknowledgeWrite(p)
  BY <1>6, AcknowledgeWriteTimed
<1>7. CASE ViolationRead(p)
  <2>1. q.s \in Sessions
    BY <1>7, AtSession DEF ViolationRead, AtPc, NoSessionPCs
  <2>2. UNCHANGED sess /\ req'[p] = Read(q)
    BY <1>7 DEF ViolationRead, docVars, TypeOK, RequestsOK
  <2> QED  BY <1>0, <2>1, <2>2, ReadTimed DEF Timed
<1>8. CASE ViolationCount(p) \/ ViolationTerminate(p) \/ ViolationPause(p)
  <2>1. /\ Timeless([q EXCEPT !.pc = "violation_terminate"])
        /\ Timeless([q EXCEPT !.pc = "violation_pause"])
    BY <1>0 DEF Request, Timeless
  <2> QED
    BY <1>0, <1>1, <1>8, <2>1, AfterViolationTimeless
       DEF ViolationCount, ViolationTerminate, ViolationPause
<1>9. CASE EndAbandon(p) \/ RefundLog(p)
  <2>1. EndAbandon(p) => req'[p].pc \in {"refund", "idle"}
    BY <1>0 DEF EndAbandon, Return, Idle, TypeOK, RequestsOK, Request
  <2>2. RefundLog(p) => req'[p].pc \in {"sweep_created", "idle"}
    BY <1>0 DEF RefundLog, Return, Idle, TypeOK, RequestsOK, Request
  <2>3. Timeless(req'[p])
    BY <1>9, <2>1, <2>2 DEF Timeless
  <2> QED  BY <2>3, TimelessTimed
<1>10. CASE \E s \in Sessions : CreateReserve(p, s)
  <2>1. PICK s \in Sessions : CreateReserve(p, s)
    BY <1>10
  <2>2. /\ Timeless([q EXCEPT !.pc = "create_insert", !.s = s])
        /\ Timeless([q EXCEPT !.pc = "create_log", !.s = s])
    BY <1>0 DEF Request, Timeless
  <2>3. \/ req' = [req EXCEPT ![p] = [q EXCEPT !.pc = "create_insert", !.s = s]]
        \/ req' = [req EXCEPT ![p] = [q EXCEPT !.pc = "create_log", !.s = s]]
        \/ req' = [req EXCEPT ![p] = Idle]
    BY <2>1 DEF CreateReserve, Return
  <2> HIDE DEF q
  <2> QED  BY <1>0, <1>1, <2>2, <2>3
<1>11. CASE TurnVoice(p) \/ TurnHistory(p) \/ LanguageHistory(p)
  <2>1. TurnVoice(p) => req'[p].pc \in {"turn_history", "idle", "violation_read"}
    BY <1>0 DEF TurnVoice, Go, Return, Idle, TypeOK, RequestsOK, Request
  <2>2. /\ TurnHistory(p) => req'[p].pc = "turn_agent"
        /\ LanguageHistory(p) => req'[p].pc = "language_agent"
    BY <1>0 DEF TurnHistory, LanguageHistory, ReadHistory, TypeOK, RequestsOK, Request
  <2>3. Timeless(req'[p])
    BY <1>11, <2>1, <2>2 DEF Timeless
  <2> QED  BY <2>3, TimelessTimed
<1>12. CASE TurnAgent(p)
  <2>1. PICK end \in BOOLEAN : req' = [req EXCEPT ![p].pc = "turn_reply", ![p].end = end]
    BY <1>12 DEF TurnAgent
  <2>2. Timeless([q EXCEPT !.pc = "turn_reply", !.end = end])
    BY <1>0 DEF Request, Timeless
  <2> QED  BY <1>1, <2>1, <2>2
<1>13. CASE TurnReply(p) \/ EndCount(p) \/ AdvanceComplete(p) \/ CreateLog(p) \/ CreateInsert(p)
            \/ Refund(p) \/ ViolationInsert(p)
  BY <1>0, <1>1, <1>2, <1>13
     DEF TurnReply, EndCount, AdvanceComplete, CreateLog, CreateInsert, Refund, ViolationInsert,
         Return, PCs
<1>14. CASE StartAgent(p) \/ LanguageAgent(p) \/ EndComplete(p)
  BY <1>0, <1>1, <1>14 DEF StartAgent, LanguageAgent, EndComplete, Return
<1> QED
  BY <1>3, <1>4, <1>5, <1>6, <1>7, <1>8, <1>9, <1>10, <1>11, <1>12, <1>13, <1>14 DEF Resume

-----------------------------------------------------------------------------
(* The steps, of the rounds                                                 *)

LEMMA ResumeStaysTimed ==
    ASSUME TypeOK, Invariant, Timed, NEW p \in Procs, Resume(p)  PROVE Timed' /\ FairWrite
<1>1. FairWrite /\ HandlerTimed(req'[p], sess')
  BY ResumeFair, ResumeHandlerTimed
<1>2. UNCHANGED now
  BY DEF Resume, AdvanceBehavioral, AdvanceComplete, Reread, CreateReserve, CreateLog,
         CreateInsert, Refund, RefundLog, StartWrite, StartAgent, TurnStart, TurnVoice,
         TurnHistory, TurnAgent, TurnReply, TurnEnd, ReadHistory, LanguageHistory,
         LanguageAgent, AcknowledgeWrite, EndCount, EndComplete, EndAbandon, ViolationRead,
         ViolationInsert, ViolationCount, ViolationTerminate, ViolationPause
<1>3. \A o \in Procs \ {p} : req'[o] = req[o]
  <2>1. CASE Moved(p)
    BY <2>1 DEF Moved
  <2>2. CASE CreateInsert(p) \/ \E s \in Sessions : CreateReserve(p, s)
    BY <2>2 DEF CreateInsert, CreateReserve, Return, Go, TypeOK, RequestsOK
  <2> QED
    BY <2>1, <2>2, AdvanceBehavioralMoves, AdvanceCompleteMoves, RereadMoves, CreateLogMoves,
       RefundMoves, QuietMoves, ViolationInsertMoves, StartMoves, TurnVoiceMoves, TurnEndMoves,
       AcknowledgeWriteMoves, EndMoves, ViolationCountMoves, ViolationTerminateMoves,
       ViolationPauseMoves DEF Resume
<1> QED  BY <1>1, <1>2, <1>3, StepTimed

LEMMA EntersTimed ==
    ASSUME TypeOK, Invariant, Timed, NEW p \in Requests, NEW q, Enters(p, q),
           FairWrite => HandlerTimed(q, sess')
    PROVE  Timed' /\ FairWrite
<1>1. FairWrite
  BY FairUnchanged DEF Enters, docVars, Timed
<1>2. p \in Procs /\ req'[p] = q /\ \A o \in Procs \ {p} : req'[o] = req[o]
  BY DEF Enters, TypeOK, RequestsOK, Procs
<1> QED  BY <1>1, <1>2, StepTimed DEF Enters

LEMMA EntersReadTimed ==
    ASSUME TypeOK, Invariant, Timed, NEW p \in Requests, NEW q \in Request, q.s \in Sessions,
           Enters(p, Read(q))
    PROVE  Timed' /\ FairWrite
<1>1. UNCHANGED sess /\ DocsTimed
  BY DEF Enters, docVars, Timed
<1> QED  BY <1>1, ReadTimed, EntersTimed

\* The compensated end of a technical round is no earlier than the one stored.
LEMMA AcknowledgeTimed ==
    ASSUME TypeOK, Invariant, Timed, NEW p \in Requests, NEW s \in Sessions, Acknowledge(p, s)
    PROVE  Timed' /\ FairWrite
<1> DEFINE d == sess[s]
           q == [Idle EXCEPT !.op = "acknowledge", !.s = s]
           ends == IF d.ends[d.round] = Unset THEN Unset
                   ELSE d.ends[d.round] + Lasted(d.paused)
           at == IF d.round = RoundOf(d.status) THEN ends ELSE d.ends[RoundOf(d.status)]
           r == [q EXCEPT !.pc = "acknowledge_write", !.status = d.status, !.round = d.round,
                          !.ends = ends, !.at = at]
<1>1. CASE Enters(p, Read(q))
  <2>1. q \in Request /\ q.s = s
    BY IdleType DEF Request, Operations
  <2> HIDE DEF q
  <2> QED  BY <1>1, <2>1, EntersReadTimed
<1>2. CASE Enters(p, r)
  <2>1. /\ r.pc = "acknowledge_write" /\ r.s = s /\ r.round = d.round /\ r.ends = ends
        /\ r.status = d.status /\ r.at = at
    BY DEF Idle
  <2>2. /\ d.created \in Nat /\ d.ends[d.round] \in Nat /\ d.paused \in Nat /\ now \in Nat
        /\ TechnicalMinutes \in Nat
    BY ConstantsAssumption DEF TypeOK, DocsOK, SessionDoc
  <2>3. Lasted(d.paused) \in Nat
    BY <2>2 DEF Lasted
  <2>4. d.round = "technical" /\ ends # Unset => ends >= d.created + TechnicalMinutes
    BY <2>2, <2>3 DEF Timed, DocsTimed, DocTimed
  <2>5. UNCHANGED sess
    BY <1>2 DEF Enters, docVars
  <2>6. d.status = "technical_in_progress" /\ at # Unset => at >= d.created + TechnicalMinutes
    BY <2>4 DEF RoundOf, Timed, DocsTimed, DocTimed
  <2> HIDE DEF r, ends, at
  <2>7. HandlerTimed(r, sess')
    BY <2>1, <2>4, <2>5, <2>6 DEF HandlerTimed
  <2> QED  BY <1>2, <2>7, EntersTimed
<1> QED  BY <1>1, <1>2 DEF Acknowledge

LEMMA ClientCallTimed ==
    ASSUME TypeOK, Invariant, Timed, NEW p \in Requests, ClientCall(p)
    PROVE  Timed' /\ FairWrite
<1>1. ASSUME NEW u \in Users, NEW g \in Grants \cup {NoGrant}, NEW b \in BOOLEAN,
             Create(p, u, g, b)
      PROVE  Timed' /\ FairWrite
  <2> DEFINE q == [Idle EXCEPT !.op = "create", !.user = u, !.grant = g, !.behavioral = b]
             X == [q EXCEPT !.pc = "create_reserve", !.s = NoSession, !.ends = 0, !.voice = FALSE]
  <2>1. q \in Request /\ q.op = "create"
    BY IdleType DEF Request, Operations
  <2>2. CASE Enters(p, Continue(q, "none", "technical", FALSE))
    <3>1. Continue(q, "none", "technical", FALSE) = X
      <4> HIDE DEF q
      <4> QED  BY <2>1 DEF Continue, ACTIVE_STATUSES, InProgress
    <3>2. X.pc = "create_reserve"
      BY DEF Idle
    <3> HIDE DEF X
    <3> QED  BY <2>2, <3>1, <3>2, EntersTimed, TimelessTimed DEF Timeless
  <2>3. ASSUME NEW e \in ActiveOf(u), Enters(p, Read([q EXCEPT !.s = e]))
        PROVE  Timed' /\ FairWrite
    <3>1. [q EXCEPT !.s = e] \in Request /\ [q EXCEPT !.s = e].s \in Sessions
      BY <2>1 DEF Request, ActiveOf
    <3> QED  BY <2>3, <3>1, EntersReadTimed
  <2> QED  BY <1>1, <2>2, <2>3 DEF Create
<1>2. ASSUME NEW s \in Sessions, NEW op \in Operations,
             Enters(p, Read([Idle EXCEPT !.op = op, !.s = s]))
      PROVE  Timed' /\ FairWrite
  <2> DEFINE q == [Idle EXCEPT !.op = op, !.s = s]
  <2>1. q \in Request /\ q.s = s
    BY FreshRequestType DEF Idle
  <2> HIDE DEF q
  <2>2. Enters(p, Read(q))
    BY <1>2 DEF q
  <2> QED  BY <2>1, <2>2, EntersReadTimed
<1>3. ASSUME NEW s \in Sessions, Start(p, s)  PROVE Timed' /\ FairWrite
  <2> DEFINE r == [Idle EXCEPT !.op = "start", !.s = s, !.pc = "start_write", !.at = now]
  <2>1. CASE Enters(p, r)
    <3>1. r.pc = "start_write" /\ r.s = s /\ r.at = now
      BY DEF Idle
    <3>2. UNCHANGED sess /\ sess[s].created <= now
      BY <2>1 DEF Enters, docVars, Timed, DocsTimed, DocTimed
    <3> HIDE DEF r
    <3>3. HandlerTimed(r, sess')
      BY <3>1, <3>2 DEF HandlerTimed
    <3> QED  BY <2>1, <3>3, EntersTimed
  <2>2. CASE Enters(p, Read([Idle EXCEPT !.op = "start", !.s = s]))
    BY <1>2, <2>2 DEF Operations
  <2> QED  BY <1>3, <2>1, <2>2 DEF Start
<1>4. ASSUME NEW s \in Sessions,
             \/ TurnRequest(p, s) \/ ChangeLanguage(p, s) \/ GetStatus(p, s)
             \/ EndEarly(p, s) \/ RecordViolation(p, s)
      PROVE  Timed' /\ FairWrite
  BY <1>2, <1>4
     DEF TurnRequest, ChangeLanguage, GetStatus, EndEarly, RecordViolation, Operations
<1> QED  BY <1>1, <1>3, <1>4, AcknowledgeTimed DEF ClientCall

LEMMA SweepStaysTimed ==
    ASSUME TypeOK, Invariant, Timed, SeenTimed, SweepStep  PROVE Timed' /\ FairWrite
<1> DEFINE q == req[Sweeper]
<1>0. q \in Request /\ Sweeper \in Procs
  BY DEF TypeOK, RequestsOK, Procs
<1>1. FairWrite
  BY SweepFair DEF Timed
<1>2. (\A o \in Procs \ {Sweeper} : req'[o] = req[o]) /\ UNCHANGED now
  BY SweepMoves DEF Moved, SweepStep, SweepBegin, SweepFindCreated, SweepFindOld, SweepEnd,
                    SweepStale, SweepAbandon, SweepExpire
<1>3. HandlerTimed(req'[Sweeper], sess')
  <2>1. CASE \E s \in Sessions : SweepStale(s)
    <3>1. PICK s \in Sessions : SweepStale(s)
      BY <2>1
    <3> DEFINE todo == q.todo \ {s}
               seen == [q.seen EXCEPT ![s] = NoDoc]
               r == [q EXCEPT !.todo = todo, !.s = s, !.seen = seen]
               d == q.seen[s]
    <3>2. /\ todo \in SUBSET Sessions /\ seen \in [Sessions -> SessionDoc]
          /\ d \in SessionDoc
      BY <1>0, NoDocType DEF Request
    <3>3. r \in Request /\ r.s = s
      <4> HIDE DEF todo, seen
      <4> QED  BY <1>0, <3>2 DEF Request
    <3>4. UNCHANGED sess /\ req'[Sweeper] = Advance(r, d)
      BY <1>0, <3>1 DEF SweepStale, docVars, TypeOK, RequestsOK
    <3>5. d.status # "none" =>
             /\ d.created = sess[s].created /\ d.behavioral = sess[s].behavioral
             /\ d.ends["technical"] # Unset =>
                    d.ends["technical"] >= d.created + TechnicalMinutes
      BY DEF SeenTimed
    <3> HIDE DEF r, d
    <3> QED  BY <1>1, <3>2, <3>3, <3>4, <3>5, AdvanceTimed
  <2>2. CASE ~(\E s \in Sessions : SweepStale(s))
    <3>0. SweepBegin => req'[Sweeper].pc = "sweep_stale"
      <4> DEFINE todo == {s \in Sessions : sess[s].status \in InProgress}
                 seen == [s \in Sessions |-> IF sess[s].status \in InProgress THEN sess[s] ELSE NoDoc]
                 r == [Idle EXCEPT !.pc = "sweep_stale", !.op = "sweep", !.at = now, !.todo = todo,
                                   !.seen = seen]
      <4>1. r.pc = "sweep_stale"
        BY DEF Idle
      <4>2. SweepBegin => req'[Sweeper] = r
        BY <1>0 DEF SweepBegin, TypeOK, RequestsOK
      <4> HIDE DEF r
      <4> QED  BY <4>1, <4>2
    <3>1. SweepEnd => req'[Sweeper].pc = "idle"
      BY <1>0 DEF SweepEnd, Return, Idle, TypeOK, RequestsOK
    <3>2. SweepFindCreated \/ SweepFindOld => req'[Sweeper].pc \in {"sweep_created", "sweep_old"}
      BY <1>0 DEF SweepFindCreated, SweepFindOld, SweepTo, TypeOK, RequestsOK, Request
    <3>3. \A s \in Sessions : SweepAbandon(s) => req'[Sweeper].pc \in {"refund", "sweep_created"}
      BY <1>0 DEF SweepAbandon, AtPc, TypeOK, RequestsOK, Request
    <3>4. \A s \in Sessions : SweepExpire(s) => req'[Sweeper].pc = "sweep_old"
      BY <1>0 DEF SweepExpire, AtPc, TypeOK, RequestsOK, Request
    <3>5. Timeless(req'[Sweeper])
      BY <2>2, <3>0, <3>1, <3>2, <3>3, <3>4 DEF SweepStep, Timeless
    <3> QED  BY <3>5, TimelessTimed
  <2> QED  BY <2>1, <2>2
<1> QED  BY <1>0, <1>1, <1>2, <1>3, StepTimed

LEMMA EnvironmentTimed ==
    ASSUME TypeOK, Timed,
           Tick \/ Crash \/ (\E g \in Grants : GrantSessions(g)) \/ UNCHANGED vars
    PROVE  Timed' /\ FairWrite
<1>1. FairWrite /\ UNCHANGED sess
  BY FairUnchanged DEF Tick, Crash, GrantSessions, vars, docVars, Timed
<1>2. now \in Nat /\ now' \in {now, now + 1}
  BY DEF Tick, Crash, GrantSessions, vars, TypeOK
<1>3. DocsTimed'
  <2> SUFFICES ASSUME NEW s \in Sessions  PROVE DocTimed(sess[s])'
    BY DEF DocsTimed
  <2>1. sess[s].created \in Nat /\ DocTimed(sess[s])
    BY DEF TypeOK, DocsOK, SessionDoc, Timed, DocsTimed
  <2> QED  BY <1>1, <1>2, <2>1 DEF DocTimed
<1>4. CASE UNCHANGED req
  <2> SUFFICES ASSUME NEW p \in Procs  PROVE HandlerTimed(req[p], sess)'
    BY <1>1, <1>3 DEF Timed, HandlersTimed
  <2> DEFINE q == req[p]
  <2>1. HandlerTimed(q, sess)
    BY DEF Timed, HandlersTimed
  <2>2. q.pc = "advance_behavioral" => sess[q.s].created + TechnicalMinutes \in Nat
    BY AtSession, ConstantsAssumption DEF SessionDoc, NoSessionPCs
  <2> QED  BY <1>1, <1>2, <1>4, <2>1, <2>2 DEF HandlerTimed
<1>5. CASE Crash
  <2> SUFFICES ASSUME NEW p \in Procs  PROVE HandlerTimed(req[p], sess)'
    BY <1>1, <1>3 DEF Timed, HandlersTimed
  <2>1. req'[p].pc = "idle"
    BY <1>5 DEF Crash, Idle
  <2> QED  BY <2>1 DEF HandlerTimed
<1> QED  BY <1>1, <1>4, <1>5 DEF Tick, GrantSessions, vars

LEMMA InitTimed ==
    ASSUME Init  PROVE Timed
<1>1. \A p \in Procs : req[p].pc = "idle"
  BY DEF Init, Idle
<1>2. \A s \in Sessions : DocTimed(sess[s])
  BY DEF Init, DocTimed, NoDoc, Rounds
<1> QED  BY <1>1, <1>2 DEF Timed, DocsTimed, HandlersTimed, HandlerTimed

\* What was seen of a session stays true of it: no write changes its birth.
LEMMA SeenStaysTimed ==
    ASSUME TypeOK, Invariant, Timed, SeenTimed, FairWrite, [Next]_vars  PROVE SeenTimed'
<1>1. SeenStep
  BY NextSeen
<1>2. NoDoc.status = "none"
  BY DEF NoDoc
<1> SUFFICES ASSUME NEW s \in Sessions, req'[Sweeper].seen[s].status # "none"
             PROVE  LET d == req'[Sweeper].seen[s]
                    IN  /\ d.created = sess'[s].created /\ d.behavioral = sess'[s].behavioral
                        /\ d.ends["technical"] # Unset =>
                               d.ends["technical"] >= d.created + TechnicalMinutes
  BY DEF SeenTimed
<1>3. CASE req'[Sweeper].seen[s] = req[Sweeper].seen[s]
  <2>1. SameBirth(s, sess'[s])
    BY <1>3 DEF FairWrite, FairDoc, Invariant, SeenExists
  <2> QED  BY <1>3, <2>1 DEF SeenTimed, SameBirth
<1>4. CASE req'[Sweeper].seen[s] = sess[s] /\ UNCHANGED sess
  BY <1>4 DEF Timed, DocsTimed, DocTimed
<1> QED  BY <1>1, <1>2, <1>3, <1>4 DEF SeenStep

LEMMA NextTimed ==
    ASSUME TypeOK, Invariant, Timed, SeenTimed, [Next]_vars  PROVE Timed' /\ FairWrite
BY ResumeStaysTimed, ClientCallTimed, SweepStaysTimed, EnvironmentTimed DEF Next

\* No candidate is moved out of the technical round before it has lasted its
\* length or enough questions were scored, and none is moved back, whichever late
\* starts, acknowledgements and transitions race.
THEOREM RoundEndsTheorem == Spec => RoundEndsForAReason
<1> DEFINE Fair == \A s \in Sessions :
                      /\ sess[s].round = "behavioral" => sess'[s].round = "behavioral"
                      /\ sess[s].round = "technical" /\ sess'[s].round = "behavioral" =>
                            /\ sess[s].behavioral
                            /\ \/ now > sess[s].created + TechnicalMinutes
                               \/ scored[s]["technical"] >= MinQuestions["technical"]
<1>1. Init => Timed /\ SeenTimed
  BY InitTimed DEF Init, SeenTimed, Idle, NoDoc, Procs
<1>2. TypeOK /\ Invariant /\ Timed /\ SeenTimed /\ [Next]_vars => (Timed /\ SeenTimed)'
  BY NextTimed, SeenStaysTimed
<1>3. TypeOK /\ Invariant /\ Timed /\ SeenTimed /\ [Next]_vars => [Fair]_vars
  BY NextTimed DEF FairWrite, FairDoc, RoundJustified, Justified
<1> QED  BY <1>1, <1>2, <1>3, InvariantHolds, PTL DEF Spec, RoundEndsForAReason

-----------------------------------------------------------------------------
(* Entitlements: what a grant has left                                     *)

Holding(pc, g) == {p \in At({pc}) : req[p].grant = g}

LEMMA HoldingFinite ==
    ASSUME NEW pc, NEW g  PROVE IsFiniteSet(Holding(pc, g)) /\ Cardinality(Holding(pc, g)) \in Nat
<1>1. IsFiniteSet(Procs)
  BY ConstantsAssumption, FS_AddElement DEF Procs
<1>2. Holding(pc, g) \subseteq Procs
  BY DEF Holding, At
<1> QED  BY <1>1, <1>2, FS_Subset, FS_CardinalityType

Balanced(g) ==
    remaining[g] + consumeTx[g] + Cardinality(Holding("create_log", g))
        = issued[g] + refundTx[g] + Cardinality(Holding("refund_log", g))

LEMMA LedgerIsBalanced == LedgerBalances <=> (crashes = 0 => \A g \in Grants : Balanced(g))
BY DEF LedgerBalances, Balanced, Holding

\* A handler joins, or leaves, those between a change of its grant and the log.
LEMMA HolderJoins ==
    ASSUME TypeOK, NEW p \in Procs, NEW pc, NEW g, req[p].pc # pc, req'[p].pc = pc,
           req'[p].grant = g, \A o \in Procs \ {p} : req'[o] = req[o]
    PROVE  /\ Cardinality(Holding(pc, g)') = Cardinality(Holding(pc, g)) + 1
           /\ \A h \in Grants \ {g} : Holding(pc, h)' = Holding(pc, h)
<1>1. p \notin Holding(pc, g) /\ Holding(pc, g)' = Holding(pc, g) \cup {p}
  BY DEF Holding, At
<1>2. \A h \in Grants \ {g} : Holding(pc, h)' = Holding(pc, h)
  BY DEF Holding, At
<1> QED  BY ZenonT(30), <1>1, <1>2, HoldingFinite, FS_AddElement

LEMMA HolderLeaves ==
    ASSUME TypeOK, NEW p \in Procs, NEW pc, NEW g, req[p].pc = pc, req'[p].pc # pc,
           req[p].grant = g, \A o \in Procs \ {p} : req'[o] = req[o]
    PROVE  /\ Cardinality(Holding(pc, g)') = Cardinality(Holding(pc, g)) - 1
           /\ \A h \in Grants \ {g} : Holding(pc, h)' = Holding(pc, h)
<1>1. p \in Holding(pc, g) /\ Holding(pc, g)' = Holding(pc, g) \ {p}
  BY DEF Holding, At
<1>2. \A h \in Grants \ {g} : Holding(pc, h)' = Holding(pc, h)
  BY DEF Holding, At
<1> QED  BY <1>1, <1>2, HoldingFinite, FS_RemoveElement

LEMMA HolderStays ==
    ASSUME NEW p \in Procs, NEW pc, req[p].pc # pc, req'[p].pc # pc,
           \A o \in Procs \ {p} : req'[o] = req[o]
    PROVE  \A g \in Grants : Holding(pc, g)' = Holding(pc, g)
BY DEF Holding, At

LEMMA BalanceType ==
    ASSUME TypeOK, NEW g \in Grants
    PROVE  /\ remaining[g] \in Nat /\ consumeTx[g] \in Nat /\ issued[g] \in Nat
           /\ refundTx[g] \in Nat
           /\ Cardinality(Holding("create_log", g)) \in Nat
           /\ Cardinality(Holding("refund_log", g)) \in Nat
BY HoldingFinite DEF TypeOK, GrantsOK

-----------------------------------------------------------------------------
(* The four steps that move a session of a grant                            *)

LEMMA CreateReserveBalanced ==
    ASSUME TypeOK, NEW p \in Procs, NEW s \in Sessions, CreateReserve(p, s),
           \A g \in Grants : Balanced(g)
    PROVE  \A g \in Grants : Balanced(g)'
<1> DEFINE q == req[p]
           r == [q EXCEPT !.pc = "create_log", !.s = s]
           r0 == [q EXCEPT !.pc = "create_insert", !.s = s]
<1>1. /\ q \in Request /\ q.pc = "create_reserve"
      /\ UNCHANGED <<issued, consumeTx, refundTx>>
  BY DEF CreateReserve, AtPc, TypeOK, RequestsOK
<1>2. /\ r.pc = "create_log" /\ r.grant = q.grant
      /\ r0.pc = "create_insert" /\ Idle.pc = "idle"
  BY <1>1 DEF Request, Idle
<1>3. CASE /\ q.grant # NoGrant /\ remaining[q.grant] > 0
           /\ remaining' = [remaining EXCEPT ![q.grant] = @ - 1]
           /\ req' = [req EXCEPT ![p] = r]
  <2>0. PICK h \in Grants : h = q.grant
    BY <1>1, <1>3 DEF Request
  <2>1. req'[p] = r /\ \A o \in Procs \ {p} : req'[o] = req[o]
    BY <1>3 DEF TypeOK, RequestsOK
  <2> HIDE DEF r
  <2>2. /\ Cardinality(Holding("create_log", h)') = Cardinality(Holding("create_log", h)) + 1
        /\ \A g \in Grants \ {h} : Holding("create_log", g)' = Holding("create_log", g)
    BY <1>1, <1>2, <2>0, <2>1, HolderJoins
  <2>3. \A g \in Grants : Holding("refund_log", g)' = Holding("refund_log", g)
    BY <1>1, <1>2, <2>1, HolderStays
  <2> SUFFICES ASSUME NEW g \in Grants  PROVE Balanced(g)'
    OBVIOUS
  <2>4. Balanced(g) /\ remaining[h] > 0
    BY <1>3, <2>0
  <2>5. remaining'[g] = IF g = h THEN remaining[g] - 1 ELSE remaining[g]
    BY <1>3, <2>0 DEF TypeOK, GrantsOK
  <2>6. UNCHANGED <<issued, consumeTx, refundTx>>
    BY <1>1
  <2>7. CASE g = h
    BY <2>2, <2>3, <2>4, <2>5, <2>6, <2>7, BalanceType DEF Balanced
  <2>8. CASE g # h
    BY <2>2, <2>3, <2>4, <2>5, <2>6, <2>8, BalanceType DEF Balanced
  <2> QED  BY <2>7, <2>8
<1>4. CASE UNCHANGED remaining /\ (req' = [req EXCEPT ![p] = r0] \/ Return(p))
  <2>1. req'[p] \in {r0, Idle} /\ \A o \in Procs \ {p} : req'[o] = req[o]
    BY <1>4 DEF Return, TypeOK, RequestsOK
  <2>2. req'[p].pc \notin {"create_log", "refund_log"}
    BY <1>2, <2>1
  <2>3. \A pc \in {"create_log", "refund_log"}, g \in Grants : Holding(pc, g)' = Holding(pc, g)
    BY <1>1, <2>1, <2>2, HolderStays
  <2> QED  BY <1>1, <1>4, <2>3 DEF Balanced
<1> QED  BY <1>3, <1>4 DEF CreateReserve

LEMMA CreateLogBalanced ==
    ASSUME TypeOK, NEW p \in Procs, CreateLog(p), \A g \in Grants : Balanced(g)
    PROVE  \A g \in Grants : Balanced(g)'
<1> DEFINE q == req[p]
           r == [q EXCEPT !.pc = "create_insert"]
<1>0. PICK h \in Grants : h = q.grant
  BY DEF CreateLog, AtPc, TypeOK, RequestsOK, InHand, GrantPCs
<1>1. /\ q \in Request /\ q.pc = "create_log" /\ req'[p] = r
      /\ \A o \in Procs \ {p} : req'[o] = req[o]
      /\ UNCHANGED <<issued, remaining, refundTx>>
      /\ consumeTx' = [consumeTx EXCEPT ![h] = @ + 1]
  BY <1>0 DEF CreateLog, Go, AtPc, TypeOK, RequestsOK
<1>2. r.pc = "create_insert"
  BY <1>1 DEF Request
<1> HIDE DEF r
<1>3. /\ Cardinality(Holding("create_log", h)') = Cardinality(Holding("create_log", h)) - 1
      /\ \A g \in Grants \ {h} : Holding("create_log", g)' = Holding("create_log", g)
  BY <1>0, <1>1, <1>2, HolderLeaves
<1>4. \A g \in Grants : Holding("refund_log", g)' = Holding("refund_log", g)
  BY <1>1, <1>2, HolderStays
<1> SUFFICES ASSUME NEW g \in Grants  PROVE Balanced(g)'
  OBVIOUS
<1>5. consumeTx'[g] = IF g = h THEN consumeTx[g] + 1 ELSE consumeTx[g]
  BY <1>1 DEF TypeOK, GrantsOK
<1> QED  BY <1>1, <1>3, <1>4, <1>5, BalanceType DEF Balanced

LEMMA RefundBalanced ==
    ASSUME TypeOK, NEW p \in Procs, Refund(p), \A g \in Grants : Balanced(g)
    PROVE  \A g \in Grants : Balanced(g)'
<1> DEFINE q == req[p]
           r == [q EXCEPT !.pc = "refund_log"]
<1>0. PICK h \in Grants : h = q.grant
  BY DEF Refund, AtPc, TypeOK, RequestsOK, InHand, GrantPCs
<1>1. /\ q \in Request /\ q.pc = "refund" /\ req'[p] = r
      /\ \A o \in Procs \ {p} : req'[o] = req[o]
      /\ UNCHANGED <<issued, consumeTx, refundTx>>
      /\ remaining' = [remaining EXCEPT ![h] = @ + 1]
  BY <1>0 DEF Refund, Go, AtPc, TypeOK, RequestsOK
<1>2. r.pc = "refund_log" /\ r.grant = h
  BY <1>0, <1>1 DEF Request
<1> HIDE DEF r
<1>3. /\ Cardinality(Holding("refund_log", h)') = Cardinality(Holding("refund_log", h)) + 1
      /\ \A g \in Grants \ {h} : Holding("refund_log", g)' = Holding("refund_log", g)
  BY <1>1, <1>2, HolderJoins
<1>4. \A g \in Grants : Holding("create_log", g)' = Holding("create_log", g)
  BY <1>1, <1>2, HolderStays
<1> SUFFICES ASSUME NEW g \in Grants  PROVE Balanced(g)'
  OBVIOUS
<1>5. remaining'[g] = IF g = h THEN remaining[g] + 1 ELSE remaining[g]
  BY <1>1 DEF TypeOK, GrantsOK
<1> QED  BY <1>1, <1>3, <1>4, <1>5, BalanceType DEF Balanced

LEMMA RefundLogBalanced ==
    ASSUME TypeOK, NEW p \in Procs, RefundLog(p), \A g \in Grants : Balanced(g)
    PROVE  \A g \in Grants : Balanced(g)'
<1> DEFINE q == req[p]
<1>0. PICK h \in Grants : h = q.grant
  BY DEF RefundLog, AtPc, TypeOK, RequestsOK, InHand, GrantPCs
<1>1. /\ q \in Request /\ q.pc = "refund_log" /\ Moved(p)
      /\ UNCHANGED <<issued, remaining, consumeTx>>
      /\ refundTx' = [refundTx EXCEPT ![h] = @ + 1]
  BY <1>0, RefundMoves DEF RefundLog, AtPc, TypeOK, RequestsOK
<1>2. /\ req'[p].pc \notin {"refund_log", "create_log"}
      /\ \A o \in Procs \ {p} : req'[o] = req[o]
  BY <1>1 DEF Moved, Refund, AtPc
<1>3. /\ Cardinality(Holding("refund_log", h)') = Cardinality(Holding("refund_log", h)) - 1
      /\ \A g \in Grants \ {h} : Holding("refund_log", g)' = Holding("refund_log", g)
  BY <1>0, <1>1, <1>2, HolderLeaves
<1>4. \A g \in Grants : Holding("create_log", g)' = Holding("create_log", g)
  BY <1>1, <1>2, HolderStays
<1> SUFFICES ASSUME NEW g \in Grants  PROVE Balanced(g)'
  OBVIOUS
<1>5. refundTx'[g] = IF g = h THEN refundTx[g] + 1 ELSE refundTx[g]
  BY <1>1 DEF TypeOK, GrantsOK
<1> QED  BY <1>1, <1>3, <1>4, <1>5, BalanceType DEF Balanced

-----------------------------------------------------------------------------
(* Every other step                                                         *)

\* A handler that neither reserves nor refunds leaves the grants alone.
LEMMA ResumeLeavesGrants ==
    ASSUME NEW p \in Procs, Resume(p),
           \A s \in Sessions : ~CreateReserve(p, s), ~CreateLog(p), ~Refund(p), ~RefundLog(p)
    PROVE  UNCHANGED grantVars /\ req[p].pc \notin {"create_log", "refund", "refund_log"}
BY DEF Resume, AtPc, AdvanceBehavioral, AdvanceComplete, Reread, CreateInsert, StartWrite,
       StartAgent, TurnStart, TurnVoice, TurnHistory, TurnAgent, TurnReply, TurnEnd, ReadHistory,
       LanguageHistory, LanguageAgent, AcknowledgeWrite, EndCount, EndComplete, EndAbandon,
       ViolationRead, ViolationInsert, ViolationCount, ViolationTerminate, ViolationPause

LEMMA SweepLeavesGrants ==
    ASSUME SweepStep
    PROVE  UNCHANGED grantVars /\ req[Sweeper].pc \notin {"create_log", "refund", "refund_log"}
<1>1. SweepBegin \/ SweepFindCreated \/ SweepFindOld \/ SweepEnd =>
         UNCHANGED grantVars /\ req[Sweeper].pc \notin {"create_log", "refund", "refund_log"}
  BY DEF SweepBegin, SweepFindCreated, SweepFindOld, SweepEnd, AtPc, Idle
<1>2. ASSUME NEW s \in Sessions, SweepStale(s) \/ SweepAbandon(s) \/ SweepExpire(s)
      PROVE  UNCHANGED grantVars /\ req[Sweeper].pc \notin {"create_log", "refund", "refund_log"}
  BY <1>2 DEF SweepStale, SweepAbandon, SweepExpire, AtPc
<1> QED  BY <1>1, <1>2 DEF SweepStep

LEMMA ClientLeavesGrants ==
    ASSUME NEW p \in Requests, ClientCall(p)
    PROVE  /\ UNCHANGED grantVars /\ UNCHANGED <<sess, crashes>>
           /\ req[p].pc \notin {"create_log", "refund", "refund_log"}
<1>1. ASSUME NEW q, Enters(p, q)  PROVE UNCHANGED grantVars /\ UNCHANGED <<sess, crashes>>
  BY <1>1 DEF Enters, docVars
<1>2. ASSUME NEW op, Calls(p, op)  PROVE req[p].pc = "idle"
  BY <1>2 DEF Calls, Idle
<1>3. ASSUME NEW u \in Users, NEW g \in Grants \cup {NoGrant}, NEW b \in BOOLEAN,
             Create(p, u, g, b)
      PROVE  (\E op : Calls(p, op)) /\ (\E q : Enters(p, q))
  BY <1>3, Zenon DEF Create
<1>4. ASSUME NEW s \in Sessions,
             \/ Start(p, s) \/ TurnRequest(p, s) \/ ChangeLanguage(p, s) \/ GetStatus(p, s)
             \/ Acknowledge(p, s) \/ EndEarly(p, s) \/ RecordViolation(p, s)
      PROVE  (\E op : Calls(p, op)) /\ (\E q : Enters(p, q))
  BY <1>4, Zenon DEF Start, TurnRequest, ChangeLanguage, GetStatus, Acknowledge, EndEarly,
                     RecordViolation
<1> QED  BY <1>1, <1>2, <1>3, <1>4 DEF ClientCall

\* Such a step leaves every grant as balanced as it was.
LEMMA BalancedStays ==
    ASSUME NEW p \in Procs, UNCHANGED grantVars, \A g \in Grants : Balanced(g),
           req[p].pc \notin {"create_log", "refund_log"},
           req'[p].pc \notin {"create_log", "refund_log"},
           \A o \in Procs \ {p} : req'[o] = req[o]
    PROVE  \A g \in Grants : Balanced(g)'
<1>1. \A pc \in {"create_log", "refund_log"}, g \in Grants : Holding(pc, g)' = Holding(pc, g)
  BY HolderStays
<1> QED  BY <1>1 DEF Balanced, grantVars

LEMMA MovedBalanced ==
    ASSUME NEW p \in Procs, Moved(p), UNCHANGED grantVars, \A g \in Grants : Balanced(g),
           req[p].pc \notin {"create_log", "refund", "refund_log"}
    PROVE  \A g \in Grants : Balanced(g)'
<1>1. req'[p].pc \notin {"create_log", "refund_log"} /\ \A o \in Procs \ {p} : req'[o] = req[o]
  BY DEF Moved, Refund, AtPc
<1> QED  BY <1>1, BalancedStays

\* The steps of a handler, but for the four that create or reserve.
LEMMA ResumeMoves ==
    ASSUME TypeOK, Invariant, NEW p \in Procs, Resume(p),
           \A s \in Sessions : ~CreateReserve(p, s), ~CreateInsert(p)
    PROVE  Moved(p)
BY AdvanceBehavioralMoves, AdvanceCompleteMoves, RereadMoves, CreateLogMoves, RefundMoves,
   QuietMoves, ViolationInsertMoves, StartMoves, TurnVoiceMoves, TurnEndMoves,
   AcknowledgeWriteMoves, EndMoves, ViolationCountMoves, ViolationTerminateMoves,
   ViolationPauseMoves DEF Resume

LEMMA ResumeBalanced ==
    ASSUME TypeOK, Invariant, NEW p \in Procs, Resume(p), \A g \in Grants : Balanced(g)
    PROVE  \A g \in Grants : Balanced(g)'
<1>1. CASE CreateLog(p) \/ Refund(p) \/ RefundLog(p)
  BY <1>1, CreateLogBalanced, RefundBalanced, RefundLogBalanced
<1>2. ASSUME NEW s \in Sessions, CreateReserve(p, s)  PROVE \A g \in Grants : Balanced(g)'
  BY <1>2, CreateReserveBalanced
<1>3. CASE /\ ~CreateLog(p) /\ ~Refund(p) /\ ~RefundLog(p)
           /\ \A s \in Sessions : ~CreateReserve(p, s)
  <2>1. UNCHANGED grantVars /\ req[p].pc \notin {"create_log", "refund", "refund_log"}
    BY <1>3, ResumeLeavesGrants
  <2>2. CASE CreateInsert(p)
    <3>1. /\ req'[p].pc \notin {"create_log", "refund_log"}
          /\ \A o \in Procs \ {p} : req'[o] = req[o]
      BY <2>2 DEF CreateInsert, Return, Go, Idle, TypeOK, RequestsOK, Request
    <3> QED  BY <2>1, <3>1, BalancedStays
  <2>3. CASE ~CreateInsert(p)
    BY <1>3, <2>1, <2>3, ResumeMoves, MovedBalanced
  <2> QED  BY <2>2, <2>3
<1> QED  BY <1>1, <1>2, <1>3

-----------------------------------------------------------------------------
(* What a step does to the grant and the verdict of a session               *)

RefundStarts(p, s) == req'[p].pc = "refund" /\ req'[p].s = s

\* A session keeps the grant it was paid from, and is abandoned, if it was paid,
\* by a handler that refunds it next.
Kept(p) ==
    \A s \in Sessions :
        /\ sess'[s].grant = sess[s].grant
        /\ sess'[s].status = "abandoned" /\ sess[s].grant # NoGrant =>
               sess[s].status = "abandoned" \/ RefundStarts(p, s)

LEMMA KeptWrite ==
    ASSUME TypeOK, NEW p, NEW t \in Sessions, NEW d,
           UNCHANGED sess \/ SetDoc(t, d), d.grant = sess[t].grant,
           d.status = "abandoned" /\ sess[t].grant # NoGrant =>
               sess[t].status = "abandoned" \/ RefundStarts(p, t)
    PROVE  Kept(p)
BY DEF TypeOK, DocsOK, SetDoc, Kept

LEMMA KeptStatus ==
    ASSUME TypeOK, NEW p, NEW t \in Sessions, NEW v,
           UNCHANGED sess \/ SetDoc(t, [sess[t] EXCEPT !.status = v]),
           v = "abandoned" /\ sess[t].grant # NoGrant => RefundStarts(p, t)
    PROVE  Kept(p)
<1> DEFINE d == [sess[t] EXCEPT !.status = v]
<1>1. d.grant = sess[t].grant /\ d.status = v
  BY DEF TypeOK, DocsOK, SessionDoc
<1>2. UNCHANGED sess \/ SetDoc(t, d)
  OBVIOUS
<1> HIDE DEF d
<1> QED  BY <1>1, <1>2, KeptWrite

LEMMA KeptRound ==
    ASSUME TypeOK, NEW p, NEW t \in Sessions, NEW n,
           UNCHANGED sess \/ SetDoc(t, ToBehavioral(t, n)) \/ SetDoc(t, ToTechnical(t, n))
    PROVE  Kept(p)
<1>1. /\ ToBehavioral(t, n).grant = sess[t].grant /\ ToBehavioral(t, n).status # "abandoned"
      /\ ToTechnical(t, n).grant = sess[t].grant /\ ToTechnical(t, n).status # "abandoned"
  BY DEF ToBehavioral, ToTechnical, TypeOK, DocsOK, SessionDoc
<1> QED  BY <1>1, KeptWrite

LEMMA EndAbandonKept ==
    ASSUME TypeOK, NEW p \in Procs, EndAbandon(p)  PROVE Kept(p)
<1> DEFINE q == req[p]
           r == [q EXCEPT !.pc = "refund", !.grant = sess[q.s].grant]
<1>1. q \in Request /\ q.s \in Sessions
  BY AtSession DEF EndAbandon, AtPc, NoSessionPCs
<1>2. CASE UNCHANGED sess
  BY <1>2 DEF Kept
<1>3. CASE /\ SetDoc(q.s, [sess[q.s] EXCEPT !.status = "abandoned"])
           /\ sess[q.s].grant # NoGrant
           /\ req' = [req EXCEPT ![p] = r]
  <2>1. r.pc = "refund" /\ r.s = q.s
    BY <1>1 DEF Request
  <2>2. req'[p] = r
    BY <1>3 DEF TypeOK, RequestsOK
  <2>3. RefundStarts(p, q.s)
    BY <2>1, <2>2 DEF RefundStarts
  <2> QED  BY <1>1, <1>3, <2>3, KeptStatus
<1>4. CASE /\ SetDoc(q.s, [sess[q.s] EXCEPT !.status = "abandoned"])
           /\ sess[q.s].grant = NoGrant
  BY <1>1, <1>4, KeptStatus
<1> QED  BY <1>2, <1>3, <1>4 DEF EndAbandon

LEMMA ResumeKept ==
    ASSUME TypeOK, NEW p \in Procs, Resume(p), ~CreateInsert(p)  PROVE Kept(p)
<1> DEFINE q == req[p]
           c == sess[q.s]
<1>0. CASE UNCHANGED sess
  BY <1>0 DEF Kept
<1>1. CASE AdvanceBehavioral(p) \/ StartWrite(p) \/ TurnStart(p)
  <2>1. q.s \in Sessions
    BY <1>1, AtSession DEF AdvanceBehavioral, StartWrite, TurnStart, AtPc, NoSessionPCs
  <2> QED  BY <1>1, <2>1, KeptRound DEF AdvanceBehavioral, StartWrite, TurnStart, WriteActive
<1>2. CASE AdvanceComplete(p) \/ EndComplete(p) \/ ViolationTerminate(p)
  <2>1. q.s \in Sessions
    BY <1>2, AtSession DEF AdvanceComplete, EndComplete, ViolationTerminate, AtPc, NoSessionPCs
  <2> QED
    BY <1>0, <1>2, <2>1, KeptStatus
       DEF AdvanceComplete, EndComplete, ViolationTerminate, CompleteSession, FinishIfActive
<1>3. CASE TurnEnd(p)
  <2>1. q.s \in Sessions
    BY <1>3, AtSession DEF TurnEnd, AtPc, NoSessionPCs
  <2>2. CASE CompleteSession(q.s)
    BY <2>1, <2>2, KeptStatus DEF CompleteSession, FinishIfActive
  <2>3. CASE WriteActive(p, q.s, ToBehavioral(q.s, q.at + BehavioralMinutes), Idle)
    BY <2>1, <2>3, KeptRound DEF WriteActive
  <2> QED  BY <1>0, <1>3, <2>2, <2>3 DEF TurnEnd
<1>4. CASE TurnVoice(p) \/ AcknowledgeWrite(p) \/ ViolationPause(p) \/ ViolationCount(p)
  <2>1. q.s \in Sessions /\ c \in SessionDoc
    BY <1>4, AtSession DEF TurnVoice, AcknowledgeWrite, ViolationPause, ViolationCount, AtPc,
                           NoSessionPCs
  <2>2. ASSUME NEW v, NEW e, NEW d,
               d \in {[c EXCEPT !.paused = v, !.ends = e], [c EXCEPT !.paused = v],
                      [c EXCEPT !.voice = TRUE], [c EXCEPT !.warnings = v]},
               SetDoc(q.s, d)
        PROVE  Kept(p)
    <3>1. d.grant = c.grant /\ d.status = c.status
      BY <2>1, <2>2 DEF SessionDoc
    <3> QED  BY <2>1, <2>2, <3>1, KeptWrite
  <2> QED
    BY <1>0, <1>4, <2>2 DEF TurnVoice, AcknowledgeWrite, ViolationPause, ViolationCount
<1> QED
  BY <1>0, <1>1, <1>2, <1>3, <1>4, EndAbandonKept
     DEF Resume, docVars, Reread, CreateReserve, CreateLog, Refund, RefundLog, StartAgent,
         TurnHistory, TurnAgent, TurnReply, ReadHistory, LanguageHistory, LanguageAgent,
         EndCount, ViolationRead, ViolationInsert

LEMMA SweepKept ==
    ASSUME TypeOK, SweepStep  PROVE Kept(Sweeper)
<1>0. CASE UNCHANGED sess
  BY <1>0 DEF Kept
<1>1. ASSUME NEW s \in Sessions, SweepAbandon(s)  PROVE Kept(Sweeper)
  <2> DEFINE g == sess[s].grant
             r == [req[Sweeper] EXCEPT !.pc = "refund", !.todo = req[Sweeper].todo \ {s},
                                       !.s = s, !.grant = g]
  <2>1. req[Sweeper] \in Request /\ Sweeper \in Procs
    BY DEF TypeOK, RequestsOK, Procs
  <2>2. r.pc = "refund" /\ r.s = s
    BY <2>1 DEF Request
  <2>3. CASE /\ g # NoGrant
             /\ req' = [req EXCEPT ![Sweeper].pc = "refund", ![Sweeper].todo = @ \ {s},
                                   ![Sweeper].s = s, ![Sweeper].grant = g]
    <3>1. req'[Sweeper] = r
      BY <2>1, <2>3 DEF TypeOK, RequestsOK, Request
    <3>2. RefundStarts(Sweeper, s)
      BY <2>2, <3>1 DEF RefundStarts
    <3> QED  BY <1>0, <1>1, <3>2, KeptStatus DEF SweepAbandon
  <2>4. CASE g = NoGrant
    BY <1>0, <1>1, <2>4, KeptStatus DEF SweepAbandon
  <2> QED  BY <1>1, <2>3, <2>4 DEF SweepAbandon
<1>2. ASSUME NEW s \in Sessions, SweepExpire(s)  PROVE Kept(Sweeper)
  BY <1>0, <1>2, KeptStatus DEF SweepExpire
<1> QED
  BY <1>0, <1>1, <1>2 DEF SweepStep, SweepBegin, SweepFindCreated, SweepFindOld, SweepEnd,
                          SweepStale, docVars

-----------------------------------------------------------------------------
(* A grant is issued before it pays for anything                            *)

PayingPCs == {"create_log", "create_insert", "refund", "refund_log"}

Untouched(g) ==
    /\ remaining[g] = 0
    /\ \A p \in Procs : req[p].pc \in PayingPCs => req[p].grant # g
    /\ \A s \in Sessions : sess[s].grant # g

IssuedFirst == \A g \in Grants : issued[g] = 0 => Untouched(g)

LEMMA UntouchedStays ==
    ASSUME NEW p \in Procs, NEW g \in Grants, Untouched(g), remaining'[g] = remaining[g],
           \A o \in Procs \ {p} : req'[o] = req[o],
           req'[p].pc \in PayingPCs => req'[p].grant # g,
           \A s \in Sessions : sess'[s].grant # g
    PROVE  Untouched(g)'
BY DEF Untouched

LEMMA MovedPays ==
    ASSUME TypeOK, NEW p \in Procs, Moved(p), NEW g \in Grants, Untouched(g)
    PROVE  req'[p].pc \in PayingPCs => req'[p].grant # g
<1>1. CASE req'[p].pc = "create_insert"
  BY <1>1 DEF Moved, ReservedPCs, Untouched, PayingPCs
<1>2. CASE req'[p].pc = "refund"
  <2>1. CASE CreateInsert(p) /\ req'[p].grant = req[p].grant
    BY <2>1 DEF CreateInsert, AtPc, Untouched, PayingPCs
  <2>2. CASE \E s \in Sessions : req'[p].s = s /\ req'[p].grant = sess[s].grant
    BY <2>2 DEF Untouched
  <2> QED  BY <1>2, <2>1, <2>2 DEF Moved, Refunding
<1>3. CASE req'[p].pc = "refund_log"
  <2> DEFINE r == [req[p] EXCEPT !.pc = "refund_log"]
  <2>1. Refund(p) /\ req[p] \in Request
    BY <1>3 DEF Moved, TypeOK, RequestsOK
  <2>2. req'[p] = r /\ req[p].pc = "refund"
    BY <2>1 DEF Refund, Go, AtPc, TypeOK, RequestsOK
  <2>3. r.grant = req[p].grant
    BY <2>1 DEF Request
  <2> HIDE DEF r
  <2> QED  BY <2>2, <2>3 DEF Untouched, PayingPCs
<1> QED  BY <1>1, <1>2, <1>3 DEF Moved, PayingPCs

LEMMA CreateReserveUntouched ==
    ASSUME TypeOK, NEW p \in Procs, NEW s \in Sessions, CreateReserve(p, s),
           NEW g \in Grants, Untouched(g)
    PROVE  Untouched(g)'
<1> DEFINE q == req[p]
           r(pc) == [q EXCEPT !.pc = pc, !.s = s]
<1>1. q \in Request /\ UNCHANGED sess
  BY DEF CreateReserve, docVars, TypeOK, RequestsOK
<1>2. \A pc : r(pc).grant = q.grant
  BY <1>1 DEF Request
<1>3. /\ req'[p] \in {r("create_insert"), r("create_log"), Idle}
      /\ \A o \in Procs \ {p} : req'[o] = req[o]
  BY DEF CreateReserve, Return, TypeOK, RequestsOK
<1>4. req'[p] # Idle => q.grant # g
  <2>1. CASE q.grant = NoGrant
    BY <2>1, ConstantsAssumption
  <2>2. CASE remaining[q.grant] > 0
    BY <2>2 DEF Untouched
  <2>3. CASE Return(p)
    BY <2>3 DEF Return, TypeOK, RequestsOK
  <2> QED  BY <2>1, <2>2, <2>3 DEF CreateReserve
<1>5. remaining'[g] = remaining[g]
  <2>1. q.grant \in Grants \cup {NoGrant}
    BY <1>1 DEF Request
  <2>2. CASE UNCHANGED remaining
    BY <2>2
  <2>3. CASE /\ remaining[q.grant] > 0
             /\ remaining' = [remaining EXCEPT ![q.grant] = @ - 1]
    <3>1. q.grant # g
      BY <2>3 DEF Untouched
    <3> QED  BY <2>3, <3>1 DEF TypeOK, GrantsOK
  <2> QED  BY <2>2, <2>3 DEF CreateReserve
<1>6. req'[p].pc \in PayingPCs => req'[p].grant # g
  <2> HIDE DEF r
  <2> QED  BY <1>2, <1>3, <1>4 DEF Idle, PayingPCs
<1> QED  BY <1>1, <1>3, <1>5, <1>6, UntouchedStays DEF Untouched

LEMMA CreateInsertUntouched ==
    ASSUME TypeOK, NEW p \in Procs, CreateInsert(p), NEW g \in Grants, Untouched(g)
    PROVE  Untouched(g)'
<1> DEFINE q == req[p]
           d == [NoDoc EXCEPT !.status = "created", !.user = q.user, !.grant = q.grant,
                              !.behavioral = q.behavioral, !.created = now]
           r == [q EXCEPT !.pc = "refund"]
<1>1. q \in Request /\ q.s \in Sessions /\ q.grant # g /\ UNCHANGED remaining
  BY AtSession DEF CreateInsert, AtPc, NoSessionPCs, Untouched, PayingPCs, grantVars
<1>2. d.grant = q.grant /\ r.grant = q.grant
  BY <1>1 DEF NoDoc, Request
<1>3. /\ req'[p] \in {r, Idle}
      /\ \A o \in Procs \ {p} : req'[o] = req[o]
      /\ UNCHANGED sess \/ SetDoc(q.s, d)
  BY DEF CreateInsert, Return, Go, TypeOK, RequestsOK
<1> HIDE DEF d, r
<1>4. \A s \in Sessions : sess'[s].grant # g
  BY <1>1, <1>2, <1>3 DEF SetDoc, TypeOK, DocsOK, Untouched
<1>5. req'[p].pc \in PayingPCs => req'[p].grant # g
  BY <1>1, <1>2, <1>3 DEF Idle, PayingPCs
<1> QED  BY <1>1, <1>3, <1>4, <1>5, UntouchedStays

LEMMA ResumeIssuedFirst ==
    ASSUME TypeOK, Invariant, IssuedFirst, NEW p \in Procs, Resume(p)  PROVE IssuedFirst'
<1>1. UNCHANGED issued
  <2>1. ASSUME NEW s \in Sessions, CreateReserve(p, s)  PROVE UNCHANGED issued
    BY <2>1 DEF CreateReserve
  <2>2. CreateLog(p) \/ Refund(p) \/ RefundLog(p) => UNCHANGED issued
    BY DEF CreateLog, Refund, RefundLog
  <2> QED  BY <2>1, <2>2, ResumeLeavesGrants DEF grantVars
<1> SUFFICES ASSUME NEW g \in Grants, Untouched(g)  PROVE Untouched(g)'
  BY <1>1 DEF IssuedFirst
<1>2. CASE Moved(p) /\ ~CreateInsert(p) /\ \A s \in Sessions : ~CreateReserve(p, s)
  <2>1. \A s \in Sessions : sess'[s].grant # g
    BY <1>2, ResumeKept DEF Kept, Untouched
  <2>2. remaining'[g] = remaining[g]
    <3>1. CASE Refund(p)
      <4>1. req[p].grant # g /\ req[p].grant \in Grants
        BY <3>1 DEF Refund, AtPc, Untouched, PayingPCs, TypeOK, RequestsOK, InHand, GrantPCs
      <4> QED  BY <3>1, <4>1 DEF Refund, TypeOK, GrantsOK
    <3>2. CASE CreateLog(p) \/ RefundLog(p)
      BY <3>2 DEF CreateLog, RefundLog
    <3> QED  BY <1>2, <3>1, <3>2, ResumeLeavesGrants DEF grantVars
  <2>3. \A o \in Procs \ {p} : req'[o] = req[o]
    BY <1>2 DEF Moved
  <2> QED  BY <1>2, <2>1, <2>2, <2>3, MovedPays, UntouchedStays
<1>3. ASSUME NEW s \in Sessions, CreateReserve(p, s)  PROVE Untouched(g)'
  BY <1>3, CreateReserveUntouched
<1>4. CASE CreateInsert(p)
  BY <1>4, CreateInsertUntouched
<1> QED  BY <1>2, <1>3, <1>4, ResumeMoves

LEMMA GrantBalanced ==
    ASSUME TypeOK, IssuedFirst, NEW h \in Grants, GrantSessions(h)
    PROVE  /\ IssuedFirst'
           /\ (\A g \in Grants : Balanced(g)) => (\A g \in Grants : Balanced(g)')
<1>1. /\ issued' = [issued EXCEPT ![h] = GrantSize] /\ remaining' = [remaining EXCEPT ![h] = GrantSize]
      /\ issued[h] = 0 /\ remaining[h] = 0 /\ UNCHANGED <<sess, req, consumeTx, refundTx>>
  BY DEF GrantSessions, docVars, IssuedFirst, Untouched
<1>2. ASSUME NEW g \in Grants
      PROVE  /\ issued'[g] = IF g = h THEN GrantSize ELSE issued[g]
             /\ remaining'[g] = IF g = h THEN GrantSize ELSE remaining[g]
  BY <1>1 DEF TypeOK, GrantsOK
<1>3. IssuedFirst'
  <2> SUFFICES ASSUME NEW g \in Grants, issued'[g] = 0  PROVE Untouched(g)'
    BY DEF IssuedFirst
  <2>1. issued[g] = 0 /\ remaining'[g] = 0
    BY <1>1, <1>2 DEF IssuedFirst, Untouched
  <2> QED  BY <1>1, <2>1 DEF IssuedFirst, Untouched
<1>4. ASSUME NEW g \in Grants, Balanced(g)  PROVE Balanced(g)'
  <2>1. /\ Holding("create_log", g)' = Holding("create_log", g)
        /\ Holding("refund_log", g)' = Holding("refund_log", g)
    BY <1>1 DEF Holding, At
  <2>2. CASE g = h
    BY <1>1, <1>2, <1>4, <2>1, <2>2, BalanceType, ConstantsAssumption DEF Balanced
  <2>3. CASE g # h
    BY <1>1, <1>2, <1>4, <2>1, <2>3 DEF Balanced
  <2> QED  BY <2>2, <2>3
<1> QED  BY <1>3, <1>4

-----------------------------------------------------------------------------
(* An abandoned session is refunded                                         *)

Owed(s) == refundsOf[s] > 0 \/ \E p \in At({"refund", "refund_log"}) : req[p].s = s

Repaid == \A s \in Sessions : sess[s].status = "abandoned" /\ sess[s].grant # NoGrant => Owed(s)

\* A refund that is due stays due until it is logged.
LEMMA OwedStays ==
    ASSUME TypeOK, Invariant, NEW p \in Procs, Resume(p), NEW s \in Sessions, Owed(s)
    PROVE  Owed(s)'
<1> DEFINE q == req[p]
<1>0. \A o \in Procs \ {p} : req'[o] = req[o]
  <2>1. CreateInsert(p) => \A o \in Procs \ {p} : req'[o] = req[o]
    BY DEF CreateInsert, Return, Go, TypeOK, RequestsOK
  <2>2. \A t \in Sessions : CreateReserve(p, t) => \A o \in Procs \ {p} : req'[o] = req[o]
    BY DEF CreateReserve, Return, TypeOK, RequestsOK
  <2> QED  BY <2>1, <2>2, ResumeMoves DEF Moved
<1>1. refundsOf[s] \in Nat
  BY DEF TypeOK, GrantsOK
<1>2. CASE Refund(p)
  <2> DEFINE r == [q EXCEPT !.pc = "refund_log"]
  <2>1. UNCHANGED refundsOf /\ q \in Request /\ req'[p] = r
    BY <1>2 DEF Refund, Go, TypeOK, RequestsOK
  <2>2. r.pc = "refund_log" /\ r.s = q.s
    BY <2>1 DEF Request
  <2> HIDE DEF r
  <2> QED  BY <1>0, <2>1, <2>2 DEF Owed, At
<1>3. CASE RefundLog(p)
  <2>1. q.s \in Sessions
    BY <1>3, AtSession DEF RefundLog, AtPc, NoSessionPCs
  <2>2. refundsOf' = [refundsOf EXCEPT ![q.s] = @ + 1]
    BY <1>3 DEF RefundLog
  <2>3. refundsOf'[s] = IF s = q.s THEN refundsOf[s] + 1 ELSE refundsOf[s]
    BY <2>2 DEF TypeOK, GrantsOK
  <2> QED  BY <1>0, <1>1, <2>3 DEF Owed, At
<1>4. CASE ~Refund(p) /\ ~RefundLog(p)
  <2>1. UNCHANGED refundsOf /\ q.pc \notin {"refund", "refund_log"}
    <3>1. CreateLog(p) => UNCHANGED refundsOf /\ q.pc = "create_log"
      BY DEF CreateLog, AtPc
    <3>2. \A t \in Sessions : CreateReserve(p, t) => UNCHANGED refundsOf /\ q.pc = "create_reserve"
      BY DEF CreateReserve, AtPc
    <3> QED  BY <1>4, <3>1, <3>2, ResumeLeavesGrants DEF grantVars
  <2> QED  BY <1>0, <2>1 DEF Owed, At
<1> QED  BY <1>2, <1>3, <1>4

LEMMA StartsOwes ==
    ASSUME NEW p \in Procs, NEW s, RefundStarts(p, s)  PROVE Owed(s)'
BY DEF RefundStarts, Owed, At

LEMMA ResumeRepaid ==
    ASSUME TypeOK, Invariant, NEW p \in Procs, Resume(p), Repaid  PROVE Repaid'
<1> SUFFICES ASSUME NEW s \in Sessions, sess'[s].status = "abandoned", sess'[s].grant # NoGrant
             PROVE  Owed(s)'
  BY DEF Repaid
<1>1. CASE CreateInsert(p)
  <2> DEFINE q == req[p]
             d == [NoDoc EXCEPT !.status = "created", !.user = q.user, !.grant = q.grant,
                                !.behavioral = q.behavioral, !.created = now]
  <2>1. q.s \in Sessions /\ d.status = "created"
    BY <1>1, AtSession DEF CreateInsert, AtPc, NoSessionPCs, NoDoc
  <2>2. UNCHANGED sess \/ SetDoc(q.s, d)
    BY <1>1 DEF CreateInsert
  <2> HIDE DEF d
  <2>3. sess'[s] = sess[s]
    BY <2>1, <2>2 DEF SetDoc, TypeOK, DocsOK
  <2> QED  BY <2>3, OwedStays DEF Repaid
<1>2. CASE ~CreateInsert(p)
  BY <1>2, ResumeKept, OwedStays, StartsOwes DEF Kept, Repaid
<1> QED  BY <1>1, <1>2

-----------------------------------------------------------------------------
(* The whole                                                                *)

Ledger ==
    /\ IssuedFirst
    /\ crashes = 0 => (\A g \in Grants : Balanced(g)) /\ Repaid

LEMMA ResumeLedger ==
    ASSUME TypeOK, Invariant, Ledger, NEW p \in Procs, Resume(p)  PROVE Ledger'
<1>1. UNCHANGED crashes
  BY DEF Resume, boundVars, AdvanceBehavioral, AdvanceComplete, Reread, CreateReserve, CreateLog,
         CreateInsert, Refund, RefundLog, StartWrite, StartAgent, TurnStart, TurnVoice, TurnHistory,
         TurnAgent, TurnReply, TurnEnd, ReadHistory, LanguageHistory, LanguageAgent,
         AcknowledgeWrite, EndCount, EndComplete, EndAbandon, ViolationRead, ViolationInsert,
         ViolationCount, ViolationTerminate, ViolationPause
<1>2. IssuedFirst'
  BY ResumeIssuedFirst DEF Ledger
<1>3. crashes = 0 => (\A g \in Grants : Balanced(g)') /\ Repaid'
  BY ResumeBalanced, ResumeRepaid DEF Ledger
<1> QED  BY <1>1, <1>2, <1>3 DEF Ledger

\* A client's call and a step of the sweep: a handler moves, the grants stay.
LEMMA CallerLedger ==
    ASSUME TypeOK, Ledger, NEW p \in Procs, Moved(p), Kept(p), UNCHANGED <<grantVars, crashes>>,
           req[p].pc \notin {"create_log", "refund", "refund_log"}
    PROVE  Ledger'
<1>1. \A o \in Procs \ {p} : req'[o] = req[o]
  BY DEF Moved
<1>2. IssuedFirst'
  <2> SUFFICES ASSUME NEW g \in Grants, Untouched(g)  PROVE Untouched(g)'
    BY DEF IssuedFirst, Ledger, grantVars
  <2> QED  BY <1>1, MovedPays, UntouchedStays DEF Kept, Untouched, grantVars
<1>3. (\A g \in Grants : Balanced(g)) => (\A g \in Grants : Balanced(g)')
  BY MovedBalanced DEF grantVars
<1>4. \A s \in Sessions : Owed(s) => Owed(s)'
  BY <1>1 DEF Owed, At, grantVars
<1>5. Repaid => Repaid'
  BY <1>4, StartsOwes DEF Repaid, Kept
<1> QED  BY <1>2, <1>3, <1>5 DEF Ledger

LEMMA NextLedger ==
    ASSUME TypeOK, Invariant, Ledger, [Next]_vars  PROVE Ledger'
<1>1. ASSUME NEW p \in Requests, ClientCall(p)  PROVE Ledger'
  <2>1. p \in Procs /\ Moved(p) /\ UNCHANGED <<sess, grantVars, crashes>>
    BY <1>1, ClientCallMoves, ClientLeavesGrants DEF Procs
  <2>2. Kept(p)
    BY <2>1 DEF Kept
  <2> QED  BY <1>1, <2>1, <2>2, ClientLeavesGrants, CallerLedger
<1>2. CASE SweepStep
  <2>1. UNCHANGED crashes
    BY <1>2 DEF SweepStep, boundVars, SweepBegin, SweepFindCreated, SweepFindOld, SweepEnd,
                SweepStale, SweepAbandon, SweepExpire
  <2> QED  BY <1>2, <2>1, SweepMoves, SweepKept, SweepLeavesGrants, CallerLedger DEF Procs
<1>3. CASE UNCHANGED <<sess, grantVars, req, crashes>>
  <2>1. IssuedFirst'
    BY <1>3 DEF Ledger, IssuedFirst, Untouched, grantVars
  <2>2. (\A g \in Grants : Balanced(g)) => (\A g \in Grants : Balanced(g)')
    BY <1>3 DEF Balanced, Holding, At, grantVars
  <2>3. Repaid => Repaid'
    BY <1>3 DEF Repaid, Owed, At, grantVars
  <2> QED  BY <1>3, <2>1, <2>2, <2>3 DEF Ledger
<1>4. CASE Crash
  <2>1. crashes' # 0 /\ UNCHANGED <<sess, grantVars>> /\ req' = [p \in Procs |-> Idle]
    BY <1>4 DEF Crash, docVars, TypeOK
  <2>2. IssuedFirst'
    BY <2>1 DEF Ledger, IssuedFirst, Untouched, grantVars, Idle, PayingPCs
  <2> QED  BY <2>1, <2>2 DEF Ledger
<1>5. ASSUME NEW h \in Grants, GrantSessions(h)  PROVE Ledger'
  <2>1. UNCHANGED <<sess, req, refundsOf, crashes>>
    BY <1>5 DEF GrantSessions, docVars
  <2>2. Repaid => Repaid'
    BY <2>1 DEF Repaid, Owed, At
  <2> QED  BY <1>5, <2>1, <2>2, GrantBalanced DEF Ledger
<1> QED
  BY <1>1, <1>2, <1>3, <1>4, <1>5, ResumeLedger DEF Next, Tick, vars, docVars, boundVars

LEMMA InitLedger ==
    ASSUME Init  PROVE Ledger
<1>1. /\ req = [p \in Procs |-> Idle] /\ sess = [s \in Sessions |-> NoDoc] /\ remaining = issued
      /\ consumeTx = [g \in Grants |-> 0] /\ refundTx = [g \in Grants |-> 0]
      /\ TypeOK
  BY InitType DEF Init
<1>2. \A pc \in {"create_log", "refund_log"}, g \in Grants : Holding(pc, g) = {}
  BY <1>1 DEF Holding, At, Idle
<1>3. ASSUME NEW g \in Grants  PROVE Balanced(g)
  <2>1. /\ Cardinality(Holding("create_log", g)) = 0 /\ Cardinality(Holding("refund_log", g)) = 0
    BY <1>2, FS_EmptySet
  <2> QED  BY <1>1, <2>1, BalanceType DEF Balanced
<1>4. IssuedFirst
  BY <1>1, ConstantsAssumption DEF IssuedFirst, Untouched, Idle, NoDoc, PayingPCs
<1>5. Repaid
  BY <1>1 DEF Repaid, NoDoc
<1> QED  BY <1>3, <1>4, <1>5 DEF Ledger

LEMMA LedgerHolds == Spec => []Ledger
<1>1. Init => Ledger
  BY InitLedger
<1>2. TypeOK /\ Invariant /\ Ledger /\ [Next]_vars => Ledger'
  BY NextLedger
<1> QED  BY <1>1, <1>2, InvariantHolds, PTL DEF Spec

\* What a grant has left is what was issued, minus the logged reservations, plus
\* the logged refunds, up to the handlers between the two writes, for any number of
\* handlers, as long as the server does not restart.
THEOREM LedgerBalancesInvariant == Spec => []LedgerBalances
<1>1. Ledger => LedgerBalances
  BY LedgerIsBalanced DEF Ledger
<1> QED  BY <1>1, LedgerHolds, PTL

\* A session that ended as abandoned has been refunded, or its refund is on its way,
\* for any number of handlers, as long as the server does not restart.
THEOREM AbandonedIsRefundedInvariant == Spec => []AbandonedIsRefunded
<1>1. Ledger => AbandonedIsRefunded
  BY DEF Ledger, Repaid, Owed, AbandonedIsRefunded
<1> QED  BY <1>1, LedgerHolds, PTL

-----------------------------------------------------------------------------
(* No session taken from a grant is lost                                    *)

RefundPCs == {"refund", "refund_log"}

\* A handler claims the id of a session that is not there: it is about to insert
\* it, or it gives back what it reserved for it.
Claims(q, docs) ==
    \/ q.pc \in ReservedPCs
    \/ q.pc \in RefundPCs /\ docs[q.s].status = "none"

ClaimFits(q, docs, refunds) ==
    /\ q.pc \in {"create_reserve"} \cup ReservedPCs => q.op = "create"
    /\ q.pc \in ReservedPCs => refunds[q.s] = 0
    /\ q.pc \in RefundPCs /\ docs[q.s].status = "none" => q.op = "create"
    /\ q.pc \in RefundPCs /\ docs[q.s].status # "none" => docs[q.s].grant = q.grant

ClaimsFit == \A p \in Procs : ClaimFits(req[p], sess, refundsOf)

OneClaim ==
    \A p, o \in Procs :
        Claims(req[p], sess) /\ Claims(req[o], sess) /\ req[p].s = req[o].s => p = o

\* What accounts for the sessions missing from a grant: documents paid from it and
\* not refunded, and claims not yet given back.  A document whose refund is applied
\* and not logged is counted once too often.
HoldsClaim(q, docs, g) == q.grant = g /\ Claims(q, docs) /\ q.pc # "refund_log"
HoldsReturn(q, docs, g) == q.grant = g /\ q.pc = "refund_log" /\ docs[q.s].status # "none"

Paid(g) == {s \in Sessions : sess[s].grant = g /\ refundsOf[s] = 0}
Claimants(g) == {p \in Procs : HoldsClaim(req[p], sess, g)}
Returned(g) == {p \in Procs : HoldsReturn(req[p], sess, g)}

Accounted(g) ==
    /\ IsFiniteSet(Paid(g))
    /\ issued[g] - remaining[g] + Cardinality(Returned(g))
           <= Cardinality(Paid(g)) + Cardinality(Claimants(g))

Claimed == ClaimsFit /\ OneClaim /\ (crashes = 0 => \A g \in Grants : Accounted(g))

LEMMA HandlersFinite ==
    ASSUME NEW g  PROVE IsFiniteSet(Claimants(g)) /\ IsFiniteSet(Returned(g))
<1>1. IsFiniteSet(Procs)
  BY ConstantsAssumption, FS_AddElement DEF Procs
<1> QED  BY <1>1, FS_Subset DEF Claimants, Returned

LEMMA AccountedSaves ==
    ASSUME TypeOK, Claimed  PROVE NoSessionLost
<1> SUFFICES ASSUME crashes = 0, NEW g \in Grants
             PROVE  issued[g] - remaining[g] <=
                        Cardinality({s \in Sessions : sess[s].grant = g /\ refundsOf[s] = 0})
                        + Cardinality({p \in At({"create_log", "create_insert"}) : req[p].grant = g})
                        + Cardinality({p \in At({"refund"}) : req[p].grant = g
                                                              /\ req[p].op = "create"})
  BY DEF NoSessionLost
<1> DEFINE A == {p \in At({"create_log", "create_insert"}) : req[p].grant = g}
           B == {p \in At({"refund"}) : req[p].grant = g /\ req[p].op = "create"}
<1>1. IsFiniteSet(Procs)
  BY ConstantsAssumption, FS_AddElement DEF Procs
<1>2. A \subseteq Procs /\ B \subseteq Procs
  BY DEF At
<1>3. Claimants(g) \subseteq A \cup B
  BY DEF Claimants, HoldsClaim, Claims, RefundPCs, ReservedPCs, At, Claimed, ClaimsFit, ClaimFits
<1> HIDE DEF A, B
<1>4. IsFiniteSet(A) /\ IsFiniteSet(B)
  BY <1>1, <1>2, FS_Subset
<1>5. /\ IsFiniteSet(A \cup B) /\ IsFiniteSet(A \cap B)
      /\ Cardinality(A \cup B) = Cardinality(A) + Cardinality(B) - Cardinality(A \cap B)
  BY <1>4, FS_Union, FS_Intersection
<1>6. Cardinality(Claimants(g)) <= Cardinality(A \cup B)
  BY <1>3, <1>5, FS_Subset
<1>7. /\ Cardinality(A) \in Nat /\ Cardinality(B) \in Nat /\ Cardinality(A \cap B) \in Nat
      /\ Cardinality(Claimants(g)) \in Nat /\ Cardinality(Returned(g)) \in Nat
  BY <1>4, <1>5, HandlersFinite, FS_CardinalityType
<1>8. /\ issued[g] - remaining[g] + Cardinality(Returned(g))
             <= Cardinality(Paid(g)) + Cardinality(Claimants(g))
      /\ Cardinality(Paid(g)) \in Nat
  BY FS_CardinalityType DEF Claimed, Accounted
<1>9. issued[g] \in Nat /\ remaining[g] \in Nat
  BY DEF TypeOK, GrantsOK
<1>10. issued[g] - remaining[g] <= Cardinality(Paid(g)) + Cardinality(A) + Cardinality(B)
  BY <1>5, <1>6, <1>7, <1>8, <1>9
<1> QED  BY <1>10 DEF Paid, A, B

\* A set that gains or loses nothing but x.
LEMMA CountMoves ==
    ASSUME NEW S, NEW T, NEW x, IsFiniteSet(S), T \ {x} = S \ {x}
    PROVE  /\ IsFiniteSet(T) /\ Cardinality(S) \in Nat /\ Cardinality(T) \in Nat
           /\ (x \in S <=> x \in T) => T = S
           /\ x \in T /\ x \notin S => Cardinality(T) = Cardinality(S) + 1
           /\ x \in S /\ x \notin T => Cardinality(T) = Cardinality(S) - 1
<1>1. CASE x \in S <=> x \in T
  <2>1. T = S
    BY <1>1
  <2> QED  BY <1>1, <2>1, FS_CardinalityType
<1>2. CASE x \in T /\ x \notin S
  <2>1. T = S \cup {x}
    BY <1>2
  <2> QED  BY <1>2, <2>1, FS_AddElement, FS_CardinalityType
<1>3. CASE x \in S /\ x \notin T
  <2>1. T = S \ {x}
    BY <1>3
  <2> QED  BY <1>3, <2>1, FS_RemoveElement, FS_CardinalityType
<1> QED  BY <1>1, <1>2, <1>3

\* What handler o holds is not touched by the step.
Undisturbed(o) ==
    /\ req'[o] = req[o]
    /\ req[o].pc \in RefundPCs =>
           /\ sess'[req[o].s].status = "none" <=> sess[req[o].s].status = "none"
           /\ sess'[req[o].s].grant = sess[req[o].s].grant
    /\ req[o].pc \in ReservedPCs => refundsOf'[req[o].s] = refundsOf[req[o].s]

\* A claim is one the handler had, or on an id that nobody holds.
ClaimIsOwn(p) ==
    Claims(req'[p], sess') =>
        \/ Claims(req[p], sess) /\ req'[p].s = req[p].s
        \/ \A o \in Procs \ {p} : req[o].s # req'[p].s

LEMMA OthersClaim ==
    ASSUME Claimed, NEW p \in Procs, \A o \in Procs \ {p} : Undisturbed(o),
           ClaimFits(req'[p], sess', refundsOf'), ClaimIsOwn(p)
    PROVE  /\ ClaimsFit' /\ OneClaim'
           /\ \A g : /\ Claimants(g)' \ {p} = Claimants(g) \ {p}
                     /\ Returned(g)' \ {p} = Returned(g) \ {p}
                     /\ p \in Claimants(g)' <=> HoldsClaim(req'[p], sess', g)
                     /\ p \in Returned(g)' <=> HoldsReturn(req'[p], sess', g)
<1>1. \A o \in Procs \ {p} :
         /\ Claims(req'[o], sess') <=> Claims(req[o], sess)
         /\ ClaimFits(req'[o], sess', refundsOf')
         /\ \A g : /\ HoldsClaim(req'[o], sess', g) <=> HoldsClaim(req[o], sess, g)
                   /\ HoldsReturn(req'[o], sess', g) <=> HoldsReturn(req[o], sess, g)
  <2> SUFFICES ASSUME NEW o \in Procs \ {p}
               PROVE  /\ Claims(req'[o], sess') <=> Claims(req[o], sess)
                      /\ ClaimFits(req'[o], sess', refundsOf')
                      /\ \A g : /\ HoldsClaim(req'[o], sess', g) <=> HoldsClaim(req[o], sess, g)
                                /\ HoldsReturn(req'[o], sess', g) <=> HoldsReturn(req[o], sess, g)
    OBVIOUS
  <2>1. Undisturbed(o) /\ ClaimFits(req[o], sess, refundsOf)
    BY DEF Claimed, ClaimsFit
  <2>2. Claims(req'[o], sess') <=> Claims(req[o], sess)
    BY <2>1 DEF Undisturbed, Claims
  <2>3. ClaimFits(req'[o], sess', refundsOf')
    BY <2>1 DEF Undisturbed, ClaimFits
  <2>4. \A g : /\ HoldsClaim(req'[o], sess', g) <=> HoldsClaim(req[o], sess, g)
               /\ HoldsReturn(req'[o], sess', g) <=> HoldsReturn(req[o], sess, g)
    BY <2>1, <2>2 DEF Undisturbed, HoldsClaim, HoldsReturn, RefundPCs
  <2> QED  BY <2>2, <2>3, <2>4
<1>2. ClaimsFit'
  BY <1>1 DEF ClaimsFit
<1>3. OneClaim'
  BY <1>1 DEF OneClaim, Claimed, ClaimIsOwn, Undisturbed
<1>4. \A g : /\ Claimants(g)' \ {p} = Claimants(g) \ {p}
             /\ Returned(g)' \ {p} = Returned(g) \ {p}
             /\ p \in Claimants(g)' <=> HoldsClaim(req'[p], sess', g)
             /\ p \in Returned(g)' <=> HoldsReturn(req'[p], sess', g)
  BY <1>1 DEF Claimants, Returned
<1> QED  BY <1>2, <1>3, <1>4

\* The account of a grant after a step of p that pays, or gives back, session x.
LEMMA AccountMoves ==
    ASSUME TypeOK, TypeOK', NEW g \in Grants, Accounted(g), NEW p \in Procs, NEW x,
           UNCHANGED issued, Paid(g)' \ {x} = Paid(g) \ {x},
           Claimants(g)' \ {p} = Claimants(g) \ {p}, Returned(g)' \ {p} = Returned(g) \ {p},
           \/ /\ remaining'[g] = remaining[g]
              /\ p \in Returned(g)' => p \in Returned(g)
              /\ \/ x \in Paid(g) => x \in Paid(g)'
                 \/ p \in Returned(g) /\ p \notin Returned(g)'
              /\ \/ p \in Claimants(g) => p \in Claimants(g)'
                 \/ x \notin Paid(g) /\ x \in Paid(g)'
           \/ /\ remaining'[g] = remaining[g] - 1 /\ Paid(g)' = Paid(g)
              /\ p \notin Claimants(g) /\ p \in Claimants(g)'
              /\ p \in Returned(g)' => p \in Returned(g)
           \/ /\ remaining'[g] = remaining[g] + 1 /\ Paid(g)' = Paid(g)
              /\ \/ p \in Returned(g)' => p \in Returned(g)
                 \/ p \in Claimants(g) => p \in Claimants(g)'
    PROVE  Accounted(g)'
<1>1. /\ IsFiniteSet(Paid(g)) /\ IsFiniteSet(Claimants(g)) /\ IsFiniteSet(Returned(g))
  BY HandlersFinite DEF Accounted
<1>2. /\ issued[g] \in Nat /\ remaining[g] \in Nat /\ remaining'[g] \in Nat /\ issued'[g] = issued[g]
  BY DEF TypeOK, GrantsOK
<1> DEFINE P == Paid(g)       P1 == Paid(g)'
           C == Claimants(g)  C1 == Claimants(g)'
           R == Returned(g)   R1 == Returned(g)'
<1> SUFFICES IsFiniteSet(P1)
             /\ issued'[g] - remaining'[g] + Cardinality(R1) <= Cardinality(P1) + Cardinality(C1)
  BY DEF Accounted
<1>3. issued[g] - remaining[g] + Cardinality(R) <= Cardinality(P) + Cardinality(C)
  BY DEF Accounted
<1>4. P1 \ {x} = P \ {x} /\ C1 \ {p} = C \ {p} /\ R1 \ {p} = R \ {p}
  OBVIOUS
<1>5. \/ /\ remaining'[g] = remaining[g]
         /\ p \in R1 => p \in R
         /\ (x \in P => x \in P1) \/ (p \in R /\ p \notin R1)
         /\ (p \in C => p \in C1) \/ (x \notin P /\ x \in P1)
      \/ /\ remaining'[g] = remaining[g] - 1 /\ P1 = P
         /\ p \notin C /\ p \in C1
         /\ p \in R1 => p \in R
      \/ /\ remaining'[g] = remaining[g] + 1 /\ P1 = P
         /\ (p \in R1 => p \in R) \/ (p \in C => p \in C1)
  OBVIOUS
<1> HIDE DEF P, P1, C, C1, R, R1
<1>6. /\ IsFiniteSet(P1) /\ Cardinality(P) \in Nat /\ Cardinality(P1) \in Nat
      /\ (x \in P <=> x \in P1) => P1 = P
      /\ x \in P1 /\ x \notin P => Cardinality(P1) = Cardinality(P) + 1
      /\ x \in P /\ x \notin P1 => Cardinality(P1) = Cardinality(P) - 1
  BY <1>1, <1>4, CountMoves DEF P
<1>7. /\ Cardinality(C) \in Nat /\ Cardinality(C1) \in Nat
      /\ (p \in C <=> p \in C1) => C1 = C
      /\ p \in C1 /\ p \notin C => Cardinality(C1) = Cardinality(C) + 1
      /\ p \in C /\ p \notin C1 => Cardinality(C1) = Cardinality(C) - 1
  BY <1>1, <1>4, CountMoves DEF C
<1>8. /\ Cardinality(R) \in Nat /\ Cardinality(R1) \in Nat
      /\ (p \in R <=> p \in R1) => R1 = R
      /\ p \in R1 /\ p \notin R => Cardinality(R1) = Cardinality(R) + 1
      /\ p \in R /\ p \notin R1 => Cardinality(R1) = Cardinality(R) - 1
  BY <1>1, <1>4, CountMoves DEF R
<1> QED  BY <1>2, <1>3, <1>5, <1>6, <1>7, <1>8

ClaimsGoOn ==
    /\ ClaimsFit' /\ OneClaim'
    /\ (\A g \in Grants : Accounted(g)) => (\A g \in Grants : Accounted(g)')

\* Sessions keep their grant and go on to exist, so the other handlers are undisturbed.
LEMMA OthersUndisturbed ==
    ASSUME TypeOK, NEW p \in Procs, LifeWrite, Kept(p), UNCHANGED refundsOf,
           NEW o \in Procs \ {p}, req'[o] = req[o]
    PROVE  Undisturbed(o)
<1>1. CASE req[o].pc \in RefundPCs
  <2>1. req[o].s \in Sessions
    BY <1>1, AtSession DEF RefundPCs, NoSessionPCs
  <2> DEFINE s == req[o].s
  <2>2. sess'[s].grant = sess[s].grant
    BY <2>1 DEF Kept
  <2>3. PICK e : e = sess'[s]
    OBVIOUS
  <2>4. (~Exists(s) => e = sess[s]) /\ (Exists(s) => e.status # "none")
    BY <2>1, <2>3, LifeWriteDocs
  <2> QED  BY <2>2, <2>3, <2>4 DEF Undisturbed, Exists
<1>2. CASE req[o].pc \notin RefundPCs
  BY <1>2 DEF Undisturbed
<1> QED  BY <1>1, <1>2

\* A step that neither reserves, creates nor gives back a session.
LEMMA CallerClaims ==
    ASSUME TypeOK, TypeOK', SeenExists', Invariant, Claimed, NEW p \in Procs, Moved(p), Kept(p),
           UNCHANGED grantVars, req[p].pc \notin PayingPCs,
           req'[p].pc = "create_reserve" => req'[p].op = "create"
    PROVE  ClaimsGoOn
<1>0. LifeWrite /\ UNCHANGED <<issued, remaining, refundsOf>>
  BY DEF Moved, grantVars
<1>1. \A o \in Procs \ {p} : Undisturbed(o)
  BY <1>0, OthersUndisturbed DEF Moved
<1>2. req'[p].pc \notin ReservedPCs \cup {"refund_log"}
  BY DEF Moved, PayingPCs, ReservedPCs, Refund, AtPc
<1>3. ASSUME req'[p].pc = "refund"
      PROVE  sess'[req'[p].s].status # "none" /\ sess'[req'[p].s].grant = req'[p].grant
  <2>1. PICK s \in Sessions : req'[p].s = s /\ req'[p].grant = sess[s].grant
    BY <1>3 DEF Moved, Refunding, CreateInsert, AtPc, PayingPCs
  <2>2. req'[p].grant \in Grants
    BY <1>3 DEF TypeOK, RequestsOK, InHand, GrantPCs
  <2>3. Exists(s)
    BY <2>1, <2>2, ConstantsAssumption DEF Invariant, FreshIsEmpty, NoDoc
  <2>4. PICK e : e = sess'[s]
    OBVIOUS
  <2>5. e.status # "none" /\ e.grant = sess[s].grant
    BY <1>0, <2>3, <2>4, LifeWriteDocs DEF Kept
  <2> QED  BY <2>1, <2>4, <2>5
<1>4. /\ ClaimFits(req'[p], sess', refundsOf') /\ ClaimIsOwn(p)
      /\ \A g : ~HoldsClaim(req'[p], sess', g) /\ ~HoldsReturn(req'[p], sess', g)
  BY <1>2, <1>3 DEF ClaimFits, ClaimIsOwn, Claims, HoldsClaim, HoldsReturn, RefundPCs
<1>5. /\ ClaimsFit' /\ OneClaim'
      /\ \A g : /\ Claimants(g)' \ {p} = Claimants(g) \ {p}
                /\ Returned(g)' \ {p} = Returned(g) \ {p}
                /\ p \notin Claimants(g)' /\ p \notin Returned(g)'
  BY <1>1, <1>4, OthersClaim
<1>6. \A g : p \notin Claimants(g)
  BY DEF Claimants, HoldsClaim, Claims, PayingPCs, ReservedPCs, RefundPCs
<1>7. \A g : Paid(g)' = Paid(g)
  BY <1>0 DEF Paid, Kept
<1>8. ASSUME NEW g \in Grants, Accounted(g)  PROVE Accounted(g)'
  BY <1>0, <1>5, <1>6, <1>7, <1>8, AccountMoves
<1> QED  BY <1>5, <1>8 DEF ClaimsGoOn

LEMMA CreateReserveClaims ==
    ASSUME TypeOK, TypeOK', SeenExists', Invariant, Claimed, NEW p \in Procs, NEW s \in Sessions,
           CreateReserve(p, s)
    PROVE  ClaimsGoOn
<1> DEFINE q == req[p]
           r(pc) == [q EXCEPT !.pc = pc, !.s = s]
<1>1. /\ q \in Request /\ q.pc = "create_reserve" /\ q.op = "create"
      /\ UNCHANGED <<sess, issued, refundsOf>>
      /\ refundsOf[s] = 0 /\ \A o \in Procs : req[o].s # s
  BY DEF CreateReserve, AtPc, Fresh, docVars, TypeOK, RequestsOK, Claimed, ClaimsFit, ClaimFits
<1>2. \A pc : r(pc).pc = pc /\ r(pc).s = s /\ r(pc).grant = q.grant /\ r(pc).op = "create"
  BY <1>1 DEF Request
<1>3. /\ \A o \in Procs \ {p} : req'[o] = req[o]
      /\ \/ req'[p] = r("create_insert") /\ q.grant = NoGrant /\ UNCHANGED remaining
         \/ /\ req'[p] = r("create_log") /\ q.grant # NoGrant
            /\ remaining' = [remaining EXCEPT ![q.grant] = @ - 1]
         \/ req'[p] = Idle /\ UNCHANGED remaining
  BY DEF CreateReserve, Return, TypeOK, RequestsOK
<1> HIDE DEF r
<1>4. \A o \in Procs \ {p} : Undisturbed(o)
  BY <1>1, <1>3 DEF Undisturbed
<1>5. ClaimFits(req'[p], sess', refundsOf') /\ ClaimIsOwn(p)
  BY <1>1, <1>2, <1>3 DEF ClaimFits, ClaimIsOwn, Claims, ReservedPCs, RefundPCs, Idle
<1>6. /\ ClaimsFit' /\ OneClaim'
      /\ \A g : /\ Claimants(g)' \ {p} = Claimants(g) \ {p}
                /\ Returned(g)' \ {p} = Returned(g) \ {p}
                /\ p \in Claimants(g)' <=> HoldsClaim(req'[p], sess', g)
                /\ p \in Returned(g)' <=> HoldsReturn(req'[p], sess', g)
  BY <1>4, <1>5, OthersClaim
<1>7. \A g : Paid(g)' = Paid(g) /\ p \notin Claimants(g) /\ p \notin Returned(g)'
  BY <1>1, <1>2, <1>3, <1>6
     DEF Paid, Claimants, HoldsClaim, Claims, HoldsReturn, ReservedPCs, RefundPCs, Idle
<1>8. ASSUME NEW g \in Grants, Accounted(g)  PROVE Accounted(g)'
  <2>1. CASE remaining'[g] = remaining[g]
    BY <1>1, <1>6, <1>7, <1>8, <2>1, AccountMoves
  <2>2. CASE req'[p] = r("create_log") /\ q.grant = g
             /\ remaining' = [remaining EXCEPT ![g] = @ - 1]
    <3>1. p \in Claimants(g)' /\ remaining'[g] = remaining[g] - 1
      BY <1>2, <1>6, <2>2 DEF HoldsClaim, Claims, ReservedPCs, TypeOK, GrantsOK
    <3> QED  BY <1>1, <1>6, <1>7, <1>8, <3>1, AccountMoves
  <2>3. ASSUME q.grant # g, remaining' = [remaining EXCEPT ![q.grant] = @ - 1]
        PROVE  remaining'[g] = remaining[g]
    BY <2>3 DEF TypeOK, GrantsOK
  <2> QED  BY <1>3, <2>1, <2>2, <2>3
<1> QED  BY <1>6, <1>8 DEF ClaimsGoOn

LEMMA CreateLogClaims ==
    ASSUME TypeOK, TypeOK', SeenExists', Invariant, Claimed, NEW p \in Procs, CreateLog(p)
    PROVE  ClaimsGoOn
<1> DEFINE q == req[p]
           r == [q EXCEPT !.pc = "create_insert"]
<1>1. /\ q \in Request /\ q.pc = "create_log" /\ ClaimFits(q, sess, refundsOf)
      /\ UNCHANGED <<sess, issued, remaining, refundsOf>>
      /\ req'[p] = r /\ \A o \in Procs \ {p} : req'[o] = req[o]
  BY DEF CreateLog, Go, AtPc, docVars, TypeOK, RequestsOK, Claimed, ClaimsFit
<1>2. r.pc = "create_insert" /\ r.s = q.s /\ r.grant = q.grant /\ r.op = q.op
  BY <1>1 DEF Request
<1> HIDE DEF r
<1>3. \A o \in Procs \ {p} : Undisturbed(o)
  BY <1>1 DEF Undisturbed
<1>4. ClaimFits(req'[p], sess', refundsOf') /\ ClaimIsOwn(p)
  BY <1>1, <1>2 DEF ClaimFits, ClaimIsOwn, Claims, ReservedPCs, RefundPCs
<1>5. /\ ClaimsFit' /\ OneClaim'
      /\ \A g : /\ Claimants(g)' \ {p} = Claimants(g) \ {p}
                /\ Returned(g)' \ {p} = Returned(g) \ {p}
                /\ p \in Claimants(g)' <=> HoldsClaim(req'[p], sess', g)
                /\ p \in Returned(g)' <=> HoldsReturn(req'[p], sess', g)
  BY <1>3, <1>4, OthersClaim
<1>6. \A g : /\ Paid(g)' = Paid(g) /\ p \notin Returned(g)'
             /\ p \in Claimants(g) => p \in Claimants(g)'
  BY <1>1, <1>2, <1>5 DEF Paid, Claimants, HoldsClaim, Claims, HoldsReturn, ReservedPCs
<1>7. ASSUME NEW g \in Grants, Accounted(g)  PROVE Accounted(g)'
  BY <1>1, <1>5, <1>6, <1>7, AccountMoves
<1> QED  BY <1>5, <1>7 DEF ClaimsGoOn

LEMMA CreateInsertClaims ==
    ASSUME TypeOK, TypeOK', SeenExists', Invariant, Claimed, NEW p \in Procs, CreateInsert(p)
    PROVE  ClaimsGoOn
<1> DEFINE q == req[p]
           d == [NoDoc EXCEPT !.status = "created", !.user = q.user, !.grant = q.grant,
                              !.behavioral = q.behavioral, !.created = now]
           r == [q EXCEPT !.pc = "refund"]
<1>1. /\ q \in Request /\ q.pc = "create_insert" /\ q.s \in Sessions
      /\ ClaimFits(q, sess, refundsOf) /\ ~Exists(q.s) /\ sess[q.s] = NoDoc
      /\ UNCHANGED <<issued, remaining, refundsOf>>
  BY AtSession DEF CreateInsert, AtPc, NoSessionPCs, grantVars, Claimed, ClaimsFit, Invariant,
                   HandlersFit, HandlerFits, FreshIsEmpty, ReservedPCs, Exists
<1>2. /\ d.status = "created" /\ d.grant = q.grant
      /\ r.pc = "refund" /\ r.s = q.s /\ r.grant = q.grant /\ r.op = q.op
  BY <1>1 DEF NoDoc, Request
<1>3. /\ \A o \in Procs \ {p} : req'[o] = req[o]
      /\ \/ SetDoc(q.s, d) /\ req'[p] = Idle
         \/ UNCHANGED sess /\ req'[p] = r
         \/ UNCHANGED sess /\ q.grant = NoGrant /\ req'[p] = Idle
  BY DEF CreateInsert, Return, Go, TypeOK, RequestsOK
<1>4. /\ \A s \in Sessions \ {q.s} : sess'[s] = sess[s]
      /\ SetDoc(q.s, d) => sess'[q.s] = d
  BY <1>1, <1>3 DEF SetDoc, TypeOK, DocsOK
<1> HIDE DEF d, r
<1>5. ASSUME NEW o \in Procs \ {p}  PROVE Undisturbed(o)
  <2>1. req'[o] = req[o]
    BY <1>3
  <2>2. CASE req[o].pc \in RefundPCs
    <3>1. req[o].s \in Sessions
      BY <2>2, AtSession DEF RefundPCs, NoSessionPCs
    <3>2. req[o].s # q.s
      BY <1>1, <2>2 DEF Claimed, OneClaim, Claims, ReservedPCs, Exists
    <3>3. sess'[req[o].s] = sess[req[o].s]
      BY <1>4, <3>1, <3>2
    <3> QED  BY <1>1, <2>1, <3>3 DEF Undisturbed
  <2>3. CASE req[o].pc \notin RefundPCs
    BY <1>1, <2>1, <2>3 DEF Undisturbed
  <2> QED  BY <2>2, <2>3
<1>6. ClaimFits(req'[p], sess', refundsOf') /\ ClaimIsOwn(p)
  <2>1. CASE req'[p] = Idle
    BY <2>1 DEF ClaimFits, ClaimIsOwn, Claims, ReservedPCs, RefundPCs, Idle
  <2>2. CASE UNCHANGED sess /\ req'[p] = r
    BY <1>1, <1>2, <2>2 DEF ClaimFits, ClaimIsOwn, Claims, ReservedPCs, RefundPCs, Exists
  <2> QED  BY <1>3, <2>1, <2>2
<1>7. /\ ClaimsFit' /\ OneClaim'
      /\ \A g : /\ Claimants(g)' \ {p} = Claimants(g) \ {p}
                /\ Returned(g)' \ {p} = Returned(g) \ {p}
                /\ p \in Claimants(g)' <=> HoldsClaim(req'[p], sess', g)
                /\ p \in Returned(g)' <=> HoldsReturn(req'[p], sess', g)
  BY <1>5, <1>6, OthersClaim
<1>8. ASSUME NEW g \in Grants, Accounted(g)  PROVE Accounted(g)'
  <2>1. p \notin Returned(g)'
    BY <1>2, <1>3, <1>7 DEF HoldsReturn, Idle
  <2>2. Paid(g)' \ {q.s} = Paid(g) \ {q.s} /\ q.s \notin Paid(g)
    BY <1>1, <1>4, ConstantsAssumption DEF Paid, NoDoc
  <2>3. p \in Claimants(g) => q.grant = g
    BY DEF Claimants, HoldsClaim
  <2>4. CASE SetDoc(q.s, d) /\ q.grant = g
    <3>1. q.s \in Paid(g)'
      BY <1>1, <1>2, <1>4, <2>4 DEF Paid, ClaimFits, ReservedPCs
    <3> QED  BY <1>1, <1>7, <1>8, <2>1, <2>2, <3>1, AccountMoves
  <2>5. CASE q.grant # g
    BY <1>1, <1>7, <1>8, <2>1, <2>2, <2>3, <2>5, AccountMoves
  <2>6. CASE UNCHANGED sess /\ req'[p] = r
    <3>1. p \in Claimants(g) => p \in Claimants(g)'
      BY <1>1, <1>2, <1>7, <2>3, <2>6 DEF HoldsClaim, Claims, RefundPCs, Exists
    <3> QED  BY <1>1, <1>7, <1>8, <2>1, <2>2, <3>1, AccountMoves
  <2> QED  BY <1>3, <2>4, <2>5, <2>6, ConstantsAssumption
<1> QED  BY <1>7, <1>8 DEF ClaimsGoOn

LEMMA RefundClaims ==
    ASSUME TypeOK, TypeOK', SeenExists', Invariant, Claimed, NEW p \in Procs, Refund(p)
    PROVE  ClaimsGoOn
<1> DEFINE q == req[p]
           r == [q EXCEPT !.pc = "refund_log"]
<1>0. PICK h \in Grants : h = q.grant
  BY DEF Refund, AtPc, TypeOK, RequestsOK, InHand, GrantPCs
<1>1. /\ q \in Request /\ q.pc = "refund" /\ ClaimFits(q, sess, refundsOf)
      /\ UNCHANGED <<sess, issued, refundsOf>>
      /\ remaining' = [remaining EXCEPT ![h] = @ + 1]
      /\ req'[p] = r /\ \A o \in Procs \ {p} : req'[o] = req[o]
  BY <1>0 DEF Refund, Go, AtPc, docVars, TypeOK, RequestsOK, Claimed, ClaimsFit
<1>2. r.pc = "refund_log" /\ r.s = q.s /\ r.grant = q.grant /\ r.op = q.op
  BY <1>1 DEF Request
<1> HIDE DEF r
<1>3. \A o \in Procs \ {p} : Undisturbed(o)
  BY <1>1 DEF Undisturbed
<1>4. ClaimFits(req'[p], sess', refundsOf') /\ ClaimIsOwn(p)
  BY <1>1, <1>2 DEF ClaimFits, ClaimIsOwn, Claims, ReservedPCs, RefundPCs
<1>5. /\ ClaimsFit' /\ OneClaim'
      /\ \A g : /\ Claimants(g)' \ {p} = Claimants(g) \ {p}
                /\ Returned(g)' \ {p} = Returned(g) \ {p}
                /\ p \in Claimants(g)' <=> HoldsClaim(req'[p], sess', g)
                /\ p \in Returned(g)' <=> HoldsReturn(req'[p], sess', g)
  BY <1>3, <1>4, OthersClaim
<1>6. \A g : /\ Paid(g)' = Paid(g)
             /\ p \in Claimants(g) => g = h /\ p \notin Returned(g)'
             /\ p \in Returned(g)' => g = h
  BY <1>0, <1>1, <1>2, <1>5 DEF Paid, Claimants, HoldsClaim, Claims, HoldsReturn, RefundPCs, ReservedPCs
<1>7. ASSUME NEW g \in Grants, Accounted(g)  PROVE Accounted(g)'
  <2>1. remaining'[g] = IF g = h THEN remaining[g] + 1 ELSE remaining[g]
    BY <1>1 DEF TypeOK, GrantsOK
  <2> QED  BY <1>1, <1>5, <1>6, <1>7, <2>1, AccountMoves
<1> QED  BY <1>5, <1>7 DEF ClaimsGoOn

LEMMA RefundLogClaims ==
    ASSUME TypeOK, TypeOK', SeenExists', Invariant, Claimed, NEW p \in Procs, RefundLog(p)
    PROVE  ClaimsGoOn
<1> DEFINE q == req[p]
           r == [q EXCEPT !.pc = "sweep_created", !.s = NoSession, !.grant = NoGrant]
<1>1. /\ q \in Request /\ q.pc = "refund_log" /\ q.s \in Sessions
      /\ ClaimFits(q, sess, refundsOf) /\ UNCHANGED <<sess, issued, remaining>>
      /\ refundsOf' = [refundsOf EXCEPT ![q.s] = @ + 1]
  BY AtSession DEF RefundLog, AtPc, NoSessionPCs, Claimed, ClaimsFit
<1>2. /\ req'[p] \in {r, Idle} /\ \A o \in Procs \ {p} : req'[o] = req[o]
      /\ r.pc = "sweep_created"
  BY <1>1 DEF RefundLog, Return, TypeOK, RequestsOK, Request
<1> HIDE DEF r
<1>3. \A s \in Sessions : refundsOf'[s] = IF s = q.s THEN refundsOf[s] + 1 ELSE refundsOf[s]
  BY <1>1 DEF TypeOK, GrantsOK
<1>4. ASSUME NEW o \in Procs \ {p}  PROVE Undisturbed(o)
  <2>1. CASE req[o].pc \in ReservedPCs
    <3>1. req[o].s \in Sessions /\ sess[req[o].s].status = "none"
      BY <2>1, AtSession DEF ReservedPCs, NoSessionPCs, Invariant, HandlersFit, HandlerFits
    <3>2. req[o].s # q.s
      BY <1>1, <2>1, <3>1 DEF Claimed, OneClaim, Claims, RefundPCs
    <3> QED  BY <1>1, <1>2, <1>3, <3>1, <3>2 DEF Undisturbed
  <2>2. CASE req[o].pc \notin ReservedPCs
    BY <1>1, <1>2, <2>2 DEF Undisturbed
  <2> QED  BY <2>1, <2>2
<1>5. /\ ClaimFits(req'[p], sess', refundsOf') /\ ClaimIsOwn(p)
      /\ \A g : ~HoldsClaim(req'[p], sess', g) /\ ~HoldsReturn(req'[p], sess', g)
  BY <1>2 DEF ClaimFits, ClaimIsOwn, Claims, HoldsClaim, HoldsReturn, ReservedPCs, RefundPCs, Idle
<1>6. /\ ClaimsFit' /\ OneClaim'
      /\ \A g : /\ Claimants(g)' \ {p} = Claimants(g) \ {p}
                /\ Returned(g)' \ {p} = Returned(g) \ {p}
                /\ p \notin Claimants(g)' /\ p \notin Returned(g)'
  BY <1>4, <1>5, OthersClaim
<1>7. ASSUME NEW g \in Grants, Accounted(g)  PROVE Accounted(g)'
  <2>1. p \notin Claimants(g)
    BY <1>1 DEF Claimants, HoldsClaim
  <2>2. refundsOf[q.s] + 1 # 0
    BY <1>1 DEF TypeOK, GrantsOK
  <2>3. Paid(g)' \ {q.s} = Paid(g) \ {q.s}
    BY <1>1, <1>3 DEF Paid
  <2>4. CASE q.s \in Paid(g)
    <3>1. sess[q.s].status # "none"
      BY <2>4, ConstantsAssumption DEF Paid, Invariant, FreshIsEmpty, NoDoc, Exists
    <3>2. p \in Returned(g)
      BY <1>1, <2>4, <3>1 DEF Paid, Returned, HoldsReturn, ClaimFits, RefundPCs
    <3> QED  BY <1>1, <1>6, <1>7, <2>1, <2>3, <3>2, AccountMoves
  <2>5. CASE q.s \notin Paid(g)
    BY <1>1, <1>6, <1>7, <2>1, <2>3, <2>5, AccountMoves
  <2> QED  BY <2>4, <2>5
<1> QED  BY <1>6, <1>7 DEF ClaimsGoOn

\* Only create_session reserves.
ReservesToCreate(q) == q.pc = "create_reserve" => q.op = "create"

LEMMA ContinueReserves ==
    ASSUME NEW q \in Request, NEW status, NEW round, NEW voice
    PROVE  ReservesToCreate(Continue(q, status, round, voice))
<1> DEFINE C == Continue(q, status, round, voice)
           go(pc) == [q EXCEPT !.pc = pc, !.round = round, !.at = now, !.ends = 0, !.voice = voice]
           X1 == [q EXCEPT !.pc = "create_reserve", !.s = NoSession, !.ends = 0, !.voice = FALSE]
           X2 == [Idle EXCEPT !.pc = "end_count", !.op = "end", !.s = q.s]
           X3 == [Idle EXCEPT !.pc = "violation_insert", !.op = "violation", !.s = q.s]
           X4 == [q EXCEPT !.pc = "violation_insert", !.ends = 0]
           X5 == [q EXCEPT !.pc = "turn_history", !.op = "turn", !.ends = 0]
           X6 == [q EXCEPT !.pc = "sweep_stale", !.s = NoSession, !.ends = 0, !.voice = FALSE]
<1>1. \/ C = X1 /\ q.op = "create"
      \/ C \in {go("turn_start"), go("turn_voice"), go("language_history")}
      \/ C \in {X2, X3, X4, X5, X6, Idle}
  BY DEF Continue
<1>2. /\ X1.op = q.op
      /\ \A pc : go(pc).pc = pc
      /\ X2.pc = "end_count" /\ X3.pc = "violation_insert" /\ X4.pc = "violation_insert"
      /\ X5.pc = "turn_history" /\ X6.pc = "sweep_stale" /\ Idle.pc = "idle"
  BY DEF Request, Idle
<1> HIDE DEF C, go, X1, X2, X3, X4, X5, X6
<1>3. ReservesToCreate(C)
  BY <1>1, <1>2 DEF ReservesToCreate
<1> QED  BY <1>3 DEF C

LEMMA AdvanceReserves ==
    ASSUME NEW q \in Request, NEW d  PROVE ReservesToCreate(Advance(q, d))
<1> DEFINE X(pc) == [q EXCEPT !.ends = now + BehavioralMinutes, !.voice = d.voice, !.pc = pc]
<1>1. Advance(q, d) \in {X("advance_behavioral"), X("advance_complete"),
                         Continue(q, d.status, d.round, d.voice)}
  BY DEF Advance
<1>2. \A pc : X(pc).pc = pc
  BY DEF Request
<1> HIDE DEF X
<1> QED  BY <1>1, <1>2, ContinueReserves DEF ReservesToCreate

LEMMA ReadReserves ==
    ASSUME NEW q \in Request  PROVE ReservesToCreate(Read(q))
BY AdvanceReserves DEF Read

LEMMA ResumeReserves ==
    ASSUME TypeOK, NEW p \in Procs, Resume(p),
           \A s \in Sessions : ~CreateReserve(p, s), ~CreateLog(p), ~CreateInsert(p),
           ~Refund(p), ~RefundLog(p)
    PROVE  ReservesToCreate(req'[p])
<1> DEFINE q == req[p]
<1>0. q \in Request /\ req \in [Procs -> Request]
  BY DEF TypeOK, RequestsOK
<1>1. ASSUME NEW pc, Go(p, pc), pc # "create_reserve"  PROVE ReservesToCreate(req'[p])
  <2> DEFINE r == [q EXCEPT !.pc = pc]
  <2>1. r.pc = pc /\ req'[p] = r
    BY <1>0, <1>1 DEF Go, Request
  <2> HIDE DEF r
  <2> QED  BY <1>1, <2>1 DEF ReservesToCreate
<1>2. CASE Return(p)
  BY <1>0, <1>2 DEF Return, ReservesToCreate, Idle
<1>3. ASSUME NEW r, req' = [req EXCEPT ![p] = r], ReservesToCreate(r)  PROVE ReservesToCreate(req'[p])
  BY <1>0, <1>3
<1>4. ReservesToCreate(Raise(q)) /\ ReservesToCreate(AfterViolation(q))
  <2> DEFINE r == [q EXCEPT !.pc = "turn_history", !.op = "turn", !.ends = 0]
             r1 == [q EXCEPT !.pc = "turn_history", !.op = "turn"]
  <2>1. Raise(q) \in {r, Idle} /\ AfterViolation(q) \in {r1, Idle}
    BY DEF Raise, AfterViolation
  <2>2. r.pc = "turn_history" /\ r1.pc = "turn_history" /\ Idle.pc = "idle"
    BY <1>0 DEF Request, Idle
  <2> HIDE DEF r, r1
  <2> QED  BY <2>1, <2>2 DEF ReservesToCreate
<1>5. ASSUME NEW d, NEW r, WriteActive(p, q.s, d, r), ReservesToCreate(r)
      PROVE  ReservesToCreate(req'[p])
  BY <1>3, <1>4, <1>5 DEF WriteActive
<1>6. CASE AdvanceBehavioral(p)
  BY <1>0, <1>5, <1>6, ContinueReserves DEF AdvanceBehavioral
<1>7. CASE Reread(p) \/ ViolationRead(p)
  BY <1>0, <1>3, <1>7, ContinueReserves, ReadReserves DEF Reread, ViolationRead
<1>8. CASE StartWrite(p) \/ TurnStart(p)
  <2> DEFINE r == [q EXCEPT !.pc = "start_agent", !.at = 0]
             r1 == [q EXCEPT !.pc = "turn_voice"]
  <2>1. r.pc = "start_agent" /\ r1.pc = "turn_voice"
    BY <1>0 DEF Request
  <2>2. \E d : WriteActive(p, q.s, d, r) \/ WriteActive(p, q.s, d, r1)
    BY <1>8 DEF StartWrite, TurnStart
  <2> HIDE DEF r, r1
  <2> QED  BY <1>5, <2>1, <2>2 DEF ReservesToCreate
<1>9. CASE TurnEnd(p)
  <2>1. ReservesToCreate(Idle)
    BY DEF ReservesToCreate, Idle
  <2> QED  BY <1>2, <1>5, <1>9, <2>1 DEF TurnEnd
<1>10. CASE TurnVoice(p) \/ TurnHistory(p) \/ LanguageHistory(p) \/ TurnAgent(p) \/ EndAbandon(p)
  <2>1. ASSUME NEW pc \in {"turn_agent", "language_agent", "turn_reply", "refund",
                           "violation_read"},
               NEW n, req' \in {[req EXCEPT ![p].pc = pc, ![p].n = n],
                                [req EXCEPT ![p].pc = pc, ![p].end = n],
                                [req EXCEPT ![p].pc = pc, ![p].grant = n],
                                [req EXCEPT ![p].pc = pc, ![p].op = n]}
        PROVE  ReservesToCreate(req'[p])
    <3>1. req'[p].pc = pc
      BY <1>0, <2>1 DEF Request
    <3> QED  BY <3>1 DEF ReservesToCreate
  <2>2. CASE TurnVoice(p)
    BY <1>1, <1>2, <2>1, <2>2 DEF TurnVoice
  <2>3. CASE TurnHistory(p) \/ LanguageHistory(p)
    BY <2>1, <2>3 DEF TurnHistory, LanguageHistory, ReadHistory
  <2>4. CASE TurnAgent(p)
    <3>1. PICK end \in BOOLEAN : req' = [req EXCEPT ![p].pc = "turn_reply", ![p].end = end]
      BY <2>4 DEF TurnAgent
    <3>2. req'[p].pc = "turn_reply"
      BY <1>0, <3>1 DEF Request
    <3> QED  BY <3>2 DEF ReservesToCreate
  <2>5. CASE EndAbandon(p)
    BY <1>2, <2>1, <2>5 DEF EndAbandon
  <2> QED  BY <1>10, <2>2, <2>3, <2>4, <2>5
<1>11. CASE AcknowledgeWrite(p)
  <2> DEFINE r(pc) == [Idle EXCEPT !.op = "acknowledge", !.s = q.s, !.ends = now + BehavioralMinutes,
                                   !.pc = pc]
  <2>1. \A pc : r(pc).pc = pc
    BY DEF Idle
  <2>2. req'[p] \in {r("advance_behavioral"), r("advance_complete"), Idle}
    BY <1>0, <1>11 DEF AcknowledgeWrite
  <2> HIDE DEF r
  <2> QED  BY <2>1, <2>2 DEF ReservesToCreate, Idle
<1>12. CASE ViolationCount(p) \/ ViolationTerminate(p) \/ ViolationPause(p)
  <2> DEFINE r(pc) == [q EXCEPT !.pc = pc]
  <2>1. \A pc : r(pc).pc = pc
    BY <1>0 DEF Request
  <2>2. req'[p] \in {r("violation_terminate"), r("violation_pause"), AfterViolation(q)}
    BY <1>0, <1>12 DEF ViolationCount, ViolationTerminate, ViolationPause
  <2> HIDE DEF r
  <2> QED  BY <1>4, <2>1, <2>2 DEF ReservesToCreate
<1>13. CASE AdvanceComplete(p) \/ StartAgent(p) \/ TurnReply(p) \/ LanguageAgent(p) \/ EndCount(p)
            \/ EndComplete(p) \/ ViolationInsert(p)
  BY <1>1, <1>2, <1>13 DEF AdvanceComplete, StartAgent, TurnReply, LanguageAgent, EndCount,
                           EndComplete, ViolationInsert
<1> QED
  BY <1>6, <1>7, <1>8, <1>9, <1>10, <1>11, <1>12, <1>13 DEF Resume

\* A step of the handlers or of the sweep that none of the above is about.
LEMMA ResumeClaims ==
    ASSUME TypeOK, TypeOK', SeenExists', Invariant, Claimed, NEW p \in Procs, Resume(p)
    PROVE  ClaimsGoOn
<1>1. CASE CreateLog(p) \/ CreateInsert(p) \/ Refund(p) \/ RefundLog(p)
  BY <1>1, CreateLogClaims, CreateInsertClaims, RefundClaims, RefundLogClaims
<1>2. ASSUME NEW s \in Sessions, CreateReserve(p, s)  PROVE ClaimsGoOn
  BY <1>2, CreateReserveClaims
<1>3. CASE /\ ~CreateLog(p) /\ ~CreateInsert(p) /\ ~Refund(p) /\ ~RefundLog(p)
           /\ \A s \in Sessions : ~CreateReserve(p, s)
  <2>1. UNCHANGED grantVars /\ req[p].pc \notin PayingPCs
    <3>1. req[p].pc # "create_insert"
      BY <1>3 DEF Resume, AtPc, AdvanceBehavioral, AdvanceComplete, Reread, StartWrite,
         StartAgent, TurnStart, TurnVoice, TurnHistory, TurnAgent, TurnReply, TurnEnd, ReadHistory,
         LanguageHistory, LanguageAgent, AcknowledgeWrite, EndCount, EndComplete, EndAbandon,
         ViolationRead, ViolationInsert, ViolationCount, ViolationTerminate, ViolationPause
    <3> QED  BY <1>3, <3>1, ResumeLeavesGrants DEF PayingPCs
  <2>2. Moved(p) /\ Kept(p)
    BY <1>3, ResumeMoves, ResumeKept
  <2>3. ReservesToCreate(req'[p])
    BY <1>3, ResumeReserves
  <2> QED  BY <2>1, <2>2, <2>3, CallerClaims DEF ReservesToCreate
<1> QED  BY <1>1, <1>2, <1>3

LEMMA SweepClaims ==
    ASSUME TypeOK, TypeOK', SeenExists', Invariant, Claimed, SweepStep  PROVE ClaimsGoOn
<1>1. /\ Sweeper \in Procs /\ Moved(Sweeper) /\ Kept(Sweeper) /\ UNCHANGED grantVars
      /\ req[Sweeper] \in Request /\ req \in [Procs -> Request]
  BY SweepMoves, SweepKept, SweepLeavesGrants DEF Procs, TypeOK, RequestsOK
<1>2. req[Sweeper].pc \in {"idle", "sweep_stale", "sweep_created", "sweep_old"}
  <2>1. SweepBegin => req[Sweeper].pc = "idle"
    BY DEF SweepBegin, Idle
  <2>2. SweepFindCreated \/ SweepFindOld \/ SweepEnd => req[Sweeper].pc \in {"sweep_stale", "sweep_created", "sweep_old"}
    BY DEF SweepFindCreated, SweepFindOld, SweepEnd, AtPc
  <2>3. \A s \in Sessions : SweepStale(s) \/ SweepAbandon(s) \/ SweepExpire(s) =>
            req[Sweeper].pc \in {"sweep_stale", "sweep_created", "sweep_old"}
    BY DEF SweepStale, SweepAbandon, SweepExpire, AtPc
  <2> QED  BY <2>1, <2>2, <2>3 DEF SweepStep
<1>3. ReservesToCreate(req'[Sweeper])
  <2> DEFINE q == req[Sweeper]
  <2>1. ASSUME NEW pc \in {"sweep_created", "sweep_old"}, NEW todo, SweepTo(pc, todo)
        PROVE  req'[Sweeper].pc = pc
    BY <1>1, <2>1 DEF SweepTo, Request
  <2>2. CASE SweepFindCreated \/ SweepFindOld
    BY <2>1, <2>2 DEF SweepFindCreated, SweepFindOld, ReservesToCreate
  <2>3. CASE SweepBegin \/ SweepEnd
    <3> DEFINE todo == {s \in Sessions : sess[s].status \in InProgress}
               seen == [s \in Sessions |-> IF sess[s].status \in InProgress THEN sess[s] ELSE NoDoc]
               r == [Idle EXCEPT !.pc = "sweep_stale", !.op = "sweep", !.at = now, !.todo = todo,
                                 !.seen = seen]
    <3>1. r.pc = "sweep_stale" /\ Idle.pc = "idle"
      BY DEF Idle
    <3>2. req'[Sweeper] \in {r, Idle}
      BY <1>1, <2>3 DEF SweepBegin, SweepEnd, Return
    <3> HIDE DEF r
    <3> QED  BY <3>1, <3>2 DEF ReservesToCreate
  <2>4. ASSUME NEW s \in Sessions, SweepStale(s)  PROVE ReservesToCreate(req'[Sweeper])
    <3> DEFINE todo == q.todo \ {s}
               seen == [q.seen EXCEPT ![s] = NoDoc]
               r == [q EXCEPT !.todo = todo, !.s = s, !.seen = seen]
    <3>1. todo \in SUBSET Sessions /\ seen \in [Sessions -> SessionDoc]
      BY <1>1, NoDocType DEF Request
    <3>2. r \in Request
      <4> HIDE DEF todo, seen
      <4> QED  BY <1>1, <3>1 DEF Request
    <3>3. req'[Sweeper] = Advance(r, q.seen[s])
      BY <1>1, <2>4 DEF SweepStale
    <3> HIDE DEF r
    <3> QED  BY <3>2, <3>3, AdvanceReserves
  <2>5. ASSUME NEW s \in Sessions, SweepAbandon(s) \/ SweepExpire(s)
        PROVE  ReservesToCreate(req'[Sweeper])
    <3> DEFINE todo == q.todo \ {s}
               r1 == [q EXCEPT !.pc = "refund", !.todo = todo, !.s = s, !.grant = sess[s].grant]
               r2 == [q EXCEPT !.todo = todo]
    <3>1. req'[Sweeper] \in {r1, r2}
      BY <1>1, <2>5 DEF SweepAbandon, SweepExpire, Request
    <3>2. r1.pc = "refund" /\ r2.pc = q.pc /\ q.pc \in {"sweep_created", "sweep_old"}
      BY <1>1, <2>5 DEF Request, SweepAbandon, SweepExpire, AtPc
    <3> HIDE DEF r1, r2
    <3> QED  BY <3>1, <3>2 DEF ReservesToCreate
  <2> QED  BY <2>2, <2>3, <2>4, <2>5 DEF SweepStep
<1> QED  BY <1>1, <1>2, <1>3, CallerClaims DEF PayingPCs, ReservesToCreate

LEMMA ClientClaims ==
    ASSUME TypeOK, TypeOK', SeenExists', Invariant, Claimed, NEW p \in Requests, ClientCall(p)
    PROVE  ClaimsGoOn
<1>1. /\ p \in Procs /\ Moved(p) /\ UNCHANGED <<sess, grantVars>>
      /\ req \in [Procs -> Request]
  BY ClientCallMoves, ClientLeavesGrants DEF Procs, TypeOK, RequestsOK
<1>2. Kept(p)
  BY <1>1 DEF Kept
<1>3. /\ req[p] = Idle /\ \E q : ReservesToCreate(q) /\ Enters(p, q)
  <2>1. ASSUME NEW r \in Request, Enters(p, Read(r))  PROVE \E q : ReservesToCreate(q) /\ Enters(p, q)
    BY <2>1, ReadReserves
  <2>2. ASSUME NEW u \in Users, NEW g \in Grants \cup {NoGrant}, NEW b \in BOOLEAN,
               Create(p, u, g, b)
        PROVE  \E q : ReservesToCreate(q) /\ Enters(p, q)
    <3> DEFINE q == [Idle EXCEPT !.op = "create", !.user = u, !.grant = g, !.behavioral = b]
    <3>1. q \in Request
      BY IdleType DEF Request, Operations
    <3>2. CASE Enters(p, Continue(q, "none", "technical", FALSE))
      <4> HIDE DEF q
      <4> QED  BY <3>1, <3>2, ContinueReserves
    <3>3. ASSUME NEW e \in ActiveOf(u), Enters(p, Read([q EXCEPT !.s = e]))
          PROVE  \E r : ReservesToCreate(r) /\ Enters(p, r)
      <4>1. e \in Sessions
        BY DEF ActiveOf
      <4> HIDE DEF q
      <4>2. [q EXCEPT !.s = e] \in Request
        BY <3>1, <4>1 DEF Request
      <4> QED  BY <2>1, <3>3, <4>2
    <3> QED  BY <2>2, <3>2, <3>3 DEF Create
  <2>3. ASSUME NEW s \in Sessions, NEW op \in Operations
        PROVE  [Idle EXCEPT !.op = op, !.s = s] \in Request
    BY IdleType DEF Request
  <2>4. ASSUME NEW s \in Sessions,
               Start(p, s) \/ TurnRequest(p, s) \/ ChangeLanguage(p, s) \/ GetStatus(p, s)
                 \/ EndEarly(p, s) \/ RecordViolation(p, s) \/ Acknowledge(p, s)
        PROVE  \E q : ReservesToCreate(q) /\ Enters(p, q)
    <3> DEFINE q(op) == [Idle EXCEPT !.op = op, !.s = s]
               r1 == [q("start") EXCEPT !.pc = "start_write", !.at = now]
               d == sess[s]
               held == IF d.ends[d.round] = Unset THEN Unset
                       ELSE d.ends[d.round] + Lasted(d.paused)
               r2 == [q("acknowledge") EXCEPT
                     !.pc = "acknowledge_write", !.status = d.status, !.round = d.round,
                     !.ends = held,
                     !.at = IF d.round = RoundOf(d.status) THEN held
                            ELSE d.ends[RoundOf(d.status)]]
    <3>1. r1.pc = "start_write" /\ r2.pc = "acknowledge_write"
      BY DEF Idle
    <3>2. \A op \in Operations : q(op) \in Request
      BY <2>3
    <3>3. \/ Enters(p, r1) \/ Enters(p, r2)
          \/ \E op \in Operations : Enters(p, Read(q(op)))
      BY <2>4 DEF Start, TurnRequest, ChangeLanguage, GetStatus, EndEarly, RecordViolation,
                  Acknowledge, Operations
    <3> HIDE DEF q, r1, r2, d
    <3> QED  BY <2>1, <3>1, <3>2, <3>3 DEF ReservesToCreate
  <2>5. ASSUME NEW op, Calls(p, op)  PROVE req[p] = Idle
    BY <2>5 DEF Calls
  <2>6. \E op : Calls(p, op)
    BY Zenon DEF ClientCall, Create, Start, TurnRequest, ChangeLanguage, GetStatus, EndEarly,
                 RecordViolation, Acknowledge
  <2> QED  BY <2>2, <2>4, <2>5, <2>6, Zenon DEF ClientCall
<1>4. PICK q : ReservesToCreate(q) /\ Enters(p, q)
  BY <1>3
<1>5. req'[p] = q
  BY <1>1, <1>4 DEF Enters
<1> QED  BY <1>1, <1>2, <1>3, <1>4, <1>5, CallerClaims DEF ReservesToCreate, Idle, PayingPCs

LEMMA OthersClaims ==
    ASSUME TypeOK, Claimed, IssuedFirst,
           Tick \/ Crash \/ (\E g \in Grants : GrantSessions(g)) \/ UNCHANGED vars
    PROVE  Claimed'
<1>1. UNCHANGED <<sess, refundsOf>>
  BY DEF Tick, Crash, GrantSessions, vars, docVars, grantVars
<1>2. CASE UNCHANGED <<req, issued, remaining, crashes>>
  BY <1>1, <1>2 DEF Claimed, ClaimsFit, OneClaim, Accounted, Paid, Claimants, Returned
<1>3. CASE Crash
  <2>1. req' = [p \in Procs |-> Idle] /\ crashes' # 0
    BY <1>3 DEF Crash, TypeOK
  <2> QED  BY <2>1 DEF Claimed, ClaimsFit, OneClaim, ClaimFits, Claims, Idle, ReservedPCs, RefundPCs
<1>4. ASSUME NEW h \in Grants, GrantSessions(h)  PROVE Claimed'
  <2>1. /\ UNCHANGED <<req, crashes>> /\ issued[h] = 0
        /\ issued' = [issued EXCEPT ![h] = GrantSize] /\ remaining' = [remaining EXCEPT ![h] = GrantSize]
    BY <1>4 DEF GrantSessions
  <2>2. remaining[h] = 0 /\ issued \in [Grants -> Nat] /\ remaining \in [Grants -> Nat]
    BY <2>1 DEF IssuedFirst, Untouched, TypeOK, GrantsOK
  <2>3. \A g \in Grants : issued'[g] - remaining'[g] = issued[g] - remaining[g]
    BY <2>1, <2>2, ConstantsAssumption
  <2> QED
    BY <1>1, <2>1, <2>3 DEF Claimed, ClaimsFit, OneClaim, Accounted, Paid, Claimants, Returned
<1> QED
  BY <1>2, <1>3, <1>4 DEF Tick, vars, grantVars, boundVars

LEMMA NextClaims ==
    ASSUME TypeOK, TypeOK', SeenExists', Invariant, Ledger, Claimed, [Next]_vars  PROVE Claimed'
<1>1. ASSUME ClaimsGoOn, UNCHANGED crashes  PROVE Claimed'
  BY <1>1 DEF ClaimsGoOn, Claimed
<1>2. ASSUME NEW p \in Procs, Resume(p)  PROVE UNCHANGED crashes
  BY <1>2
     DEF Resume, boundVars, AdvanceBehavioral, AdvanceComplete, Reread, CreateReserve, CreateLog,
         CreateInsert, Refund, RefundLog, StartWrite, StartAgent, TurnStart, TurnVoice, TurnHistory,
         TurnAgent, TurnReply, TurnEnd, ReadHistory, LanguageHistory, LanguageAgent,
         AcknowledgeWrite, EndCount, EndComplete, EndAbandon, ViolationRead, ViolationInsert,
         ViolationCount, ViolationTerminate, ViolationPause
<1>3. SweepStep => UNCHANGED crashes
  BY DEF SweepStep, boundVars, SweepBegin, SweepFindCreated, SweepFindOld, SweepEnd,
         SweepStale, SweepAbandon, SweepExpire
<1> QED
  BY <1>1, <1>2, <1>3, ResumeClaims, SweepClaims, ClientClaims, ClientLeavesGrants, OthersClaims
     DEF Next, Ledger

LEMMA InitClaims ==
    ASSUME Init  PROVE Claimed
<1>1. /\ req = [p \in Procs |-> Idle] /\ sess = [s \in Sessions |-> NoDoc] /\ remaining = issued
      /\ TypeOK
  BY InitType DEF Init
<1>2. \A g \in Grants : Paid(g) = {} /\ Claimants(g) = {} /\ Returned(g) = {}
  BY <1>1, ConstantsAssumption
     DEF Paid, Claimants, Returned, HoldsClaim, HoldsReturn, Claims, Idle, NoDoc, ReservedPCs, RefundPCs
<1>3. ClaimsFit /\ OneClaim
  BY <1>1 DEF ClaimsFit, OneClaim, ClaimFits, Claims, Idle, ReservedPCs, RefundPCs
<1>4. ASSUME NEW g \in Grants  PROVE Accounted(g)
  <2>1. issued[g] \in Nat /\ remaining[g] = issued[g]
    BY <1>1 DEF TypeOK, GrantsOK
  <2>2. IsFiniteSet({}) /\ Cardinality({}) = 0
    BY FS_EmptySet
  <2> QED  BY <1>2, <2>1, <2>2 DEF Accounted
<1> QED  BY <1>3, <1>4 DEF Claimed

\* No session taken from a grant is lost, for any number of handlers that create,
\* abandon and refund at once: as long as the server does not restart, what a grant
\* misses is matched by documents paid from it and not refunded, or by handlers that
\* still hold a reservation to be inserted or given back.
THEOREM NoSessionLostInvariant == Spec => []NoSessionLost
<1>1. Init => Claimed
  BY InitClaims
<1>2. TypeOK /\ Invariant /\ Ledger /\ Claimed /\ TypeOK' /\ [Next]_vars => Claimed'
  BY NextClaims, SeenExistsHolds DEF Invariant
<1>3. TypeOK /\ Claimed => NoSessionLost
  BY AccountedSaves
<1> QED  BY <1>1, <1>2, <1>3, InvariantHolds, LedgerHolds, PTL DEF Spec
=============================================================================
