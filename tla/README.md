# Formal specification of IEMA.ai

TLA+ models of this repository: of its server (`apps/api`, FastAPI on one asyncio event loop over
MongoDB), of its web client (`apps/web`, React) and of its mobile app (`apps/mobile`, React Native),
checked with TLC on small instances and proved with TLAPS where a property can be proved for every
instance. Paths of the server below are relative to `apps/api/`, those of the clients to their `src/`.

## 1. How the code is read

All handlers run in one event loop. Between two `await`s a handler runs alone; at each `await`
(a database call, a model provider, a store) every other handler may run. MongoDB applies one update
of one document atomically and offers the code nothing more: there are no transactions, a few unique
indexes and a few updates with a condition. Nothing that a handler has read stays true after the next
`await`, and nothing a handler holds survives a restart of the process.

So in every module of the server

- an action is the code from one `await` to the next, and its name is the name of the function, or of
  the part of it, that it models;
- what a handler keeps in local variables is a record (`req[p]`, `job[p]`) whose field `pc` names the
  `await` it waits at; `"idle"` or `"none"` means the slot is free;
- a query whose result nothing writes in the model (a price, a plan, a user) belongs to the step before
  it, and so does the re-read of a document that only feeds the response;
- an exception is a step to the state in which it is caught or leaves the handler;
- requests come from a bounded set of slots (`Requests`): a slot is one handler in flight, and any
  number of requests may pass through it one after another.

A page of a client is an event loop too, with a person in front of it. In the clients' modules

- an action is one event handler, or the code from one `await` of it to the next;
- `page` (`ui`, `room`, `setup`, ...) is the state of the mounted components together with the refs and
  module variables that outlive a render; `server` is as much of the server as the page can see;
- `net[kind]` holds the calls in flight. A call keeps in `to` what its handler closed over and asked for,
  which may be old when the answer comes; it is `Sent`, then served or refused by the server (`Serve...`),
  then its handler goes on (`Deliver...`). Calls are served and delivered in any order; `Lose` takes a call,
  or its answer, away (`MaxLost` times in a behaviour), and the handler then goes on in its `catch`;
- an answer comes back to a page that was left only where the code lets it change something: on the web an
  unmounted page is gone, on mobile a screen under another keeps its state (`mine`, `here`);
- buttons are enabled exactly when the code renders and enables them (`Can...`, `...Shown`);
- `does` is the workload, chosen in the initial state and constant: the kinds of things this user does.
  A behaviour is one user's, so one run answers for all workloads and each stays small.

## 2. The system and its parts

| Part | State it keeps | Operations | What is hard | What makes it correct |
|---|---|---|---|---|
| Mock interviews (`interview_service.py`, `interview_agent.py`) | session document: status, round, round ends, pause, warnings; turns; score events | create, start, turn (typed or voice), change of language, status poll, acknowledge a warning, end early; time-based transitions inside most of them; a sweep every few minutes | handlers act on documents read before an LLM call of many seconds; polls, turns, sweep and proctoring all close sessions; report tasks live in memory | one active session per candidate; one verdict; no round left early; every session closes |
| Interview entitlements (`interview_service.py`) | grants with sessions left, log of consumptions and refunds | grant, reserve, refund | reservation, insert and log are separate writes; the sweep and an early end both refund | nothing bought is lost, the log explains the balance |
| Proctoring (`proctoring_service.py`) | violations, warnings counted on the session | record a violation | concurrent reports at the limit, pause and termination in separate updates | a termination is justified by counted, stored violations |
| Credit wallet (`credit_service.py`) | one wallet per user with six buckets, transaction rows | open, daily refill, add, deduct | read, compute, write absolute values, then write the row: no condition anywhere | no overdraft, no credit out of nothing, rows that agree with the wallet |
| Charging (`pricing_engine.py`) | rolling usage window on the wallet, usage rows | precheck, spend, assign a plan | guard, deduction, window and usage row are four awaits | what is reported as used was charged |
| Payments (`payments_routes.py`, `payments_service.py`, `discount_service.py`) | payment transactions, receipts, subscriptions, plan, uses of codes | create an order, confirm it by polling or signature, verify a receipt, webhooks | confirmations race, webhooks repeat, a restart between the purchase and its flag | what was paid is given, once |
| Interview reports (`interview_report_service.py`) | report document per session | generate, mark as without data, fail | duplicate tasks, a failure after a success | one report, linked from the session |
| Contests (`contest_service.py`, `contest_scoring.py`, `contest_settings.py`) | contest, teams, submissions, adjustments, audit log | publish, start, pause, resume, extend, stop; form and join teams; submit, rejudge, adjust; rank | check-then-write on capacity, membership and attempts; admins overwrite each other; judging spans a status change | team sizes, one team per user, attempts, time not lost in a pause, ranking independent of input order |
| Accounts (`auth_routes.py`, `auth.py`) | users, sessions, codes and reset tokens | register, sign in, refresh, sign out, verify an address, reset a password | codes and tokens are read, checked and consumed in separate steps | a code is used once |
| Practice (`practice_service.py`, `practice_ai_service.py`) | problem bank, submissions | run, submit, feedback, variants | charge after an external run | charged when answered |
| Connectors (`services/mcp/`) | OAuth states, connections with tokens, audit log | authorize, exchange, refresh, disconnect; a loop of model and tool calls | concurrent refresh with rotating tokens, disconnection during a refresh | a state is used once, a removed connection stays removed |
| Chat, career, builder, studio, counselling, resumes | conversations, pipelines, projects | prompt an external model, charge, store | the charge is after the answer | they use the wallet as `Spend`, `CheckedService`, `ChatMessage` |
| Web client (`apps/web`): interview room and pages, chat, practice, session, billing, connectors, contests | React state and refs, the token store, the price cache, popups, media tracks | every button, timer and answer of these pages | answers out of order, for something no longer shown or to a closure that is old; devices that outlive a page; polling that must end | what is sent fits together and goes out once, what is shown is what the server keeps, devices are released, nothing waits for ever |
| Mobile app (`apps/mobile`): interview stack, chat, session, billing | a stack of screens that keep their state, storage on the device, listeners of the stores | the same, and the app being killed, purchases that are redelivered | callbacks of a screen that was left, storage written later, listeners that outlive users | the same, and: a finished purchase was recorded and is accounted for, the device catches up with the app |
| Catalogue, notifications, uploads, settings, legal, knowledge engine, scripts | single documents | read and write | nothing concurrent beyond the last write | - |

Interactions: the interview router calls the wallet only through session packs, so interviews and credits
meet in one place, `grant_sessions`, called by a payment. Payments, admin adjustments, plans, and every
paid feature call `add_credits` or `spend` of the wallet of the same user. The interview service starts
report tasks without awaiting them. The sweep and the daily jobs run in the same loop as the handlers.
The clients meet the server through HTTP calls only, and each other not at all; the two interview rooms see of
a session exactly what `InterviewLifecycle` says, which is why that module stands between them and
`InterviewSession`.

`PROJECT.json` lists every part with its files and what of it is modelled, and under `hazards` the places
where this code can go wrong in ways a test would hardly reach, at their lines, with the properties that
cover them.

## 3. Modules

    InterviewSession ── InterviewRefinement ─┬─ MCInterviewSession
                         │                   └─ InterviewSessionProofs
                         └ (INSTANCE InterviewLifecycle)

    CreditWallet ── PaymentFulfilment ─┬─ MCBilling
                                       └─ PaymentFulfilmentProofs      (the wallet's too)

    InterviewLifecycle ─┬─ InterviewRoom
                        └─ MobileRoom ── MobileInterview

    ClientCalls ─┬─ WebInterview, WebPractice, WebSession, WebBilling, WebConnectors
                 ├─ WebChat ── WebChatProofs
                 ├─ ContestTeams ── WebContest ── ContestTeamsProofs
                 ├─ MobileChat ── MobileChatProofs
                 ├─ MobileSession ── MobileSessionProofs
                 └─ MobileBilling

    InterviewRoom, and instances of Web..., WebChatProofs, ContestTeamsProofs ── WebClient ─┬─ MCWeb
                                                                                            └─ WebClientProofs
    MobileInterview, and instances of MobileChatProofs, MobileSessionProofs, MobileBilling ── MobileClient ─┬─ MCMobile
                                                                                                            └─ MobileClientProofs

An `MC` module gives a specification its workloads and finite constants, in the cfg beside it, and nothing else;
the proofs are about the same specification. `WebClient` and `MobileClient` hold instances of proof modules, so
that a theorem about one page can be applied to the whole client.

### InterviewSession

Sessions, turns, score events, violations, grants and the sweep, in one module, because their handlers
write the same document.

| Model | Code |
|---|---|
| `sess[s]` | document of `interview_sessions`; the fields are those the control flow reads |
| `turns`, `scored`, `violations` | inserts into `interview_turns`, `interview_score_events`, `interview_violations` |
| `reports[s]` | `asyncio.create_task(generate_report(...))`, counted |
| `issued`, `remaining`, `consumeTx`, `refundTx` | `interview_entitlements` and its transaction log |
| `now` | the clock in abstract minutes; 0 is "not set" |
| `Create` ... `EndEarly`, `RecordViolation` | the first segment of each request handler, up to its first write |
| `CreateReserve` ... `ViolationPause` | the later segments, named after the handler and what is written |
| `Advance`, `AdvanceBehavioral`, `AdvanceComplete`, `Reread` | `_advance_time_based_transitions`, which status polls, starts, language changes and early ends all pass through |
| `SweepBegin` ... `SweepEnd` | `sweep_stale_sessions`: three cursors, each read in one batch; the first visits a document as it was then (`seen`) |
| `Crash` | the server restarts: every slot becomes idle, documents stay |

`IndexAllows` is the partial unique index on a candidate's active sessions: MongoDB evaluates it at every
write that puts a document in an active status, so a round change of a closed session can fail on it too.
The agent's answer is chosen from what the control flow distinguishes: it may score the answer, ask to end
the round, or fail, in which case the fallback reply is stored.

### CreditWallet

One user's wallet: every query of `credit_service.py` is by `user_id`, so users never meet.

| Model | Code |
|---|---|
| `wallet` | document of `wallets`: six buckets, day of the last refill, start and content of the usage window |
| `ledger`, `last`, `charged` | `credit_transactions`: sum of amounts, `balance_after` of the newest row, credits of the `ai_usage` rows |
| `usage` | `ai_usage`: credits of its rows |
| `req[p].held` | the `Wallet` object a handler has in memory |
| `ReadWallet`, `InsertWallet`, `WelcomeLog`, `Refill`, `DailyLog` | `get_or_create_wallet` and `_maybe_refill_daily` |
| `DeductWrite`, `DeductLog` / `AddWrite`, `AddLog` | `deduct_credits` / `add_credits` |
| `ReadWindow`, `ResetWindow`, `Work`, `AdvanceWindow`, `RecordUsage` | `_window_status`, the paid work, the rest of `spend` |
| `Resumed` | what the caller does when the wallet has been read: the balance check, or the next read |
| `Restart` | the process restarts; a row not yet written never is |

`Spend`, `CheckedService` and `ChatMessage` are the three orders in which the routers charge: charge only,
`precheck` then work then charge, and balance check then answer then charge. The charge after the answer can
fail; the chat's comment `already deducted` (`chat_routes.py:291`) is about an earlier design. The images of a
chat are further `Spend` calls. `career_routes.py:232` says of `spend()` that its "wallet check/deduct isn't
safe" to run in parallel, and keeps its own calls sequential; nothing keeps two requests apart, which is what
the model lets happen.

The loop of `deduct_credits` is written in closed form (`Ahead`, `Take`, `Deducted`), which is what a proof can
use; `ClosedFormIsTheLoop` in `MCBilling` compares it with the loop, step by step, on every wallet with buckets
in -1..2 and every affordable amount to 4, on each run.

`torn`, `added` and `takenBack` are history: whether two movements have overlapped (or one was cut off before
its row), what was ever put in a bucket, and what admins took back. The code does not compute them; they state
what the properties are conditional on.

### PaymentFulfilment

Extends `CreditWallet`: `job[p]` is where the payment handler is, `req[p]` the wallet call it awaits. A payment
step is enabled while `req[p]` is idle, and a wallet exception ends the payment (`UnwindJob`).

| Model | Code |
|---|---|
| `order[o]` | `payment_transactions`, with the provider's own view (`paid`) |
| `CreateOrder`, `InsertOrder` | `create_razorpay_payment_link` and the discount's validation |
| `ConfirmOrder` | `razorpay_link_status` and `verify_razorpay` up to the fulfilment |
| `FulfilCredits`, `InsertSessions`, `LogSessions`, `MarkCredited`, `CountUse` | `_fulfill_pack`, `grant_sessions`, the flag, the discount's counter |
| `VerifyReceipt`, `FindReceipt`, `InsertReceipt`, `CreditPack`, `ReceiptDone` | `verify_apple_receipt`, `verify_google_receipt`, `credit_pack_product` |
| `Webhook`, `AssignPlan`, `CreditMonthly`, `Subscribe`, `FreePlan`, `CancelSubscription` | the two webhook handlers, `_credit_plan`, `assign_plan`, `_revoke_plan` |
| `Pay`, `OpenSubscription` | the provider's side |

A receipt that lists packs and a plan is processed for its packs only (`payments_service.py:236`), so the
receipts of the model hold several packs or one plan. Webhooks may come any number of times, in any order.

### InterviewLifecycle and InterviewRefinement

`InterviewLifecycle` is the abstract session: status, round, warnings and whether it is paused, the four fields
its clients are told, and the ways they may change (`Created`, `ToTechnical`, `ToBehavioral`, `Close`, `Warn`,
`Pause`, `Unpause`). It says also what the clients must be prepared for: a late start or round change may come
after a terminal status, because those writes match on the id alone. The rooms have the handlers themselves above it,
cut at their awaits where one reads before it writes (`ServeStart`, `ServeTurn`, `ServeViolation`), so such a write
reaches a room whose session has ended; a turn answered by voice may count a warning on its way (`VoiceMismatch`), which
pauses or terminates as any other. `InterviewRefinement` maps each session
document to it; `ImplementsLifecycle` is checked in `conduct` and proved for every instance.

### The clients

| Module | Code | Its state | What of the server it has |
|---|---|---|---|
| `ClientCalls` | what every page does with a call: send, be answered, be refused, be lost | `net`, `lost` | - |
| `InterviewRoom` | `pages/interview/InterviewSession.jsx`, `useProctoring.js` | `ui`: the page, media tracks (`lit`, `orphan`), recorder, dialogs, timers (`due`), cooldowns | the whole of `InterviewLifecycle` and the handlers over it, opened at any point (`Openings`), which anyone else may close (`Elsewhere`) |
| `WebInterview` | `InterviewHome.jsx`, `InterviewSetup.jsx`, `InterviewReport.jsx` | one record per page, the devices of the system check | one session, the grants, the report's state |
| `WebChat` | `Chat.jsx`, `MentionPicker.jsx` | thread shown, composer, mentions, stream, edit | conversations as sequences of rows, flags |
| `WebPractice` | `Practice.jsx` | problem, language, editor, option, design | answers only: the server keeps nothing that decides an outcome |
| `WebSession` | `lib/api.js`, `authSlice.js`, the guards and the pages of signing in | tokens, the shared refresh and who waits for it, form steps, bridge to the app | whether the account still exists |
| `WebBilling` | `lib/pricing.js`, `Billing.jsx`, `PaygCard.jsx`, `PaymentSuccess.jsx`, `Wallet.jsx` | the module's price cache, code applied, purchase in flight, confirmation | price versions, one payment link |
| `WebConnectors` | `Connectors.jsx`, `ConnectorOAuthCallback.jsx`, `WorkspaceTimeline.jsx`, `oauth_service.py` | the popup and the intervals that watch it, dialogs, what the catalogue is searched and filtered for, steps of a prompt with their retries | connections and one-time states |
| `ContestTeams` | team formation in `contest_service.py` | - | teams and the handlers between their database calls |
| `WebContest` | `Contest.jsx`, `ContestLanding.jsx` | one page per contestant: what loads first, the team and its form, questions to the organisers, downloads | `ContestTeams` |
| `MobileRoom` | `InterviewSessionScreen.js`, `InterviewProctoringCamera.js` | `room` on the navigator's `stack`, presses the recorder works on | `InterviewLifecycle` and the handlers over it |
| `MobileInterview` | the other interview screens | one record per screen, kept under the screens pushed over it | grants, the report's state |
| `MobileChat` | `ConversationsScreen.js`, `ChatScreen.js` | list and pushed screen, what a left screen still runs | conversations as sequences of rows |
| `MobileSession` | `App.js`, `api.js`, `authSlice.js`, `authStorage.js`, the screens of signing in, the drawer | tokens in memory, un-awaited writes on their way to the device, in any order and with failures | tokens issued, what the device stored |
| `MobileBilling` | `iap.js`, `revenuecat.js`, `BillingScreen.js`, `WalletScreen.js` | listeners and whose callbacks they have, connection, users in turn | the stores' purchase: paid, finished, observed (external); its receipt and its credit, which the handler writes one after the other |

`WebClient` and `MobileClient` put the pages of a client side by side: a behaviour is that of one page
(`which`), with the calls in flight shared. That is the code's own structure (one route is mounted at a time, and
pages share no state but the token and the prices, which are in the modules that use them) and it lets one run
answer one question for all pages.

History variables, which the code does not have: `crossed` (web and mobile rooms, chat, connectors, contest),
`hasty` (a prompt sent in a new chat whose first one got no answer), `overtaken` and `retried` record that the
user went on before a call came back, in the very places where the code is known not to keep things apart; `silent` (web
room) that the clock was stopped where no answer opens the dialog; `missed` (mobile session) that a write to the device
failed or was overtaken, or that the device could not be read; `cut` (mobile billing) the purchases whose handler failed
between the receipt and the credit. The properties that mention them promise nothing there, and section 6 lists what
happens then. Every other interleaving is covered.

## 4. What is checked

All runs explore every interleaving of the instance. `CHECK_DEADLOCK FALSE` everywhere: clients may stop
calling, users may stop clicking, and a state in which nothing is left to do is a legitimate end.

| Run | Instance | What it shows |
|---|---|---|
| `entitlement` | 1 candidate who is also admin, 2 sessions, 2 grants of 1, 2 handlers, 4 calls, clock to 3 | `TypeOK`, `OneActiveSession`, `LedgerBalances`, `NoSessionLost`, `AbandonedIsRefunded` |
| `conduct` | 1 session, 2 handlers, 4 calls among turns, voice turns, acknowledgements, violations; clock to 3 | `WarningsBacked`, `WarningsJustify`, `FirstVerdictStands`, `RoundEndsForAReason`, `ImplementsLifecycle` |
| `closes` | 1 session, 2 handlers, 3 calls, 1 restart, `FairSpec` | `EverySessionCloses`, `ReportFollows` |
| `billing` | 1 user, 2 handlers, 3 calls, 1 restart, one change of day and of window, 1 order, 3 store transactions, 4 webhook events, a code of 1 use | the wallet's and the payments' invariants |
| `web` | one of eight pages and one of its workloads (70 in all); 2 calls a user began in flight at once (3 for contests), beside polls; 1 loss; about 820,000 states | `WebTypeOK`, `OneAtATime`, `MediaReleased`, `PausedInterviewIsShown`, `RequestsFit`, `ShownIsStored`, `TeamsFit`, `RoomSettles`, `PagesSettle` |
| `mobile` | one of four stacks and one of its workloads (29 in all); 2 calls in flight at once, beside polls; 1 loss, 1 change of user; about 914,000 states | `AppTypesOK`, `SessionFitsPack`, `DeafRoomIsLeft`, `OneAtATime`, `ScreenIsOneConversation`, `FinishedIsAccounted`, `StorageCatchesUp`, `ScreensSettle` |
| `observed_buyer` | the iOS bridge, two users one after the other, two purchases | the observer keeps the first user (section 6) |
| `start_twice`, `terminated`, `refund_started`, `link_twice`, `webhook_twice` | the smallest instance that contains the race | a sentence of the repository that the code does not keep (section 6) |

Why the bounds are enough for the question each run asks:

- Two handlers: every conflict in this code is between a value one handler read and one write of another; a
  third handler only repeats the second. The sweep is a process of its own besides them.
- Two sessions, two grants: the index and the reservation compare one session with another of the same
  candidate. Different candidates share no document, so one is enough; the theorems hold for any number.
- `MaxCalls` bounds requests started, not steps: three or four calls are enough to put a handler at any
  `await` while others run through, and to use what they left behind.
- The clock reaches past the ends of both rounds, the grace of the sweep and the hard expiry (`HardExpire`);
  in `billing`, one unit is a day and a window, so a refill and a window reset happen and race.
- `WarningsBeforeTermination = 1`: the first violation gives the final warning and pauses, the second
  terminates. The code has 2 and terminates at the third; more warnings add repetitions of the first step.
- Wallet amounts: a charge of 2 against a welcome of 2 and a daily 1 empties one bucket and eats into the next;
  a pack of 2; an adjustment of -2 puts a bucket below zero, which `NoOverdraft` must survive.
- `Workloads`: a behaviour of `billing` chooses at the start which kinds of calls arrive, out of six sets that
  together contain every kind beside those it can conflict with. The choice is the initial state's, so one run
  answers for all six.
- Clients: two calls at once are the fewest that can come back in the wrong order, and what a page keeps of a call
  is overwritten or not by the second. One loss: the pages do not retry on their own but by the next user action
  or poll, so a second loss finds a state the first one led to. A workload names which of the page's parts are
  used; parts that share state of the page are together in one. The room of the web is opened on a session just created,
  reloaded after one warning, or reloaded while the last one has the clock stopped (`MCOpenings`); of a reload with two
  warnings counted only the one more that terminates is left. `MaxPresses = 2` lets the microphone of the app be pressed
  again while the recorder still works on the press before. Two packs that offer different things, two codes
  good for different packs, two apps of which each other kind of authorization is another, two models of which
  one is locked: the smallest sets in which something of one can end up at the other. `MaxTurns = 3` is a thread,
  an edit in it, and a new one.
- Contests: teams of at most 2 with one place left and three contestants, so that two race for the place and the
  third sees the outcome; a cap of 3 that these can reach; two tries each.
- Symmetry: handlers are interchangeable, and so are the two pack transactions. It is not used with the
  temporal properties of `closes`.

Fairness (`FairSpec`, used by `closes`): the event loop resumes every handler whose awaited call has returned,
and the calls return or raise (they have timeouts), hence weak fairness of `Resume(p)` for each handler; the
sweep loop never exits (`server.py` catches whatever it raises), hence weak fairness of `SweepStep`; time
passes. No client is obliged to call, and no restart is obliged to happen.

In `web` and `mobile` the fairness is that of each page's own specification (`RoomFairness`, `ChatFairSpec`,
...), and always of the same three kinds: the server answers or refuses a call of the loop in question (weak
fairness of `Serve...`), the browser or the app runs the handler of an answer that came (`Deliver...`), and an
interval or timer that is set fires (`Poll`, `StatusDue`, `PollTick`, `ReportDue`). They are event loops: what is
enabled stays enabled until it is run. Nothing is asked of a user, of a payment, of a provider, or of a call
other than those that the property waits for.

What the properties say:

- `OneActiveSession`: a candidate never has two active sessions. The index is the only thing behind it; its
  mutant removes the index.
- `LedgerBalances`, `NoSessionLost`, `AbandonedIsRefunded`: the grant, the log and the sessions account for
  each other, up to handlers that are between two of the writes. They speak of behaviours without a restart: a
  restart between the reservation and the insert loses the session, and nothing in the code finds it again.
- `FirstVerdictStands`: no terminal status replaces another. (One may be replaced by an active status: that is
  `terminated`, below.)
- `RoundEndsForAReason`: nobody leaves the technical round before its time without enough scored questions.
- `WarningsBacked`, `WarningsJustify`: warnings are counted for stored violations, terminations and pauses for
  counted warnings.
- `EverySessionCloses`, `ReportFollows`: whatever handlers do and whether the server restarts or not, no session
  stays active for ever, and a closed one had a report task started (unless the server restarted).
- `NoOverdraft`, `NeverMoreThanAdded`: although stale values are written over fresh ones, a bucket is never
  taken below zero by a charge and never holds more than was put in it. What is lost or given back by a race
  stays within these two.
- `LastRowIsTheBalance`, `RowsCoverTheWallet`: without overlapping movements the rows and the wallet agree.
- `UsageWasCharged`: usage rows and the window never run ahead of the charges.
- `CreditedWasFulfilled`, `FulfilledOnce`, `ReceiptFirst`, `ReceiptSettled`, `UsesAreFulfilments`: what a payment
  gives, relative to the flags and rows that record it, under the races that the code does exclude.

- `ImplementsLifecycle`: each session lives as the clients were told it does.
- `OneAtATime`: the flags `busy`, `streaming`, `isRefreshing`, `running`, `asking` are set in one handler and
  cleared in another, some by state that a closure saw long ago; what they are for, that one call is out (a turn,
  a streamed answer, a submission, a refresh of tokens, a run of a prompt, a question), holds whatever comes back
  when.
- `MediaReleased`: the camera is asked for, granted later, switched, and stopped from several places, among them
  the page being left before it was granted.
- `PausedInterviewIsShown`: between a final warning on the server and the dialog are the answer of a violation,
  the poll, and a status from before; without the dialog nobody would resume the clock. It speaks of pauses that the
  page is told of. Two are not: one found by a reload, and one that a voice mismatch makes inside a turn (section 6).
- `RequestsFit`, `SessionFitsPack`: choices are made, undone and loaded again in any order; what is sent is
  consistent all the same.
- `ShownIsStored`: after any sends, edits, failures, deletions and switches, what is shown is what the server
  keeps: the saved messages of the thread, one by one and in order, and the team of a contestant. It speaks of
  conversations the server still has. `openConv` (`Chat.jsx:216-220`) makes a conversation the active one before it is
  fetched, so one that was deleted, and is opened from a list that has not come anew, is active while the page keeps
  the messages of the conversation before it; what is sent there is refused.
- `ScreenIsOneConversation`: every row on a chat screen of the app is stored in the conversation the screen shows;
  while a new one has no id yet, only what the user sent is there.
- `TeamsFit`: the joiner that finds the team too large takes itself out again; once all have, teams fit.
- `FinishedIsAccounted`: a purchase is finished only once the server said yes, whoever listens by then. A yes means a
  receipt, not yet a credit: what is finished was recorded, and was credited unless the handler that recorded it is about
  to, or failed in between (section 6).
- `StorageCatchesUp`: every session the app takes, and every sign-out, is handed to the device, and the device ends
  with the session the app has, unless a write failed or an older one came after it, or the storage could not be read
  when the app began.
- `DeafRoomIsLeft`, `RoomSettles`, `PagesSettle`, `ScreensSettle`: what the pages wait for comes, or they stop
  waiting: a verdict reached elsewhere, a report, an answer that streams, calls refused with an expired token, a
  payment, a popup that is gone. `RoomSettles` leaves out the rooms that cannot hear (`Deaf`): those that already keep a
  terminal status as theirs without having stopped (section 6).

Every property has a mutant beside the definition it changes (`EndAbandon_NoRefund`, `Refill_Stacks`, ...): a plausible bug
of that function under which TLC finds the property violated.

## 5. What is proved

Each theorem holds for every value of the constants, from the assumptions the modules state, which TLC evaluates on
every run: any number of candidates, sessions, grants, handlers, prices, packs, orders, receipts and events on
the server; any number of calls in flight and lost, packs, topics, conversations, tokens, contestants and teams
at the clients. The assumptions are about constants only: what is counted is a natural number, the calls of
different kinds are different (`RoomAssumption`; the status is loaded by one call, when the page opens), packs list
what they offer and are finitely many (`PackAssumption`), a problem of the editor comes in some language
(`ProblemAssumption`), a discount code is for packs on sale (`ShopAssumption`), the contestants are finitely many and
the team there is at the beginning has a place left (`ContestAssumption`), stored turns are numbered from 1
(`AppAssumption`), and no user of the app is the lack of one (`BillingAssumption`).

An inductive invariant is written as a conjunction of named parts, and each part is there for a reason, which the
following gives. A step that is no action's own business is a lemma: most components have a handful of shapes
of steps, and the actions are shown to have one of them.

### Interview sessions (`InterviewSessionProofs`)

- `TypeInvariant`. The type invariant contains more than types: a handler past its first read holds a session, a
  handler that reserves or refunds holds a grant (`InHand`), and grants are naturals, so that a reservation never
  takes a grant below zero.
- `OneActiveSessionInvariant`. Every action's effect on the documents is first shown to be a `SessWrite`:
  nothing, or one document written in a way the index allows, or with the same candidate and status, or with a
  terminal status; `SessWriteUnique` shows that such a write keeps the property.
- `Refinement` (`Spec => ImplementsLifecycle`), `WarningsJustifyInvariant`, `FirstVerdictTheorem`. The inductive
  invariant is `Invariant`: what a handler holds exists, and a handler about to pause or terminate holds a session
  with the warnings for it (`HandlersFit`); a session about to be inserted is held by one handler
  (`OneReservation`); a session that does not exist has an empty document (`FreshIsEmpty`); a document the sweep's
  cursor read is of a session that exists (`SeenExists`, from `SeenStep`: what was read is only dropped); and
  `WarningsJustify` itself. Without `HandlersFit` the guardless writes could do anything; warnings that are never taken back are
  why it is kept while a handler sleeps. Every step of a handler is first shown to be `Moved`: it changes nothing
  of a session or one existing document, in a way the lifecycle has an action for (`LifeWrite`). The first verdict
  then follows from the lifecycle alone: only `Close` makes a status terminal, and it needs an active one.
- `WarningsBackedInvariant`. Warnings and the handlers between storing a violation and counting it (`Counting`)
  are together at most the violations stored. Each step adds one handler to the set, or takes one out, which is
  what makes its cardinality provable for any number of handlers.
- `RoundEndsTheorem`. The decision to leave the technical round is taken from a document read before. `Timed` says of
  what is stored (`DocsTimed`) and of what each handler carries (`HandlersTimed`) that it is measured from the
  creation of the session, which no later write touches: so an old decision is still a justified one. `SeenTimed` says
  the same of the documents the sweep's cursor read and has yet to visit.
- `LedgerBalancesInvariant`, `AbandonedIsRefundedInvariant`, from `Ledger`: a grant not yet issued is untouched
  (`IssuedFirst`), each issued one is `Balanced`, and each abandoned session is `Repaid` or owed to by a handler.
- `NoSessionLostInvariant`, from `Claimed`: what is missing from a grant is covered by the documents paid from it and
  not refunded and by the handlers with a claim on it (`Accounted`), and a session id is claimed by one handler
  (`OneClaim`), so that the insertion of a document, which moves a member from one set to the other, keeps the sum.
  These three hold as long as no restart forgot a handler between two writes; the code has nothing that would
  find those again.

### Wallet and payments (`PaymentFulfilmentProofs`)

- `WalletTypeInvariant`; `NoOverdraftInvariant`, `NeverMoreThanAddedInvariant`. Neither of the last two is inductive:
  the values a handler holds are written later. `Bounded` extends both to what every handler holds (`Solvent`,
  `Capped`), adds that movements happen in a wallet that exists (`Opened`) and that a wallet not yet opened has no
  welcome credits. A handler that holds a stale value holds one that was within the bounds, and the bounds only
  ever widen.
- `LastRowInvariant`, `RowsCoverInvariant`. The invariant `Books` says that while nothing is torn, at most one
  movement is between its write and its row, what a handler is about to write was computed from the wallet as
  it is (`Fresh`), and the wallet's worth is covered by the rows, the one that is due (`RowsDue`) and what admins
  took back. Worth is the total without a debt of the daily bucket, because the next refill forgets such a debt:
  with the total in its place the invariant is not inductive. Each step is shown to have one of four shapes
  (`Silent`, `LogsARow`, `Writes`, `Tears`), and `ShapeKeepsBooks` shows that the shapes keep the books.
  `DeductionIsExact` is the lemma behind the charges: for every wallet and every affordable amount the greedy
  deduction takes exactly that amount.
- `UsageWasChargedInvariant`. What is reported and what the handlers that were charged have still to report are
  together at most what was charged (`ChargeInv`). The credits of those handlers are counted one by one, as a set
  of pairs (`Carried`): a sum over any set of handlers would need an induction, a cardinality does not.
- `PaymentTypeInvariant`, with the strengthening `Hands`: at each place a payment handler holds the order,
  transaction or event it needs (`InHand`), and if it awaits the wallet it awaits a call of `add_credits` (`Paired`).
- `PaymentsImplementWallet`: `Spec => WalletSpec`. A payment step is a call the wallet offers, with an amount on
  sale, or leaves the wallet alone. So the theorems above hold of payments too (`PaymentsNeverOverdraw`,
  `PaymentsNeverInflate`, `PaymentsKeepBooks`, `PaymentsChargeFirst`).
- `CreditedWasFulfilledInvariant`. The flag is written after the wallet call has returned, so `OrderInv` follows
  each handler: from the confirmation on its order is paid, and from the write of the wallet or the grant on it
  was given (`Confirmed`); `AddCallStep` is the lemma on how far a call of `add_credits` is, and that one which
  raises ends the handler before the flag.
- `FulfilledOnceInvariant`, `ReceiptSettledInvariant`. An order that is not contested has at most one handler at
  it, and what it was given is 1 or 0 as that handler is past the gift or not (`OrdersSettled`); of a receipt's
  pack the same (`PacksSettled`). Both need that the wallet always answers a handler that waits for it with a pack in
  hand (`Served`): a purchase is of a kind the ledger knows, and the wallet is open.
- `ReceiptFirstInvariant`. `Owing(t)` are the handlers that recorded transaction t and have not credited it yet;
  what was granted and their number are together at most what was recorded (`ReceiptInv`).
- `UsesAreFulfilmentsInvariant`. The uses counted for a code, and the handlers that have given a discounted order and
  not counted it yet (`Due`), are together at most the discounted fulfilments (`UsesMatched`); a link is held by
  the handler that makes it alone, so no order becomes discounted after it was given (`OrdersMade`).

### Contests (`ContestTeamsProofs`)

- `TeamsFitInvariant`. Teams are too large for a while: a joiner is added first and looks afterwards. What is kept
  is that those who stay (`Confirmed`: members who are not about to look) are not too many, and fewer than that
  while the team is open and nobody is about to close it (`ConfirmedFit`). When a joiner looks, all who were
  confirmed are in the team it sees.
- `TeamIsStoredInvariant`. A page shows the team it was last told of, and a team is never taken from one who is
  confirmed: what must be kept is that the page of a contestant who sends one request at a time is told of nothing
  older. `StoredInv` says so of each contestant (`StoredFor`) whatever the others do (`Aside`): a request and the
  handler that works for it are the only ones (`OneRegistration`), requests are sent only by those who have no team
  and whose page is loaded, and the reads that are out were asked for while nothing was being requested
  (`DetailFits`).
- `OneRequestInvariant`. The page of a contestant says that a question is being sent exactly while the question, or the
  reload of the questions after it, is out; for the answer to one to say that none is out any more, there must be
  one at most (`OneEach`).

### The web chat (`WebChatProofs`)

- `OneStreamInvariant`, `MentionIndexIsValidInvariant`, from `ChatInv`: the calls about the thread are awaited one at a
  time until the user crossed them (`OneThreadCall`), and the popup of the mentions stands on an entry of the list that
  is shown (`PopupFits`).
- `ShownIsStoredInvariant`, from `ShownInv`. Between a prompt and the end of its answer the page and the server
  disagree: the server has rows the page has not heard of (`Ahead`, by as much as the phase of the stream says), or
  has cut what the page has yet to cut (`EditFits`), or has answered with rows the page is about to show (`OpenFits`).
  `Fits` says by how much, for each call that may be out, and that without one they agree (`Settled`, `Agrees`). Two
  facts make it inductive: a prompt is in a thread once (`OnceEach`), so the row that the truncation finds is the one
  whose message is edited; and turns are numbered upward (`UpTo`), so a new conversation has no rows. That
  messages and rows agree is a strictly increasing map of places (`Pairs`, `Matches`), because how many messages before
  a place are saved would otherwise have to be counted again at each step; that the map exists is what
  `SavedAre` counts (`MatchesSaved`). Assumed is that the conversations there are at first have their turns
  numbered (`Chat!Assumptions`, which `WebClient` states and TLC evaluates).

### The mobile app (`MobileSessionProofs`, `MobileChatProofs`, `MobileClientProofs`)

- `StorageCatchesUpInvariant`, `RefreshIsSharedInvariant`. A handler is a sequence of operators on the page and the
  calls, one after the other; `Good` is kept by each of them, so it is kept by all handlers built from them. While no
  write is on its way and none was missed the device has the session (`Written`), and there is one refresh exactly while
  calls may wait for it (`Shared`).
- `ScreenIsOneConversationInvariant`. Each turn has a home, the conversation that it is or will be stored in, decided
  when its prompt is sent and never changed: `ChatInv` says that there is such an assignment, and that what is
  stored, answered, loaded and shown agrees with it.
- `FinishedIsAccountedInApp`. The answer of the verification may come back after another purchase began; a yes is
  a yes for the purchase it was given for (`VerifiesFit`), it is given only for one that has a receipt, and each receipt
  is credited, or cut off, or held by the handler that wrote it (`RecordedIsAccounted`).
- `SessionFitsPackInApp`, `DeafRoomIsLeftInApp`, `OneAtATimeInApp`, and the ones above stated of the whole app
  (`...InApp`): `InterviewInv` says which calls a screen still waits for (`Mine`), that a room which hears no more
  awaits its end (`EndIsAwaited`), that the box is closed while an answer is out (`TurnIsAwaited`), and that the
  choice, and what was asked with it, is within its pack (`ChoiceFits`, `AskedWithinPack`). While a stack is the
  behaviour's, a step of the app is a step of the stack, and so a theorem about a stack's own specification
  becomes one about the app.
- `AppTypesOKInApp`, with `MobileChatTypeInvariant` and `AppTypeInvariant` for two of its stacks. What the types say
  beyond the sets of values depends on the calls in flight: that the listener to the store which calls a screen back
  calls one that is mounted needs that every call about a purchase comes back to such a screen or to none, and
  that somebody is signed in while the billing screen, the browser or an order is there (`BillingCallsFit`); that
  a chat which was left is forgotten needs that no model and no upload comes back to it (`LeftBehind`), and that a
  dropped stream leaves the composer no longer waiting needs that it was not this screen's (`DropsFit`).

### The web client (`WebClientProofs`)

- `PausedInterviewIsShownInApp` and `OneTurnAtATimeInvariant`, from `RoomInv`. The server pauses the clock at the last
  warning, and the page learns of it from the answer about a violation. So the invariant follows the answer that will
  open the dialog (`LastWarning`, `PausedIsHeard`), not the page; that there is such an answer needs that until the room
  opens nothing but the status was asked for, once, and that a pause there already is counts as one nobody is told of
  (`NotYetOpened`, `LoadedOnce`), and that what the dialog asked for has resumed the clock or was lost (`AckResumes`). Of
  the turns: the controls are closed while one is out (`TurnIsAwaited`).
- `MediaReleasedInApp`: of the room, a page that was left has stopped and what stopped has no stream (`PageFits`);
  of the pages around it, a stream is there or asked for only while the system check is shown, and one at a time, and
  a device that is being switched outlives the stream only of a step that was left meanwhile (`MediaFits`). That the
  step is shown when the devices say so needs that the wizard stays at its first step until the grants have come
  (`StepFits`), since their number decides what the steps are, and that an answer which leads elsewhere was asked
  for by the page that is shown (`CallsFit`).
- `OneAtATimeInApp` and `RequestsFitInApp` put the pages together: each page has an invariant of its own, and while a
  page is the behaviour's, a step of the client is one of the page's (`...IsAlone`). What the pages add to their
  properties:
  - practice (`PracticeInv`): the button waits exactly while a graded call is out or its diagram is being drawn
    (`SubmissionIsAwaited`), and what is in the editor is in a language of its problem (`EditorFits`), which the
    problem that comes late must not break;
  - billing (`BillingInv`): the discounts that are shown are of the code that is applied (`DiscountsFit`), because an
    answer names only packs of the code it was asked for;
  - connectors (`ConnectorsInv`): a prompt and a key are out exactly while the page says so, a prompt takes the
    timeline down, and a step of a timeline waits for one retry (`RunIsAwaited`);
  - session (`SessionInv`, which says of any page with its calls that it is `StoreFits`, since a handler is a sequence
    of operators on them): refused calls wait only while the one refresh is out;
  - chat: the theorems of `WebChatProofs`;
  - the wizard of the interview (`PackInv`): what the wizard has gone past is chosen, and what is chosen is offered by
    the chosen pack (`WizardFits`, `ChoiceFits`); so the dialog, which opens at the last step and stands over the wizard,
    confirms a complete choice. Next looks at its own step only, which is enough because the steps are passed in
    order (`StepOrder`); that the grants decide the steps before any is passed needs that they are finitely many.
- `TeamsFitInApp`: `TeamsFitInvariant`, stated of the client.
- `ShownIsStoredInApp`: `ShownIsStoredInvariant` and `TeamIsStoredInvariant`, stated of the client.

### Only model-checked

- Liveness (`EverySessionCloses`, `ReportFollows`, `RoomSettles`, `PagesSettle`, `ScreensSettle`): liveness under
  fairness and `ENABLED` are out of this prover's reach.
- Of the web client: `WebTypeOK`. It is not inductive: that the counters of the contest and the chat stay in their
  bounds rests on how many calls, connectors and teams there can be, so a proof needs counting invariants of every
  page. The theorems above do not rest on it: each carries the types it needs in its own invariant.
- That the deduction's closed form is its loop, which is an induction over the loop.

## 6. Where the code and its words disagree

Each is a `violation` run with one property, listed in `PROJECT.json` under `findings` with the sentence:

1. `start_twice`: `start_session` promises to be idempotent; two calls that both read the session as created
   write two openings.
2. `terminated`: proctoring promises that a termination is race-safe; a turn or a start that read the session
   before it puts it back into a round, because the status writes of those handlers match on the id alone.
3. `refund_started`: the sweep refunds sessions "never started", but without looking at whether its guarded
   update matched.
4. `link_twice`: the status of a payment link "idempotently credits the wallet"; two polls inside the
   fulfilment both credit.
5. `webhook_twice`: RevenueCat events are said to be keyed by `event.id`, but nothing looks the id up before
   `_credit_plan` credits the wallet; and the row of kind `plan_credit` is one that `CreditTransaction` refuses,
   so the handler fails after the wallet was written and the provider's retry credits again.

6. `observed_buyer`: `payments_service.py:318-319` has purchases observed under the user who bought; the app
   configures the observer with the first user of the process and never again (`services/revenuecat.js:43`).

Without a run of their own, because no sentence of the repository says otherwise in words that could be checked,
or because a property above excludes the case by a history variable:

*Server.*
- The docstring of `proctoring_service.py` speaks of two confirmed violations; the code terminates at the third
  (`TERMINATE_AT_COUNT`).
- Concurrent turns may carry the same index (`interview_service.py:731`). An answer that was stopped may be
  stored all the same (`chat_routes.py:374-377`).
- One team per user (`contest_service.py:752-753`) and the cap on participants can be broken by requests that run
  at once, among them two of one contestant (`ContestLanding.jsx:252-254` sends a second when another tab of the
  form was opened meanwhile); `remove_participant` writes a member list it read before.

*Interview clients.*
- Web: a pause opens the dialog that ends it only in the answer to a violation report (`InterviewSession.jsx:337`). A
  page reloaded during the pause sets the count of warnings alone (line 114), and so does the answer to a turn whose
  voice was found to be another speaker's (line 445; `interview_service.py:709-710` records the violation). The clock
  then stands, although `proctoring_service.py:144-146` stops it for somebody who is reading the dialog, until another
  violation or the hard expiry ends the interview: `silent` in the model.
- Web: the answers to a start and to an acknowledgement store a terminal status (`InterviewSession.jsx:408`, `576`)
  without `handleTerminalStatus`, and the poll looks only at a status that differs from the stored one (line 281), which
  is what the comment at lines 245-248 warns of: the room of a session that expired, or was closed elsewhere, stays open with the
  camera on. `Deaf` in the model.
- Web: a terminal status that comes as the answer of a violation is not shown until the poll brings it. A switch of device that was under way when the room stopped leaves its track
  running (`InterviewSession.jsx:212-233`, `InterviewSetup.jsx:275-276`): `orphan` in the model. "Retry" on the
  report's page does not start the polling again (`InterviewReport.jsx:114-117`).
- Mobile: the camera reports `no_face` (`InterviewProctoringCamera.js:55`), a type the server refuses
  (`proctoring_service.py:89`). The overview is not loaded again when the user is sent back to it to resume
  (`InterviewSetupScreen.js:165`). A report that failed or has no data is shown as a ready one.

*Chat, practice, connectors.*
- An edit with another thread call in flight may leave on the page what the server has not
  (`Chat.jsx:239-240`). An option or a design typed for a problem is kept when the next one is loaded.
- Two connections begun one over the other, with the window closed by hand, leave a row spinning
  (`Connectors.jsx:221-228`). Closing the key's dialog while it saves and opening another one lets the first answer
  close the second. Two loads of the list may come back in the wrong order.

*Session and billing.*
- A sign-out while a refresh is under way is undone by its answer, on the web and on mobile.
- The billing page keeps the price it had when `loadPricing(true)` brings a newer one (`pricing.js:4`). With two
  purchases in flight the later redirect wins. Removing a code while its second validation is in flight applies
  it again.
- `credit_pack_product` inserts the receipt (`payments_service.py:193`) before it credits the wallet (line 197), and
  answers `ok`, `already_processed` to whoever finds one (lines 191-192). If the handler fails in between, the store's
  redelivery is answered with yes, the app finishes the purchase (`services/iap.js:54-57`), and the credits never come:
  `cut` in the model.
- Mobile: `persistAuth` swallows a failed write to the device (`authStorage.js:23`) and is not awaited
  (`authSlice.js:12`, `17`), so a write may fail unseen or be overtaken by an older one; `loadAuth` takes what cannot be
  read for no session (`authStorage.js:30-32`), and the app begins signed out over a stored one. `missed` in the model.
- Mobile: a purchase not finished by one user is credited to the one who is signed in when it is redelivered.
  Leaving while the store connects leaves a listener with the callbacks of the screen that was left. `initIap`
  may answer from its cache just before `endIap` ends the connection. The Apple button is not disabled by the
  others' waiting.

## 7. What is not modelled

Left out everywhere:

- Text, speech, rubrics, scores and prompts: the models choose among the outcomes the control flow tells apart.
- The voice check's arithmetic: a mismatch is an outcome of `TurnVoice`, and of `VoiceMismatch` in the rooms.
- On the server, the authentication of a call: a caller is who the model says. The wallet exists before the first
  authenticated call because every sign-in opens it.
- Prices, exchange rates, scope and expiry of discount codes, plan maps; administration of catalogues.
- More than one server process: the deployment runs one; with several, every interleaving modelled here remains
  and no new one appears, since all shared state is in MongoDB, except the sweep running twice.
- Clients in two tabs or on two devices at once: the server's side of it is what its handlers' races are about;
  on a page it appears as `Elsewhere`.
- Layout, animation, captions, audio levels, charts, downloads' contents.

Parts with no module, and why:

- *Reports* (`interview_report_service.py`): the task is started and counted in `InterviewSession`, its outcome
  polled by the clients; what it does in between is a prompt and arithmetic over a transcript.
- *Contest lifecycle, submissions, adjustments*: pausing, extending and stopping read a contest and write fields
  of it; it takes two admins at once to lose an update, and the code states no rule for them. Submissions are
  judged by an external runner and recorded alone; attempts are counted before and recorded after, and nothing in
  between bounds them. *Scoring* and *settings* are pure functions, unit-tested, recomputed at every read.
- *Accounts on the server*: hashing, mails, lockouts; a refresh looks at the token's signature only, so no state
  of the server decides its outcome and the clients' modules let it succeed or fail at any time.
- *Tool orchestration and the refresh of connectors' tokens*: a bounded loop of model turns and calls to external
  servers; what it changes is outside the system.
- *Studio, builder, career, counselling, resumes* and their pages: a form, an external call, a charge; the charge
  is `Spend` or `CheckedService` of `CreditWallet`, and the pages have one call at a time, or races of the kind
  modelled in the other pages.
- *Packs, catalogue, notifications, uploads, settings, usage, legal, knowledge engine, scripts*: single documents
  with no concurrency beyond the last write, or scheduled fetches.
- *External clients* (models, speech, storage, mail, stores): success or failure of a step.

`PROJECT.json` repeats these reasons at each component, and at each hazard that no property covers.

## 8. Extending it

A new component gets a module with one action per handler, a workload in the passing run it belongs to, and a
run of its own only for a sentence of the repository that the code does not keep. What would add most next: the
contest's clock and its submissions, once the repository says what should hold when two admins act at once; and
the type invariant of the web pages (`WebTypeOK`) as a theorem.
