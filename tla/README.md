# Formal models of Contrato Visto (serverless backend)

TLA+ models of the stateful core of this repository: the payment of a request
by card and by Pix, the life of a case (triage, report, review, closing), the
asynchronous ingestion of documents, the opening of cases, the sale from the price
preview to the installments that are charged, the financial tabs and reports, the
accounts with their sessions and password links, and the two pieces of organization
state that administrators write at the same time. Each module is checked with TLC on
small instances, and its safety properties are proved with TLAPS for every value of its
constants.

`src/...` below is relative to the Python tree (`src/src/...` from the root of
the checkout); the exact lines behind every definition are in `PROJECT.json`.

## 1. The system

A multi-tenant backend: AWS Lambda handlers over one PostgreSQL database, an
SQS queue for documents, external payment, Pix and evidence providers. There is
no shared memory between invocations: **all interaction goes through rows of
PostgreSQL, messages, and callbacks of providers.** Every handler opens one or
more transactions (`services/database.py tenant_tx`, `simple_tx`): the block
commits at its end and rolls back on any exception. The isolation level is READ
COMMITTED, so each *statement* sees what was committed when it started, an
`UPDATE` re-evaluates its `WHERE` on the row it locked, and a plain `SELECT`
locks nothing. Row-level security confines every statement to one organization;
each module therefore describes one organization (or one case, or one request).

### Components

| Component | State it keeps | Operations | Interacts through | Hard behaviour |
|---|---|---|---|---|
| Card payment (`handlers/payments.py`, `adapters/payment.py`) | `requests.payment_status`, `installment_plan`, `updated_at` (reservation token) | `create_case_payment`: TX1 check, reserve, provider, TX2 finalize or rollback | the request row, with Pix and the payment gate; the provider | racing calls, death between provider and TX2, reclaimed orphan reservations, replays |
| Pix (`handlers/pix.py`, `services/pix/states.py`, migrations 026, 027) | `pix_charges.status`, `pix_webhook_events` (dedup) | `create_pix_charge`, `pix_webhook`, `simulate_pix_paid` | provider notifications, at least once and unordered; the request row | duplicated, reordered, late events; partial failure after dedup; two paid charges |
| Case lifecycle (`services/case_lifecycle.py`, `triage_runner.py`, `report_generator.py`, `handlers/triage.py`, `reports.py`) | `cases.status`, `completed_at`, `risk_level`, `recommendation`, `triage_modules`, `case_reports` | `run_triage`, `generate_case_report`, `review_case_report` | `SELECT ... FOR UPDATE` on the case row | closing a case under work in flight, failed modules, re-triage, regeneration after approval |
| Cases, results, parties (`handlers/cases.py`, `case_results.py`, `case_parties.py`) | `case_results`, `case_parties`, `deleted_at` | create, PATCH, DELETE | the case row, foreign keys | checks that do not lock the case |
| Intake (`handlers/requests.py`, `cases.py create_case`, `clients.py`) | `cases`, `requests`, `request_code_sequences`, `cases_limit`, `clients.status` | `create_request`, `create_case`, update and deletion of the client | quota count, sequence row, unique key, the client's row | quota and client read without a lock, in another order by each endpoint; numbering under rollbacks, repeated wizard |
| Document queue (`services/queue.py`, `handlers/worker.py`, `services/document_worker.py`, `agent_executions.py`, `document_ingestion.py`, `handlers/documents.py`) | `agent_executions`, `document_chunks`, `documents.ocr_status`, the SQS messages | enqueue, worker batch, `process_job`, synchronous reprocess, PATCH | SQS, advisory lock, unique job id | at-least-once delivery, death between commit and acknowledgement, concurrent ingestion |
| Users (`handlers/users.py`, `utils/context.py`, `authorizers/jwt_authorizer.py`) | `users.role`, `status`, `password_changed_at`, `password_resets` | signup, login, reset, update, deactivate | the rows of the admins, the row of the link, the clock of the database | losing the last administrator; sessions that outlive a reset; one link sent twice, renewed or expired while it is used |
| Pricing configuration (`handlers/pricing.py`, `services/pricing/org_config.py`) | the `pricing_configs` row | partial PUT | the row lock, if there is a row | lost updates |
| Sale (`services/pricing/config.py`, `estimate.py`, `installments.py`, `services/triage_plan.py`; `handlers/pricing.py estimate_pricing`, `requests.py`, `cases.py get_case`, `payments.py`) | `requests.total_price_cents`, `price_snapshot`, the selected modules, `installment_plan` | preview, request, case screen, payment | the configuration row that administrators rewrite; the clock | rounding, month ends, prices and rules rewritten between two screens |
| Finance (`handlers/financial*.py`, `services/financial/`, migrations 018, 019, 022) | `tax_provisions`, `fiscal_documents`, `external_api_costs`; reads `requests` | registrations, tabs, paging, executive report | the rows that intake and payment write, while they write them | two time zones, month ends, pages and sections read by separate statements |
| Organizations, dashboard, search, timeline, health | rows written by single statements | CRUD and reports | RLS, `operator_tx` | none across steps |

### What makes each component correct

- **Payment.** Money may be collected more than once (two Pix charges, a Pix and
  a card), but a request is *settled* at most once, by collected money, and the
  recorded plan is never rewritten; only the call that made a reservation ends
  it; a replay is given only to the selection that paid; a confirmed Pix payment
  is post-processed or alerted.
- **Case.** No evidence without a paid request under the hard gate; a closed or
  archived case does not change under calls in flight; risk says what the stored
  evidence says; case and report show one recommendation; an approved report is
  never simulated.
- **Documents.** No job is lost by an acknowledgement; the outcome of a job that
  completed or failed is not rewritten, though messages come twice and executions die;
  one chunk set per document, ingested once, that of the last text read; the rows of job
  and document agree with it; every message is acknowledged or dead-lettered.
- **Sale.** What is charged is what was shown; the frozen total is the sum of the
  frozen module prices; a schedule adds up to the
  charged total and its dates are monthly; only credit cards pay in installments,
  and there is always a way to pay.
- **Finance.** Every tab sums to the overview; a month hands over to "last month"
  without losing or repeating a sale; a receivable is overdue when its term is over;
  nothing is skipped between pages; the sections of a report agree unless something
  was registered while they were computed.
- **Intake, pricing.** Codes unique and dense, one case per key, a bounded overrun of
  the quota, no case for a client that was inactive all along; no partial update lost.
- **Accounts.** A reset revokes the older sessions and never a new one, though a token
  keeps whole seconds; a link changes the password once, while it is the newest and in
  force; links are a cooldown apart; the guard never lets the last administrator go.

The places where each of these can go wrong are the `hazards` of `PROJECT.json`.

## 2. Modules

| Module | Models | Kind |
|---|---|---|
| `PaymentLedger` | what the payment endpoints promise of one request | abstract specification |
| `RequestPayment` | the payment status that the rest of the backend reads | abstract specification |
| `CasePayment` | card, Pix, webhook and archiving on one request | detailed; implements `PaymentLedger` and `RequestPayment` |
| `CasePaymentProofs` | theorems of `CasePayment` | proofs |
| `CaseLifecycle` | one case: row lock, gates, triage, report, review, PATCH, DELETE, results, parties | detailed; composes `RequestPayment` |
| `CaseLifecycleProofs` | theorems of `CaseLifecycle` | proofs |
| `DocumentQueue` | SQS, workers, ingestion, reprocessing, manual status | detailed |
| `DocumentQueueProofs` | theorems of `DocumentQueue` | proofs |
| `PricingConfig` | partial updates of the configuration row | detailed; a part of `CaseIntake` |
| `CaseIntake` | opening cases: quota, sequence, idempotency key, status of the client, beside the updates of the row that holds the quota | detailed; composes `PricingConfig` |
| `CaseIntakeProofs` | theorems of `CaseIntake` and `PricingConfig` | proofs |
| `Catalog` | products, commercial modules, prices, technical modules of each product | operators |
| `Installments` | calendar, options, amounts with and without interest, due dates | operators |
| `Sales` | one sale from preview to charge, beside the updates of prices and rules | detailed; composes `PricingConfig`, `Catalog`, `Installments` |
| `SalesProofs` | theorems of `Sales`, lemmas of `Catalog` and `Installments` | proofs |
| `Periods` | periods of the tabs: days of Brasilia, months, years; grouping and totals of rows | operators |
| `Finance` | tabs over requests, registers, paging and executive report, beside sales, payments and the clock | detailed; uses `Periods` |
| `FinanceProofs` | theorems of `Finance`, lemmas of `Periods` | proofs |
| `Sums` | lemmas on sums over finite sets, induction and recursion on numbers | proofs |
| `OrgAdmins` | roles and activation of the users of an organization | detailed |
| `Accounts` | login, session, forgotten password and reset of one of those users | detailed; composes `OrgAdmins` |
| `AccountsProofs` | theorems of `OrgAdmins` and `Accounts` | proofs |
| `MC...` | symmetry sets and instance data for TLC | model checking |

### How state and actions correspond to the code

Variables carry the name of the column or the local they stand for; an action is
one transaction, or one statement where another actor can get between two
statements. Names ending in a word after `_` (`Reservable_Fresh`,
`LockFree_Always`, ...) are *mutants*: the form of the preceding definition with
a plausible bug, used only to check that the properties notice it.

**CasePayment.** A card call goes `CardCheck` (TX1: 404, replay, refusals) ->
`CardReserve` (the guarded UPDATE; `Reservable` is its WHERE) -> the provider
call -> `CardFinalize` or `CardRollback` (both guarded by `OwnsReservation`, the
`updated_at` token). `holder` stands for that `updated_at`: two reservations
never share one, so it is the identity of the call that wrote it; `stale` says it
is older than `_RESERVE_STALE_MIN`. `CardCrash` may happen in every state after
TX1. A Pix charge goes `PixCheck` -> `PixCreate` -> `PixInsert`, the last guarded
by the partial unique index. A webhook execution goes `HookRead` (lookup and
transition check, nothing locked) -> `HookCommit` or `HookDuplicate` (dedup,
guarded UPDATE of the charge and projection on the request, one transaction) ->
`HookNotify` (post-payment or alert). `RollBack` undoes a failed one, dedup
included. The provider (`ProviderEmits`) may notify any outcome, twice, in any
order; `LatePayment` allows paying an expired charge.

**CaseLifecycle.** `TakeRow` is `SELECT ... FOR UPDATE` of
`assert_case_writable`; `ClearPayment` the separate unlocked read of
`assert_case_paid`; `RunTriage`, `Generate`, `Review`, `WriteChild` (one
disjunct per endpoint of `case_parties` and `case_results`) the rest of the
transaction up to the commit. `CheckCase`/`InsertResult` are the unlocked
`INSERT ... WHERE EXISTS`. `UpdateCase` and `DeleteCase` are single UPDATEs that
wait for the row. `PaymentMoves` is a step of `RequestPayment`, which `CasePayment` is
shown to implement (`LedgerSpec`): a case meets every payment status that the payment
endpoints can produce, between any two of its statements, and no other. The evidence of a
module is what `_interpret` makes of it: nothing, clean, a signal, a grave signal or a failure.

**DocumentQueue.** `Receive` to `Respond` is one invocation of
`document_processing_worker`; each record is one transaction, cut at its
lookup, its claim of the execution (`Claim`, `UniqueViolation`), the advisory
lock, the checks after it, the deletion of old chunks and the commit. What a
transaction writes becomes visible at that commit, so `running` and `retrying`
are never seen by others. A chunk set is identified by who stored it; `seen` is
what the DELETE removed, so two ingestions that overlap would leave two sets.
`Ingest` is what worker and endpoint do with a text: OCR fails on an empty one, but
of one that is blank (spaces only) `chunk_text` makes no chunk and the document is
still `done`. `text`, `emptied` and `patched` are history variables: the last text
ingested of each document, the documents that lost their chunks to a blank text, and
those whose status was last set by hand.
`JobOcrFailed` keeps the transaction (the deletion commits), `UserFails` rolls it
back: that asymmetry is in the code. SQS is external (`Receive`, `Returned`).

**CaseIntake.** `ReadLimit` and `CountCases` are the two statements of
`cases_limit_status`; `TakeCode` the upsert of the sequence, whose row stays
locked until `Open` (all inserts and the commit) or `Reject` (rollback). The
quota (`limit`) is a field of the row that `PricingConfig` writes: the module
extends that one, and a step is a step of either with the other unchanged.
`CheckClient` reads `clients.status`: `create_case` before the quota, `create_request`
after it (`route` says which, `bare` being a request without a client); `SetClient` is
`update_client` or `delete_client`. `chance` is a history variable: whether the client
was active at some time during the call.

**OrgAdmins.** A call begins when some user passes `MayManage` (the row re-read by
`load_active_caller`, not the token). `ReadTarget`, `Snapshot`, `CountAdmins` are the statements of
`_is_last_active_admin`; the FOR UPDATE is a snapshot followed by the moment all
rows are held, re-checked. Acquiring the rows is atomic in the model: the order
in which PostgreSQL locks them only adds deadlocks, which abort (`Abort`).

A call is `clear` once the guard let it through and `unguarded` if the guard did not
apply to it (it takes nothing away, or its target was no active admin when read).

**Accounts.** One user of `OrgAdmins`, its calls and the clock of the database.
`LoginRead` is the transaction that reads the hash and `LoginIssue` the verification and
the token after it: a reset may commit in between. A password is named by the reset that
wrote it. `ForgotBegin`, `Issue` or `Throttle` and `SendEmail` are one request for a
link: its transaction fixes `NOW()`, the upsert with the cooldown in its WHERE waits for
a reset that holds the row, and the e-mail goes after the commit. `ResetBegin`,
`Consume` (DELETE ... RETURNING, which locks and re-checks) and `ChangePassword` are one
reset. `Second` gives the second each tick falls in, the precision of `iat`.

**Finance.** Time is in hours of UTC. `OpenSale`, `Reserve`, `Release`, `CardPays`
and `PixPays` are what `CaseIntake` and `CasePayment` do to the columns the tabs read;
`plan.requested` is what the plan says and `plan.at` when the payment was really made.
Of the registers, a row has what the indexes of 018, 019 and 022 compare (a note its
provider, series and number) and what the tabs add up. Each tab is an operator over the rows: `Overview`, `ByProduct`, `ByClient`,
`BySaleStatus`, `Receivables`, `Payments`; `TaxesDue`, `ByType`, `ApiCosts`,
`ByProvider`, `Invoices`, `ByStatus`. What one statement computes is consistent by
itself; what takes several is an action per statement: `ListPage`, `CountPage` and
`NextPage` (each request of a page resolves its period anew), and `NextStatement`,
nine times for the executive report, twice for the tabs of costs, taxes, notes,
services and clients (`Reports` lists the statements of each). `Sorted` is every order that ORDER BY allows.

**PricingConfig.** `SelectForUpdate` locks the row if there is one; `Upsert`
writes the whole row from what was read. A field's value is the call that wrote
it, and `last` and `commits` record what should be there.

**Sales.** `row.fields` holds, for each field, the call that wrote it; `setting`
gives what that call asked for, so `overrides` and `config` are what
`read_module_overrides` and `read_installment_config` return. `EstimatePricing`
fills the wizard's preview, `CreateRequest` freezes the total, the module prices
and the technical modules, `OpenCase` is the payment options of `get_case`, `Pay`
is the check of the selection in `create_case_payment` up to the reservation and
`Finish`/`Release` its end; `paying.terms` and `paying.on` record the rules and the
date the call read. `SaveConfig` is a step of `PricingConfig` whose first statement
is preceded by the validation of the body, and `PassTime` moves the date.
`Catalog` copies the tables of `config.py` and `triage_plan.py`; `Installments`
translates the arithmetic, in integers: a rate is a number of basis points over
`Basis`, and rounding is exact on the quotient of integers, where the code uses
`Decimal`. The estimate reads the overrides and the rules in two statements; the
preview keeps only the total, which depends on the first.

## 3. Runs

Every run finishes in about three minutes or less with 2 workers.

| Run | Instance | Question |
|---|---|---|
| `card` | 3 card calls, 2 selections, 1 Pix charge that may be paid (exactly or not) and refunded, 2 crashes | exclusive reservation, charged calls recorded, replays, no rewrite |
| `slow` | 3 card calls that may outlive their reservation, the simulate endpoint, 1 crash | reservation token (M4), refinement of `PaymentLedger` and of `RequestPayment` |
| `pix` | 2 charges, 2 webhook executions, PAID and EXPIRED in any order, 2 crashes, fair redelivery | `_TRANSITIONS` on the row, one active charge, every applied PAID accounted, post-payment for the settler only, a PAID event ends the wait |
| `case` | 2 calls, 2 modules, a result and a party row, hard gate, production, against PATCH and DELETE; an upload or a result row checked without the lock | paid work, honest risk, synced recommendation, real approval, frozen after closing |
| `jobs` | 2 jobs of 1 document, 2 workers, batches of 2, duplicates, 1 reprocess call, texts with words and blank ones, PATCHes to `processed` | no lost job, outcomes are final, one chunk set, ingested once, chunks and the status of job and document agree with the last text read |
| `live_queue` | 1 job at attempts 1 and 2, 1 job beyond the limit, 2 workers, fair | every message settles |
| `users` | three scenes of `MCAccounts`. `admins`: 3 users, 2 calls that demote, deactivate, promote or reactivate; `session`: 1 login, 2 requests for a link, 2 resets, a call that switches the owner's status; `links`: 3 requests, 2 resets. 5 ticks, 2 a second | the guard never lets the last administrator go; resets revoke exactly the older sessions; links are spaced and used once |
| `sales` | 1 sale, 1 PUT against an existing or a missing row, rates of 10 and 30 %, up to 4 installments, fixed day or not, two days at a month end | what is shown is charged, there is always a way to pay, schedules, due dates |
| `finance` | 2 rows, the current month, three instants from January 31 13:00 to February 3 01:00 in Brasilia | tabs reconcile, months hand over, terms, pages, sections |
| `intake` | 2 creators, 3 cases, 1 key; in one scene 2 PUTs of the configuration (row present or not), in the other a client that changes | dense codes, once per key, bounded overrun, no lost update, no case for an inactive client |

Runs that TLC must refute, each against a sentence of the repository:

| Run | Sentence | What the code does |
|---|---|---|
| `silent` | `pix.py:290` "Uma confirmação PAID NUNCA pode ser silenciosa" | a PAID event for an expired, cancelled or failed charge is answered 200 without a log |
| `cash` | `payments.py:37` of `services/financial` "um pagamento pertence ao período em que foi FEITO" | a Pix plan has no `payment.requested_at` (`pix.py:190`), so a Pix payment is counted in the period of its sale |

More sentences are wider than the code; the properties are stated as what the
code does keep. `README.md:179` promises "anti-dupla-cobrança": a call that dies after
the provider charged leaves an orphan reservation, and a call with another selection
that reclaims it charges again; `ChargedCallSettles` is about the calls that live.
`README.md:189` and `users.py:82` promise "anti-lockout": the guard reads its target
before it locks, so a user promoted in between is demoted unguarded and the
organization may end with no administrator; `GuardedKeepsAnAdmin` says this is the only
way. `financial_reports.py:54` calls the report "leitura consistente": under READ
COMMITTED its sections may differ by what is registered meanwhile (`SectionsAgree`).
`buckets.py:13` counts seven statuses; the lists have eight. `receivables.py:8` dates a
receivable from the day of the sale: that day is UTC's, while the periods are
Brasilia's, so a sale after 21 h falls due a day later than its own day says
(`TermIsKept` bounds the difference). `case_results.py:50` calls the insert "Atômico (sem TOCTOU)": it
reads the case without its lock, so a result may appear after closing, and
`FinalizedFrozen` covers the calls that take the lock. `case_lifecycle.py:117` says the quota window
"pode admitir 1 caso além do limite"; nothing serializes the count with the
insert, so N concurrent creators exceed it by N-1 (`OverrunBounded`).
`document_worker.py:11` counts "OCR sem texto" among the failures that mark `failed`, and
`document_ingestion.py:23` raises `OcrFailed` for "texto utilizável" that is missing: only an
empty text does; one of spaces completes the job and leaves the document `done` without
chunks, those it had before included (`ReportsAreTrue` says that this is the only way).
`pricing.py:203` says FOR UPDATE prevents the lost update; without a row there is
nothing to lock, and two first updates lose one (`NoLostUpdate` holds as long as
at most one call committed from a missing row). `README.md:184` "O reset de senha revoga
sessões anteriores": a login that read the old hash before the reset committed gets a
token of the reset's second or later, and keeps it (`OutdatedIsRefused`).
`README.md:189` "cliente inativo não recebe casos": the client's row is not locked, so a
case may open just after the client was deactivated (`NoCaseForInactive` asks that it
was active at some time during the call).

### Bounds and why they are enough

- Actors: two or three. Every hazard here is a race of two actors, or of two and
  one that died or promoted in between; the third makes reclaiming and
  reading-after-reclaiming happen together.
- `MaxCrashes` (0..2): each crash is one lost continuation; one orphan and one
  crash of its successor are the longest chain a run needs. In `DocumentQueue`
  crashes are bounded by `MaxReceive = 2` (3 in production): one delivery that
  fails and one more.
- `MaxVersion`, `MaxEdits`: reports and rows may change twice, enough for
  regenerate-after-approve and edit-after-close; higher versions behave alike.
- `Patches = {"processed"}` in `jobs`: the status that contradicts missing chunks; the
  proofs are about all three.
- `MaxAttempts = 2` (3 in production): below, at and above the limit.
- `BatchSize = 2` (5 in production): a record that fails beside one that does not.
- `Cases`, `Keys`, `Asked`: more cases than the first quota plus the other creator;
  one PUT raises the quota, the other removes it.
- `Basis = 10` (10000 in production) keeps the powers of the Price table within
  TLC's 32-bit integers: rates are tenths, coarser than real ones, so that roundings
  are larger relative to the amounts, not smaller; prices of a few cents make the
  rounding of a single cent visible. The calendar is January to July of 2026, with
  months of 28, 30 and 31 days; leap years differ only in one entry of `MonthDays`.
- `MaxClock = 4`, two ticks a second: a reset and a login may share a second or not,
  a link of three ticks may expire while a reset waits, and the cooldown of one tick may
  be over or not. `LinkLife` is longer than `Cooldown`, as one hour and one minute are.
- `Ids = {1, 2}` gives two rows either order of their random ids.
- `Clock` puts two instants in January of Brasilia, the second already February in
  UTC, and one in February past the term of the first; `MaxRows = 2` rows, with
  `PageSize = 1`, are two pages with a sale inserted, or tied, between them.
- Symmetry is used for interchangeable actors only, never in a run with a
  liveness property.

`CHECK_DEADLOCK FALSE` is set where all calls of the instance may have ended and
nobody is left to act (card calls, messages, updates and sales run once, or no
administrator is left to call); a wait that
never ends would show in `pix` and `live_queue`, which check liveness.

### Fairness

- `CasePayment`: a running webhook execution goes on (Lambda runs it to its end
  or it is counted as a crash), and the provider redelivers an event until it is
  answered 2xx, the contract `pix.py:257` relies on. Users, payers and the
  provider's decisions are not fair.
- `DocumentQueue`: worker and endpoint invocations go on until their end; the
  SQS event source polls and redrives; a wait for the advisory lock is strongly
  fair because PostgreSQL queues the waiters of a lock. Failures and deaths are
  not fair but every delivery counts towards `maxReceiveCount`.

## 4. What is proved

The proofs hold for any sets of calls, charges, events, modules, rows, messages, workers,
documents, baskets, settings, days and (finitely many) users, creators and cases, under
the named assumptions on constants: `NoneAssumption`, `ModeAssumption` and
`OutcomeAssumption` in `CasePayment`; `CaseConstants` in `CaseLifecycle`;
`QueueAssumption` and `PatchAssumption` in `DocumentQueue`; `ConfigAssumption` and
`IntakeAssumption` for the intake; `ConfigAssumption`, `CatalogAssumption`,
`InstallmentsAssumption`, `SalesAssumption` and `CalendarAssumption` for `Sales`;
`PeriodsAssumption`, `FinanceAssumption` and `ClockAssumption` for `Finance`;
`AdminsAssumption` and `AccountsAssumption` for the users. They say that `None` is no
call, charge or row, that flags are Boolean, that providers answer with known words, that
sets which are counted are finite, and that seconds do not run backwards. Those with more
content are about money and the calendar. Prices, amounts and costs are not negative
(`ge=0` in the schemas), and an installment configuration has the bounds of its schema.
Months have 28 to 31 days; in `Sales` the calendar is long enough for the last
installment of every sale (the program's has no end), in `Finance` months start at least
28 days apart, every instant is in a month and a year, and the clock is looked at at
least once in 28 days, so that no month goes by unseen.

**CasePayment** (`CasePaymentProofs`). `Invariance`: `Spec => []IInv`. The
properties are not inductive by themselves. `ReservationInv` ties the three
fields of a reservation together: the row is `processing` exactly while a call
that has not answered holds it, and stale only if that call died (or calls may be
slow). `PlanInv` ties the recorded plan to the control state of the payment it
records. `ChargedInv` says which calls the provider charged, `ChargeInv` which
rows exist, `HookInv` that an execution past its read holds an event that was a
valid transition then. From it: `ReservationIsExclusive`,
`ChargedCallIsRecorded`, `ReplayIsIdempotent`, `AppliedPaidIsAccounted`,
`PostPaymentIsForSettler`, the action properties `SettlementIsFinal` and
`HolderEndsReservation`, and `ImplementsLedger`: every step maps to a step or a
stutter of `PaymentLedger` with collected money = charged card calls and
confirmed Pix charges, and to one of `RequestPayment` with the status of the row: a
reservation is ended by the live call that holds it, whose answer the provider gave.
`SettledByCollected` is proved of `PaymentLedger` alone and carried over by the refinement.
`OneChargeWaits` is a part of the invariant; `ChargesMove` needs `HookInv`: an execution
commits only if the row still has the status it read, from which its event was valid.

**CaseLifecycle** (`CaseLifecycleProofs`). `Invariance`: `Spec => []IInv`, where
`LockInv` says that a transaction past its guard holds the row of a writable case
and, once cleared, of a request that *stays* paid (the gate reads it unlocked:
the proof needs that an accepted payment never moves, which `RequestPayment` says
and `ImplementsLedger` shows of the endpoints), and `EvidenceInv` that the stored risk is the one of
the stored evidence. From it: `PaidGate`, `CompletionDate`,
`RecommendationIsSynced`, `ApprovalIsReal`, `RiskIsHonest` and the action
property `FinalizedIsFrozen`. `RequestIsPaidElsewhere` closes the composition: the payment
status a case meets is that of `RequestPayment`.

**Sales** (`SalesProofs`). `Invariance`: `Spec => []IInv`. `TermsInv` says that
every installment configuration that the row holds, that a call has read, or that a
call past its validation is about to write can charge: a payment reads the row at an
arbitrary moment between two writers, and a partial update carries over what it read.
`ChargesInv` says that what is charged, in flight or recorded, is still an option of the
frozen total under the terms and the day the call read, and that the preview is a total
of the basket under the prices it read. From it: `OnlyCardsInInstallments`,
`SomethingPays` and `ChargedAsShown`. `SnapshotIsTotal` says that the frozen total is the sum of the frozen
prices, though the code computes it as a base price and extras. The arithmetic is proved of every option that can be offered:

- `ScheduleAddsUp`. Without interest, the sum of equal amounts plus the residue of the
  division (`EqualSchedule`). With interest, `PriceSchedule` follows the balance beside
  the exact schedule. With `B = Basis`, `p = (B+i)^k` and `q = B^k`, the scaled error
  `i q g - i total p + pmt B (p - q)` of the balance `g` after `k` payments is multiplied
  by `B + i` by one more payment, plus what the rounding of one month's interest adds
  (`DriftStep`); so twice the error is at most `B (p - q)` after any number of months
  (`Near`), and rounding the payment itself adds as much at the end. `HalfUpNear` bounds
  one rounding, `PowersApart` and `BalanceSteps` say what the two recursive functions
  compute. The bound is the one the run checks: `((1+i)^n - 1) / i` cents.
- `DueEveryMonth`. The days before a month are a sum that grows by the length of each
  month (`DaysCounted`), so `PlusDays` has one month to choose, and it is a date of the
  calendar (`DaysLater`); the fixed day, at most 28, exists in every month
  (`FirstDueDate`, `MonthsLater`).

**Finance** (`FinanceProofs`). `FinanceInvariance`: `Spec => []FinanceInv`. `PagingInv`
says that a row of the first period which no page has shown has every listed page before
it: rows are inserted and paid between two pages, and the cursor is a pair of instant and
id. `ReportInv` says that each section the report has computed is a lower bound of what
the registers hold now, and exactly that while nothing was registered. From them
`PagesSkipNothing` and `SectionsMatch`. `TabsAgree` needs only the types: every tab is a
sum over the rows of a period grouped by a key, and `SumGroups` says that the groups add up
to the whole. `TermKept` and the action property `MonthsHandOver` are arithmetic of days,
in two time zones, and of the starts of months. The two parts of the invariant were
checked with TLC on the instance of `finance` before they were proved.

**Sums** (`Sums`). The community modules define a sum as a fold that picks the elements
in an order nobody chose. `SumsExist` and `SumsAgree` show that the fold is well defined
on finite sets, `SumRemove` that any element may be taken first, and from these come what the
other proofs use: `SumAdd`, `SumUnion`, `SumGrows`, `SumConstant`, `SumGroups`. The library's
induction theorems take an operator, which the provers cannot instantiate: here
induction is over a *set*, that of the sets or numbers which have the property
(`SubsetInduction`, `AddInduction`, `NatInduces`), and `Recursion` says that a step which is a
function can be iterated. They come from the library's well-founded subset ordering.

**DocumentQueue** (`DocumentQueueProofs`). `QueueInvariance`: `Spec => []IInv`.
`ControlInv` says that whoever is inside the advisory lock of a document holds it. So
what a DELETE of old chunks saw is what is stored until its transaction ends, and a
worker past its second look only ingests a document that still has no chunks
(`ChunkInv`): from it `OneSetOfChunks`, `WorkersIngestOnce` and `ReportsHold`. `ExecInv`
follows a message through its batch: it leaves it as a failure or with a settled row,
whatever dies (`NoJobIsLost`). `OutcomeInv` follows the lookup that no lock protects: an
execution that found no row holds the key of the one it inserts, and one that found a row
goes on only with a skipped job, which is skipped again while its document has chunks.
From it `OutcomesStay`. It excepts the documents of `emptied`: there two deliveries that
both found the job skipped both ingest, and the outcome of the last one stands.

**CaseIntake** and **PricingConfig** (`CaseIntakeProofs`). `Invariance`: `Spec => []IInv`.
`HeldInv` says that whoever found the row holds it and has read its last version;
`FirstInv` that, until some call wrote from a missing row, whoever found none found a
table with nothing committed: `ConfigKept`. `SeqInv` says that
who holds the sequence has the next number, and that numbers are given out in order of
commit: `CodesAreDense`. `QuotaInv` says that every quota a call has read was in force,
and each admission adds one call to a count that was below it: `QuotaOverrun` by
induction over steps, with cardinalities. `KeysOpenOnce` and `ClientWasActive`
(from `ChanceInv`) complete it.

**Accounts** (`AccountsProofs`). `AccountsInvariance`: `AccountsSpec => []IInv`.
`PasswordInv` dates the password in force by the start of the reset that wrote it,
`SessionInv` says that a session is never of an earlier second than the reset that wrote
its password, `RowInv` that the row of the link is the newest link issued, and `HolderInv`
that a reset which consumed a link holds its row and was in time. From it `ResetRevokes`,
`LinksAreSpaced` and the action property `LinkIsUsedOnce`.

**OrgAdmins** (`AccountsProofs`). `AdminsInvariance`: `Spec => []AdminsInv`. `GuardInv`
says that a call the guard let through holds the rows of *two* active administrators: it
counted them after it held them, and nobody else can change a row it holds. The call
itself changes one row, so one administrator is left: `GuardKeepsAnAdmin`. The proof
says nothing of calls the guard did not apply to, the gap of section 3.
`AccountsImplementsAdmins` shows that every step of `Accounts`, the sessions and links of
one of those users beside the calls of the others, is a step of `OrgAdmins` or leaves
its state alone, and `AccountsKeepAnAdmin` carries the guard over.

**Only model-checked.** Liveness (`PaidIsApplied`, `MessageSettles`), because
fairness and ENABLED are beyond the prover. Every safety property of a passing run has a
theorem. The inductive invariants, `CompletedAtMatches`, `InstallmentsOnlyOnCard` and
`SnapshotAddsUp` are proved and need no run.

## 5. Not modelled, and why

- Single-statement writes without a second step (the other columns of clients and users,
  organizations) and the read-only endpoints outside the financial area. The detail
  of a case (`get_case_aggregate`) shows the results of nine statements side by side and
  derives nothing from two of them: under READ COMMITTED a review that commits in between
  shows the old recommendation beside the new report, and no relation of the parts holds
  that could be stated.
- Impersonation by an operator (`operator_tx`, migration 029): the authority and the
  audit row come from one function that starts the transaction, and all that follows is
  a listing (users; cases with their count) or one UPDATE (`telas_extra`) in the target
  organization. Commit or rollback covers both, and no step depends on what an earlier one
  read.
- Of the financial area: text search, names and notes in the rows of a list, the
  audit tab, the automatic tariff of API usage, charged amounts. Paging through
  receivables is not modelled because nothing holds there: a sale paid between two
  pages leaves the list and the next one slips to the page already read.
- RLS policies, audit triggers: PostgreSQL's own semantics.
- Cryptography: JWT and webhook signatures are guards of the inputs.
- Evidence adapters, OCR, embeddings: outcomes are chosen freely.
- The inline queue backend of development: `process_job` in the caller's
  transaction, without redelivery.
- Jobs published with an attempt above 1 *and* delivered twice at once: no code
  publishes them (`documents.py:185`). There an execution that looked its job up before
  another one committed may rewrite a completed outcome as skipped: `mark_*` are UPDATEs
  by id and the lookup is not repeated after the lock. `OutcomeIsFinal` is stated for
  jobs published at one attempt, and the run `jobs` has only those; `IngestedOnce`,
  `OneGeneration` and `ReportsAreTrue` hold for all.

## 6. Plan

Done: payment, lifecycle and their composition through `RequestPayment`, sale, document
queue, intake with the client and the configuration, accounts and administrators, finance;
proofs of all their safety properties.

Left:

1. Upload: the presigned upload of a document, its confirmation and the first job
   (`documents.py`), in front of `DocumentQueue`.
2. The audit tab and the automatic tariff of API usage, beside `Finance`.
