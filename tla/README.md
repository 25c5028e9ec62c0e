# Mandaria backend: a TLA+ model of orders, dispatch and delivery

The backend sells deliveries. An integration quotes a delivery, or has a *prequote* issued
before there is an order and converts it; accepting the quote opens a *dispatch*, which delivery companies (*providers*, with fleets of
drivers and vehicles) and independent drivers compete for. Winning one costs
prepaid credits. The winner works on it, gives it back, or delivers it, and the
integration may cancel at any time. All state is in one PostgreSQL database;
concurrency is what several API processes, two kinds of polling workers and the
database's row locks make of it.

Paths below are relative to the repository.

## The system

| Component | State | Operations | What makes it correct |
|---|---|---|---|
| Dispatch (`src/dispatch`) | `Dispatch`, `DispatchCandidate`, credit snapshots | open, claim, release, lazy expiry | one holder; candidate rows and owner column agree; nobody wins twice |
| Independent drivers (`src/independent-drivers`) | `IndependentDriverProfile`, own vehicles, own coverage | approve, suspend, close, take, release | never withdrawn while working |
| Delivery assignments (`src/delivery-assignments`) | `DeliveryAssignment` | assign, reassign, cancel | one job per driver and vehicle over both modes; consistent with the V1.4 pairing |
| Deliveries (`src/deliveries`) | COMPLETED rows, `B2bOutboxEvent` | complete | delivered once, with exactly one event |
| Credits (`src/credits`) | `CreditAccount`, `CreditLedgerEntry` | award, refund, recharge, adjust | balance = ledger; the holder pays once and is refunded once |
| Automatic search (`src/dispatch/dispatch-search*`) | search columns, `DispatchSearchRound` | poll, renew, stop | rounds are neither lost nor doubled; every search ends |
| Delivery requests (`src/delivery-requests`) | `DeliveryRequest` | create, update, cancel | a cancelled request leaves nothing open behind |
| Quotes, authorized acceptance (`src/delivery-quotes`) | `DeliveryQuote`, acceptance evidence | offer, accept, expire | accepted once, opens one dispatch |
| Prequotes (`src/delivery-prequotes`) | `Prequote`, consumption, conversion | issue, consume, convert | consumed once, by one quote |
| Idempotency (`src/idempotency`) | `ApiIdempotencyRecord` | begin, finish, replay | an effect happens once per key |
| Providers, drivers, vehicles, pairing (`src/providers`, `drivers`, `vehicles`, `assignments`) | status, membership, `DriverVehicleAssignment` | create under limits, switch, pair | limits respected; pairing one-to-one |
| Invitations (`src/invitations`) | `UserInvitation` | create, resend, revoke, activate | one pending per user; seat limits |
| B2B webhooks (`src/b2b-webhooks`, `b2b-events`) | outbox, `B2bWebhookEndpoint`, `B2bWebhookDelivery`, attempts | record, lease, send, record the answer, push by hand, rescue, disable | at-least-once; the history is exact; endings stand; nothing stays owed for ever |
| Verification (`src/verification`) | `VerificationCase`, attachments, acceptances, notices, policy; status of driver, profile and vehicle | register, accept terms, draft, upload, submit, read, decide, notify; admission to work | what is decided was read; an approval starts only what awaited it; work begins on current evidence; notices not lost |
| Credit policies, rate plans | versions, bands | draft, publish, retire | one effective version |
| Integrations, zones | status, credentials | switch, rotate | stops a search |
| Auth, users, mail, pricing, routing, geo, health, config | - | - | no protocol of their own |

How they meet: nearly every operation is one interactive Prisma transaction that
first locks the row it decides on with `SELECT ... FOR UPDATE`. The dispatch row
is the meeting point of claims, takes, releases, assignments, completions,
cancellations and search rounds; credit movements happen in the transaction that
wins or leaves the dispatch; the outbox event in the transaction that completes
it. Triggers (`prisma/migrations`) repeat many guards in the database and the
search's bookkeeping exists only there.

What is hard: races for the dispatch row; values read outside the transaction
(an independent driver's approval, the worker's list of due searches, the
eligible providers of a round); lazily recorded expiry; two process clocks and a
database clock; charge and refund inside larger transactions that may be refused
as a whole; lock orders across a dozen tables, foreign keys included. The
complete list with its lines is in `PROJECT.json` under `hazards`. On the way in it
is retries: most calls that create something carry an Idempotency-Key, three
services implement such keys in three ways, and issuing a prequote pays an external
routing provider between its transactions.

## Modules

    ServiceContract        what the platform promises about one dispatch
      ^ implemented by
    DispatchMarket         claims, takes, work, credits, cancellation (many dispatches)
      DispatchMarketMC     instances for TLC
      DispatchMarketProofs    theorems: types, claims, payment, ledgers, work,
                              deliveries, cancellations; it implements ServiceContract
    DispatchSearch         the automatic search of one dispatch, with clocks and workers;
                           it implements ServiceContract as well
      DispatchSearchProofs
    RowLocks               the locks behind the atomic steps of the other two
      RowLocksMC, RowLocksProofs
    KeyedCalls             calls with an Idempotency-Key: copies, crashes, retries
      KeyedCallsMC, KeyedCallsProofs
    PrequoteIssue          how a prequote is issued: permits, leases, routing
      PrequoteIssueMC, PrequoteIssueProofs
    QuoteIntake            from request or prequote to the dispatch
      QuoteIntakeMC, QuoteIntakeProofs
    WebhookDelivery        what becomes of the recorded events of one integration
      WebhookDeliveryMC, WebhookDeliveryProofs
    DriverVerification     dossiers of independent drivers and vehicles, admission to work
      DriverVerificationMC, DriverVerificationProofs

**ServiceContract** is the abstract specification: one dispatch is published,
won, given back, delivered or closed. Winning and paying are one step; leaving and
getting the credits back are one step; nobody wins what it gave back; deliveries
are final. `DispatchMarket` and `DispatchSearch` are shown to implement it. `Promises` is
what the contract means in one state.

**DispatchMarket** has one variable per table column the market decides on and
one action per transaction. `request`, `status`, `owner` are columns of
`DeliveryRequest` and `Dispatch`; `lapsed` stands for `expiresAt <= now`;
`candidate` is `DispatchCandidate.status`; `active` and `ended` are the rows of
`DeliveryAssignment`; `events` counts the completion rows of the outbox;
`available`, `covered`, `profile`, `paired` hold what the parties may change
meanwhile; `balance` is `CreditAccount.balance` and `deposited`, `awarded`,
`refunded` summarise `CreditLedgerEntry`. An action's guard collects the checks of
the service and of the triggers; a refused transaction is an action that is not
enabled, because it rolls back. The one refusal that does commit something,
recording that a window has closed, is `ArriveLate`.
A dispatch's search columns are not in this module (one window each); a claim
that predates charging (`DispatchPreEnforcementAward`) is given by `PreAward`. The
table also knows independent drivers (`award-boundary.ts:19-41`); `PreAward` has
providers only. Such a driver's exemption ends with that award as a provider's does: the
charge is decided per award, and no driver takes again what it has released.

**DispatchSearch** follows one dispatch through `MaxAttempts` windows. Time is
relative: `left` is `expiresAt` minus the database clock, and a process clock is
off by some `s` in `-Skew .. Skew`. Claims and the worker use the database clock,
releases and cancellations the process's. The worker's scan and its transaction
are two actions (`Scan`, `Advance`), as are the acceptance's read of the eligible
providers and the trigger's (`AcceptReads`, `OpenDispatch`). `Abandon` is a
worker that found the row locked (`SKIP LOCKED`), failed or crashed. The
dispatch's work and credits are left to DispatchMarket: here the contract is
instantiated with everybody exempt.

**RowLocks** justifies the atomicity of the other modules' actions from below and
asks what happens between the locks. Each transaction is a *script*: stages of
locks in the order the code takes them, each with PostgreSQL's mode: `FOR UPDATE`,
`FOR NO KEY UPDATE` (a plain UPDATE), `FOR SHARE`, `FOR KEY SHARE` (a foreign
key). A transaction may end after any lock; the data it decides on is abstracted
away, which only adds behaviours. `Victim` is PostgreSQL's deadlock detector. Only
the authorized acceptance maps SQLSTATE 40P01 (`authorized-acceptance.service.ts:235`,
to 503); any other victim answers HTTP 500. Each dispatch identifier also names its
request and its integration. A dispatch in `Fresh` is not opened yet: until the
acceptance commits, other transactions can only reach its request. Locks left out because
every script that takes them takes them below rows already locked, or only in
key-share mode on rows nobody updates: candidates, quotes, snapshots, credentials,
policy versions, idempotency records. There is no foreign key on
`claimedByProviderId`, so a claim does not lock its provider.

**KeyedCalls** is what lies under an operation that carries a key. Three services
run them: `IdempotencyService.execute` inserts the record of the key first and lets
the unique index make a copy wait (creating and converting requests);
`CreditAccountsService.move` looks the key up, locks the account and looks it up
again; `VerificationService.command` takes an advisory lock on the key, and
`attempt` asks what became of a key or closes it for good. `step` is where a call
is, `owner` who holds the lock its key stands behind, `receipt` the committed row of
the key, `effects` what the operation did, `answer` what the client heard. The
operation itself is one effect, or a `Refuse`: `CreateRequest` and
`CommitConversion` of QuoteIntake and `Move` of DispatchMarket are such effects.
`OneEffect` is the abstract promise: the effects are exactly what the receipts say.

What a request hash covers is a `Purpose`, the operation with its target, and a
`Body`, the rest. A record or a ledger entry compares one hash of both (`Replay`). A
command compares operation and target first, then asks whether the key is closed, and
compares the hash last; `attempt` does the same without a hash
(`CommandReplay`). So CONFLICT is told of a closed key too, and to a client that asks or closes,
and CLOSED only to the same operation on the same target. Commands and attempts check the
caller's rights before they look up the key, and may refuse a copy of what was done
(`Forbid`). An upload goes on after its command committed: it reads the dossier again
and has a URL signed, and answers 409 or 503 when either fails
(`FollowUpFails`; `verification.service.ts:835-852`). That answer looks like a refusal, so
for uploads alone a refusal does not mean that nothing was done: `AnswersHold` excepts
them, and such a client learns from `attempt` what became of its key.

**PrequoteIssue** is `PrequotesService.create`, whose steps are separate
transactions around a paid call to the routing provider: inspect the key, get a
permit (`Admit`, `StartPermit`, `Finish`), lease the key's execution (`Reserve`),
read the plan (`Configure`), check that enough of the lease is left
(`RequireBudget`), route, publish or record the failure (`Fail`), and, once the
lease is lost, answer what is on record (`Verify`). `execution` and `permit` are the
rows of `ApiIdempotencyExecution` and `PrequoteConsumptionPermit`. The transaction
that publishes is two steps, since its commit may come late and its answer may be
lost. Timeouts are what bounds `Tick` while a call routes.

**QuoteIntake** has the two ways from an order to its dispatch: create, quote, accept;
or convert a prequote, which makes request and quote at once, and accept with the
customer's authorization. `request`, `quote`, `dispatch`, `origin`, `terms` and
`evidence` are columns of `DeliveryRequest`, `DeliveryQuote`, `Dispatch`,
`PrequoteConversion` and the acceptance evidence. `work` is the transaction that holds a
request's row, for the two that last: `quote()` calls the routing provider inside
it, and the triggers of an authorized acceptance read the clock again at the end.
`converting` is the same for a prequote's row. `PublishPrequote` stands for the
`Commit` of PrequoteIssue. An open `dispatch` is where DispatchMarket takes over.

**WebhookDelivery** takes the outbox over where `DispatchMarket.Complete` leaves
it. `state`, `count`, `lease` are columns of `B2bWebhookDelivery`; `due` and
`lapsed` stand for `nextAttemptAt <= now` and `leaseExpiresAt <= now`; `attempts`
are the rows of `B2bWebhookDeliveryAttempt`, an unnumbered one (`attemptNumber`
NULL) as number 0; two unnumbered attempts with the same answer coincide.
`received` is the receiver's own state, which the code cannot see. A sender is one
pass of `tick()` (a `Poller`; passes of one process overlap) or an administrator's
`deliver()` (a `Request`), and `task` is what it carries from the transaction that
leases, through the HTTP request, to the transaction that records. An answer is
what `disposition` makes of it. `Accepted` is everything the database may say
against a record: the unique ordinal, the CHECK on the stamps, the guard trigger;
`Refuse` is the record it rolls back. `nudge()` only hints at work that is found
anyway. The URL, signature and encryption of a request are the answers they lead
to; `ORDER BY` is left open.

**DriverVerification** is `VerificationService` for the drivers that registered
themselves and belong to no provider, and for their own vehicles, together with what
administrators do meanwhile (`IndependentDriversService`) and with the admission
that `take` and the trigger on `DeliveryAssignment` ask for. `driver`, `profile`,
`vehicle`, `onboarding` are columns of `Driver`, `IndependentDriverProfile` and
`Vehicle`; `cases` are the rows of `VerificationCase`, each with its declaration
(`data`), an expiry, the files validated for it and the facts it was submitted about;
`seen` is what the reviewer last read and `explicit` the last status an administrator
gave a vehicle, both kept for the properties. A declaration stands for all of its
content that decides something: with a licence or without, and which files it
requires. An edit in the midst of a reading needs no step of its own: a reading whose
files are newer than its revision carries a revision that is none any more.
`BeginDecision` and `CommitDecision` are one transaction of `decide`, and
`BeginAdmission` and `CommitAdmission` one `take`: between the two others may
change whatever row is not locked. `decide` locks driver or vehicle, subject
and dossier, but not the profile, which it reads and overwrites; `take` locks
profile, driver and vehicle. Announcing an upload only raises the revision and is part
of `CompleteUpload`. In DispatchMarket the same profile and vehicles are there
without their dossiers.

## Runs

| Run | Instance | Asks |
|---|---|---|
| `market_race` | 1 dispatch, 2 providers, a driver both in p1's fleet and independent, 2 vehicles; all but p2 may leave service | Does a claim stay consistent with its candidates, its work, its delivery and its cancellation under every administrative switch? |
| `market_two` | 2 dispatches, one held since before charging and one LEGACY, 1 provider, the same driver, 3 vehicles | Can one driver, vehicle or account serve two dispatches wrongly, does every holder pay what is due, once, and does the market implement ServiceContract? |
| `search_rounds` | 2 providers, 1 driver, 2 workers, 3 rounds of 2 ticks, skew 1, fairness | Are rounds neither lost nor doubled, does the recorded reason tell the outcome, and does every search run down, end and stay ended? |
| `locks_order` | 3 concurrent transactions of every kind, 2 dispatches (one fresh), 2 drivers | Which transactions can deadlock? Only two known groups. |
| `locks_finishing` | a completion and a cancellation; **violation** | Is a lost completion race never a 500? It can be. |
| `webhook_races` | 1 event, 1 pass, 1 administrator, budget 2, at most 3 attempts, fairness | Does an exact history survive overlapping senders, crashes, lapsed leases and rescues, and is the event handed over or given up? |
| `webhook_resend` | the same, budget 2; **violation** | Is a resend of a delivered event always audited? No. |
| `webhook_rescue` | the same, budget 3; **violation** | Does a rescue buy one attempt? It may buy more. |
| `keyed_calls` | 3 calls over 4 keys (one per service, and a second of the ledger's account), 2 purposes for the commands' key, one an upload, 2 bodies, fairness | Does each key take effect once, does what clients heard stay true, and does every call end? |
| `prequote_issue` | 3 calls, 2 keys, 2 plans, lease 2, 2 attempts, limits 2, clock to 3 | Does paid routing stay within its limits, are the answers true, and is the price the one in force? |
| `quote_intake` | 2 requests, 2 quotes, 1 prequote, 2 prices, validity 1, skew 1, clock to 2 | Is there one quote to pay by, a dispatch per acceptance, a promise kept and nothing accepted late? |
| `driver_verification` | 1 driver, 1 vehicle, 3 dossiers, 2 variants of the vehicle's facts, revisions to 3, clock to 1, symmetry | Are dossiers decided as they were read, does an approval start nothing else than what awaited it, does work begin on current evidence, and is nobody at work taken out of service? |

Bounds. Balances stop at 2, with prices 1 (provider) and 2 (driver): a recharge,
an insufficient balance, a refund that exceeds the maximum and one that does not
are all reached. The instances that have two of something have them because the
property relates two of it: two providers for the candidate rows, two dispatches
for one driver and one account, two workers for one window, three sessions because
a shared lock lets a cycle form through a third. `Volatile` bounds who goes in
and out of service. Three rounds distinguish first, middle and last,
of the five of the code. `OPEN`, `CLAIMED` and all terminal states
are reached in every market run. Three calls are the first of a key, a copy of it and one that
conflicts with both or takes an expired lease over; three also exceed limits of two.
Only the commands' key has two purposes: the other services compare purpose and body
in one hash, where a second body is a second purpose.
A clock of 3 outlasts a lease of 2 and a clock of 2 a validity of 1 with skew.
Deadlock checking is off in `keyed_calls` and `prequote_issue`, where every call may
have had its answer and the clock its bound, and on elsewhere. A webhook's
budget of 2 has a first, a last and, by a rescue, an attempt past the last;
`Limit` bounds what administrators add. Events share nothing but the endpoint, so
one is enough; two senders suffice for one to outlive its lease and meet the other's
result, and the theorems hold for any number of either. In
`driver_verification` three dossiers are one each for driver and vehicle and a renewal
of either; revision 1 is the new dossier, and declaration, files and submission
raise it to 4 and a decision to 5. `MaxRevision` bounds the editing alone, so that a file removed
again is not replaced within the bound; the theorems have none. The clock reaches the one expiry.
The dossiers are interchangeable and so are the vehicle's facts; a second driver
or vehicle shares no row with the first but by its owner's, and the theorems hold for
any number of them. With one vehicle the last part of `WorkersStayInService`, nobody works
with two, is left to the theorem. The type invariants of DispatchSearch, RowLocks, KeyedCalls,
QuoteIntake, PrequoteIssue, WebhookDelivery and DriverVerification are proved and not run. No
run needs a state constraint.

Fairness is used by `search_rounds`, `keyed_calls` and `webhook_races`. In the search, `WF(Tick)`: time passes. `WF(Scan(w))`:
`setInterval` in `dispatch-search.worker.ts` keeps polling whatever happened in
the poll before. `SF(Advance(w))`: a poll may be lost to a locked row, a failed
transaction or a crash, but not every poll for ever. Users are under no
obligation: nobody has to claim, release, deliver or cancel. In the webhooks, time
passes (`WF` of `Lapse`, `ComeDue`); a pass leases what is leasable and no other
work starves it, because the queues are ordered (`SF` per event); a request is
ended by its timeout and a pass lost to a crash is followed by another (`SF` of
`Hear`, `Finish`). In the keyed calls, `WF(Work(c))`:
a transaction that began commits, fails or times out, and PostgreSQL wakes who waits
for it; nobody has to send a call. A call is sent once and a retry is another
call, so `CallsEnd` says that from some time on none is under way. Administrators owe nothing, and the endpoint is only assumed to
stay open in the property itself, `<>[]Open`.

### What the violations say

1. *Completion against cancellation.* A completion holds the dispatch and, through
   the outbox event's foreign key, wants the request in key-share mode; a
   cancellation holds the request and wants the dispatch. One of them is chosen as
   deadlock victim. If it is the completion, the client sees 500 where the code
   promises 409. Nothing is left half done: the retry succeeds or is refused properly.
2. *Resend.* A failed answer to a resend of a DELIVERED event would move the row to
   EXHAUSTED or PENDING. The guard trigger refuses, the attempt is rolled back with
   it, and the administrator gets 500 instead of an audited attempt. A 409, the
   answer the deduplication contract asks for, is such an answer.
3. *Rescue.* The count decides whether a failure gives up. After a terminal answer
   to the first attempt a rescue leaves four attempts, not one; only when the budget
   was spent does it buy exactly one (`BudgetKept`).

Three more comments do not hold, without a run of their own. `take` refuses
DISPATCH_RETAKE_NOT_ALLOWED to any driver with a CANCELLED assignment on the dispatch
(`independent-dispatches.service.ts:204`), which the API documents as "yo lo
liberé"; a fleet driver whose provider cancelled its work and then released the dispatch
has one, though it never took nor released anything. `invitations.service.ts:116`
gives one lock order for invitations, but a PROVIDER_ADMIN one locks the user and
then, through its foreign key, the provider: with a DRIVER invitation of the same
address to the same provider it deadlocks. `OnlyKnownDeadlocks` allows for it, and for
adding a member against creating a driver. `b2b-webhooks.service.ts:428` says that a
manual push never races the worker; but a lease exists only on a PENDING row, so a
push of an event not enrolled yet, or given up and then rescued, runs beside the
worker's. The unique ordinal keeps the history exact all the same
(`HistoryMatchesCount`); the receiver sees the event twice.

Three promises of the documentation are about races the properties leave open.
`README.md:919` says that new quotations fail once a zone is deactivated; `quote()`
reads zone and plan without locking them and then routes, so that the quotation in
progress is still issued, at the old price if the plan changed. A prequote is
not: `publish` reads both again under locks (`IssuedByHolder`).
`V1.13-A4-PREQUOTE-HTTP-ORCHESTRATION.md:144` calls ATTEMPTS_EXHAUSTED terminal; when the lease of the last
attempt runs out while its transaction is publishing, `inspect()`, which
locks nothing, says so and the prequote appears all the same. `AnswersStand`
promises nothing after that answer. `DRIVER-VERIFICATION-IMPLEMENTATION.md:24` says
that an approval does not rehabilitate a SUSPENDED or REJECTED profile. `decide` reads the
profile as PENDING without a lock (`verification.service.ts:1120`) and writes APPROVED; a
suspension that commits in between is overwritten. `SanctionsStand` excepts this one case and
no other.

`EndedSearchStaysEnded` is checked with clocks that differ, for readers whose clock is
not ahead. It is false for the others: `GET /status` decides with the process clock
and the claim with the database clock, so a search read as EXHAUSTED by a process
whose clock is ahead may be won for as long as it is ahead.

`RoundsReachProviders` speaks of rounds from the second on: the first round's
list and the first candidates come from two unlocked reads and may differ. A renewed round's list
is read, without locks, and offered in one step of the model. A provider suspended in
between gets an offer it cannot claim, since a claim checks again; the property
says nothing about that read, only that what was listed is offered.

`DeliveredOnce` is about the order of transactions, not about one that fails half-way: a completion
is one transaction (`delivery-completion.ts:100-161`) and one step, and that its writes
roll back together is PostgreSQL's doing.

## Theorems

`DispatchMarketProofs` proves, for any number of dispatches, providers, drivers
and vehicles, any prices and any movements of credit:

* `TypeCorrect`: `Spec => []TypeOK`. No balance leaves `0 .. MaxBalance`, nothing
  is refunded that was not awarded.
* `ClaimCorrect`: `Spec => []ClaimInvariant`, the inductive invariant. From it:
  * `PaymentFollowsClaim`: `Spec => []HolderPays`;
  * `ClaimAndSnapshotAgree`: `Spec => []ClaimMatchesCandidates`;
  * `WorkUnderClaim`: `Spec => []WorkBelongsToHolder`.
* `BalancesAreLedgers`: `Spec => []BalanceIsLedger`. Every balance is what was deposited
  less the credits paid and not given back.
* `WorkCorrect`: `Spec => []WorkInvariant`, what rests on the work in progress. From it:
  * `JobsAreExclusive`: `Spec => []OneJobAtATime`;
  * `WithdrawalWaits`: `Spec => []NoWithdrawalMidService`;
  * `PairingAgrees`: `Spec => []PairingFollowsWork`;
  * `OneDeliveryOneEvent`: `Spec => []DeliveredOnce`;
  * `CancellationIsFinal`: `Spec => []CancelledIsOver`;
  * `FinishedStays`: `Spec => FinishedIsFrozen`, an action property that no run
    needs to check besides the contract.
* `MarketKeepsContract`: `Spec => KeepsContract`. For every dispatch the market
  implements ServiceContract.
* `MarketKeepsPromises`: `Spec => []MarketPromises`, by the refinement alone: whoever
  executes a dispatch never gave it back and is the only one who has paid for it.

`DispatchSearchProofs` proves, for any number of windows of any length, any skew and any
number of workers and parties, from `SearchCorrect`, `Spec => []SearchInvariant`:
  * `SearchTypes`: `Spec => []TypeOK`;
  * `ReasonsAreTrue`: `Spec => []ReasonTellsOutcome`;
  * `RoundsAreOffered`: `Spec => []RoundsReachProviders`;
  * `RoundsAreOrdered`: `Spec => OneRoundPerWindow`;
  * `OverIsFinal`: `Spec => EndedSearchStaysEnded`;
  * `SearchesRunDown`: `Spec => SearchRunsDown`, the part of `SearchEnds` that needs no
    fairness: once open, every step that touches window or round leaves less of `Remaining`;
  * `SearchKeepsContract`: `Spec => KeepsContract`, through all rounds;
  * `SearchKeepsPromises`: `Spec => []Contract!Promises`, likewise.

`RowLocksProofs` proves, for any number of sessions, dispatches, providers, drivers,
vehicles and users, from `LocksCorrect`, `Spec => []LockInvariant`:
  * `LockTypes`: `Spec => []TypeOK`;
  * `DeadlocksAreKnown`: `Spec => []OnlyKnownDeadlocks`. The transactions deadlock nowhere but where a
    completion meets its cancellation and where administrators are added or invited.

`WebhookDeliveryProofs` proves, for any number of events, passes and
administrators, from `DeliveryCorrect`, `Spec => []DeliveryInvariant`:
  * `WebhookTypeCorrect`: `Spec => []TypeOK`;
  * `HistoryIsExact`: `Spec => []HistoryMatchesCount`;
  * `DeliveryIsReal`: `Spec => []DeliveredMeansReceived`;
  * `BudgetHolds`: `Spec => []BudgetKept`;
  * `HolderRecords`: `Spec => []LeaseHolderCanRecord`;
  * `EndingsAreFinal`: `Spec => EndingsStand`;
  * `AttemptsAreCounted`: `Spec => CountsAreAttempts`. An attempt that counts is the next one
    and decides what becomes of the event, whatever its sender had read.

`KeyedCallsProofs` proves, for any number of calls, keys, purposes and bodies, from
`KeysCorrect`, `Spec => []KeyInvariant`:
  * `KeyTypesCorrect`: `Spec => []TypeOK`;
  * `OneEffectPerKey`: `Spec => []OneEffect`;
  * `AnswersStayTrue`: `Spec => []AnswersHold`;
  * `ReceiptsArePermanent`: `Spec => ReceiptsStand`, which no run checks.

`QuoteIntakeProofs` proves, for any number of requests, quotes, prequotes and prices,
any validity, skew and clock, from `IntakeCorrect`, `Spec => []IntakeInvariant`:
  * `IntakeTypesCorrect`: `Spec => []TypeOK`;
  * `OneOpenQuoteAlways`: `Spec => []OneOpenQuote`;
  * `DispatchesFollowAcceptances`: `Spec => []DispatchFollowsAcceptance`;
  * `PrequotesArePromises`: `Spec => []ConvertedAsPromised`;
  * `AcceptancesInTime`: `Spec => AcceptedInTime`;
  * `OrdersAreDispatchedOnce`: `Spec => []OneDispatchPerOrder`. A request, or a prequote however
    often converted, leads to one dispatch, ever;
  * `OutcomesAreFinal`: `Spec => OutcomesStand`. Terms never change, and endings, evidence and
    closed dispatches stay.

`PrequoteIssueProofs` proves, for any finite set of calls, any keys and plans and
any times and limits the assumption allows, from `Spec => []IssueInvariant`:
  * `IssueTypesCorrect`: `Spec => []TypeOK`;
  * `RoutingIsLimited`: `Spec => []WithinLimits`;
  * `AnswersStayTrue`: `Spec => []AnswersStand`;
  * `PrequotesAreOwned`: `Spec => IssuedByHolder`;
  * `EndsAreFinal`: `Spec => ExecutionsEnd`. What SUCCEEDED or FAILED is over for every late
    call of its key.

`DriverVerificationProofs` proves, for any number of drivers, vehicles and dossiers,
any editing and any expiries, from `VerificationCorrect`,
`Spec => []VerificationInvariant`:
  * `VerificationTypes`: `Spec => []TypeOK`;
  * `ApprovalsStartWhatAwaits`: `Spec => []StatusesAreEarned`;
  * `SanctionsAreKept`: `Spec => SanctionsStand`;
  * `DecisionsAreRead`: `Spec => ReviewedAsSeen`;
  * `AdmissionsAreSound`: `Spec => AdmittedOnEvidence`;
  * `ServiceIsNotInterrupted`: `Spec => []WorkersStayInService`;
  * `DecisionsAreFinal`: `Spec => DecidedStands`. What was decided or withdrawn is history;
  * `EvidenceIsOwn`: `Spec => []DossiersAreOwn`. One open dossier per subject, and a
    subject's evidence is a dossier of its own.

The assumptions of the market's theorems are those named in `DispatchMarket`: providers, drivers, vehicles
and None are distinct (`ActorsAreDistinct`; they are UUIDs of different tables),
ownership maps into the parties (`OwnershipAssumption`), prices are positive
(`CreditAssumption`). TLC evaluates them in every market run. DispatchSearch
assumes that its parties are distinct and None is neither a party nor a reason, and that
there is at least one window and it has a length (`SearchAssumption`); RowLocks, that no driver is in
two fleets, which is how `Driver.providerId`, one column, stores them
(`FleetAssumption`), and that the dispatches yet to open are dispatches (`FreshAssumption`). WebhookDelivery assumes that senders and
None are distinct (`SendersAreDistinct`) and that the budget is positive and within
the bound (`BudgetAssumption`). KeyedCalls assumes that every key belongs to a service
that what its calls may be for, and what is an upload, are purposes, and that None is
no call, body or receipt (`KeysAssumption`), QuoteIntake
that validity is positive (`IntakeAssumption`). `IssueAssumption` has the one
assumption about durations: the time to start routing and the timeouts of the
routing adapter together fit into the budget asked of the lease and into the time a
permit is protected, as `consumption-policy.ts:11` computes them. `VerificationAssumption` says that drivers
and vehicles are distinct, that every vehicle has an owner, and that None is none of the
values it stands beside.

Why the strengthening. `HolderPays` alone is not inductive: whether a release
must refund depends on whether the award was exempt, and the exemption depends on
the candidate row; `ExemptionIsUsedUp` says that a provider holding since before
charging can never be OFFERED the dispatch again, and `AwardsAreDue` that an
exempt claim was never charged. Whether an independent driver's release finds the
right work to end needs `WorkBelongsToHolder`; and the owner column is only known
to be the claimed candidate through `ClaimMatchesCandidates`. Each is preserved by
the steps of `ClaimSteps`; every other step leaves its variables alone.

`LedgerInvariant` adds to the sum what makes it one: `Spent`, the credits an actor paid
and was not given back, counted one by one, stays finite. A charge adds the credits
of a dispatch whose award is not among them yet and a refund takes out those of one that is
(`ChargeBooks`, `RefundBooks`); each award has credits of its own, so the count changes by
exactly its price (`CountCredits`), whatever else the transaction does.

`WorkInvariant` adds two things to the properties it proves. `OneCompletion` says
that a dispatch has one event and exactly one completed row if it is DELIVERED
and none otherwise: `DeliveredOnce` without Cardinality, so that the steps are
about sets and only the last one is about their size. That
there is exactly one row to complete comes from `OneJobAtATime` and
`WorkBelongsToHolder`. `CancelledIsClosed` is the part of `CancelledIsOver` that
steps can disturb; the rest follows from `HolderPays` and `WorkBelongsToHolder`.

The refinement proof first shows that a step has, for every dispatch, one of six
shapes: it leaves the dispatch untouched, opens it, lets one actor win it, lets
its holder give it back, delivers it or closes it (`PartyShapes` to `WorkShapes`,
gathered in `Shapes`). It then shows that each shape is a step of the contract or
a stutter. What was paid needs no look at the credits: `HolderPays` before and
after the step determines it. `FreshUnopened` says that nobody gave back a
dispatch that was never opened: opening replaces its candidate rows.

`SearchInvariant` says, beside what it proves, that until the acceptance commits there are no
candidates, rounds or owner and nobody else touched the request (`UnopenedIsFresh`), that
status, owner and candidate rows agree (`HolderMatches`) and that the dispatch of a cancelled request
is neither open nor claimed (`CancelledIsClosed`). `ReasonTellsOutcome` needs all
three: whether the search ever found an executor is read from the owner, the candidate
rows and the returns, which must survive a release and a cancellation. `Advance` needs
nothing of the `Scan` it acts on, since it decides again under the row's lock.
`EndedSearchStaysEnded` is proved for every reader's clock `s` in `-Skew .. 0`, at any skew.
`SearchRunsDown` has one step that is not linear: a renewal spends one attempt of
`Remaining`, worth `Window + Skew + 1`, and gives back at most `Window + Skew`, since `left`
was `-Skew` at the lowest. That arithmetic is a lemma of its own, `RoundCostsMore`.

`LockInvariant` says where each session stands: it holds the stages of its script before
the current one, of the current one what it no longer asks for, and nothing else
(`FollowsScript`); conflicting locks exclude each other (`LocksExclude`) and SKIP LOCKED is
not waited for (`SkipsDoNotWait`). The argument about deadlocks ranks locks by class and mode
in one order that every script ascends, but for the kinds the property excepts and a completion
that has come to its outbox event. A session that waits ranks higher, the higher
the lock it waits for, and higher still if it already holds one of that class (`Potential`).
Whoever it waits for ranks above it (`WaitingRises`), and ranks are bounded, so a set in which
everybody waits for a member has a member outside the order: a completion at its event. It holds
the dispatch, and what it wants only a cancellation of the same delivery withholds
(`CompletionMeetsCancel`), and these two are then the whole deadlock. One stage locks
many rows in no order, the drivers of a provider that is switched; two such transactions never meet there, since
each holds its provider's row and fleets are disjoint (`TransitionsExclude`).

`DeliveryInvariant` adds to its properties what a sender still knows of its event
(`TaskKnows`): the count it read is a lower bound of the current one, and is the
current one while the lease is its own; a delivered row it read is delivered still.
With that, `RecordsNext` shows that a record the unique ordinal accepts is always
the next attempt, which is all that `HistoryIsExact` and `HolderRecords` need.

`KeyInvariant` adds what a call still knows of its key: what it is about to answer
with is the current receipt, or was none (`ReadsAreCurrent`), an effect
is only of a call that committed, told REFUSED only if it was an upload
(`EffectsAreCommitted`), and only keys of commands are asked about or closed
(`OnlyCommandsClose`), which is why the other services need not look for
tombstones. That a call has at most
one transaction, and that this one holds the lock, is the last part of `TypeOK`.

`IntakeInvariant` adds what the row locks buy: a transaction at work on a request still finds
what it based its work on (`WorkFitsRequest`), a conversion that holds its
prequote is the only one (`ConversionsAreCurrent`), and what is not created yet has
no quote or evidence (`FreshIsEmpty`, `EvidenceIsAccepted`).

`IssueInvariant` has three arguments. Leases: no two calls hold the same version of
an execution (`LeasesDiffer`), and while one publishes nobody takes its lease or
changes its plan (`CommitsHold`). Time: from the check of the budget to the end of routing
the lease covers the call (`BudgetIsCovered`, `RoutingEnds`), so two calls of
one key never route at once. Slots: a permit is counted from its admission on,
and whatever counts now counted when the last one was admitted (`PermitsArePaid`,
`SlotsAreLimited`). `IssuedIsSucceeded` and `AnswersAreRecorded` tie prequotes and
answers to the execution's row.

`VerificationInvariant` has two arguments. Versions: a dossier whose revision is the one
that was read is the dossier that was read (`ReadingsAreTrue`), and while it is being
decided it stays so (`DecisionsAreOfRead`). Locks: no decision is under way on the driver or
the vehicle of an admission, and no second admission of the same driver
(`LocksExclude`), so that what the admission found holds until it commits
(`AdmissionsHold`). `WorkersStayInService` is inductive with it: it is true of whoever is being
admitted, and everything that takes a driver or a vehicle out of service asks for the work first. `EvidenceIsApproved` says that approved dossiers, which an admission
reads unlocked, never change; `MarkersAreInitial` that a vehicle whose status was set
has lost its marker.

Every invariant and action property of the passing runs is proved, and so are both refinements.
Some theorems state what no run asks: `FinishedStays`, `ReceiptsArePermanent`, the promises, and
`OneDispatchPerOrder`, `OutcomesStand`, `ExecutionsEnd`, `CountsAreAttempts`, `DecidedStands`,
`DossiersAreOwn`. They too were checked on the instances of their component's run before they
were proved.
Only model-checked is what must eventually happen, `SearchEnds`, `HandedOverOrGivenUp`
and `CallsEnd`: liveness under fairness and ENABLED are outside the prover's reach. The
three violations are counterexamples, which TLC finds. The strengthened invariants
`SearchInvariant` and `LockInvariant` were checked on the instances of `search_rounds` and
`locks_order` before they were proved.

## Not modelled

Components with status `partly` or `not_modelled` in `PROJECT.json` say why. In
short: pure arithmetic and I/O (pricing, routing, geometry, mail, auth, health),
and the protocols the plan below has left. Inside the modelled parts: documents
and user accounts as further reasons to refuse a transaction, driver
availability (the market never reads it), Prisma's transaction timeout, the order
in which PostgreSQL wakes waiters, the batch of 50 searches a scan takes
(`dispatch-search.worker.ts:49`; the model's scan returns every due search, so 50 that fail
for ever would starve the others unseen), drafts of rate plans and their validation
before the locks (`rate-plans.service.ts:229`), and the flags that switch prequotes
off. Of the verification: fleets and drivers who have a provider as well
(with their second dossier), new versions of the terms, the switch that turns the policy on for fleets, the
pairing that asks for the same evidence, vehicles that need no licence, deactivated users,
a process clock that is off the database's when a decision checks an expiry,
and the notices of decisions. A notice whose fifth attempt dies before its answer stays SENDING for ever
(`verification-notifications.ts:42` selects only `attempts<5`), neither sent nor FAILED.
Invitation seats, partner applications and credit policies have no module.

## Plan

1. `DispatchMarket`, `ServiceContract` and their theorems; `DispatchSearch`;
   `RowLocks`. (done)
2. `KeyedCalls` and its theorems; the effects it keys are actions of other modules. (done)
3. `QuoteIntake`, `PrequoteIssue` and their theorems. (done)
4. `WebhookDelivery` and its theorems. (done)
5. `Invitations` and provider capacity: seats, pending invitations, activation;
   theorem: limits are never exceeded.
6. `DriverVerification` and its theorems for independent drivers (done); fleets, the policy
   switch, pairing and the notices with their leases are left.
7. `CreditPolicies`: versions and bands; the price of a dispatch.
8. Proofs for `DispatchSearch` (reasons, rounds, contract), for `RowLocks` (deadlocks) and of the
   ledger. (done) Left are those of the modules in 5, 6 and 7.
