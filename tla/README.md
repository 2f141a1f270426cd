# Verification of vistablox-api

TLA+ specifications of the parts of this API whose correctness depends on the order in which
handlers, scheduled jobs, external services and the chain take their steps. TLC checks them on
small instances, and TLAPS proves nearly all their safety properties for every instance.
`PROJECT.json` maps every definition to the lines it models and lists the hazards with their source
lines.

- [The system](#the-system)
- [Modules](#modules)
- [Offering](#offering)
- [Settlement](#settlement): minting, the escrow contract, wallets, rent
- [Onboarding](#onboarding): intake cases, KYC, documents
- [Access](#access): devices, sessions, accounts, staff, repeated requests
- [Notices](#notices)
- [Runs](#runs)
- [Fairness](#fairness)
- [Proofs](#proofs)
- [What the code does not keep](#what-the-code-does-not-keep)
- [Not modelled](#not-modelled)

## The system

An Express application (`src/src/app.ts`, `server.ts`) and a worker (`worker.ts`) share one
Postgres database at READ COMMITTED. Transactions that compute with several rows lock a parent row
`FOR UPDATE`. The worker runs pg-boss queues: event jobs enqueued inside the transaction that
causes them, and scheduled jobs. A job may run late, be run again and overlap with another run of
itself. Outside are Coinbase (onramp purchases), Didit (KYC), email, an object store, the
authentication library's own tables, and a chain with three contracts.

| Part | Operations | Interacts with | What makes it hard |
|---|---|---|---|
| Offering | reserve, poll, expire, publish pack, publish terms, reconfirm, classify, finalize | Coinbase, intake, notices | unlocked money events, retries, jobs with old lists, deadlines |
| Notices | tell that the window is open, remind | queue, email | the record follows the email, runs overlap |
| Escrow minting | finalize-campaigns job | chain, positions | a chain write followed by a database write |
| Escrow contract | open, contribute, extend, finalize, sweep, refund, pause | job, anyone | one balance for all campaigns, callable by anyone |
| Wallet registration | register, watch, reconcile | chain | a cursor, overlapping scans, reorganizations, late logs |
| Rental | record rent, sweep | positions, wallets | overlapping sweeps, two truncations |
| Intake | draft, submit, ask, answer, decide, close, hand over, structure, correct | offering | deadlines racing answers, corrections executed long after the request |
| KYC | start, webhook, expire, reconcile, renew | Didit | late, lost, repeated and reordered webhooks |
| Case documents | upload, choose, delete photo, delete room | object store | no transaction spans rows and objects |
| Devices | challenge, enrol, log in, roll back, supersede | authentication library | several calls that must be taken back when a later one fails |
| Device replacement | ask for a code, verify | email | codes superseded while in use |
| Sessions | look up, count as activity, revoke | authentication library | rows read before the clock moved |
| Accounts | recovery, closure | devices, sessions | two procedures about one account, people deciding at the same time |
| Staff | invite, claim, accept, bootstrap, grant, offboard; WebAuthn ceremonies and recovery | authentication library | stale claims, locks in two orders, ceremonies across a recovery |
| Idempotency | look up, save | every high-risk POST | the key is not reserved before the handler |

## Modules

| Module | Content |
|---|---|
| `Offering` | one offering: the reservation handler, Coinbase, poll, sweep, staff operations, reconfirmation, finalization, and the correction that closes it |
| `Allotment` | what an offering promises: a key is allotted once, within the target, and then issued or given up; one step closes it |
| `OfferingFace` | what an offering shows to its intake case: the contract between `Offering` and `Intake` |
| `Notices` | the two jobs that write to the reservations of a published offering |
| `EscrowMint` | the job that mints the shares of a successful escrow campaign, its table and the chain |
| `IpoEscrow` | the escrow contract with several campaigns, and the two jobs that drive it |
| `Wallets` | wallet registrations, the registry's events, the watcher and the staff's reconciliation |
| `Distribution` | rent, positions and the sweep that distributes one to the other |
| `IntakePolicies`, `Intake` | the decisions of the intake domain, and one intake case with its corrections |
| `KycPolicies`, `KycSamples`, `Kyc` | what follows from an answer of Didit, sample answers, and the verification of one account |
| `CaseDocuments` | the photos of one room |
| `Devices` | enrolment and login of one customer's phones |
| `DeviceReplacement` | the codes by which a signed-in customer replaces the phone |
| `Sessions` | limits and activity of device sessions |
| `Accounts` | recovery and closure of one customer account |
| `Staff`, `StaffWebAuthn` | invitations, bootstrap and roles; the keys of one staff account |
| `Idempotency` | the middleware for one key |
| `CustomerAccess`, `StaffAccess` | `DeviceReplacement`, `Sessions` and `Accounts` side by side, and `Staff` and `StaffWebAuthn`, with the properties that are checked and proved of them |
| `OfferingProofs`, `SettlementParts`, `SettlementProofs`, `IntakeProofs`, `OnboardingProofs`, `DevicesProofs`, `CustomerProofs`, `StaffProofs` | the proofs |
| `MCOffering`, `MCEscrowMint`, `MCKyc`, `MCSettlement`, `MCOnboarding`, `MCLive`, `MCAccess` | the instances for TLC |

A definition whose comment begins with "Mutant:" is no part of a specification. It is a plausible
mistake in the definition that follows it, kept to show that the properties notice it.

Common conventions: one database transaction is one step, taken when it commits, where a lock or a
single conditional statement justifies it; where it does not, the statements are steps of their own.
What a handler does between two awaits is one step, and what it read before an await stays as it was
read. A crash is an action that drops what a handler holds and leaves the tables alone. Audit rows
are left out unless a later step reads them.

**Composition by focus.** `MCSettlement`, `MCOnboarding`, `MCLive` and `MCAccess` put components
that share no variable into one run. The initial state chooses the component in `focus`, only its
variables move, and the variables of the others hold their initial or a dummy value. A behaviour is
thus one of a single component, and each component keeps its own specification. What components do
share is composed by contract: `Offering` implements `OfferingFace`, and `Intake` runs with
`OfferingFace` in place of the offering.

## Offering

**State.** Columns of `offerings`, `reservations`, `money_events` (the latest event of each
reservation, and whether it ever had an `eurc_reserved` row), `disclosure_packs` (none, incomplete,
complete), `materiality_records` (their number) and `positions_ledger` (the reservations that have
one). A reservation is named by its account and Idempotency-Key, which the unique index makes one
row. Then what is not in the database: Coinbase's list of purchases, where each POST handler is and
what it read, the reconfirm request in flight, and the lists of the two jobs.

**Steps.** One database transaction is one step, taken when it commits. That is justified by the
locks: `createReservation`, `publishDisclosurePack`, `publishFinalOfferingTerms`,
`classifyMateriality`, `commitOfferingFinalization` and the correction hold the offering's row;
`expireReservation` and `reconfirmReservation` hold the reservation's. What a handler does outside
its transaction is a step of its own, so any other step can come in between:

| Code | Actions |
|---|---|
| `CreateReservationService.execute` | `CheckBlockers` or `RefuseBlocked` (unlocked read), `InsertReservation`, `ReplayReservation` or `RefuseConflict` (the transaction), `RecordPurchasePending` or `RecordSessionFailed` (after Coinbase answered), `RequestDies` anywhere |
| `PollOnrampTransactionsService` | `PollStarts`, `PollReads`, `PollRecords`, `PollAborts` |
| `ExpireUnfundedReservationsService` | `SweepStarts`, `expireReservation`, `SweepAborts` |
| staff operations | `publishDisclosurePack`, `publishFinalOfferingTerms`, `classifyMateriality` |
| `ReconfirmReservationService` | `ReconfirmArrives` (reads the clock), `reconfirmReservation` |
| `CommitOfferingFinalizationService` | `commitOfferingFinalization` |
| `runReversalExecution` | `reopenPreOffering` |
| external | `StartPurchase`, `SettlePurchase`, `HoldElapses`, `WindowCloses` |

**Abstractions.**

- Time is the result of the two comparisons the code makes: has the hold elapsed, is the window
  open. A handler that compares a clock value it read earlier carries the result.
- Amounts are small numbers of a unit. A money event's amount always equals its reservation's, so
  the funded sum adds reservation amounts.
- The account's own blockers (KYC, wallet, login methods, cooldown) may refuse any request:
  `RefuseBlocked` has no further guard.
- `publishFinalOfferingTerms` runs several statements, each with its own snapshot. Money events can
  be inserted between them because their insert takes no lock. The model takes the whole
  transaction at once and so leaves out an event that arrives between the sum and the loop.
- The clock value of a money event and its insert are taken as adjacent, so the latest insert is
  the latest event. `expireReservation` reads the latest event in the statement that waits for the
  lock; an event inserted during the wait behaves like one inserted after the lapse.
- The correction appears as its execution. The request and the approval before it belong to the
  case and only decide whether the execution happens. The case's stage is not state here, so the
  model allows the correction more often than the code.
- Audit rows are logging and are left out. The idempotency middleware is left out because its save
  may fail, and then the handler runs again, which the model allows anyway.

**Properties.** Checked: `NoOversell`, `FinalOfferingIsPaid`, `FinalizationIsComplete`, the
refinements `ImplementsAllotment` and `ImplementsFace`, and the liveness properties
`UnfundedHoldsEnd` and `PublishedOfferingsFinalize`. Proved and not in a run of their own: `TypeOK`,
`ClosedOfferingIsEmpty`, `TerminalStagesAreFinal` and `SweptOnlyWhenElapsed`.

**Refinement.** `AllotmentOf` maps a stage to free, held, issued or given up; the allotment is
closed when `status` has left `pre_offering`. `InsertReservation` is `Hold`,
`commitOfferingFinalization` is `Close`, the correction is `Close` with nobody in it, the sweep and
the cancelling branch of the publication are `GiveUp`, and everything else stutters. `OfferingFace` is
the second abstraction, the phases that the intake case sees; see [Intake](#onboarding).

## Settlement

### EscrowMint

**State.** The rows of `escrow_mint_intents` (status, attempt, hash), positions made from an intent
and other positions of the same property and account, the mint transactions sent for each
contributor with their fate, the authorized holders, and who swept the escrow. Each run of the job
has a place, a list of contributors still to do, the one it works on and its copy of the intent.

**Steps.** What a run does from one await to the next. `StartRun` opens the campaign; `hasPosition`,
`findEscrowMintIntent` and `obtainConfirmedMint` decide what to do for a contributor;
`findMintTransactionHash`, `recheckRecorded` and `resolveSentMint` deal with an earlier attempt;
`ensureHolderAuthorized`, `createEscrowMintIntent`, `restartEscrowMintAttempt`, `sendMint`,
`recordEscrowMintSent`, `waitForTransactionReceipt` and `recordEscrowMintedPosition` make one;
`withdrawRaised` sweeps. `SendMintLost` is a send whose answer is lost after the node took it, and
`RunStops` a crash or a throw between any two steps. The chain settles a transaction as a success,
reverted or dropped (`SettleMint`). Anyone may sweep (`SweptByOther`). The grace period of an
attempt ends on its own (`GraceElapses`). A finalized reservation may give a contributor a position
(`ReservationFinalized`).

**Abstractions.** One campaign, already Successful. Every mint of a contributor is for the whole
contribution, so the balance is the number of successes. Contributors are walked in any order,
which allows more than the code. An update and the read of the row it returns are one step where
the code does them in one transaction. Burning and forced transfers are excluded, as the comment of
the service states. Initial states include a campaign that was partly minted before intents
existed.

**Properties.** `MintedAtMostOnce`, `PositionsAreMinted`, `SweptAfterMints` and the liveness property
`ContributorsAreRecorded`; `HashesAreKept` is proved and has no run of its own.

### IpoEscrow

One contract with one EURC balance for the campaigns of all properties. A call is one step: it
reverts, which is no step, or it takes its whole effect. `openCampaign`, `extendDeadline`,
`contribute`, `finalize`, `withdrawRaised`, `withdraw` and `pause` are the functions that change
state, each with the guards of its modifiers and requires. The opening service and the finalize job
read the chain in one step, and their transaction is mined in a later one, when the contract may have
moved on; `JobFails` drops a job anywhere. Minting is one step here and is module `EscrowMint`.

`EveryEuroIsAccounted`: the shared balance is exactly what is still owed for all campaigns, the
treasury has what swept campaigns raised, and every investor is short of the contributions on record.

### Wallets

The customer's row, the registry's events with their blocks, a head of the chain that may reorganize
its last `Depth` blocks, a node that may serve incomplete logs for the last `IndexLag` confirmed
blocks, and overlapping runs of the watcher. A run takes `getBlockNumber`,
`getLastProcessedWalletRegistryBlock`, `getEvents`, and for each event
`findPendingWalletRegistrationByCommitment` and `confirmWalletRegistration`, then
`setLastProcessedWalletRegistryBlock`; `RunStops` ends it between any two. Staff may confirm a
registration from a transaction (`verify`, `reconcileWalletRegistration`).

`ScannedBlocksAreSettled`: once a block is too far behind the cursor to be read again, every event
in it that answers a row has confirmed that row, although a slower run may put the cursor back and a
log may come late. It needs the overlap of the code to cover the indexing lag (`OverlapAssumption`);
without the overlap TLC loses an event.

### Distribution

`computeDistributableNet`, `computeAmountPerUnit` and the entry amounts are operators with the
code's truncations; amounts are whole micros, with small values for a cent and a unit so that every
division leaves a remainder. The sweep lists, reads holders and creates in separate steps, two sweeps
overlap, positions change in between, and the unique index decides who creates.
`NeverOverdistributed`: the entries of a period come to at most its net, and the net to at most the
rent on record.

## Onboarding

### Intake

One case: its row, the ledger of its events (latest sequence, the latest transition and which
transitions were reversed), information requests, correction operations, the queued handoffs, the
list of the expiry job, and the calls of staff and applicant that are between two transactions. A
service reads without a lock, asks a policy of `IntakePolicies`, and calls a transaction that
decides again under the case's lock. Where the transaction looks again at everything the service
looked at, a stale read can only refuse, and the two are one action with both guards. A correction
carries what its service read through up to three transactions (`createReversalOperation`,
`approveReversalOperation`, `runReversalExecution` or `failReversalOperation`); these are steps of
their own. The offering is its phase, which moves as `OfferingFace` allows (`OfferingMoves`).

- `OneCorrectionInFlight`: the insert does not look for another operation, only at the sequence.
- `CorrectionsUndoTheLatest`: what a correction undoes is still the latest transition, unreversed,
  approved by a second person where the policy asks for one, and no offering that somebody can have
  seen is closed.
- `RequestsMatchTheStage`: the case waits exactly while one request is published.
- `StructuringIsEarned`: structuring follows published terms, and the final approval the work of
  both assigned partners. It also shows that two of the correction commands are never offered.
- `ReadinessMatchesTheCase`: the readiness page and the transactions agree.
- `ImplementsFace`: both sides of the contract. `Offering` implements it in run `offering`.
- `OverdueRequestsEnd`, `HandoffsAreDone`: liveness.

### KYC

One account with a baseline and a proof-of-address session: the columns of its row, Didit's sessions
and the webhooks it has sent, the webhooks claimed in the audit log, the starts under way, what each
webhook worker and the reconciliation job hold, and what the two other jobs have listed. Webhooks are
handled late, in any order, more than once, by two workers at a time, or never. `KycPolicies` has the
conclusions from a decision; the samples cover a clean answer and one that fails screening and is
from another country, for a customer taxed at home or abroad.

- `EligibilityMatchesSubstatus`: the two columns agree whichever path wrote last.
- `EligibilityIsEarnedOnce`: an approval makes the customer eligible once, for its own session.
- `LateStartsAttachNothing`: an answer that comes after its start was failed is attached to nothing.
- `StartsEnd`, `OpenSessionsAreLearned`: liveness, below.

### CaseDocuments

An upload counts, scans, puts the object and the thumbnail, inserts under the room's lock after a
second count, and compensates when that fails. Deleting a photo or a room marks rows in a
transaction and then deletes objects, each as a best effort; the statements of the room's deletion
are separate, because it does not lock the room before it reads. `PhotosAreCountedAndStored`: the
limit is kept, and every accepted document still has its bytes and thumbnail.

## Access

**Devices.** The requests of one customer's phones, several at once. An enrolment consumes its
challenge, verifies, opens the insert under the account's lock before a deadline, commits, creates a
session, sets the cookie and ends earlier sessions; a failure after the commit discards the session
and rolls the device back. The clock is the database's. A session's number is its place in the order
(createdAt, id), which the clocks of several servers decide, so a later insert may be an earlier
session. `ExpiredIsFinal`: a challenge answered as expired never registers a device, for which the
replay window, the insert deadline, the statement limit and the lock have to fit together.
`EnrolmentsLeaveNoOrphan`: what a failed enrolment leaves. `OneSessionPerPhone`: overlapping
ceremonies leave one session, neither none nor two.

**DeviceReplacement.** Asking for a code checks limits, withdraws pending codes and stores a new one
in separate statements; verifying reads the pending code and spends it in a later transaction.
`CodesReplaceOnce`: one code replaces one phone, although two live codes can exist.

**Sessions.** A lookup reads the row at one time and answers at a later one; activity is recorded
after the checks; the copy that customers list is written by hooks that may fail.
`SessionsEndOnTime`: no request gets through after the limits, an ended session is not found again,
and the copy never promises more than the row keeps.

**Accounts.** Recovery (opened, verified at Didit, reviewed by one person, decided by another,
completed) and closure (requested, cancelled, decided) of one account, each service in the steps its
awaits make. `StatusChangesAreDecided`: the status moves only by a decision made in the same
transaction, and a restriction is lifted only after two different people and a fresh verification.

**Staff.** An acceptance claims, resolves the identity and grants in a transaction whose read, update
and commit are separate steps, as are the row locks, the count and the commit of the bootstrap.
`InvitationsGrantOnce`: an accepted invitation granted exactly one role, any other none, and the
bootstrap makes no second administrator beside an active one.

**StaffWebAuthn.** Two requests for each ceremony, and a recovery that flags, deletes sessions and
then credentials. `CredentialsAdvance`: counters never go back, and a ceremony under way brings no
credential back after a recovery.

**Idempotency.** Look-up, handler, save, answer. Its one property is violated, see below; the run
`access` checks its types.

## Notices

Publishing the final terms queues one job for all reservations; an hourly job reminds. Both write an
email and then an audit row, the only thing a later run knows. The queue redelivers until the retries
are spent, and starts a second run beside one that takes too long. `NoticesReachEveryone`: everybody
with an address is told or the job is on record as a dead letter, and who is due a reminder gets it
unless they reconfirm or the window closes.

## Runs

| Run | Instance | Result |
|---|---|---|
| `offering` | 2 keys, 3 requests, amounts 1 and 2, target 2, 1 purchase per reservation, 1 material change | passes, 440,000 states |
| `offering_swept`, `offering_cancelled`, `offering_consent` | as `offering` | violated, see below |
| `settlement` | mint: 2 contributors, 2 runs, 1 other position, 1 failure; escrow: 2 campaigns, 2 investors with 3 each, target 2, a deadline that may be extended once, 3 moments; wallets: 1 account, 2 addresses, 2 runs, 4 blocks, depth, overlap and lag 1, ranges of 2; rent: 2 periods, 2 positions, 2 sweeps | passes, 1.75 million states |
| `escrow_mint_skipped` | 2 contributors, 2 runs, 1 other position, 2 failures | violated, see below |
| `onboarding` | case: 2 callers, 2 staff, 2 information requests, 2 corrections, 1 other event; KYC: 2 starts, 2 webhooks, 2 declarations, 2 decisions, 3 moments; photos: 2 documents for a room of 1 | passes, 620,000 states |
| `kyc_learned` | 1 start, 2 webhooks, 1 worker | violated, see below |
| `live` | offering: 2 keys, 2 requests, amount 1; mint: 2 contributors, 1 run, 1 failure; case: 1 caller, 2 staff, 1 request, 1 correction; notices: 2 reservations, 2 workers, 2 deliveries | passes, 48,000 states |
| `kyc_live` | 2 starts, 2 webhooks, 1 worker, 3 moments | passes, 91,000 states |
| `access` | devices: 2 phones, 2 challenges, 2 requests, 5 moments; accounts: 2 staff, 2 cases, 1 closure; replacement: 2 calls, 2 codes; staff: 2 people, 2 invitations, 1 grant; keys: 2 sessions, 3 challenges, 1 credential, 1 recovery; sessions: 1 session, 2 requests; idempotency: 2 requests, 2 bodies | passes, 1.2 million states |
| `idempotency_agrees` | 2 requests, 2 bodies | violated, see below |

**Why the bounds are enough.** Two of everything that races: two keys share or exhaust the target,
and a third request is a retry beside two creators; two runs let one stop after a send and another
take over; two campaigns share a balance that holds the money of both; four blocks let the cursor
move, an overlap be read again and a late log appear; two corrections let one be asked for while
another waits; two starts let a late answer meet the next start; two documents exceed a room of one.
The limits of a ceremony are small numbers that satisfy the same inequalities as the code's. The
bounds named `Max...` cap counters that the code does not cap.

**What the bounds leave out.** A second purchase of a reservation (the proof has no such bound). A
third overlapping ceremony of a phone, and with it a session that is gone when another ceremony
comes to revoke it (the proof has any number). A late proof-of-address answer after two more starts. The unique-index conflict of
two acceptances and the outcome of `recordEscrowMintedPosition` for a row in an unexpected state are
defensive branches that no run reaches.

**Reductions.** `Symmetry` permutes only sets whose elements no definition tells apart. In
`onboarding` a `VIEW` drops what nothing reads any more: the ledger's sequence only grows and is only
compared for equality, so the view keeps those equalities; of a case's revision it keeps whether there
is one; and of operations and requests that have ended their status. In `access` the `CONSTRAINT`
`Within` keeps two phones apart only in the first moment, sessions to the first two, and a recovery of
keys to two of three challenges; the ends of a device ceremony that take longer concern one phone. In `live` the information requests and
the corrections of a case are followed one without the other, and so are the two jobs that send notices.

**Deadlock** is not checked in runs of components that come to an end: a final offering, a swept
campaign, a closed case and an account whose bounded operations are used up have nothing left to do.

## Fairness

Nothing is assumed of clients, customers, staff, Coinbase, webhooks or of a request that has begun.

- *Offering*: the clock advances (`HoldElapses`, `WindowCloses`), the queue starts the sweep again, the
  hourly finalization runs (weak fairness), and a reservation listed again and again is some time
  reached before the run stops (strong fairness of `expireReservation`).
- *EscrowMint*: the queue starts the job again, runs take their steps, the chain settles what it was
  given and grace periods end; failures are finitely many. `ContributorsAreRecorded` leaves out the
  two ends the job does not recover from: a sweep by someone else, and a recorded mint that was
  replaced, for which the code asks for manual reconciliation.
- *Intake*: the daily timer starts, the queue delivers the two handoffs (weak fairness), and an overdue
  request that is listed again and again is some time reached (strong fairness of `TimerExpires`).
- *Notices*: a queued job is delivered and a run goes on or fails; the hourly job runs again, and not
  every run of it stops before a reservation it lists (strong fairness of the send).
- *Kyc*: time passes and the expiry job runs (weak fairness); the reconciliation job again and again
  gets to ask Didit and to write the answer for either kind of session (strong fairness). The last
  moment stands for all later time and is left to workers and jobs.

## Proofs

A theorem holds for every value of the constants that satisfies the named assumptions, and nothing is
bounded in it but by the constants: requests, runs, callers, contributors, phones, people and staff may
be any sets. The assumptions, and where they come from:

- `KeysAssumption`, `InstanceAssumption`, `RoomAssumption`: sets that are summed or counted over
  (reservations, campaigns, investors, positions, documents) are finite. Amounts and limits are
  naturals. A reservation's amount and an offering's target are positive by CHECK constraints of their
  tables (`20261018131001_money_ledger_amount_and_status_checks`), a campaign's target because
  `openCampaign` reverts for zero.
- `DepthAssumption`: `WALLET_REGISTRY_CONFIRMATION_DEPTH` is 3. `OverlapAssumption` says that a node
  indexes a block before `WALLET_REGISTRY_RESCAN_OVERLAP_BLOCKS` (32) more are confirmed. This is an
  assumption about the node: the code's comment names the lag, and nothing in the code bounds it.
- `DevicesAssumption`: the insert deadline (60 s) and the transaction's timeouts of a few seconds end
  within the replay window (120 s, `device-challenge-replay.ts`). `LimitsAssumption`: the idle timeout
  (5 min) is no longer than the lifetime (30 min, `device-session-lifetime.ts`).
- `NoneAssumption`, `NoOneAssumption`, `StaffNamesAssumption`, `ReviewersAssumption`, and `"poll"` in
  `KycBoundsAssumption`: a word for nobody, or for a job, names no caller. The remaining ones say that
  a bound is a number.

Few of the properties are inductive as they stand. The invariant that is named is the strengthening:
it holds initially, every step keeps it, and it implies the property.

**Offering** (`OfferingProofs`).

- `TypeCorrect`: `TypeOK` is inductive.
- `CapacityIsKept` (`NoOversell`): only `InsertReservation` adds a holder and checks the capacity in
  the same step. The sum is the cardinality of a set of units, so the arithmetic rests on the
  cardinality of a union and of a product.
- `FinalOfferingPaid`: the poll decides and records in different steps. `PaidInv` adds that a decision
  about to be recorded, and every funded state, is covered by a purchase; `CoveredStays` shows that
  Coinbase takes no success back.
- `TerminalStages`, `SweptElapsed`, `FinalizationComplete`: from the lemma `StageMoves`, which lists
  every move of a stage and what holds when it is made. `SweptElapsed` needs that what the sweep
  lists stays elapsed; `FinalizationComplete` needs that whoever is reconfirmed has a date.
- `ClosedIsEmpty`: `EmptyInv` says that without a disclosure pack nobody has come in and nobody is on
  the way in; a pack is never taken back, and only an offering without one is closed.
- `OfferingImplementsAllotment`: every step is a step of `Allotment` or a stutter.

**Minting** (`SettlementParts`). `IInv` is `TypeOK` with four parts. `RowInv` relates a row to the
transactions: at most one mint is alive, and a row says which. `CopyInv` says what a run's copy of a row
still tells about it: an attempt number only grows, and whoever holds the current one may send.
`WalkInv` says that a contributor a run has passed has a position. `SweptAfterMints` is the last. The
frame lemmas `RowFrame`, `CopyFrame`, `CopyOutdated` and `CopyForwarded` say what a write by one run
leaves of the knowledge of the others: all of it about another contributor, and about the same one
either nothing (a new attempt has begun) or what the forward move of the attempt keeps. From `IInv`
follow `EscrowTypeCorrect`, `NoDoubleMint`, `PositionsMinted`, `SweepComesLast` and
`RecordedHashesKept`.

**Wallets** (`SettlementParts`). A confirmation relies on events a run read earlier, and a cursor on
everything the run that writes it has read and confirmed. `WalletsInv` adds `ConfirmationsAreDeep` (a
registered account has an event too deep to be reorganized), `CursorIsSettled` (everything up to the
overlap behind the cursor is confirmed) and, for every run, `RunIsSound`: it starts where the settled
part ends (`ReadsTheConfirmed`), it has found every answering event up to the indexing lag or that event
is confirmed (`FindsEverything`), and what it found the chain keeps (`FindsTheDeep`). A slower run may
put the cursor back, and its own invariant is what makes the older cursor good. From it follow
`RegistrationsAreOnChain` and `NothingIsLostBehindTheCursor`.

**Escrow and rent** (`SettlementProofs`). `EscrowIsAccounted` and `RentIsCovered` are about sums over
sets of any size. The sum of the models takes its terms in an arbitrary order (`FoldFunction`), and the
prover has no induction over data; `SettlementParts` shows what a sum does when one term changes, and
that a sum of smaller terms is smaller, from a smallest set for which it would fail. `EscrowInv` adds
that what was raised for a campaign is what its contributors gave, unless it failed and they take it
back. `RentInv` says of each distribution that its entries come to at most its net and the net to at
most the rent, and of each sweep that it is at work only on periods with rent on record; whatever
holders it read, the entries are shares of one amount per unit, and truncation only loses.

**Intake** (`IntakeProofs`). `createReversalOperation` and `runReversalExecution` compare nothing but
the ledger's sequence and the stage. `IInv` says what that comparison still implies: a request that
read the sequence as it is now also read the latest transition as it is now, with no other correction
under way (`CallIsCurrent`), and an operation that nothing followed undoes that transition and has the
approval it needs (`OperationIsCurrent`). `EventsAgree` ties the stage to the latest transition and
`StructuringInv` the partners' work and the handoff to the offering's phase. From it follow the five
invariants of the case, `OnlyTheLatestIsUndone`, and `CaseImplementsFace`, which is the case's side of
the contract with `Offering`.

**KYC** (`OnboardingProofs`). `KycInv` says that state and substatus go together (`RowAgrees`) and that
whatever the row, a start, a worker or the job refers to is a session at Didit and, for a worker, a
webhook that was sent with the status it holds. `SubstatusAgrees` follows, and with it every step
satisfies `ApprovalsCountOnce` and `SessionsJoinTheirStart`.

**Documents** (`OnboardingProofs`). `RoomInv` says of each document where its objects are at each step of
its upload, that nobody is about to delete those of one that stays, and that what a room's deletion
listed first is deleted when it commits. The limit rests on the count being repeated under the lock.

**Devices** (`DevicesProofs`). The answer "expired" is given by one request about what every other
request with the same challenge can still do. `ExpiredInv` says how far each can get: whoever consumed a
challenge is the only one to go on with it, opens its transaction before the insert deadline, and has
committed or lost it before the replay window ends; a challenge is pruned only after that. With
`OverWhenExpired` this gives `ExpiredEnrolmentsRegisterNothing`. `OrphanInv` relates sessions to the
step of the request that created them and the device to the login method
(`FailedEnrolmentsLeaveNoOrphan`). `PhoneInv` says that of two sessions of a phone the ceremony of one or
the other is still to revoke the earlier one, and that what any ceremony means to revoke has a later
session that stays (`PhonesHaveOneSession`); TLC has two overlapping ceremonies, the proof any number.

**Customers** (`CustomerProofs`). `CodeInv`: a replacement has spent its code, and no other has it.
`SessionInv`: what a request holds was true of its row when it was read, and the row has only moved on;
the copy reaches no further than the row. `AccountInv`: an operation under way is about a case or
closure on record, and an approved case was verified and then reviewed by two different people.

**Staff** (`StaffProofs`). `KeyInv`: an answer under way is about a challenge that was issued, and once a
recovery has emptied the credentials that challenge is no longer open, so it registers nothing.
`StaffInv`: an acceptance about to commit holds the row lock of a pending invitation, a granted role is
its invitation's only one, and what the bootstrap locked and counted stays so until it issues.

**Only model-checked.** Liveness, which is outside what the prover does; the side of `Offering` in the
contract `OfferingFace`; the type invariants that are not named above; the statements of the violated
runs.

## What the code does not keep

Six comments say more than the code does. Each has a run whose counterexample shows it, and an
entry under `findings`.

1. *"money that has already landed is never swept to 'lapsed'"* (`expireReservation`). A retry
   inserts its pending event after the poll recorded the payment; the payment is no longer the latest
   event, and the sweep lapses the reservation. Run `offering_swept`.
2. *"Structurally unreachable under the current rules"* (`publishFinalOfferingTerms`, cancelling an
   unfunded reservation). Money recorded late for a lapsed reservation counts towards the target.
   Run `offering_cancelled`.
3. *"Any material change resets the full 168-hour window and invalidates prior reconfirmations."* A
   reconfirmation in flight across the reset counts for the new window. Run `offering_consent`.
4. *"This job mints every contributor before it sweeps"* (`processCampaign`). A contributor with a
   position from a reservation of the same property is skipped. Run `escrow_mint_skipped`.
5. *"this only makes sure VistaBlox eventually learns what Didit already knows, even when its webhook
   delivery failed"* (`ReconcileStuckOpenSessionsService`). A row that an In Progress webhook moved
   to `kyc_pending` is polled by no job. Run `kyc_learned`.
6. *"that row, not this one, is the one every caller must agree on"* (`PrismaIdempotencyStore.save`).
   The middleware sends its own answer whatever `save` returned. Run `idempotency_agrees`.

Met while modelling, without a run:

- *"so the account never has two live codes"* (`device-replacement.service.ts:79`): revoking and
  creating are two statements, so two requests at once leave two. `CodesReplaceOnce` holds all the same.
- A superseded replacement code gets `consumed_at` as a spent one does
  (`prisma-device-replacement.repository.ts:196`), and the cooldown counts from the latest of them.
- A case returned to draft keeps its current submission, and both ways to submit refuse a case that
  has one: it can only be closed (`prisma-intake.repository.ts:216`, `:536`).
- *"can be retried by the purge job"* (`upload-case-document.service.ts:46`): there is no such job, so
  objects whose deletion failed stay in the store.
- *"enough to send each milestone exactly once"* (`case-review.policy.ts:96`): a run that fails half
  way is delivered again by the queue and repeats the mails it had sent.

## Not modelled

- Reads that only assemble a response: profile, listings, account search, investor activity, wallet
  balances, prepared transfers, document downloads. They change no state another part reads.
- Case messages, partner organizations and their members, account preferences: rows edited by one
  statement each, which no transition of another part reads except that an organization exists.
- Cryptography: DPoP proofs and the store of used ones, WebAuthn and device signatures, attestation,
  token formats. Where a ceremony depends on one, the verification is an outcome.
- Transfers, burning and roles of the property token: no code in `src/` calls them, and the minting
  job states that it relies on nobody using them while a campaign is processed.
- The reminder mails of the case timer and of KYC renewal, which leave no record that a later step
  reads.
- Routing, validation schemas, response formatting, configuration, logging, caching, rate limits,
  heartbeat and metrics: no state of the domain.
- pg-boss itself: the modules use that a job is delivered at least once, may overlap with another run,
  and ends as a dead letter after its retries.
