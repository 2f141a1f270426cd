------------------------------ MODULE Offering ------------------------------
(***************************************************************************)
(* One offering of the investor-offering module, from the moment it is     *)
(* open for reservations until its finalization batch has committed:       *)
(*                                                                         *)
(*   - POST reservations, a handler that reads, opens a database           *)
(*     transaction, calls Coinbase and appends a money event, and that     *)
(*     several clients, or one client retrying, run at the same time;      *)
(*   - the onramp poll and the unfunded-expiry sweep, two scheduled jobs   *)
(*     that work through a list they read at the start of the run;         *)
(*   - the staff operations (disclosure pack, final terms, materiality)    *)
(*     and the investor's reconfirmation;                                  *)
(*   - the job that commits the finalization when the window has closed.   *)
(*                                                                         *)
(* Every database transaction of the repository is one step, taken when it *)
(* commits: the transactions that compute with an offering's reservations  *)
(* hold the offering row FOR UPDATE, and those that move one reservation   *)
(* hold that reservation's row.  Whatever a handler does outside its       *)
(* transaction (the advisory read before it, the call of Coinbase and the  *)
(* unlocked insert of a money event after it) is a step of its own.        *)
(*                                                                         *)
(* Time is abstracted to the two comparisons the code makes with it: has   *)
(* the 15 minute hold of a reservation elapsed, and is the 168 hour rights *)
(* window open.  A handler that compares a clock value it read earlier     *)
(* keeps the result of the comparison it would make.                       *)
(***************************************************************************)
EXTENDS Integers, FiniteSets, Sequences

CONSTANTS
  Keys,         \* account and Idempotency-Key pairs; a reservation is named by its pair
  Requests,     \* POST reservations requests, each of them handled once
  Amounts,      \* the amounts, in units of the smallest, that clients ask for
  Target,       \* target_raise_eur in the same unit
  MaxPurchases, \* bound on the onramp purchases started for one reservation
  MaxChanges    \* bound on the materiality classifications of the offering

ASSUME KeysAssumption == IsFiniteSet(Keys)
ASSUME AmountsAssumption == Amounts \subseteq Nat \ {0}
ASSUME TargetAssumption == Target \in Nat \ {0}
ASSUME BoundsAssumption == MaxPurchases \in Nat /\ MaxChanges \in Nat

VARIABLES
  status,              \* offerings.status
  finalTermsPublished, \* offerings.final_offering_published_at is set
  windowOpen,          \* the clock is before offerings.effective_rights_end_at
  pack,                \* the current disclosure pack: none, partial or complete
  changes,             \* the number of materiality_records
  positions,           \* the reservations with a row in positions_ledger
  jobs,                \* the jobs enqueued in the publishing transaction
  reservationStage,    \* reservations.reservation_stage, "none" when there is no row
  amountEur,           \* reservations.amount_eur
  holdElapsed,         \* created_at + 15 minutes is before the clock
  reconfirmedAt,       \* reservations.reconfirmed_at, compared with the last reset
  capitalState,        \* capital_state of the latest money event of a reservation
  landed,              \* reservations that have an eurc_reserved row in money_events
  onrampOpen,          \* reservations whose investor was handed an onramp session
  purchases,           \* Coinbase's transactions for a reservation, as it lists them
  pc,                  \* where the handler of a request is
  asked,               \* what a request asked for and read before its transaction
  reconfirming,        \* the reconfirm request in flight for a reservation
  sweepList,           \* what is left of the expiry sweep's list
  pollList,            \* what is left of the onramp poll's list
  polled               \* the money event, if any, that the poll is about to insert

offeringVars == <<status, finalTermsPublished, windowOpen, pack, changes, positions, jobs>>
reservationVars == <<reservationStage, amountEur, holdElapsed, reconfirmedAt>>
moneyVars == <<capitalState, landed>>
coinbaseVars == <<onrampOpen, purchases>>
requestVars == <<pc, asked>>
pollVars == <<pollList, polled>>
vars == <<offeringVars, reservationVars, moneyVars, coinbaseVars, requestVars,
          reconfirming, sweepList, pollVars>>

-----------------------------------------------------------------------------
(* The values of the columns, and the predicates of the policy modules.    *)

Stages == {"none", "initiated", "awaiting_reconfirmation", "reconfirmed",
           "finalized", "cancelled", "lapsed"}
CapitalStates == {"none", "initiated", "eurc_purchase_pending", "purchase_failed",
                  "eurc_reserved", "reconfirmation_pending", "eurc_finalized"}
PurchaseStatuses == {"in_progress", "failed", "covering", "short"}
Classifications == {"per_se_material", "reviewed_material", "non_material"}

FUNDED_CAPITAL_STATES == {"eurc_reserved", "reconfirmation_pending", "eurc_finalized"}

isReservationFunded(k) == capitalState[k] \in FUNDED_CAPITAL_STATES

\* SUM(amount_eur) over the rows of S, as the number of units in those rows.
EurosOf(S) == {unit \in S \X (1..Target) : unit[2] <= amountEur[unit[1]]}
SumEur(S) == Cardinality(EurosOf(S))

\* Mutant: a hold that has elapsed gives its capacity back before it is lapsed.
HoldingUntilElapsed ==
  {k \in Keys : /\ reservationStage[k] \notin {"none", "cancelled", "lapsed"}
                /\ reservationStage[k] = "initiated" => ~holdElapsed[k]}

\* The reservations whose amount counts against the target.
Holding == {k \in Keys : reservationStage[k] \notin {"none", "cancelled", "lapsed"}}

\* Mutant: only what is paid for counts against the target.
remainingAfterFunded == Target - SumEur({k \in Holding : isReservationFunded(k)})

reservedCapacityEur == SumEur(Holding)
remainingCapacityEur == IF reservedCapacityEur < Target THEN Target - reservedCapacityEur ELSE 0

\* The sum has no filter on the stage of the reservation.
fundedEur == SumEur({k \in Keys : isReservationFunded(k)})

canPublishFinalOfferingTerms ==
  status = "pre_offering" /\ ~finalTermsPublished /\ fundedEur >= Target

isCompleteDisclosurePack == pack = "complete"

materialityResetTriggered(classification) == classification # "non_material"

\* The terms of computeReservationBlockers that are about the offering.
offeringBlocked ==
  \/ pack = "none"
  \/ status # "pre_offering"
  \/ finalTermsPublished
  \/ remainingCapacityEur = 0

Ask == [key : Keys, amount : Amounts, elapsed : BOOLEAN]
NoAsk == [key |-> "none"]
Decision == [key : Keys, capitalState : {"eurc_reserved", "purchase_failed"}]

-----------------------------------------------------------------------------
\* openOfferingForApprovedCase has just inserted the row; it has no pack and no reservation.
Init ==
  /\ status = "pre_offering" /\ finalTermsPublished = FALSE /\ windowOpen = FALSE
  /\ pack = "none" /\ changes = 0 /\ positions = {} /\ jobs = {}
  /\ reservationStage = [k \in Keys |-> "none"]
  /\ amountEur = [k \in Keys |-> 0]
  /\ holdElapsed = [k \in Keys |-> FALSE]
  /\ reconfirmedAt = [k \in Keys |-> "none"]
  /\ capitalState = [k \in Keys |-> "none"]
  /\ landed = {}
  /\ onrampOpen = {}
  /\ purchases = [k \in Keys |-> << >>]
  /\ pc = [q \in Requests |-> "idle"]
  /\ asked = [q \in Requests |-> NoAsk]
  /\ reconfirming = [k \in Keys |-> "none"]
  /\ sweepList = {} /\ pollList = {} /\ polled = {}

\* An insert into money_events: the row is the latest of its reservation.
recordMoneyEvent(k, state) ==
  /\ capitalState' = [capitalState EXCEPT ![k] = state]
  /\ landed' = IF state = "eurc_reserved" THEN landed \cup {k} ELSE landed

-----------------------------------------------------------------------------
(* POST reservations: CreateReservationService.execute.                    *)

Finish(q) ==
  /\ pc' = [pc EXCEPT ![q] = "done"]
  /\ asked' = [asked EXCEPT ![q] = NoAsk]

\* The request comes in; the unlocked read of the offering and of the account finds
\* no blocker.  The clock is read here once: for the hold of a new reservation, and to
\* tell whether the hold of a stored one has elapsed.
CheckBlockers(q, k, amount) ==
  /\ pc[q] = "idle"
  /\ ~offeringBlocked
  /\ amount <= remainingCapacityEur
  /\ pc' = [pc EXCEPT ![q] = "checked"]
  /\ asked' = [asked EXCEPT ![q] = [key |-> k, amount |-> amount, elapsed |-> holdElapsed[k]]]
  /\ UNCHANGED <<offeringVars, reservationVars, moneyVars, coinbaseVars, reconfirming,
                 sweepList, pollVars>>

\* A blocker of the offering, of the account (KYC, login methods, wallet, recovery
\* cooldown) or of the funding rail, or an amount above the capacity: 409, nothing is written.
RefuseBlocked(q) ==
  /\ pc[q] = "idle"
  /\ Finish(q)
  /\ UNCHANGED <<offeringVars, reservationVars, moneyVars, coinbaseVars, reconfirming,
                 sweepList, pollVars>>

\* createReservation, no row for the key: the capacity is re-checked under the lock of
\* the offering row, then the reservation and its first money event are inserted.
InsertReservation(q) ==
  LET k == asked[q].key IN
  /\ pc[q] = "checked"
  /\ status = "pre_offering"
  /\ reservationStage[k] = "none"
  /\ asked[q].amount <= remainingCapacityEur
  /\ reservationStage' = [reservationStage EXCEPT ![k] = "initiated"]
  /\ amountEur' = [amountEur EXCEPT ![k] = asked[q].amount]
  /\ recordMoneyEvent(k, "initiated")
  /\ pc' = [pc EXCEPT ![q] = "created"]
  /\ UNCHANGED <<offeringVars, holdElapsed, reconfirmedAt, coinbaseVars, asked,
                 reconfirming, sweepList, pollVars>>

\* assertReplayable on what the transaction returned for a key that has a row.
assertReplayable(q) ==
  LET k == asked[q].key IN
  /\ asked[q].amount = amountEur[k]
  /\ reservationStage[k] = "initiated"
  /\ ~isReservationFunded(k)
  /\ ~asked[q].elapsed

\* createReservation, a row for the key: nothing is written, the handler goes on to pay
\* for the stored reservation.
ReplayReservation(q) ==
  /\ pc[q] = "checked"
  /\ status = "pre_offering"
  /\ reservationStage[asked[q].key] # "none"
  /\ assertReplayable(q)
  /\ pc' = [pc EXCEPT ![q] = "replaying"]
  /\ UNCHANGED <<offeringVars, reservationVars, moneyVars, coinbaseVars, asked, reconfirming,
                 sweepList, pollVars>>

\* The conflicts of createReservation and of assertReplayable: nothing is written.
RefuseConflict(q) ==
  /\ pc[q] = "checked"
  /\ IF reservationStage[asked[q].key] = "none"
       THEN asked[q].amount > remainingCapacityEur \/ status # "pre_offering"
       ELSE ~assertReplayable(q) \/ status # "pre_offering"
  /\ Finish(q)
  /\ UNCHANGED <<offeringVars, reservationVars, moneyVars, coinbaseVars, reconfirming,
                 sweepList, pollVars>>

\* Coinbase returned a session: the pending money event is inserted, without a lock and
\* without another look at the reservation, and the client gets the onramp URL.
RecordPurchasePending(q) ==
  LET k == asked[q].key IN
  /\ pc[q] \in {"created", "replaying"}
  /\ recordMoneyEvent(k, "eurc_purchase_pending")
  /\ onrampOpen' = onrampOpen \cup {k}
  /\ Finish(q)
  /\ UNCHANGED <<offeringVars, reservationVars, purchases, reconfirming, sweepList, pollVars>>

\* The session call failed: a new reservation is marked, a stored one is left alone.
RecordSessionFailed(q) ==
  /\ pc[q] \in {"created", "replaying"}
  /\ IF pc[q] = "created"
       THEN recordMoneyEvent(asked[q].key, "purchase_failed")
       ELSE UNCHANGED moneyVars
  /\ Finish(q)
  /\ UNCHANGED <<offeringVars, reservationVars, coinbaseVars, reconfirming, sweepList, pollVars>>

\* The process stops, or the database is gone, between two steps of the handler.
RequestDies(q) ==
  /\ pc[q] \in {"checked", "created", "replaying"}
  /\ Finish(q)
  /\ UNCHANGED <<offeringVars, reservationVars, moneyVars, coinbaseVars, reconfirming,
                 sweepList, pollVars>>

-----------------------------------------------------------------------------
(* Coinbase and the investor's purchases (external), and the clock.        *)

\* The API does not say in which order it lists transactions: a new one is put at
\* either end.
StartPurchase(k) ==
  /\ k \in onrampOpen
  /\ Len(purchases[k]) < MaxPurchases
  /\ \E list \in {Append(purchases[k], "in_progress"), <<"in_progress">> \o purchases[k]} :
       purchases' = [purchases EXCEPT ![k] = list]
  /\ UNCHANGED <<offeringVars, reservationVars, moneyVars, onrampOpen, requestVars,
                 reconfirming, sweepList, pollVars>>

\* "covering" and "short" are the successes for which isPurchaseCovering is true and false.
SettlePurchase(k) ==
  /\ \E i \in 1..Len(purchases[k]), outcome \in PurchaseStatuses \ {"in_progress"} :
       /\ purchases[k][i] = "in_progress"
       /\ purchases' = [purchases EXCEPT ![k][i] = outcome]
  /\ UNCHANGED <<offeringVars, reservationVars, moneyVars, onrampOpen, requestVars,
                 reconfirming, sweepList, pollVars>>

HoldElapses(k) ==
  /\ reservationStage[k] = "initiated" /\ ~holdElapsed[k]
  /\ holdElapsed' = [holdElapsed EXCEPT ![k] = TRUE]
  /\ UNCHANGED <<offeringVars, reservationStage, amountEur, reconfirmedAt, moneyVars,
                 coinbaseVars, requestVars, reconfirming, sweepList, pollVars>>

WindowCloses ==
  /\ windowOpen
  /\ windowOpen' = FALSE
  /\ UNCHANGED <<status, finalTermsPublished, pack, changes, positions, jobs, reservationVars,
                 moneyVars, coinbaseVars, requestVars, reconfirming, sweepList, pollVars>>

-----------------------------------------------------------------------------
(* case_timers.reservation_onramp_poll, one run at a time.                 *)

\* Mutant: any success is taken as payment, whatever its amount.
AnySuccessPays(list) ==
  LET has(statuses) == \E i \in DOMAIN list : list[i] \in statuses
  IN CASE has({"covering", "short"}) -> "eurc_reserved"
       [] ~has({"covering", "short", "in_progress"}) /\ has({"failed"}) -> "purchase_failed"
       [] OTHER -> "pending"

\* resolveOutcome and isPurchaseCovering: the first success of the list decides, then a
\* purchase in flight, then a failure.  "pending" records nothing.
resolveOutcome(list) ==
  LET has(statuses) == \E i \in DOMAIN list : list[i] \in statuses
      firstSuccessCovers ==
        \E i \in DOMAIN list : /\ list[i] = "covering"
                               /\ \A j \in 1..(i - 1) : list[j] # "short"
  IN CASE firstSuccessCovers -> "eurc_reserved"
       [] has({"covering", "short"}) /\ ~firstSuccessCovers -> "purchase_failed"
       [] ~has({"covering", "short", "in_progress"}) /\ has({"failed"}) -> "purchase_failed"
       [] OTHER -> "pending"

listPendingPurchaseReservationsForTimers ==
  {k \in Keys : /\ reservationStage[k] = "initiated"
                /\ capitalState[k] \in {"eurc_purchase_pending", "purchase_failed"}}

PollStarts ==
  /\ pollList = {} /\ polled = {}
  /\ listPendingPurchaseReservationsForTimers # {}
  /\ pollList' = listPendingPurchaseReservationsForTimers
  /\ UNCHANGED <<offeringVars, reservationVars, moneyVars, coinbaseVars, requestVars,
                 reconfirming, sweepList, polled>>

PollReads(k) ==
  /\ k \in pollList /\ polled = {}
  /\ pollList' = pollList \ {k}
  /\ polled' = {d \in Decision : d.key = k /\ d.capitalState = resolveOutcome(purchases[k])}
  /\ UNCHANGED <<offeringVars, reservationVars, moneyVars, coinbaseVars, requestVars,
                 reconfirming, sweepList>>

PollRecords ==
  /\ \E d \in polled : recordMoneyEvent(d.key, d.capitalState)
  /\ polled' = {}
  /\ UNCHANGED <<offeringVars, reservationVars, coinbaseVars, requestVars, reconfirming,
                 sweepList, pollList>>

\* Coinbase or the database throws, or the worker stops: the run is over; the queue's
\* retry, or the next minute's run, starts from a new list.
PollAborts ==
  /\ pollList # {} \/ polled # {}
  /\ pollList' = {} /\ polled' = {}
  /\ UNCHANGED <<offeringVars, reservationVars, moneyVars, coinbaseVars, requestVars,
                 reconfirming, sweepList>>

-----------------------------------------------------------------------------
(* case_timers.reservation_unfunded_expiry, one run at a time.             *)

\* Mutant: the list has only reservations whose purchase was started.
SweepListsPending ==
  LET expired == {k \in Keys : /\ reservationStage[k] = "initiated"
                               /\ holdElapsed[k]
                               /\ capitalState[k] = "eurc_purchase_pending"}
  IN /\ sweepList = {} /\ expired # {}
     /\ sweepList' = expired
     /\ UNCHANGED <<offeringVars, reservationVars, moneyVars, coinbaseVars, requestVars,
                    reconfirming, pollVars>>

SweepStarts ==
  LET expired == {k \in Keys : /\ reservationStage[k] = "initiated"
                               /\ holdElapsed[k]
                               /\ ~isReservationFunded(k)}
  IN /\ sweepList = {} /\ expired # {}
     /\ sweepList' = expired
     /\ UNCHANGED <<offeringVars, reservationVars, moneyVars, coinbaseVars, requestVars,
                    reconfirming, pollVars>>

\* The stage and the latest money event are read again under the lock of the row.
expireReservation(k) ==
  /\ k \in sweepList
  /\ sweepList' = sweepList \ {k}
  /\ reservationStage' = IF reservationStage[k] = "initiated" /\ ~isReservationFunded(k)
                           THEN [reservationStage EXCEPT ![k] = "lapsed"]
                           ELSE reservationStage
  /\ UNCHANGED <<offeringVars, amountEur, holdElapsed, reconfirmedAt, moneyVars, coinbaseVars,
                 requestVars, reconfirming, pollVars>>

SweepAborts ==
  /\ sweepList # {}
  /\ sweepList' = {}
  /\ UNCHANGED <<offeringVars, reservationVars, moneyVars, coinbaseVars, requestVars,
                 reconfirming, pollVars>>

-----------------------------------------------------------------------------
(* Staff operations, the reconfirmation and the finalization.              *)

publishDisclosurePack(documents) ==
  /\ status = "pre_offering"
  /\ pack' = documents
  /\ UNCHANGED <<status, finalTermsPublished, windowOpen, changes, positions, jobs,
                 reservationVars, moneyVars, coinbaseVars, requestVars, reconfirming,
                 sweepList, pollVars>>

PublishDisclosurePackService(documents) == publishDisclosurePack(documents)

\* With nothing to reconfirm only the handoff is queued.
OpenReconfirmationWindow(funded) ==
  /\ finalTermsPublished' = TRUE /\ windowOpen' = TRUE
  /\ jobs' = {"post_ipo_structuring_handoff"} \cup
             (IF funded # {} THEN {"offering_reconfirmation_window_opened"} ELSE {})

publishFinalOfferingTerms ==
  LET live == {k \in Keys : reservationStage[k] = "initiated"}
      funded == {k \in live : isReservationFunded(k)}
  IN
  /\ canPublishFinalOfferingTerms
  /\ isCompleteDisclosurePack
  /\ reservationStage' = [k \in Keys |-> IF k \in funded THEN "awaiting_reconfirmation"
                                         ELSE IF k \in live THEN "cancelled"
                                         ELSE reservationStage[k]]
  /\ capitalState' = [k \in Keys |-> IF k \in funded THEN "reconfirmation_pending"
                                     ELSE capitalState[k]]
  /\ OpenReconfirmationWindow(funded)
  /\ UNCHANGED <<status, pack, changes, positions, amountEur, holdElapsed, reconfirmedAt,
                 landed, coinbaseVars, requestVars, reconfirming, sweepList, pollVars>>

\* A reconfirm request comes in, the first or a repeated one, and reads the clock: before the
\* end of the window, or not.  (In any other stage the transaction refuses it, or it does
\* what the same request does right after the publication.)
ReconfirmArrives(k) ==
  /\ finalTermsPublished /\ status = "pre_offering"
  /\ reconfirming[k] = "none"
  /\ reservationStage[k] \in {"awaiting_reconfirmation", "reconfirmed"}
  /\ reconfirming' = [reconfirming EXCEPT ![k] = IF windowOpen THEN "current" ELSE "late"]
  /\ UNCHANGED <<offeringVars, reservationVars, moneyVars, coinbaseVars, requestVars,
                 sweepList, pollVars>>

\* Mutant: the stage is not read again under the row's lock.
ReconfirmWithoutLook(k) ==
  /\ reconfirming[k] # "none"
  /\ reconfirming' = [reconfirming EXCEPT ![k] = "none"]
  /\ IF reconfirming[k] # "late" /\ isCompleteDisclosurePack
       THEN /\ reservationStage' = [reservationStage EXCEPT ![k] = "reconfirmed"]
            /\ reconfirmedAt' = [reconfirmedAt EXCEPT ![k] = reconfirming[k]]
       ELSE UNCHANGED <<reservationStage, reconfirmedAt>>
  /\ UNCHANGED <<offeringVars, amountEur, holdElapsed, moneyVars, coinbaseVars, requestVars,
                 sweepList, pollVars>>

\* The transaction: the stage under the row's lock, then the window and the pack as they
\* are now.  A request that was late when it came in is in time again after a reset.
reconfirmReservation(k) ==
  /\ reconfirming[k] # "none"
  /\ reconfirming' = [reconfirming EXCEPT ![k] = "none"]
  /\ IF /\ reservationStage[k] = "awaiting_reconfirmation"
        /\ reconfirming[k] # "late"
        /\ isCompleteDisclosurePack
       THEN /\ reservationStage' = [reservationStage EXCEPT ![k] = "reconfirmed"]
            /\ reconfirmedAt' = [reconfirmedAt EXCEPT ![k] = reconfirming[k]]
       ELSE UNCHANGED <<reservationStage, reconfirmedAt>>
  /\ UNCHANGED <<offeringVars, amountEur, holdElapsed, moneyVars, coinbaseVars, requestVars,
                 sweepList, pollVars>>

\* A material change takes back the reconfirmations made so far and opens a new window;
\* the requests in flight read the clock before it.
classifyMateriality(classification) ==
  /\ status = "pre_offering" /\ finalTermsPublished
  /\ changes < MaxChanges
  /\ changes' = changes + 1
  /\ IF materialityResetTriggered(classification)
       THEN /\ windowOpen' = TRUE
            /\ reservationStage' = [k \in Keys |-> IF reservationStage[k] = "reconfirmed"
                                                     THEN "awaiting_reconfirmation"
                                                     ELSE reservationStage[k]]
            /\ reconfirmedAt' = [k \in Keys |-> IF reservationStage[k] = "reconfirmed"
                                                  THEN "none" ELSE reconfirmedAt[k]]
            /\ reconfirming' = [k \in Keys |-> IF reconfirming[k] = "none" THEN "none"
                                               ELSE "stale"]
       ELSE UNCHANGED <<windowOpen, reservationStage, reconfirmedAt, reconfirming>>
  /\ UNCHANGED <<status, finalTermsPublished, pack, positions, jobs, amountEur, holdElapsed,
                 moneyVars, coinbaseVars, requestVars, sweepList, pollVars>>

\* Only the transaction decides.
ClassifyMaterialityService(classification) == classifyMateriality(classification)

\* Mutant: the job waits for every investor to reconfirm.
EveryoneReconfirmed ==
  /\ status = "pre_offering" /\ finalTermsPublished /\ ~windowOpen
  /\ \A k \in Keys : reservationStage[k] # "awaiting_reconfirmation"

\* What the job lists, and the transaction checks again under the offering's lock.
listOfferingsPendingFinalizationCommit ==
  status = "pre_offering" /\ finalTermsPublished /\ ~windowOpen

commitOfferingFinalization ==
  LET reconfirmed == {k \in Keys : reservationStage[k] = "reconfirmed"}
      silent == {k \in Keys : reservationStage[k] = "awaiting_reconfirmation"}
  IN
  /\ listOfferingsPendingFinalizationCommit
  /\ status' = "final_offering"
  /\ positions' = positions \cup reconfirmed
  /\ reservationStage' = [k \in Keys |-> IF k \in reconfirmed THEN "finalized"
                                         ELSE IF k \in silent THEN "lapsed"
                                         ELSE reservationStage[k]]
  /\ capitalState' = [k \in Keys |-> IF k \in reconfirmed THEN "eurc_finalized"
                                     ELSE capitalState[k]]
  /\ UNCHANGED <<finalTermsPublished, windowOpen, pack, changes, jobs, amountEur, holdElapsed,
                 reconfirmedAt, landed, coinbaseVars, requestVars, reconfirming, sweepList,
                 pollVars>>

\* Mutant: only what was paid blocks the correction.
ReopenUnlessFunded ==
  /\ ~finalTermsPublished
  /\ \A k \in Keys : ~isReservationFunded(k)
  /\ status' = "closed"
  /\ UNCHANGED <<finalTermsPublished, windowOpen, pack, changes, positions, jobs, reservationVars,
                 moneyVars, coinbaseVars, requestVars, reconfirming, sweepList, pollVars>>

\* executeReversalOperation of a reopen_pre_offering correction that was requested and
\* approved: the blockers are looked at again, under the offering's lock, and the offering
\* is closed.
reopenPreOffering ==
  /\ Holding = {} /\ \A k \in Keys : ~isReservationFunded(k)
  /\ pack = "none" /\ ~finalTermsPublished
  /\ status' = "closed"
  /\ UNCHANGED <<finalTermsPublished, windowOpen, pack, changes, positions, jobs, reservationVars,
                 moneyVars, coinbaseVars, requestVars, reconfirming, sweepList, pollVars>>

-----------------------------------------------------------------------------
Request(q) ==
  \/ \E k \in Keys, amount \in Amounts : CheckBlockers(q, k, amount)
  \/ RefuseBlocked(q)
  \/ InsertReservation(q)
  \/ ReplayReservation(q)
  \/ RefuseConflict(q)
  \/ RecordPurchasePending(q)
  \/ RecordSessionFailed(q)
  \/ RequestDies(q)

Investor(k) ==
  \/ StartPurchase(k)
  \/ SettlePurchase(k)
  \/ ReconfirmArrives(k)
  \/ reconfirmReservation(k)

Poll ==
  \/ PollStarts
  \/ \E k \in Keys : PollReads(k)
  \/ PollRecords
  \/ PollAborts

Sweep ==
  \/ SweepStarts
  \/ \E k \in Keys : expireReservation(k)
  \/ SweepAborts

Staff ==
  \/ \E documents \in {"partial", "complete"} : PublishDisclosurePackService(documents)
  \/ publishFinalOfferingTerms
  \/ \E classification \in Classifications : ClassifyMaterialityService(classification)
  \/ reopenPreOffering

Next ==
  \/ \E q \in Requests : Request(q)
  \/ \E k \in Keys : Investor(k) \/ HoldElapses(k)
  \/ WindowCloses
  \/ Poll
  \/ Sweep
  \/ Staff
  \/ commitOfferingFinalization

Spec == Init /\ [][Next]_vars
-----------------------------------------------------------------------------
(* Safety.                                                                 *)

\* The state stays within the values the columns and the requests hold.
TypeOK ==
  /\ status \in {"pre_offering", "final_offering", "closed"}
  /\ finalTermsPublished \in BOOLEAN
  /\ windowOpen \in BOOLEAN
  /\ pack \in {"none", "partial", "complete"}
  /\ changes \in 0..MaxChanges
  /\ positions \subseteq Keys
  /\ jobs \subseteq {"post_ipo_structuring_handoff", "offering_reconfirmation_window_opened"}
  /\ reservationStage \in [Keys -> Stages]
  /\ amountEur \in [Keys -> 0..Target]
  /\ holdElapsed \in [Keys -> BOOLEAN]
  /\ reconfirmedAt \in [Keys -> {"none", "current", "stale"}]
  /\ capitalState \in [Keys -> CapitalStates]
  /\ landed \subseteq Keys
  /\ onrampOpen \subseteq Keys
  /\ purchases \in [Keys -> Seq(PurchaseStatuses)]
  /\ pc \in [Requests -> {"idle", "checked", "created", "replaying", "done"}]
  /\ asked \in [Requests -> Ask \cup {NoAsk}]
  /\ \A q \in Requests : pc[q] \notin {"idle", "done"} => asked[q] \in Ask
  /\ reconfirming \in [Keys -> {"none", "current", "late", "stale"}]
  /\ sweepList \subseteq Keys
  /\ pollList \subseteq Keys
  /\ polled \subseteq Decision

\* However many requests race for the last of the capacity, and whatever is released in
\* between, the amounts of the reservations that hold capacity never exceed the target
\* (createReservation, AD-146).
NoOversell == reservedCapacityEur <= Target

Covered(k) == \E i \in DOMAIN purchases[k] : purchases[k][i] = "covering"

\* A reservation that takes part in the final offering was paid for: Coinbase has a
\* successful purchase that covers it, whatever the poll, the retries of the client and
\* the publication of the final terms did in between.
FinalOfferingIsPaid ==
  \A k \in Keys :
    reservationStage[k] \in {"awaiting_reconfirmation", "reconfirmed", "finalized"} => Covered(k)

\* Once the finalization batch has committed, no reservation is left inside the window
\* stages, the positions are exactly the finalized reservations, and each of them was
\* reconfirmed (the Silence rule), although reconfirm requests may still be in flight.
FinalizationIsComplete ==
  /\ status = "final_offering" =>
       \A k \in Keys : reservationStage[k] \notin {"awaiting_reconfirmation", "reconfirmed"}
  /\ positions = {k \in Keys : reservationStage[k] = "finalized"}
  /\ \A k \in positions : reconfirmedAt[k] # "none"

\* A reservation that was finalized, cancelled or lapsed is never moved again, neither by
\* a retry of its request nor by a reconfirmation or a job that read it earlier.
TerminalStagesAreFinal ==
  [][\A k \in Keys : reservationStage[k] \in {"finalized", "cancelled", "lapsed"}
                       => reservationStage'[k] = reservationStage[k]]_vars

\* A hold is taken back early only by the publication of the final terms: the sweep lapses
\* a reservation only after its 15 minutes, and never one that a commit or a publication
\* has moved on since the sweep read its list.
SweptOnlyWhenElapsed ==
  [][\A k \in Keys : reservationStage[k] # "lapsed" /\ reservationStage'[k] = "lapsed"
       => \/ reservationStage[k] = "initiated" /\ holdElapsed[k]
          \/ reservationStage[k] = "awaiting_reconfirmation" /\ ~windowOpen]_vars

\* An offering that a correction closed has nobody in it and nobody on the way in: no
\* reservation holds its capacity, no handler is past its checks and no purchase of it was
\* paid, although the correction was requested long before ("a reservation either committed
\* before this read or waits until the offering is closed", runReversalExecution).
ClosedOfferingIsEmpty ==
  status = "closed" =>
    /\ Holding = {}
    /\ \A k \in Keys : ~isReservationFunded(k) /\ k \notin onrampOpen
    /\ \A q \in Requests : pc[q] \in {"idle", "done"}

-----------------------------------------------------------------------------
(* The offering implements Allotment.                                      *)

AllotmentOf(k) ==
  CASE reservationStage[k] = "none" -> "free"
    [] reservationStage[k] = "finalized" -> "issued"
    [] reservationStage[k] \in {"cancelled", "lapsed"} -> "given_up"
    [] OTHER -> "held"

Abstract == INSTANCE Allotment WITH
  allotment <- [k \in Keys |-> AllotmentOf(k)],
  amount <- amountEur,
  closed <- status # "pre_offering"

\* Seen from outside, the handlers, the jobs and the staff operations together do nothing
\* but what Allotment allows, in the order it allows: a key is allotted once and within
\* the target (createReservation), what lapsed or was cancelled stays so, and one step
\* issues the positions and gives up the silent reservations (commitOfferingFinalization).
\* A correction that closes the offering is that step with nobody in it.
ImplementsAllotment == Abstract!AllotmentSpec

-----------------------------------------------------------------------------
(* The offering implements OfferingFace, which is all its case sees of it. *)

Face == INSTANCE OfferingFace WITH
  phase <- IF status = "closed" THEN "closed"
           ELSE IF status = "final_offering" THEN "final"
           ELSE IF finalTermsPublished THEN "terms"
           ELSE IF isCompleteDisclosurePack /\ fundedEur >= Target THEN "ready"
           ELSE IF pack # "none" THEN "engaged"
           ELSE "open"

\* What the case of an offering assumes of it: nobody is in it before a disclosure pack was
\* published, final terms follow a complete pack and a funded target, and only an offering
\* that nobody can have seen is closed.
ImplementsFace == Face!FaceSpec

-----------------------------------------------------------------------------
(* Statements of the repository's comments that the code does not keep.    *)

\* expireReservation: "money that has already landed is never swept to 'lapsed'".
LandedMoneyIsNeverSwept ==
  [][\A k \in landed : reservationStage[k] = "initiated" => reservationStage'[k] # "lapsed"]_vars

\* publishFinalOfferingTerms, on the branch that cancels an unfunded reservation:
\* "Structurally unreachable under the current rules".
PublicationCancelsNothing ==
  \A k \in Keys : reservationStage[k] # "cancelled"

\* materialityResetTriggered: "Any material change resets the full 168-hour window and
\* invalidates prior reconfirmations."
ReconfirmationsFollowTheLastReset ==
  \A k \in Keys : reservationStage[k] \in {"reconfirmed", "finalized"} => reconfirmedAt[k] # "stale"

-----------------------------------------------------------------------------
(* Liveness.  The clock advances; pg-boss starts the two jobs again and    *)
(* again, and not every run of the sweep stops before it has reached a     *)
(* reservation it lists.  Nothing is assumed of clients, of staff, of      *)
(* Coinbase or of the poll.                                                *)

Fairness ==
  /\ \A k \in Keys : WF_vars(HoldElapses(k)) /\ SF_vars(expireReservation(k))
  /\ WF_vars(SweepStarts)
  /\ WF_vars(WindowCloses)
  /\ WF_vars(commitOfferingFinalization)

FairSpec == Spec /\ Fairness

\* Capacity held by a reservation that is not paid for is freed in the end, wherever the
\* request that made it stopped.
UnfundedHoldsEnd ==
  []<>(\A k \in Keys : reservationStage[k] # "initiated" \/ isReservationFunded(k))

\* Once final terms are published the offering becomes final, resets notwithstanding, and
\* every reservation that was moved into the window leaves it.
PublishedOfferingsFinalize ==
  []<>(finalTermsPublished => status = "final_offering")
=============================================================================
