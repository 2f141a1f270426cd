------------------------------- MODULE MCLive -------------------------------
(***************************************************************************)
(* What must happen in the end, for the four components with jobs that     *)
(* make it happen.  They share no variable, so a behaviour is one of the   *)
(* component in focus and the others keep their initial states.  Strong    *)
(* fairness is stated once for each reservation: only the disjunct of the  *)
(* component in focus is ever enabled.                                     *)
(***************************************************************************)
EXTENDS EscrowMint

CONSTANTS
  Keys, Requests, Amounts, Target, MaxPurchases, MaxChanges,          \* Offering
  Callers, Reviewers, NoOne, MaxRequests, MaxCorrections, MaxNotes,       \* Intake
  Workers, MaxAttempts, Interval, WindowEnd                           \* Notices

VARIABLES
  focus,
  status, finalTermsPublished, windowOpen, pack, changes, oPositions, oJobs,
  reservationStage, amountEur, holdElapsed, reconfirmedAt, capitalState, landed,
  onrampOpen, purchases, oPc, asked, reconfirming, sweepList, pollList, polled,
  intakeCase, ledger, requests, overdue, operations, notes, phase, jobs, timerList, calls,
  contact, awaiting, now, job, notify, told, toldRows, remind, remindedAt, reminders

O == INSTANCE Offering WITH positions <- oPositions, jobs <- oJobs, pc <- oPc

I == INSTANCE Intake WITH Staff <- Reviewers

N == INSTANCE Notices WITH Reservations <- Keys

offeringVars ==
  <<status, finalTermsPublished, windowOpen, pack, changes, oPositions, oJobs,
    reservationStage, amountEur, holdElapsed, reconfirmedAt, capitalState, landed,
    onrampOpen, purchases, oPc, asked, reconfirming, sweepList, pollList, polled>>
intakeVars ==
  <<intakeCase, ledger, requests, overdue, operations, notes, phase, jobs, timerList, calls>>
noticeVars ==
  <<contact, awaiting, now, job, notify, told, toldRows, remind, remindedAt, reminders>>
liveVars == <<focus, vars, offeringVars, intakeVars, noticeVars>>

\* Everything but the variables of component c stays.
Only(c) ==
  /\ focus = c /\ focus' = focus
  /\ IF c = "escrow" THEN TRUE ELSE UNCHANGED vars
  /\ IF c = "offering" THEN TRUE ELSE UNCHANGED offeringVars
  /\ IF c \in {"requests", "corrections"} THEN TRUE ELSE UNCHANGED intakeVars
  /\ IF c \in {"opened", "reminders"} THEN TRUE ELSE UNCHANGED noticeVars

LiveInit ==
  /\ focus \in {"escrow", "offering", "requests", "corrections", "opened", "reminders"}
  /\ Init /\ O!Init /\ I!Init /\ N!Init
  /\ focus # "escrow" => /\ at = CHOOSE a \in [Runs -> Contributors] : TRUE
                         /\ mints = [c \in Contributors |-> << >>]
  /\ focus \notin {"opened", "reminders"} => contact = {}

\* Of an intake case, the requests and the corrections are followed one without the other.
\* The two jobs about a reconfirmation window share only who can be written to.
LiveNext ==
  \/ Only("escrow") /\ Next
  \/ Only("offering") /\ O!Next
  \/ Only("requests") /\ (I!CaseSteps \/ I!TimerStarts \/ \E r \in I!RequestIds : I!RequestSteps(r))
  \/ Only("corrections") /\ (I!CaseSteps \/ \E x \in Callers : I!CorrectionSteps(x))
  \/ Only("opened") /\ N!WindowOpened
  \/ Only("reminders") /\ N!Reminders

LiveFairness ==
  /\ \A r \in Runs : WF_liveVars(Only("escrow") /\ RunStep(r))
  /\ \A c \in Contributors : /\ WF_liveVars(Only("escrow") /\ SettleMint(c))
                             /\ WF_liveVars(Only("escrow") /\ GraceElapses(c))
  /\ \A k \in Keys : WF_liveVars(Only("offering") /\ O!HoldElapses(k))
  /\ WF_liveVars(Only("offering") /\ O!SweepStarts)
  /\ WF_liveVars(Only("offering") /\ O!WindowCloses)
  /\ WF_liveVars(Only("offering") /\ O!commitOfferingFinalization)
  /\ WF_liveVars(Only("requests") /\ I!TimerStarts)
  /\ \A c \in {"requests", "corrections"} :
       /\ WF_liveVars(Only(c) /\ I!openOfferingForApprovedCase)
       /\ WF_liveVars(Only(c) /\ I!TransitionCaseToPostIpoStructuringService)
  /\ \A w \in Workers : WF_liveVars(Only("opened") /\ N!Notify(w))
  /\ WF_liveVars(Only("reminders") /\ N!listReservationsAwaitingReconfirmationForReminders)
  /\ WF_liveVars(Only("reminders") /\ N!ReminderEnds)
  /\ \A k \in Keys :
       SF_liveVars(\/ Only("offering") /\ O!expireReservation(k)
                   \/ Only("requests") /\ \E r \in I!RequestIds : I!TimerExpires(r)
                   \/ Only("reminders") /\ N!sendReconfirmationReminderEmail(k))

LiveSpec == LiveInit /\ [][LiveNext]_liveVars /\ LiveFairness

\* Capacity held by a reservation that is not paid for is freed in the end.
UnfundedHoldsEnd == O!UnfundedHoldsEnd

\* Once final terms are published the offering becomes final.
PublishedOfferingsFinalize == O!PublishedOfferingsFinalize

\* Every contributor whose mint the job can still make gets the position.
ContributorsAreRecorded == []<>(focus = "escrow" => EveryoneRecorded)

\* A published request whose due date has passed does not keep its case waiting.
OverdueRequestsEnd == I!OverdueRequestsEnd

\* An approved case gets its offering, and goes on to structuring when terms are published.
HandoffsAreDone == I!HandoffsAreDone

\* Everybody is told that the window is open, and who is due a reminder gets one.
NoticesReachEveryone == []<>(/\ focus = "opened" => N!WindowIsAnnounced
                             /\ focus = "reminders" => N!Unreminded = {})
=============================================================================
