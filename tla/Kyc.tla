--------------------------------- MODULE Kyc ---------------------------------
(***************************************************************************)
(* Identity verification of one account: starting a baseline or a proof of *)
(* address session at the provider (Didit), the provider's webhooks, and   *)
(* the hourly and daily jobs that fail abandoned starts, re-query open     *)
(* sessions and ask for renewal.                                           *)
(*                                                                         *)
(* kyc and poa are the columns of the account's identity.kyc_eligibility   *)
(* row.  sessions is what the provider holds, events the webhooks it has   *)
(* sent; a webhook may be processed late, out of order, more than once or  *)
(* never.  receipts is the set of webhooks whose event key is in the audit *)
(* log.  starts are the requests that reserved a session start.  tasks     *)
(* holds, for each webhook worker and for the reconciliation job, what it  *)
(* read outside the transaction that will write it; stuck and renewing are *)
(* what the two other jobs have listed.                                    *)
(*                                                                         *)
(* The clock counts seconds.  The provider's stamps have whole seconds and *)
(* our own are somewhere inside one, so stamps are half seconds.           *)
(***************************************************************************)
EXTENDS KycPolicies, Sequences

CONSTANTS
  Workers,      \* the consumers of provider_events.didit_webhook
  Declarations, \* what customers declare: records of residence and tax country
  Decisions,    \* the decisions the provider may reach
  StuckAfter,   \* age of a reserved or open session the jobs look at
  MaxStarts,    \* bound: session starts reserved
  MaxEvents,    \* bound: webhooks sent
  MaxTime       \* bound: the last second, left to the workers and the jobs

ASSUME KycBoundsAssumption ==
  /\ "poll" \notin Workers
  /\ {StuckAfter, MaxStarts, MaxEvents, MaxTime} \subseteq Nat \ {0}

VARIABLES now, kyc, poa, sessions, events, receipts, starts, tasks, stuck, renewing

vars == <<now, kyc, poa, sessions, events, receipts, starts, tasks, stuck, renewing>>

OwnClock == 2 * now + 1

DiditClock == 2 * now

Idle == [step |-> "idle"]

NoDeclaration == [residence |-> "none", tax |-> "none"]

Init ==
  /\ now = 1
  /\ kyc = [state |-> "not_started", substatus |-> "kyc_not_started", reference |-> 0,
            startId |-> 0, providerUpdatedAt |-> NoDate, updatedAt |-> NoDate,
            declared |-> NoDeclaration, everRequiredManualReview |-> FALSE,
            renewalDueAt |-> NoDate]
  /\ poa = [status |-> "not_started", reference |-> 0, startId |-> 0,
            providerUpdatedAt |-> NoDate, currentUntil |-> NoDate]
  /\ sessions = <<>> /\ events = <<>> /\ receipts = {} /\ starts = <<>>
  /\ tasks = [w \in Workers \cup {"poll"} |-> Idle]
  /\ stuck = {} /\ renewing = FALSE

-----------------------------------------------------------------------------
(* Starting a session: the row is reserved, the provider is called, and    *)
(* the session is recorded, each in a transaction of its own.              *)

canStartSession(substatus) ==
  substatus \in {"kyc_not_started", "kyc_session_creation_failed", "kyc_restart_required",
                 "kyc_reverification_required"}

canStartProofOfAddress(status, currentUntil) ==
  /\ status \in {"not_started", "creation_failed", "insufficient", "expired",
                 "restart_required", "integration_anomaly", "current"}
  /\ ~(status = "current" /\ currentUntil > OwnClock)

reserveSessionStart(id, declared) ==
  /\ canStartSession(kyc.substatus)
  /\ kyc' = [kyc EXCEPT !.substatus = "kyc_session_creating", !.startId = id,
                        !.declared = declared, !.updatedAt = OwnClock]
  /\ UNCHANGED poa

reserveProofOfAddressSessionStart(id) ==
  /\ kyc.state = "eligible"
  /\ canStartProofOfAddress(poa.status, poa.currentUntil)
  /\ poa' = [poa EXCEPT !.status = "creating", !.startId = id]
  /\ kyc' = [kyc EXCEPT !.updatedAt = OwnClock]

Reserved(kind) ==
  starts' = Append(starts, [kind |-> kind, step |-> "reserved", session |-> 0])

StartKycSessionService(declared) ==
  /\ Len(starts) < MaxStarts
  /\ reserveSessionStart(Len(starts) + 1, declared)
  /\ Reserved("baseline")
  /\ UNCHANGED <<now, sessions, events, receipts, tasks, stuck, renewing>>

StartProofOfAddressSessionService ==
  /\ Len(starts) < MaxStarts
  /\ reserveProofOfAddressSessionStart(Len(starts) + 1)
  /\ Reserved("proof_of_address")
  /\ UNCHANGED <<now, sessions, events, receipts, tasks, stuck, renewing>>

(* The provider opens a session for the request.                           *)
createSession(r) ==
  /\ starts[r].step = "reserved"
  /\ sessions' = Append(sessions, [kind |-> starts[r].kind, status |-> "Not Started",
                                   decision |-> NoDecision, start |-> r])
  /\ starts' = [starts EXCEPT ![r] = [@ EXCEPT !.step = "created", !.session = Len(sessions) + 1]]
  /\ UNCHANGED <<now, kyc, poa, events, receipts, tasks, stuck, renewing>>

\* Mutant: any request may complete the start the row holds.
CompleteAnyStart(kind, id) ==
  IF kind = "baseline" THEN kyc.substatus = "kyc_session_creating"
  ELSE poa.status = "creating"

(* The row still holds the reservation id: the WHERE clause of completing  *)
(* and of failing a start.                                                 *)
HoldsStart(kind, id) ==
  IF kind = "baseline" THEN kyc.startId = id /\ kyc.substatus = "kyc_session_creating"
  ELSE poa.startId = id /\ poa.status = "creating"

failSessionStart(id) ==
  /\ kyc' = IF HoldsStart("baseline", id)
            THEN [kyc EXCEPT !.substatus = "kyc_session_creation_failed",
                             !.updatedAt = OwnClock]
            ELSE kyc
  /\ UNCHANGED poa

failProofOfAddressSessionStart(id) ==
  IF HoldsStart("proof_of_address", id)
  THEN /\ poa' = [poa EXCEPT !.status = "creation_failed"]
       /\ kyc' = [kyc EXCEPT !.updatedAt = OwnClock]
  ELSE UNCHANGED <<kyc, poa>>

FailStart(kind, id) ==
  IF kind = "baseline" THEN failSessionStart(id) ELSE failProofOfAddressSessionStart(id)

completeSessionStart(id, session) ==
  /\ kyc' = IF HoldsStart("baseline", id)
            THEN [kyc EXCEPT !.reference = session, !.substatus = "kyc_session_open",
                             !.state = "not_started", !.providerUpdatedAt = OwnClock,
                             !.updatedAt = OwnClock]
            ELSE kyc
  /\ UNCHANGED poa

completeProofOfAddressSessionStart(id, session) ==
  IF HoldsStart("proof_of_address", id)
  THEN /\ poa' = [poa EXCEPT !.reference = session, !.status = "in_progress",
                             !.providerUpdatedAt = OwnClock]
       /\ kyc' = [kyc EXCEPT !.updatedAt = OwnClock]
  ELSE UNCHANGED <<kyc, poa>>

Ends(r) ==
  /\ starts' = [starts EXCEPT ![r].step = "ended"]
  /\ UNCHANGED <<now, sessions, events, receipts, tasks, stuck, renewing>>

(* A request that dies takes no further step; nothing makes it go on.      *)
(* Otherwise it hears from the provider: an error, an answer that is not   *)
(* the session asked for, or the session, which it records.  A baseline    *)
(* request that could not record it fails its start, which by then is not  *)
(* its own any more.                                                       *)
StartFails(r) ==
  /\ starts[r].step \in {"reserved", "created"}
  /\ FailStart(starts[r].kind, r)
  /\ Ends(r)

StartCompletes(r) ==
  /\ starts[r].step = "created"
  /\ IF starts[r].kind = "baseline"
     THEN completeSessionStart(r, starts[r].session)
     ELSE completeProofOfAddressSessionStart(r, starts[r].session)
  /\ Ends(r)

-----------------------------------------------------------------------------
(* The provider.  Statuses change as a session is worked on, and each      *)
(* change, and each later update of the data, is announced by a webhook.   *)

Follows(status) ==
  CASE status = "Not Started" ->
         {"Not Started", "In Progress", "Approved", "Expired", "Abandoned"}
    [] status = "In Progress" -> {"In Review", "Approved", "Declined", "Awaiting User"}
    [] status = "Awaiting User" -> {"In Progress", "Expired"}
    [] status = "In Review" -> {"Approved", "Declined", "Resubmitted"}
    [] status = "Resubmitted" -> {"In Progress", "In Review", "Expired"}
    [] status = "Approved" -> {"Approved", "Declined", "Kyc Expired"}
    [] OTHER -> {}

DiditMoves(s, status, decision) ==
  /\ Len(events) < MaxEvents
  /\ status \in Follows(sessions[s].status)
  /\ sessions' = [sessions EXCEPT ![s] =
                    [@ EXCEPT !.status = status,
                              !.decision = IF status \in {"Approved", "Declined"}
                                           THEN decision ELSE sessions[s].decision]]
  /\ events' = Append(events, [session |-> s, status |-> status, at |-> DiditClock])
  /\ UNCHANGED <<now, kyc, poa, receipts, starts, tasks, stuck, renewing>>

-----------------------------------------------------------------------------
(* Applying an outcome.  A task names the session, the status and stamp,   *)
(* the decision, and what was read of the row outside the transaction.     *)

Claimed(task) == task.event \in receipts

ReferenceOf(kind) == IF kind = "baseline" THEN kyc.reference ELSE poa.reference

NewerThan(stamp, at) == stamp > at

ApplyOutcome(task) ==
  LET o == evaluateDiditOutcome(task.status, task.decision, task.declared, task.ever, task.at)
  IN [kyc EXCEPT !.state = o.state,
                 !.substatus = IF /\ o.state = "eligible" /\ poa.status = "current"
                                  /\ poa.currentUntil > task.at
                               THEN "kyc_verified" ELSE o.substatus,
                 !.everRequiredManualReview = o.reviewed,
                 !.renewalDueAt = IF o.due = NoDate THEN @ ELSE o.due,
                 !.providerUpdatedAt = task.at,
                 !.updatedAt = Max({@, task.at})]

\* Mutant: the outcome does not look whether its event was claimed.
ApplyUnclaimed(task) ==
  /\ receipts' = receipts \cup ({task.event} \ {0})
  /\ kyc' = IF kyc.reference # task.session \/ NewerThan(kyc.providerUpdatedAt, task.at)
            THEN kyc ELSE ApplyOutcome(task)
  /\ UNCHANGED poa

applyProviderOutcome(task) ==
  /\ receipts' = receipts \cup ({task.event} \ {0})
  /\ kyc' = IF \/ Claimed(task)
               \/ kyc.reference # task.session
               \/ NewerThan(kyc.providerUpdatedAt, task.at)
            THEN kyc
            ELSE ApplyOutcome(task)
  /\ UNCHANGED poa

applyProofOfAddressOutcome(task) ==
  LET o == evaluateProofOfAddressOutcome(task.status, task.decision, task.declared.residence,
                                         task.at)
  IN /\ receipts' = receipts \cup ({task.event} \ {0})
     /\ IF \/ Claimed(task)
           \/ poa.reference # task.session
           \/ NewerThan(poa.providerUpdatedAt, task.at)
        THEN UNCHANGED <<kyc, poa>>
        ELSE /\ poa' = [poa EXCEPT !.status = o.status, !.currentUntil = o.currentUntil,
                                   !.providerUpdatedAt = task.at]
             /\ kyc' = [kyc EXCEPT !.updatedAt = Max({@, task.at}),
                                   !.substatus = IF kyc.state # "eligible" THEN kyc.substatus
                                                 ELSE IF o.status = "current" THEN "kyc_verified"
                                                 ELSE "kyc_verified_owner_poa_missing"]

Applies(w) ==
  /\ tasks[w].step = "answered"
  /\ IF tasks[w].kind = "baseline"
     THEN applyProviderOutcome(tasks[w])
     ELSE applyProofOfAddressOutcome(tasks[w])
  /\ tasks' = [tasks EXCEPT ![w] = Idle]
  /\ UNCHANGED <<now, sessions, events, starts, stuck, renewing>>

(* The worker dies, or the provider does not answer: nothing was written.  *)
TaskFails(w) ==
  /\ tasks[w] # Idle
  /\ tasks' = [tasks EXCEPT ![w] = Idle]
  /\ UNCHANGED <<now, kyc, poa, sessions, events, receipts, starts, stuck, renewing>>

-----------------------------------------------------------------------------
(* The webhook consumer.                                                   *)

shouldFetchDecision(status) == status \in {"Approved", "Declined", "In Review", "Abandoned"}

(* A webhook is matched when the row refers to its session and, for the    *)
(* statuses that carry a decision, the provider still reports that status. *)
Matches(event) ==
  /\ ReferenceOf(sessions[event.session].kind) = event.session
  /\ shouldFetchDecision(event.status) => sessions[event.session].status = event.status

ProcessDiditWebhookService(w, e) ==
  LET event == events[e]
      s     == sessions[event.session]
  IN /\ tasks[w] = Idle
     /\ e \notin receipts
     /\ IF Matches(event)
        THEN /\ tasks' = [tasks EXCEPT ![w] =
                   [step |-> "answered", event |-> e, kind |-> s.kind,
                    session |-> event.session, status |-> event.status, at |-> event.at,
                    decision |-> IF shouldFetchDecision(event.status)
                                 THEN s.decision ELSE NoDecision,
                    declared |-> kyc.declared, ever |-> kyc.everRequiredManualReview]]
             /\ UNCHANGED receipts
        ELSE /\ receipts' = receipts \cup {e}
             /\ UNCHANGED tasks
     /\ UNCHANGED <<now, kyc, poa, sessions, events, starts, stuck, renewing>>

-----------------------------------------------------------------------------
(* The jobs.  Each lists the row and later acts on what it listed.         *)

(* The last second stands for all later time, in which every age is        *)
(* reached.                                                                *)
isSessionStuck == now = MaxTime \/ OwnClock - kyc.updatedAt >= 2 * StuckAfter

\* Mutant: the job forgets the proof of address starts.
ListBaselineOnly ==
  {x \in {<<"baseline", kyc.startId>>} : HoldsStart(x[1], x[2])}

listStuckSessionCreationsForTimer ==
  {x \in {<<"baseline", kyc.startId>>, <<"proof_of_address", poa.startId>>} :
     HoldsStart(x[1], x[2])}

ExpireStuckSessionCreationsService ==
  /\ stuck = {}
  /\ isSessionStuck
  /\ listStuckSessionCreationsForTimer # {}
  /\ stuck' = listStuckSessionCreationsForTimer
  /\ UNCHANGED <<now, kyc, poa, sessions, events, receipts, starts, tasks, renewing>>

StuckCreationFails(x) ==
  /\ x \in stuck
  /\ FailStart(x[1], x[2])
  /\ stuck' = stuck \ {x}
  /\ UNCHANGED <<now, sessions, events, receipts, starts, tasks, renewing>>

listStuckOpenSessionsForTimer ==
  (IF kyc.substatus = "kyc_session_open" THEN {"baseline"} ELSE {})
    \cup (IF poa.status = "in_progress" THEN {"proof_of_address"} ELSE {})

\* Mutant: an expired session counts as one the customer may go on with.
PendingOrExpired == {"unknown", "Not Started", "In Progress", "Awaiting User", "Expired"}

STILL_PENDING_STATUSES == {"unknown", "Not Started", "In Progress", "Awaiting User"}

(* One session the job listed; the stamp is the clock at the job's start.  *)
ReconcileStuckOpenSessionsService(kind) ==
  /\ tasks["poll"] = Idle
  /\ isSessionStuck
  /\ kind \in listStuckOpenSessionsForTimer
  /\ tasks' = [tasks EXCEPT !["poll"] =
                 [step |-> "listed", event |-> 0, kind |-> kind, session |-> ReferenceOf(kind),
                  at |-> OwnClock, declared |-> kyc.declared,
                  ever |-> kyc.everRequiredManualReview]]
  /\ UNCHANGED <<now, kyc, poa, sessions, events, receipts, starts, stuck, renewing>>

PollAnswered ==
  LET task == tasks["poll"]
      s    == sessions[task.session]
  IN /\ task.step = "listed"
     /\ tasks' = [tasks EXCEPT !["poll"] =
                    IF s.status \in STILL_PENDING_STATUSES THEN Idle
                    ELSE [step |-> "answered", event |-> 0, kind |-> task.kind,
                          session |-> task.session, status |-> s.status, at |-> task.at,
                          decision |-> s.decision, declared |-> task.declared,
                          ever |-> task.ever]]
     /\ UNCHANGED <<now, kyc, poa, sessions, events, receipts, starts, stuck, renewing>>

RunKycRenewalTimerService ==
  /\ ~renewing
  /\ kyc.state = "eligible" /\ kyc.renewalDueAt # NoDate
  /\ isRenewalOverdue(kyc.renewalDueAt, OwnClock)
  /\ renewing' = TRUE
  /\ UNCHANGED <<now, kyc, poa, sessions, events, receipts, starts, tasks, stuck>>

\* Mutant: the renewal leaves the substatus of the verified customer.
RenewStateOnly ==
  /\ renewing
  /\ kyc' = IF kyc.state = "eligible"
            THEN [kyc EXCEPT !.state = "requires_renewal", !.updatedAt = OwnClock]
            ELSE kyc
  /\ renewing' = FALSE
  /\ UNCHANGED <<now, poa, sessions, events, receipts, starts, tasks, stuck>>

transitionToRequiresRenewal ==
  /\ renewing
  /\ kyc' = IF kyc.state = "eligible"
            THEN [kyc EXCEPT !.state = "requires_renewal",
                             !.substatus = "kyc_reverification_required",
                             !.updatedAt = OwnClock]
            ELSE kyc
  /\ renewing' = FALSE
  /\ UNCHANGED <<now, poa, sessions, events, receipts, starts, tasks, stuck>>

-----------------------------------------------------------------------------
Tick ==
  /\ now < MaxTime
  /\ now' = now + 1
  /\ UNCHANGED <<kyc, poa, sessions, events, receipts, starts, tasks, stuck, renewing>>

CustomerSteps ==
  /\ now < MaxTime
  /\ \/ \E d \in Declarations : StartKycSessionService(d)
     \/ StartProofOfAddressSessionService
     \/ \E r \in 1..Len(starts) : createSession(r) \/ StartFails(r) \/ StartCompletes(r)
     \/ \E s \in 1..Len(sessions), status \in DiditStatuses, d \in Decisions :
          DiditMoves(s, status, d)

WorkerSteps ==
  \/ \E w \in Workers, e \in 1..Len(events) : ProcessDiditWebhookService(w, e)
  \/ \E w \in Workers \cup {"poll"} : Applies(w) \/ TaskFails(w)

JobSteps ==
  \/ ExpireStuckSessionCreationsService
  \/ \E x \in stuck : StuckCreationFails(x)
  \/ \E kind \in {"baseline", "proof_of_address"} : ReconcileStuckOpenSessionsService(kind)
  \/ PollAnswered
  \/ RunKycRenewalTimerService
  \/ transitionToRequiresRenewal

Next == Tick \/ CustomerSteps \/ WorkerSteps \/ JobSteps

Spec == Init /\ [][Next]_vars

(* The jobs run on schedule and in the end reach the provider for either   *)
(* session; nothing is assumed of requests, which may die, or of webhooks, *)
(* which may be lost.                                                      *)
Fairness ==
  /\ WF_vars(Tick)
  /\ WF_vars(ExpireStuckSessionCreationsService)
  /\ WF_vars(\E x \in stuck : StuckCreationFails(x))
  /\ \A kind \in {"baseline", "proof_of_address"} :
       /\ SF_vars(ReconcileStuckOpenSessionsService(kind))
       /\ SF_vars(PollAnswered /\ tasks["poll"].kind = kind)
       /\ SF_vars(Applies("poll") /\ tasks["poll"].kind = kind)

FairSpec == Spec /\ Fairness

-----------------------------------------------------------------------------
(* Type correctness of the row, of the provider's sessions and of what the *)
(* workers and jobs hold; a reference names a session of its own kind, and *)
(* a reservation a start of its own kind.                                  *)
TypeOK ==
  /\ now \in 1..MaxTime
  /\ kyc.state \in EligibilityStates /\ kyc.substatus \in Substatuses
  /\ kyc.everRequiredManualReview \in BOOLEAN
  /\ kyc.declared \in Declarations \cup {NoDeclaration}
  /\ {kyc.providerUpdatedAt, kyc.updatedAt} \subseteq 0..OwnClock
  /\ kyc.renewalDueAt \in Nat
  /\ poa.status \in ProofOfAddressStatuses
  /\ poa.providerUpdatedAt \in 0..OwnClock /\ poa.currentUntil \in Nat
  /\ kyc.startId # 0 => starts[kyc.startId].kind = "baseline"
  /\ poa.startId # 0 => starts[poa.startId].kind = "proof_of_address"
  /\ kyc.reference # 0 => sessions[kyc.reference].kind = "baseline"
  /\ poa.reference # 0 => sessions[poa.reference].kind = "proof_of_address"
  /\ receipts \subseteq 1..Len(events)
  /\ \A s \in 1..Len(sessions) : sessions[s].status \in DiditStatuses
  /\ \A r \in 1..Len(starts) : starts[r].step \in {"reserved", "created", "ended"}
  /\ \A w \in Workers \cup {"poll"} : tasks[w].step \in {"idle", "listed", "answered"}
  /\ renewing \in BOOLEAN

(* The substatus, which alone decides whether a new session may be         *)
(* started, always agrees with the eligibility state, whichever of the     *)
(* request, webhook, reconciliation and renewal paths wrote last.  Were a  *)
(* renewal to leave kyc_verified behind, canStartSession would refuse the  *)
(* customer for ever.                                                      *)
EligibilityMatchesSubstatus ==
  kyc.substatus \in
    CASE kyc.state = "not_started" ->
           {"kyc_not_started", "kyc_session_creating", "kyc_session_creation_failed",
            "kyc_session_open", "kyc_restart_required"}
      [] kyc.state = "in_progress" -> {"kyc_pending", "kyc_resubmission_pending"}
      [] kyc.state = "pending_manual_review" -> {"kyc_manual_review", "kyc_integration_anomaly"}
      [] kyc.state = "eligible" -> {"kyc_verified", "kyc_verified_owner_poa_missing"}
      [] kyc.state = "unsupported_jurisdiction" -> {"kyc_jurisdiction_blocked"}
      [] kyc.state = "not_eligible" -> {"kyc_failed"}
      [] kyc.state = "requires_renewal" ->
           {"kyc_reverification_required", "kyc_session_creating",
            "kyc_session_creation_failed"}

(* Each approval makes the customer eligible at most once: a step into     *)
(* eligible claims a webhook that says Approved for the session the row    *)
(* refers to, never one claimed before (two workers may hold the same      *)
(* webhook, and a renewal may have come between), or applies the           *)
(* reconciliation job's own answer for that session.                       *)
EligibilityIsEarnedOnce ==
  [][kyc.state # "eligible" /\ kyc'.state = "eligible" =>
       \/ \E e \in receipts' \ receipts :
            events[e].status = "Approved" /\ events[e].session = kyc.reference
       \/ /\ tasks["poll"].step = "answered" /\ tasks'["poll"] = Idle
          /\ tasks["poll"].status = "Approved" /\ tasks["poll"].session = kyc.reference]_vars

(* A request that answers late, after the expiry job failed its start and  *)
(* another request reserved the row, attaches its session to nothing: a    *)
(* session is only ever recorded for the reservation it was created for.   *)
LateStartsAttachNothing ==
  [][/\ kyc'.reference # kyc.reference => sessions[kyc'.reference].start = kyc.startId
     /\ poa'.reference # poa.reference => sessions[poa'.reference].start = poa.startId]_vars

(* A session start that was reserved ends, although the process that       *)
(* reserved it may have died: the expiry job fails it, so that the         *)
(* customer can start again.                                               *)
StartsEnd ==
  []<>(kyc.substatus # "kyc_session_creating" /\ poa.status # "creating")

EndedStatuses == {"Approved", "Declined", "Expired", "Abandoned", "Kyc Expired"}

SettledAtDidit(s) == s # 0 /\ sessions[s].status \in EndedStatuses

(* Once the provider has ended a session the row still has as open, the    *)
(* row learns of it, even when every webhook was lost: the reconciliation  *)
(* job polls kyc_session_open and in_progress rows.                        *)
OpenSessionsAreLearned ==
  []<>(/\ SettledAtDidit(kyc.reference) => kyc.substatus # "kyc_session_open"
       /\ SettledAtDidit(poa.reference) => poa.status # "in_progress")

UnderWay == {"kyc_session_open", "kyc_pending", "kyc_resubmission_pending"}

(* The same for every session the customer has under way, which is what    *)
(* the comment on ReconcileStuckOpenSessionsService promises: that         *)
(* VistaBlox "eventually learns what Didit already knows, even when its    *)
(* webhook delivery failed".  A row the In Progress webhook moved to       *)
(* kyc_pending is polled by no job.                                        *)
SessionsAreLearned ==
  []<>(SettledAtDidit(kyc.reference) => kyc.substatus \notin UnderWay)

=============================================================================
