------------------------------- MODULE Intake -------------------------------
(***************************************************************************)
(* One intake case: from the applicant's draft over the founder's review,  *)
(* information requests and their deadlines, to the opening of its         *)
(* offering, the structuring by the partners, and the corrections that     *)
(* move it back.                                                           *)
(*                                                                         *)
(* A service reads the case without a lock, asks a policy and then calls a *)
(* transaction of the repository, which locks the case's row and decides   *)
(* again. Where the transaction decides again on everything the service    *)
(* looked at, a stale read can only refuse, and the two are one action     *)
(* with both guards. A correction carries what its service read into the   *)
(* transaction, and goes through up to three transactions; these are steps *)
(* of their own, and so are those of the expiry job. A process may stop    *)
(* between any two.                                                        *)
(***************************************************************************)
EXTENDS IntakePolicies

CONSTANTS
  Callers,          \* requests about corrections that are served at a time
  Staff,            \* accounts that request and approve corrections
  NoOne,            \* no such account
  MaxRequests,      \* information requests of the case
  MaxCorrections,   \* correction operations of the case
  MaxNotes          \* events that change nothing but the ledger

ASSUME NoOneAssumption == NoOne \notin Staff
ASSUME BoundsAssumption ==
  MaxRequests \in Nat /\ MaxCorrections \in Nat /\ MaxNotes \in Nat

VARIABLES
  intakeCase,       \* the row of intake_cases
  ledger,           \* workflow_event_sequence, the latest transition and what was reversed
  requests,         \* the status of each information request
  overdue,          \* the requests whose due date has passed
  operations,       \* the rows of intake_case_reversal_operations
  notes,            \* the number of events that changed nothing but the ledger
  phase,            \* what the case's offering shows, as in OfferingFace
  jobs,             \* the two handoffs: none, queued, or dead after the last retry
  timerList,        \* the requests a run of the expiry job still has to look at
  calls             \* the transaction each caller is about to run

caseVars == <<intakeCase, ledger>>
requestVars == <<requests, overdue>>
correctionVars == <<operations, calls>>
offeringVars == <<phase, jobs>>
vars == <<intakeCase, ledger, requests, overdue, operations, notes, phase, jobs, timerList,
          calls>>

RequestIds == 1..MaxRequests
OperationIds == 1..MaxCorrections

-----------------------------------------------------------------------------
(* The ledger: every event takes the next number of the case's sequence.   *)
(* An event with a stage before and after is a transition; its number is   *)
(* its identity. The event of a correction names the transition it undoes  *)
(* and is not a transition that could be undone itself.                    *)

appendIntakeCaseEvent(n) == [ledger EXCEPT !.sequence = @ + n]

\* A transition to a stage, followed by n events that are none.
AppendTransition(to, n) ==
  [ledger EXCEPT !.sequence = @ + 1 + n, !.id = ledger.sequence + 1, !.to = to]

AppendReversal(event) ==
  [ledger EXCEPT !.sequence = @ + 1, !.reversed = @ \cup {event}]

activeInformationRequest == \E r \in RequestIds : requests[r] = "published"

InFlight == {"requested", "pending_approval", "approved"}

\* loadReversalSnapshot: except is the operation that is being executed, or 0.
Snapshot(except) ==
  [stage |-> intakeCase.stage,
   revision |-> intakeCase.revision,
   approved |-> intakeCase.approvedAt,
   to |-> ledger.to,
   reversed |-> ledger.id \in ledger.reversed,
   active |-> activeInformationRequest,
   phase |-> phase,
   appraisal |-> intakeCase.appraisal,
   inProgress |-> \E o \in OperationIds \ {except} : operations[o].status \in InFlight]

\* What the preview of the corrections offers, and a request for one is checked against.
getReversalActions == evaluateReversalActions(Snapshot(0))

\* The readiness page reads the same rows without a lock.
getOperationsReadiness == evaluateOperationsReadiness(Snapshot(0))

-----------------------------------------------------------------------------
Call == [op : {"idle", "createReversalOperation", "executeReversalOperation"}, id : Nat,
         command : reversalCommands, sequence : Nat, by : Staff \cup {NoOne}]
Idle == [op |-> "idle", id |-> 0, command |-> "return_to_draft", sequence |-> 0, by |-> NoOne]
Jobs == {"open_offering", "structuring"}

NoOperation == [status |-> "none", command |-> "return_to_draft", sequence |-> 0, event |-> 0,
                requester |-> NoOne, approver |-> NoOne]

Init ==
  /\ intakeCase = [stage |-> "none", revision |-> 0, approvedAt |-> FALSE, legal |-> FALSE,
                   appraisal |-> FALSE, legalPractice |-> FALSE, appraisalFirm |-> FALSE]
  /\ ledger = [sequence |-> 0, id |-> 0, to |-> "none", reversed |-> {}]
  /\ requests = [r \in RequestIds |-> "none"]
  /\ overdue = {}
  /\ operations = [o \in OperationIds |-> NoOperation]
  /\ notes = 0
  /\ phase = "none" /\ jobs = [job \in Jobs |-> "none"]
  /\ timerList = {}
  /\ calls = [c \in Callers |-> Idle]

-----------------------------------------------------------------------------
(* Creation and submission, by the applicant or by staff.                  *)

createDraftIntake ==
  /\ intakeCase.stage = "none"
  /\ intakeCase' = [intakeCase EXCEPT !.stage = "draft"]
  /\ ledger' = appendIntakeCaseEvent(1)
  /\ UNCHANGED <<requestVars, correctionVars, notes, offeringVars, timerList>>

CreateDraftIntakeService(application) == evaluateIntakeEntry(application) /\ createDraftIntake

CreateStaffDraftCaseService(application) == MeetsTheMinimum(application) /\ createDraftIntake

\* Created and submitted in one transaction.
createStaffCase ==
  /\ intakeCase.stage = "none"
  /\ intakeCase' = [intakeCase EXCEPT !.stage = "submitted", !.revision = 1]
  /\ ledger' = [ledger EXCEPT !.sequence = @ + 2, !.id = ledger.sequence + 2, !.to = "submitted"]
  /\ UNCHANGED <<requestVars, correctionVars, notes, offeringVars, timerList>>

CreateStaffIntakeCaseService(application) == MeetsTheMinimum(application) /\ createStaffCase

submitInitialCase ==
  /\ intakeCase.stage = "draft" /\ intakeCase.revision = 0
  /\ intakeCase' = [intakeCase EXCEPT !.stage = "submitted", !.revision = 1]
  /\ ledger' = AppendTransition("submitted", 0)
  /\ UNCHANGED <<requestVars, correctionVars, notes, offeringVars, timerList>>

SubmitInitialCaseService ==
  evaluateInitialCaseSubmission(intakeCase.stage, intakeCase.revision) /\ submitInitialCase

\* Staff submit for the applicant; only the transaction decides.
SubmitStaffDraftCaseService == submitInitialCase

-----------------------------------------------------------------------------
(* Information requests.                                                   *)

publishInformationRequest(r) ==
  /\ intakeCase.stage = "submitted" /\ intakeCase.revision # 0
  /\ ~activeInformationRequest
  /\ requests[r] = "none" /\ \A earlier \in 1..(r - 1) : requests[earlier] # "none"
  /\ requests' = [requests EXCEPT ![r] = "published"]
  /\ intakeCase' = [intakeCase EXCEPT !.stage = "waiting_on_applicant"]
  /\ ledger' = AppendTransition("waiting_on_applicant", 0)
  /\ UNCHANGED <<overdue, correctionVars, notes, offeringVars, timerList>>

PublishInformationRequestService(r) ==
  /\ evaluateInformationRequestPublication(intakeCase.stage, intakeCase.revision,
                                           activeInformationRequest)
  /\ publishInformationRequest(r)

\* The case leaves waiting_on_applicant with the request r.
Resolve(r, status, stage) ==
  /\ intakeCase.stage = "waiting_on_applicant" /\ requests[r] = "published"
  /\ requests' = [requests EXCEPT ![r] = status]
  /\ ledger' = AppendTransition(stage, 0)
  /\ UNCHANGED <<overdue, correctionVars, notes, offeringVars>>

\* Mutant: the request stays published.
WithdrawStageOnly(r) ==
  /\ intakeCase.stage = "waiting_on_applicant" /\ requests[r] = "published"
  /\ ledger' = AppendTransition("submitted", 0)
  /\ intakeCase' = [intakeCase EXCEPT !.stage = "submitted"]
  /\ UNCHANGED <<requestVars, correctionVars, notes, offeringVars, timerList>>

withdrawInformationRequest(r) ==
  /\ Resolve(r, "withdrawn", "submitted")
  /\ intakeCase' = [intakeCase EXCEPT !.stage = "submitted"]
  /\ UNCHANGED timerList

WithdrawInformationRequestService(r) ==
  canWithdrawInformationRequest(intakeCase.stage, requests[r]) /\ withdrawInformationRequest(r)

resubmitAfterInformationRequest(r) ==
  /\ intakeCase.revision # 0
  /\ Resolve(r, "answered", "submitted")
  /\ intakeCase' = [intakeCase EXCEPT !.stage = "submitted", !.revision = @ + 1]
  /\ UNCHANGED timerList

RespondToInformationRequestService(r) ==
  /\ evaluateCaseResubmission(intakeCase.stage, intakeCase.revision, requests[r])
  /\ resubmitAfterInformationRequest(r)

\* Mutant: the expiry trusts the list of the job.
ExpireAsListed(r) ==
  /\ requests' = [requests EXCEPT ![r] = "expired"]
  /\ ledger' = AppendTransition("expired", 0)
  /\ intakeCase' = [intakeCase EXCEPT !.stage = "expired"]
  /\ UNCHANGED <<overdue, correctionVars, notes, offeringVars>>

\* Mutant: the case is looked for under review.
ExpireInReview(r) ==
  /\ intakeCase.stage = "submitted" /\ requests[r] = "published"
  /\ requests' = [requests EXCEPT ![r] = "expired"]
  /\ ledger' = AppendTransition("expired", 0)
  /\ intakeCase' = [intakeCase EXCEPT !.stage = "expired"]
  /\ UNCHANGED <<overdue, correctionVars, notes, offeringVars>>

expireInformationRequest(r) ==
  /\ Resolve(r, "expired", "expired")
  /\ intakeCase' = [intakeCase EXCEPT !.stage = "expired"]

getPublishedInformationRequestForTimer(r) == requests[r] = "published"

\* Which error a request in another state, or none at all, is answered with is left out.
resolvePublishedInformationRequestOrThrow(r) == getPublishedInformationRequestForTimer(r)

\* The manual override looks for a published request and not at its due date.
ForceExpireInformationRequestService(r) ==
  /\ resolvePublishedInformationRequestOrThrow(r)
  /\ expireInformationRequest(r)
  /\ UNCHANGED timerList

DueDatePasses(r) ==
  /\ requests[r] = "published" /\ r \notin overdue
  /\ overdue' = overdue \cup {r}
  /\ UNCHANGED <<caseVars, requests, correctionVars, notes, offeringVars, timerList>>

\* The expiry job: its list is of published requests, whatever the case's stage.
TimerStarts ==
  /\ timerList = {}
  /\ timerList' = {r \in overdue : requests[r] = "published"}
  /\ timerList' # {}
  /\ UNCHANGED <<caseVars, requestVars, correctionVars, notes, offeringVars>>

TimerExpires(r) ==
  /\ r \in timerList
  /\ expireInformationRequest(r)
  /\ timerList' = timerList \ {r}

\* expireInformationRequest returns false for r, or the run stops.
TimerSkips(r) ==
  /\ r \in timerList
  /\ timerList' = timerList \ {r}
  /\ UNCHANGED <<caseVars, requestVars, correctionVars, notes, offeringVars>>

-----------------------------------------------------------------------------
(* Review.                                                                 *)

\* The review of a piece of evidence has no guard on the stage.
reviewEvidence ==
  /\ intakeCase.revision # 0 /\ notes < MaxNotes
  /\ ledger' = appendIntakeCaseEvent(1)
  /\ notes' = notes + 1
  /\ UNCHANGED <<intakeCase, requestVars, correctionVars, offeringVars, timerList>>

ReviewEvidenceService == reviewEvidence

\* The job is queued in the transaction that changes the case or the offering.
enqueueTransactionalJob(job) == [jobs EXCEPT ![job] = "queued"]

\* Mutant: the approval queues nothing.
ApproveWithoutHandoff(decision) ==
  /\ intakeCase.stage = "submitted" /\ intakeCase.revision # 0
  /\ intakeCase' = [intakeCase EXCEPT !.stage = "pre_offering_open", !.approvedAt = TRUE]
  /\ ledger' = AppendTransition("pre_offering_open", 1)
  /\ UNCHANGED <<requestVars, correctionVars, notes, offeringVars, timerList>>

\* An approval queues the job that opens the offering, and a second event says so.
recordFounderDecision(decision) ==
  /\ intakeCase.stage = "submitted" /\ intakeCase.revision # 0
  /\ \/ /\ decision = "approve"
        /\ intakeCase' = [intakeCase EXCEPT !.stage = "pre_offering_open", !.approvedAt = TRUE]
        /\ ledger' = AppendTransition("pre_offering_open", 1)
        /\ jobs' = enqueueTransactionalJob("open_offering")
     \/ /\ decision = "reject"
        /\ intakeCase' = [intakeCase EXCEPT !.stage = "rejected"]
        /\ ledger' = AppendTransition("rejected", 0)
        /\ UNCHANGED jobs
  /\ UNCHANGED <<requestVars, correctionVars, notes, phase, timerList>>

RecordFounderDecisionService(decision) ==
  /\ canRecordFounderDecision(intakeCase.stage, intakeCase.revision)
  /\ recordFounderDecision(decision)

\* Neither the offering nor a published request is touched.
closeCase(outcome) ==
  /\ intakeCase.stage \in closableFromStage(outcome)
  /\ intakeCase' = [intakeCase EXCEPT !.stage = outcome]
  /\ ledger' = AppendTransition(outcome, 0)
  /\ UNCHANGED <<requestVars, correctionVars, notes, offeringVars, timerList>>

CloseCaseService(outcome) == canCloseCase(intakeCase.stage, outcome) /\ closeCase(outcome)

-----------------------------------------------------------------------------
(* The offering, as far as the case sees it, and the two handoffs. A job   *)
(* is delivered at least once; one that keeps failing is a dead letter.    *)

Delivered(job) ==
  /\ jobs[job] = "queued"
  /\ \E after \in {"none", "queued"} : jobs' = [jobs EXCEPT ![job] = after]

\* An offering that exists is reused, even a closed one.
openOfferingForApprovedCase ==
  /\ Delivered("open_offering")
  /\ phase' = IF phase = "none" THEN "open" ELSE phase
  /\ UNCHANGED <<caseVars, requestVars, correctionVars, notes, timerList>>

Face == INSTANCE OfferingFace

\* Staff and investors move the offering on. Publishing the final terms queues the handoff.
OfferingMoves ==
  /\ Face!PublishPack \/ Face!DemandMoves \/ Face!PublishTerms \/ Face!Finalize
  /\ jobs' = IF Face!PublishTerms THEN enqueueTransactionalJob("structuring") ELSE jobs
  /\ UNCHANGED <<caseVars, requestVars, correctionVars, notes, timerList>>

transitionToPostIpoStructuring ==
  \/ /\ intakeCase.stage \in {"post_ipo_structuring", "approved_for_final_offering"}
     /\ UNCHANGED caseVars
  \/ /\ intakeCase.stage = "pre_offering_open"
     /\ intakeCase' = [intakeCase EXCEPT !.stage = "post_ipo_structuring"]
     /\ ledger' = AppendTransition("post_ipo_structuring", 0)

TransitionCaseToPostIpoStructuringService ==
  /\ Delivered("structuring")
  /\ transitionToPostIpoStructuring
  /\ UNCHANGED <<requestVars, correctionVars, notes, phase, timerList>>

\* The handoff throws in any other stage, and any job may run out of retries.
HandoffFails(job) ==
  /\ jobs[job] = "queued"
  /\ jobs' = [jobs EXCEPT ![job] = "dead"]
  /\ UNCHANGED <<caseVars, requestVars, correctionVars, notes, phase, timerList>>

\* Mutant: staff may start the structuring of any case with an offering.
RetryAnyHandoff ==
  /\ phase # "none"
  /\ transitionToPostIpoStructuring
  /\ UNCHANGED <<requestVars, correctionVars, notes, offeringVars, timerList>>

RetryPostIpoStructuringHandoffService ==
  /\ TermsPublished(phase)
  /\ transitionToPostIpoStructuring
  /\ UNCHANGED <<requestVars, correctionVars, notes, offeringVars, timerList>>

-----------------------------------------------------------------------------
(* The partners. An assignment may name either organization or both; a     *)
(* second one replaces the organization and changes nothing modelled here. *)

\* The events that changed nothing but the ledger are counted.
Notes(unchanged) ==
  /\ notes' = notes + (IF unchanged THEN 1 ELSE 0)
  /\ notes' <= MaxNotes

assignPartnerOrganization(kinds) ==
  /\ intakeCase.stage \in {"post_ipo_structuring", "approved_for_final_offering"}
  /\ intakeCase' = [intakeCase EXCEPT !.legalPractice = @ \/ "legal" \in kinds,
                                     !.appraisalFirm = @ \/ "appraisal" \in kinds]
  /\ ledger' = appendIntakeCaseEvent(1)
  /\ Notes(intakeCase' = intakeCase)
  /\ UNCHANGED <<requestVars, correctionVars, offeringVars, timerList>>

AssignPartnerOrganizationService(kinds) ==
  canAssignPartnerOrganization(intakeCase.stage) /\ assignPartnerOrganization(kinds)

requirePartnerCaseAssignment(assigned) ==
  assigned /\ intakeCase.stage \in {"post_ipo_structuring", "approved_for_final_offering"}

\* Whoever completes second moves the case on.
Writeback(legal, appraisal) ==
  LET bothComplete == legal /\ appraisal IN
  /\ intakeCase.stage = "post_ipo_structuring"
  /\ intakeCase' = [intakeCase EXCEPT
       !.legal = legal, !.appraisal = appraisal,
       !.stage = IF bothComplete THEN "approved_for_final_offering" ELSE @]
  /\ ledger' = IF bothComplete
               THEN AppendTransition("approved_for_final_offering", 0)
               ELSE appendIntakeCaseEvent(1)
  /\ Notes(intakeCase' = intakeCase)
  /\ UNCHANGED <<requestVars, correctionVars, offeringVars, timerList>>

recordLegalStructuring(markCompleted) ==
  Writeback(intakeCase.legal \/ markCompleted, intakeCase.appraisal)

RecordLegalStructuringService(markCompleted) ==
  /\ requirePartnerCaseAssignment(intakeCase.legalPractice)
  /\ canRecordPartnerWriteback(intakeCase.stage)
  /\ recordLegalStructuring(markCompleted)

recordAppraisal(markCompleted) ==
  Writeback(intakeCase.legal, intakeCase.appraisal \/ markCompleted)

RecordAppraisalService(markCompleted) ==
  /\ requirePartnerCaseAssignment(intakeCase.appraisalFirm)
  /\ canRecordPartnerWriteback(intakeCase.stage)
  /\ recordAppraisal(markCompleted)

-----------------------------------------------------------------------------
(* Corrections.                                                            *)

RequestIntakeReversalService(c, staff, command) ==
  /\ command \in getReversalActions
  /\ calls[c] = Idle
  /\ calls' = [calls EXCEPT ![c] =
       [op |-> "createReversalOperation", id |-> ledger.id, command |-> command,
        sequence |-> ledger.sequence, by |-> staff]]
  /\ UNCHANGED <<caseVars, requestVars, operations, notes, offeringVars, timerList>>

\* The transaction a call was for commits.
Commits(c, op) ==
  /\ calls[c].op = op
  /\ calls' = [calls EXCEPT ![c] = Idle]

Executes(o) == [Idle EXCEPT !.op = "executeReversalOperation", !.id = o]

\* Mutant: only the stage is compared with what the request saw.
StageUnchanged(call) == intakeCase.stage = sourceStage(call.command)

CaseUnchanged(call) ==
  intakeCase.stage = sourceStage(call.command) /\ ledger.sequence = call.sequence

\* The request's own event is counted in the sequence the execution expects. A correction
\* that needs no second person is executed by the same request.
createReversalOperation(c) ==
  LET call == calls[c]
      approval == requiresSecondApproval(call.command) IN
  /\ call.op = "createReversalOperation"
  /\ CaseUnchanged(call)
  /\ \E o \in OperationIds :
       /\ operations[o].status = "none"
       /\ \A earlier \in 1..(o - 1) : operations[earlier].status # "none"
       /\ operations' = [operations EXCEPT ![o] =
            [status |-> IF approval THEN "pending_approval" ELSE "requested",
             command |-> call.command, sequence |-> call.sequence + 1, event |-> call.id,
             requester |-> call.by, approver |-> NoOne]]
       /\ calls' = [calls EXCEPT ![c] = IF approval THEN Idle ELSE Executes(o)]
  /\ ledger' = appendIntakeCaseEvent(1)
  /\ UNCHANGED <<intakeCase, requestVars, notes, offeringVars, timerList>>

\* Mutant: the requester may approve.
ApproveAnyone(staff, o) ==
  /\ operations[o].status = "pending_approval"
  /\ operations' = [operations EXCEPT ![o].status = "approved", ![o].approver = staff]

\* One conditional update, or the repeated approval of the same account.
approveReversalOperation(staff, o) ==
  \/ /\ operations[o].status = "approved" /\ operations[o].approver = staff
     /\ UNCHANGED operations
  \/ /\ operations[o].status = "pending_approval" /\ operations[o].requester # staff
     /\ operations' = [operations EXCEPT ![o] = [@ EXCEPT !.status = "approved",
                                                          !.approver = staff]]

ApproveIntakeReversalService(c, staff, o) ==
  /\ calls[c] = Idle
  /\ approveReversalOperation(staff, o)
  /\ calls' = [calls EXCEPT ![c] = Executes(o)]
  /\ UNCHANGED <<caseVars, requestVars, notes, offeringVars, timerList>>

\* What the execution looks at again under the locks of the case and of the offering.
ReversalApplies(o) ==
  /\ intakeCase.stage = sourceStage(operations[o].command)
  /\ ledger.sequence = operations[o].sequence
  /\ operations[o].command \in evaluateReversalActions(Snapshot(o))

\* There is no executor for withdraw_information_request.
runReversalExecution(c) ==
  LET o == calls[c].id
      command == operations[o].command IN
  /\ Commits(c, "executeReversalOperation")
  /\ operations[o].status \in {"requested", "approved"}
  /\ ReversalApplies(o) /\ command # "withdraw_information_request"
  /\ operations' = [operations EXCEPT ![o].status = "completed"]
  /\ intakeCase' = [intakeCase EXCEPT !.stage = targetStage(command),
                                     !.approvedAt = @ /\ command # "reopen_pre_offering"]
  /\ phase' = IF command = "reopen_pre_offering" THEN "closed" ELSE phase
  /\ ledger' = AppendReversal(operations[o].event)
  /\ UNCHANGED <<requestVars, notes, jobs, timerList>>

\* Mutant: the operation is left executing.
FailLeavesExecuting(c) ==
  /\ Commits(c, "executeReversalOperation")
  /\ operations[calls[c].id].status \in {"requested", "approved"}
  /\ operations' = [operations EXCEPT ![calls[c].id].status = "executing"]
  /\ UNCHANGED <<caseVars, requestVars, notes, offeringVars, timerList>>

\* Anything else, an unexpected error included, ends the operation as failed.
failReversalOperation(c) ==
  /\ Commits(c, "executeReversalOperation")
  /\ operations[calls[c].id].status \in {"requested", "approved"}
  /\ operations' = [operations EXCEPT ![calls[c].id].status = "failed"]
  /\ UNCHANGED <<caseVars, requestVars, notes, offeringVars, timerList>>

\* A refusal, or the process stops before the next transaction.
RequestStops(c) ==
  /\ calls[c] # Idle
  /\ calls' = [calls EXCEPT ![c] = Idle]
  /\ UNCHANGED <<caseVars, requestVars, operations, notes, offeringVars, timerList>>

-----------------------------------------------------------------------------
Decisions == {"approve", "reject"}
Outcomes == {"withdrawn", "rejected"}
Assignments == (SUBSET {"legal", "appraisal"}) \ {{}}

RequestSteps(r) ==
  \/ PublishInformationRequestService(r) \/ WithdrawInformationRequestService(r)
  \/ RespondToInformationRequestService(r) \/ ForceExpireInformationRequestService(r)
  \/ DueDatePasses(r) \/ TimerExpires(r) \/ TimerSkips(r)

ReviewSteps ==
  \/ \E application \in Applications :
       \/ CreateDraftIntakeService(application) \/ CreateStaffDraftCaseService(application)
       \/ CreateStaffIntakeCaseService(application)
  \/ SubmitInitialCaseService \/ SubmitStaffDraftCaseService
  \/ ReviewEvidenceService
  \/ \E decision \in Decisions : RecordFounderDecisionService(decision)
  \/ \E outcome \in Outcomes : CloseCaseService(outcome)

StructuringSteps ==
  \/ TransitionCaseToPostIpoStructuringService \/ RetryPostIpoStructuringHandoffService
  \/ \E kinds \in Assignments : AssignPartnerOrganizationService(kinds)
  \/ \E markCompleted \in BOOLEAN : \/ RecordLegalStructuringService(markCompleted)
                                    \/ RecordAppraisalService(markCompleted)

CorrectionSteps(c) ==
  \/ \E staff \in Staff :
       \/ \E command \in reversalCommands : RequestIntakeReversalService(c, staff, command)
       \/ \E o \in OperationIds : ApproveIntakeReversalService(c, staff, o)
  \/ createReversalOperation(c) \/ runReversalExecution(c) \/ failReversalOperation(c)
  \/ RequestStops(c)

CaseSteps ==
  \/ ReviewSteps
  \/ openOfferingForApprovedCase \/ OfferingMoves
  \/ \E job \in Jobs : HandoffFails(job)
  \/ StructuringSteps

Next ==
  \/ \E r \in RequestIds : RequestSteps(r)
  \/ TimerStarts
  \/ CaseSteps
  \/ \E c \in Callers : CorrectionSteps(c)

Spec == Init /\ [][Next]_vars

\* The expiry job is scheduled again and again, and not every run of it is interrupted
\* before it reaches a given request. The queue delivers a job until it is done or a dead
\* letter. Nobody has to send a request.
Fairness ==
  /\ WF_vars(TimerStarts)
  /\ \A r \in RequestIds : SF_vars(TimerExpires(r))
  /\ WF_vars(openOfferingForApprovedCase)
  /\ WF_vars(TransitionCaseToPostIpoStructuringService)

FairSpec == Spec /\ Fairness

-----------------------------------------------------------------------------
(* Properties.                                                             *)

OperationStatuses == InFlight \cup {"none", "completed", "failed"}

\* The state stays within the values the columns hold.
TypeOK ==
  /\ intakeCase \in [stage : Stages, revision : Nat, approvedAt : BOOLEAN, legal : BOOLEAN,
                     appraisal : BOOLEAN, legalPractice : BOOLEAN, appraisalFirm : BOOLEAN]
  /\ ledger \in [sequence : Nat, id : Nat, to : Stages, reversed : SUBSET Nat]
  /\ requests \in [RequestIds -> RequestStatuses]
  /\ overdue \in SUBSET RequestIds
  /\ operations \in [OperationIds ->
       [status : OperationStatuses, command : reversalCommands, sequence : Nat, event : Nat,
        requester : Staff \cup {NoOne}, approver : Staff \cup {NoOne}]]
  /\ notes \in Nat
  /\ phase \in Face!Phases
  /\ jobs \in [Jobs -> {"none", "queued", "dead"}]
  /\ timerList \in SUBSET RequestIds
  /\ calls \in [Callers -> Call]

\* However many requests for a correction race, a case never has two corrections under way:
\* createReversalOperation does not look for another operation under its lock, only at the
\* sequence, which every other request has moved.
OneCorrectionInFlight ==
  \A o1, o2 \in OperationIds :
    operations[o1].status \in InFlight /\ operations[o2].status \in InFlight => o1 = o2

\* A correction that is carried out undoes the latest transition of the case, which nothing
\* undid before and nothing followed, in the stage it was requested in; a correction that
\* needs a second person has one who is not its requester; and a case only returns to review
\* from its offering while nobody can have seen that offering.
CorrectionsUndoTheLatest ==
  [][\A o \in OperationIds :
       operations[o].status # "completed" /\ operations'[o].status = "completed" =>
         /\ operations[o].event = ledger.id /\ ledger.id \notin ledger.reversed
         /\ ledger.to = intakeCase.stage
         /\ ledger.sequence = operations[o].sequence
         /\ requiresSecondApproval(operations[o].command) =>
              operations[o].approver \notin {NoOne, operations[o].requester}
         /\ phase' # phase => ~OfferingEngaged(phase) /\ jobs["structuring"] = "none"
    ]_vars

\* A case waits for its applicant exactly while one of its requests is published; a case that
\* was withdrawn may keep one. No two requests are ever published together.
RequestsMatchTheStage ==
  /\ intakeCase.stage = "waiting_on_applicant" => activeInformationRequest
  /\ activeInformationRequest => intakeCase.stage \in {"waiting_on_applicant", "withdrawn"}
  /\ \A r1, r2 \in RequestIds :
       requests[r1] = "published" /\ requests[r2] = "published" => r1 = r2

\* A case is structured only after the final terms of its offering are published, and is
\* approved for the final offering exactly when both partners, each assigned to it, completed
\* their work. No correction brings it back from there.
StructuringIsEarned ==
  /\ intakeCase.stage \in {"post_ipo_structuring", "approved_for_final_offering"} =>
       TermsPublished(phase)
  /\ intakeCase.stage = "post_ipo_structuring" => ~(intakeCase.legal /\ intakeCase.appraisal)
  /\ intakeCase.stage = "approved_for_final_offering" =>
       intakeCase.legal /\ intakeCase.appraisal
  /\ intakeCase.legal => intakeCase.legalPractice
  /\ intakeCase.appraisal => intakeCase.appraisalFirm
  /\ getReversalActions \cap {"reopen_structuring", "reopen_final_offering_review"} = {}

\* What the readiness page offers is what the transactions would accept in the same state:
\* each of these actions is offered if and only if the guard of its transaction holds.
ReadinessMatchesTheCase ==
  LET offered == getOperationsReadiness IN
  /\ "request_information" \in offered <=>
       intakeCase.stage = "submitted" /\ intakeCase.revision # 0 /\ ~activeInformationRequest
  /\ "record_founder_decision" \in offered <=>
       intakeCase.stage = "submitted" /\ intakeCase.revision # 0
  /\ "assign_partner" \in offered <=> canAssignPartnerOrganization(intakeCase.stage)
  /\ "publish_final_offering_terms" \in offered => phase = "ready"
  /\ "retry_post_ipo_handoff" \in offered => intakeCase.stage = "pre_offering_open"

\* What this module lets the offering do, and what the case does to it, is what OfferingFace
\* allows: in particular a correction closes only an offering that nobody can have seen.
ImplementsFace == Face!FaceSpec

\* A published request whose due date has passed does not keep its case waiting.
OverdueRequestsEnd ==
  []<>(\A r \in overdue : requests[r] # "published" \/ intakeCase.stage # "waiting_on_applicant")

\* An approved case gets its offering, and a case whose final terms are published goes on to
\* structuring unless it was closed, or the job is on record as a dead letter.
HandoffsAreDone ==
  []<>(/\ intakeCase.approvedAt => phase # "none" \/ jobs["open_offering"] = "dead"
       /\ TermsPublished(phase) =>
            \/ intakeCase.stage \in {"post_ipo_structuring", "approved_for_final_offering"}
            \/ intakeCase.stage \in terminalStages
            \/ jobs["structuring"] = "dead")
=============================================================================
