--------------------------- MODULE IntakePolicies ---------------------------
(***************************************************************************)
(* The decisions of the intake domain as functions of what was read: which *)
(* operation a case allows in its stage, which correction, and what the    *)
(* readiness page offers to staff. A service asks them with what it read   *)
(* without a lock; the transactions of Intake decide again under the       *)
(* case's lock.                                                            *)
(***************************************************************************)
EXTENDS Naturals, FiniteSets

Stages == {"none", "draft", "submitted", "waiting_on_applicant", "pre_offering_open",
           "post_ipo_structuring", "approved_for_final_offering",
           "rejected", "withdrawn", "expired"}
terminalStages == {"rejected", "withdrawn", "expired"}
RequestStatuses == {"none", "published", "answered", "withdrawn", "expired"}

\* What an application states and what is on record of its applicant; the value is compared
\* with the minimum of the platform's settings, which is 1 here.
Applications ==
  [kyc : {"not_started", "eligible"}, addressCurrent : BOOLEAN, termsAccepted : BOOLEAN,
   oneTitle : BOOLEAN, residential : BOOLEAN, value : 0..2]
minimumPropertyValueEur == 1

evaluateIntakeEntry(application) ==
  /\ application.kyc = "eligible" /\ application.addressCurrent
  /\ application.termsAccepted /\ application.oneTitle /\ application.residential
  /\ application.value >= minimumPropertyValueEur

\* Staff vouch for the rest.
MeetsTheMinimum(application) == application.value >= minimumPropertyValueEur

\* A revision number of 0 is a case without a current submission revision.
evaluateInitialCaseSubmission(stage, revision) == stage = "draft" /\ revision = 0

evaluateCaseResubmission(stage, revision, status) ==
  stage = "waiting_on_applicant" /\ revision # 0 /\ status = "published"

evaluateInformationRequestPublication(stage, revision, active) ==
  stage = "submitted" /\ revision # 0 /\ ~active

canWithdrawInformationRequest(stage, status) ==
  stage = "waiting_on_applicant" /\ status = "published"

canRecordFounderDecision(stage, revision) == stage = "submitted" /\ revision # 0

closableFromStage(outcome) ==
  IF outcome = "withdrawn"
  THEN {"draft", "submitted", "waiting_on_applicant", "pre_offering_open"}
  ELSE {"pre_offering_open"}

canCloseCase(stage, outcome) == stage \in closableFromStage(outcome)

canAssignPartnerOrganization(stage) ==
  stage \in {"post_ipo_structuring", "approved_for_final_offering"}

canRecordPartnerWriteback(stage) == stage = "post_ipo_structuring"

-----------------------------------------------------------------------------
(* Corrections. A snapshot s holds the case's stage, its latest transition *)
(* and whether that was reversed, the published request, the offering, the *)
(* appraisal, and whether another correction is in flight.                 *)

reversalCommands == {"return_to_draft", "withdraw_information_request", "reopen_pre_offering",
                     "reopen_structuring", "reopen_final_offering_review"}

\* The stage a command is offered in.
sourceStage(command) ==
  CASE command = "return_to_draft" -> "submitted"
    [] command = "withdraw_information_request" -> "waiting_on_applicant"
    [] command = "reopen_pre_offering" -> "pre_offering_open"
    [] command = "reopen_structuring" -> "post_ipo_structuring"
    [] command = "reopen_final_offering_review" -> "approved_for_final_offering"

targetStage(command) ==
  CASE command = "return_to_draft" -> "draft"
    [] command = "withdraw_information_request" -> "submitted"
    [] command = "reopen_pre_offering" -> "submitted"
    [] command = "reopen_structuring" -> "pre_offering_open"
    [] command = "reopen_final_offering_review" -> "post_ipo_structuring"

requiresSecondApproval(command) ==
  command \notin {"return_to_draft", "withdraw_information_request"}

\* finalOfferingPublishedAt is set.
TermsPublished(phase) == phase \in {"terms", "final"}

\* Mutant: a disclosure pack does not block the correction.
PackDoesNotEngage(phase) == TermsPublished(phase)

\* The blockers of reopen_pre_offering: reservations, funding, a disclosure pack, final
\* terms. Open reconfirmations and finalized reservations only exist with final terms.
OfferingEngaged(phase) == phase \in {"engaged", "ready"} \/ TermsPublished(phase)

\* What else a command needs. No code ever writes legal_execution_event_refs, so
\* legal_execution_completed blocks nothing.
HasNoBlocker(s, command) ==
  CASE command = "return_to_draft" -> s.to = "submitted" /\ ~s.active /\ s.phase = "none"
    [] command = "withdraw_information_request" -> s.active
    [] command = "reopen_pre_offering" -> s.phase # "none" /\ ~OfferingEngaged(s.phase)
    [] command = "reopen_structuring" -> ~TermsPublished(s.phase) /\ ~s.appraisal
    [] command = "reopen_final_offering_review" -> ~TermsPublished(s.phase)

evaluateReversalActions(s) ==
  IF s.inProgress \/ s.reversed \/ s.stage \in terminalStages
  THEN {}
  ELSE {command \in reversalCommands : s.stage = sourceStage(command) /\ HasNoBlocker(s, command)}

-----------------------------------------------------------------------------
(* The readiness page: what it offers is what applies in the stage and no  *)
(* blocker forbids. Warnings block nothing.                                *)

handoffPending(s) == s.stage = "pre_offering_open" /\ TermsPublished(s.phase)

BlockedActions(s) ==
  UNION {
    IF s.revision = 0 THEN {"record_founder_decision", "request_information"} ELSE {},
    IF ~s.approved \/ s.phase = "none" \/ TermsPublished(s.phase)
      THEN {"publish_disclosure_pack", "publish_final_offering_terms"} ELSE {},
    IF s.phase # "ready" THEN {"publish_final_offering_terms"} ELSE {},
    IF handoffPending(s) THEN {"assign_partner"} ELSE {}}

ApplicableActions(s) ==
  UNION {
    {"review_evidence"},
    IF s.stage = "submitted" /\ s.revision # 0
      THEN {"request_information", "record_founder_decision"} ELSE {},
    IF canAssignPartnerOrganization(s.stage) THEN {"assign_partner"} ELSE {},
    IF s.phase \in {"open", "engaged", "ready", "terms"}
      THEN {"publish_disclosure_pack", "publish_final_offering_terms"} ELSE {},
    IF handoffPending(s) THEN {"retry_post_ipo_handoff"} ELSE {},
    IF canCloseCase(s.stage, "withdrawn") THEN {"close_case"} ELSE {}}

\* A terminal stage blocks every action.
evaluateOperationsReadiness(s) ==
  IF s.stage \in terminalStages THEN {} ELSE ApplicableActions(s) \ BlockedActions(s)
=============================================================================
