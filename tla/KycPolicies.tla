----------------------------- MODULE KycPolicies -----------------------------
(***************************************************************************)
(* What the identity module concludes from an answer of the verification   *)
(* provider (Didit): the eligibility state and operational substatus of    *)
(* the baseline check, and the status of the owner's proof of address.     *)
(* The operators are pure; Kyc applies them to the account's row.          *)
(*                                                                         *)
(* A decision is a record of sets of checked features.  A feature says     *)
(* whether the provider approved it and which risks its warnings name; an  *)
(* identity also carries a date of birth, an AML screening whether it has  *)
(* hits, a proof of address its issue date and whether its country is the  *)
(* customer's.  Dates are natural numbers, and NoDate is null.             *)
(***************************************************************************)
EXTENDS Integers, FiniteSetsExt

CONSTANTS
  SupportedCountries, \* the countries the platform serves
  ReviewedMonths,     \* renewal interval after a manual review (12 months)
  CleanMonths,        \* renewal interval otherwise (24 months)
  FreshMonths,        \* how long a proof of address stays current (3 months)
  AdultYears          \* the age of majority (18 years)

ASSUME PeriodsAssumption ==
  /\ ReviewedMonths \in Nat \ {0} /\ CleanMonths \in Nat \ {0}
  /\ FreshMonths \in Nat \ {0} /\ AdultYears \in Nat

NoDate == 0

(* No decision concludes what a decision without features does.            *)
NoDecision == [id |-> {}, liveness |-> {}, face |-> {}, aml |-> {}, poa |-> {}]

DiditStatuses ==
  {"Not Started", "In Progress", "In Review", "Approved", "Declined", "Resubmitted",
   "Expired", "Abandoned", "Kyc Expired", "Awaiting User", "unknown"}

EligibilityStates ==
  {"not_started", "in_progress", "pending_manual_review", "eligible",
   "unsupported_jurisdiction", "not_eligible", "requires_renewal"}

Substatuses ==
  {"kyc_not_started", "kyc_session_creating", "kyc_session_creation_failed",
   "kyc_session_open", "kyc_pending", "kyc_resubmission_pending", "kyc_manual_review",
   "kyc_verified", "kyc_verified_owner_poa_missing", "kyc_jurisdiction_blocked",
   "kyc_failed", "kyc_restart_required", "kyc_reverification_required",
   "kyc_integration_anomaly"}

ProofOfAddressStatuses ==
  {"not_started", "creating", "creation_failed", "in_progress", "pending_manual_review",
   "current", "insufficient", "expired", "restart_required", "integration_anomaly"}

-----------------------------------------------------------------------------
(* The reason an outcome is recorded with, as far as it decides one.       *)

manualReviewReasons ==
  {"ID_DOCUMENT_TAMPER_SUSPECTED", "BIOMETRIC_FACE_MISMATCH", "AML_SANCTIONS_HIT",
   "AML_PEP_REVIEW", "AML_ADVERSE_MEDIA_REVIEW"}

warningReasonFromFeatures(features, fallback) ==
  LET risks == UNION {f.risks : f \in features}
  IN IF "SANCTION" \in risks THEN "AML_SANCTIONS_HIT"
     ELSE IF "ADVERSE" \in risks THEN "AML_ADVERSE_MEDIA_REVIEW"
     ELSE IF "PEP" \in risks THEN "AML_PEP_REVIEW"
     ELSE IF "TAMPER" \in risks THEN "ID_DOCUMENT_TAMPER_SUSPECTED"
     ELSE IF "FACE" \in risks THEN "BIOMETRIC_FACE_MISMATCH"
     ELSE IF "LIVENESS" \in risks THEN "BIOMETRIC_LIVENESS_FAIL"
     ELSE IF "EXPIRED" \in risks THEN "ID_DOCUMENT_EXPIRED"
     ELSE fallback

warningReason(decision, fallback) ==
  warningReasonFromFeatures(decision.id \cup decision.liveness \cup decision.face
                              \cup decision.aml, fallback)

-----------------------------------------------------------------------------
(* The baseline outcome.                                                   *)

outcome(state, substatus) == [state |-> state, substatus |-> substatus]

ReviewedOr(state, substatus, reason) ==
  IF reason \in manualReviewReasons
  THEN outcome("pending_manual_review", "kyc_manual_review")
  ELSE outcome(state, substatus)

isAdult(dateOfBirth, at) == dateOfBirth + AdultYears <= at

Approves(features) == \A f \in features : f.ok

evaluateApproved(decision, declared, at) ==
  LET anomaly == outcome("pending_manual_review", "kyc_integration_anomaly")
      failed  == outcome("not_eligible", "kyc_failed")
      review  == outcome("pending_manual_review", "kyc_manual_review")
      births  == {f.dateOfBirth : f \in decision.id} \ {NoDate}
  IN IF ~({declared.residence, declared.tax} \subseteq SupportedCountries)
     THEN outcome("unsupported_jurisdiction", "kyc_jurisdiction_blocked")
     ELSE IF {} \in {decision.id, decision.liveness, decision.face, decision.aml} THEN anomaly
     ELSE IF ~Approves(decision.id)
     THEN LET failure == CHOOSE f \in decision.id : ~f.ok
          IN ReviewedOr("not_eligible", "kyc_failed",
                        warningReasonFromFeatures({failure}, "ID_DOCUMENT_INVALID"))
     ELSE IF ~Approves(decision.liveness) THEN failed
     ELSE IF ~Approves(decision.face) \/ ~Approves(decision.aml) THEN review
     ELSE IF \E f \in decision.aml : f.hits THEN review
     ELSE IF births = {} THEN anomaly
     ELSE IF \E b \in births : ~isAdult(b, at) THEN failed
     ELSE outcome("eligible", "kyc_verified_owner_poa_missing")

evaluateStatusOutcome(status, decision, declared, at) ==
  CASE status = "Not Started" -> outcome("not_started", "kyc_session_open")
    [] status = "In Progress" -> outcome("in_progress", "kyc_pending")
    [] status = "Resubmitted" -> outcome("in_progress", "kyc_resubmission_pending")
    [] status = "In Review"   -> outcome("pending_manual_review", "kyc_manual_review")
    [] status \in {"Expired", "Abandoned"} -> outcome("not_started", "kyc_restart_required")
    [] status = "Kyc Expired" -> outcome("requires_renewal", "kyc_reverification_required")
    [] status \in {"Awaiting User", "unknown"} ->
         outcome("pending_manual_review", "kyc_integration_anomaly")
    [] status = "Declined" ->
         ReviewedOr("not_eligible", "kyc_failed", warningReason(decision, "ID_DOCUMENT_INVALID"))
    [] status = "Approved" -> evaluateApproved(decision, declared, at)

(* The renewal interval depends on whether the customer was ever under     *)
(* manual review, as the caller's last read of the row has it.             *)
evaluateDiditOutcome(status, decision, declared, ever, at) ==
  LET base     == evaluateStatusOutcome(status, decision, declared, at)
      reviewed == ever \/ base.substatus = "kyc_manual_review"
  IN [state     |-> base.state,
      substatus |-> base.substatus,
      reviewed  |-> reviewed,
      due       |-> IF base.state = "eligible"
                    THEN at + (IF reviewed THEN ReviewedMonths ELSE CleanMonths)
                    ELSE NoDate]

isRenewalOverdue(due, now) == due < now

-----------------------------------------------------------------------------
(* The owner's proof of address.                                           *)

evaluateApprovedProofOfAddress(decision, residence, at) ==
  LET documents == decision.poa
      status(s) == [status |-> s, currentUntil |-> NoDate]
      until     == Min({d.issued + FreshMonths : d \in documents})
  IN IF documents = {} THEN status("integration_anomaly")
     ELSE IF \E d \in documents : ~d.ok \/ d.risks # {} THEN status("pending_manual_review")
     ELSE IF \E d \in documents : d.issued = NoDate \/ d.issued > at \/ d.country # residence
     THEN status("pending_manual_review")
     ELSE IF until <= at THEN status("expired")
     ELSE [status |-> "current", currentUntil |-> until]

evaluateProofOfAddressOutcome(status, decision, residence, at) ==
  IF status = "Approved" THEN evaluateApprovedProofOfAddress(decision, residence, at)
  ELSE [status |->
          CASE status \in {"Not Started", "In Progress", "Resubmitted"} -> "in_progress"
            [] status = "In Review" -> "pending_manual_review"
            [] status = "Declined" -> "insufficient"
            [] status \in {"Expired", "Abandoned", "Kyc Expired"} -> "restart_required"
            [] status \in {"Awaiting User", "unknown"} -> "integration_anomaly",
        currentUntil |-> NoDate]

=============================================================================
