---------------------------- MODULE IntakeProofs ----------------------------
(***************************************************************************)
(* For every number of requests, corrections and callers: the stage of a   *)
(* case agrees with its information requests, with its offering and with   *)
(* the work of the partners; no two corrections of it are under way, and   *)
(* the one that is carried out undoes the latest transition.               *)
(*                                                                         *)
(* A request for a correction acts on what it read.  The invariant says    *)
(* what that still implies while the sequence of the ledger is the one it  *)
(* read: createReversalOperation and runReversalExecution compare nothing  *)
(* but the sequence and the stage.                                         *)
(***************************************************************************)
EXTENDS Intake, TLAPS

Structured(stage) == stage \in {"post_ipo_structuring", "approved_for_final_offering"}

\* The latest transition led to the case's stage, unless it was undone.
EventsAgree ==
  \/ intakeCase.stage \in {"none", "draft"}
  \/ ledger.id \in ledger.reversed
  \/ ledger.to = intakeCase.stage

\* A request that read the ledger as it is now also read the latest transition as it is now,
\* and there is still no correction under way. An execution is of an operation on record.
CallIsCurrent(c) ==
  /\ calls[c].op = "createReversalOperation" =>
       /\ calls[c].sequence <= ledger.sequence
       /\ calls[c].sequence = ledger.sequence =>
            /\ calls[c].id = ledger.id
            /\ \A o \in OperationIds : operations[o].status \notin InFlight
  /\ calls[c].op = "executeReversalOperation" => calls[c].id \in OperationIds

\* An operation that nothing followed undoes the latest transition, and one that is carried
\* out has the approval it needs.
OperationIsCurrent(o) ==
  /\ operations[o].status \in InFlight =>
       /\ operations[o].sequence <= ledger.sequence
       /\ operations[o].sequence = ledger.sequence => operations[o].event = ledger.id
  /\ operations[o].status = "requested" => ~requiresSecondApproval(operations[o].command)
  /\ operations[o].status = "approved" =>
       operations[o].approver \notin {NoOne, operations[o].requester}

CorrectionInv ==
  /\ \A c \in Callers : CallIsCurrent(c)
  /\ \A o \in OperationIds : OperationIsCurrent(o)
  /\ OneCorrectionInFlight

\* The handoff is queued with the final terms, and the partners work on a case only while it
\* is structured.
StructuringInv ==
  /\ jobs["structuring"] # "none" => TermsPublished(phase)
  /\ Structured(intakeCase.stage) => TermsPublished(phase)
  /\ ~Structured(intakeCase.stage) => ~intakeCase.legal /\ ~intakeCase.appraisal
  /\ intakeCase.stage = "post_ipo_structuring" => ~(intakeCase.legal /\ intakeCase.appraisal)
  /\ intakeCase.stage = "approved_for_final_offering" =>
       intakeCase.legal /\ intakeCase.appraisal
  /\ intakeCase.legal => intakeCase.legalPractice
  /\ intakeCase.appraisal => intakeCase.appraisalFirm

IInv == TypeOK /\ EventsAgree /\ CorrectionInv /\ RequestsMatchTheStage /\ StructuringInv

-----------------------------------------------------------------------------
(* What a step may do to the case and its ledger.                          *)

CaseRow == [stage : Stages, revision : Nat, approvedAt : BOOLEAN, legal : BOOLEAN,
            appraisal : BOOLEAN, legalPractice : BOOLEAN, appraisalFirm : BOOLEAN]
LedgerRow == [sequence : Nat, id : Nat, to : Stages, reversed : SUBSET Nat]

\* An event that is no transition.
Noted(l) ==
  /\ l \in LedgerRow /\ l.sequence > ledger.sequence
  /\ l.id = ledger.id /\ l.to = ledger.to /\ l.reversed = ledger.reversed

Transition(l, to) == l \in LedgerRow /\ l.sequence > ledger.sequence /\ l.to = to

\* The steps that are no corrections.
CaseEffect ==
  /\ intakeCase' \in CaseRow
  /\ UNCHANGED correctionVars
  /\ \/ UNCHANGED <<ledger>> /\ intakeCase' = intakeCase
     \/ Noted(ledger') /\ intakeCase'.stage = intakeCase.stage
     \/ Noted(ledger') /\ intakeCase'.stage = "draft"
     \/ Transition(ledger', intakeCase'.stage)

\* The steps that have nothing to do with the structuring.
LeavesStructuring ==
  /\ intakeCase'.legal = intakeCase.legal /\ intakeCase'.appraisal = intakeCase.appraisal
  /\ intakeCase'.legalPractice = intakeCase.legalPractice
  /\ intakeCase'.appraisalFirm = intakeCase.appraisalFirm
  /\ \/ intakeCase'.stage = intakeCase.stage
     \/ ~Structured(intakeCase.stage) /\ ~Structured(intakeCase'.stage)
  /\ phase' = phase /\ jobs'["structuring"] = jobs["structuring"]

\* The steps that have nothing to do with the information requests.
LeavesRequests ==
  /\ UNCHANGED requestVars
  /\ \/ intakeCase'.stage = intakeCase.stage
     \/ intakeCase'.stage = "withdrawn"
     \/ /\ intakeCase.stage \notin {"waiting_on_applicant", "withdrawn"}
        /\ intakeCase'.stage # "waiting_on_applicant"

\* The two ways of writing to the ledger.
LEMMA Appends ==
  ASSUME ledger \in LedgerRow, NEW stage \in Stages, NEW n \in Nat
  PROVE  /\ Noted(appendIntakeCaseEvent(n + 1))
         /\ Transition(AppendTransition(stage, n), stage)
<1>1. /\ ledger.sequence + (n + 1) \in Nat /\ ledger.sequence + 1 + n \in Nat
      /\ ledger.sequence + 1 \in Nat
  BY SMT DEF LedgerRow
<1>2. appendIntakeCaseEvent(n + 1) \in LedgerRow /\ AppendTransition(stage, n) \in LedgerRow
  BY Zenon, <1>1 DEF LedgerRow, appendIntakeCaseEvent, AppendTransition
<1>3. Noted(appendIntakeCaseEvent(n + 1))
  BY SMT, <1>2 DEF Noted, LedgerRow, appendIntakeCaseEvent
<1>4. /\ AppendTransition(stage, n).sequence > ledger.sequence
      /\ AppendTransition(stage, n).to = stage
  BY SMT DEF LedgerRow, AppendTransition
<1> QED
  BY Zenon, <1>2, <1>3, <1>4 DEF Transition

\* What TypeOK says of the rest of the state.
OtherTypes ==
  /\ requests \in [RequestIds -> RequestStatuses] /\ overdue \in SUBSET RequestIds
  /\ operations \in [OperationIds ->
       [status : OperationStatuses, command : reversalCommands, sequence : Nat, event : Nat,
        requester : Staff \cup {NoOne}, approver : Staff \cup {NoOne}]]
  /\ notes \in Nat /\ phase \in Face!Phases /\ jobs \in [Jobs -> {"none", "queued", "dead"}]
  /\ timerList \in SUBSET RequestIds /\ calls \in [Callers -> Call]

LEMMA Types == TypeOK <=> intakeCase \in CaseRow /\ ledger \in LedgerRow /\ OtherTypes
BY Zenon DEF TypeOK, CaseRow, LedgerRow, OtherTypes

LEMMA TypesNext == intakeCase' \in CaseRow /\ ledger' \in LedgerRow /\ OtherTypes' => TypeOK'
BY Zenon DEF TypeOK, CaseRow, LedgerRow, OtherTypes

\* A step that moves the case to a stage.
Moves(stage) ==
  /\ intakeCase' \in CaseRow /\ intakeCase'.stage = stage
  /\ intakeCase'.legal = intakeCase.legal /\ intakeCase'.appraisal = intakeCase.appraisal
  /\ intakeCase'.legalPractice = intakeCase.legalPractice
  /\ intakeCase'.appraisalFirm = intakeCase.appraisalFirm

LEMMA StageMoves ==
  ASSUME intakeCase \in CaseRow, NEW stage \in Stages, NEW revision \in Nat, NEW approved \in BOOLEAN,
         \/ intakeCase' = [intakeCase EXCEPT !.stage = stage]
         \/ intakeCase' = [intakeCase EXCEPT !.stage = stage, !.revision = revision]
         \/ intakeCase' = [intakeCase EXCEPT !.stage = stage, !.approvedAt = approved]
  PROVE  Moves(stage)
<1>1. CASE intakeCase' = [intakeCase EXCEPT !.stage = stage]
  <2>1. intakeCase' \in CaseRow
    BY Zenon, <1>1 DEF CaseRow
  <2> QED
    BY SMT, <1>1, <2>1 DEF CaseRow, Moves
<1>2. CASE intakeCase' = [intakeCase EXCEPT !.stage = stage, !.revision = revision]
  <2>1. intakeCase' \in CaseRow
    BY Zenon, <1>2 DEF CaseRow
  <2> QED
    BY SMT, <1>2, <2>1 DEF CaseRow, Moves
<1>3. CASE intakeCase' = [intakeCase EXCEPT !.stage = stage, !.approvedAt = approved]
  <2>1. intakeCase' \in CaseRow
    BY Zenon, <1>3 DEF CaseRow
  <2> QED
    BY SMT, <1>3, <2>1 DEF CaseRow, Moves
<1> QED
  BY Zenon, <1>1, <1>2, <1>3

-----------------------------------------------------------------------------
(* The steps that are no corrections.                                      *)

\* A step of the review moves the case outside the structuring and without its requests.
LEMMA ReviewMoves ==
  ASSUME TypeOK, NEW stage \in Stages, Moves(stage), Transition(ledger', stage),
         UNCHANGED <<requestVars, correctionVars, phase, timerList>>, notes' \in Nat,
         jobs' \in [Jobs -> {"none", "queued", "dead"}], jobs'["structuring"] = jobs["structuring"],
         ~Structured(intakeCase.stage), ~Structured(stage),
         \/ stage = "withdrawn"
         \/ /\ intakeCase.stage \notin {"waiting_on_applicant", "withdrawn"}
            /\ stage # "waiting_on_applicant"
  PROVE  TypeOK' /\ CaseEffect /\ LeavesRequests /\ LeavesStructuring
<1>1. OtherTypes
  BY Zenon, Types
<1>2. OtherTypes'
  BY Zenon, <1>1 DEF OtherTypes, requestVars, correctionVars
<1>3. TypeOK'
  BY Zenon, <1>2, TypesNext DEF Moves, Transition
<1> QED
  BY Zenon, <1>3 DEF CaseEffect, LeavesRequests, LeavesStructuring, Moves

\* The review: every step of the applicant, the staff and the founder before an offering,
\* and the closing of a case.
LEMMA ReviewEffects ==
  ASSUME TypeOK, ReviewSteps
  PROVE  TypeOK' /\ CaseEffect /\ LeavesRequests /\ LeavesStructuring
<1> USE DEF offeringVars
<1>0. /\ intakeCase \in CaseRow /\ ledger \in LedgerRow
      /\ notes \in Nat /\ jobs \in [Jobs -> {"none", "queued", "dead"}] /\ OtherTypes
  BY Zenon, Types DEF OtherTypes
<1>n. 0 \in Nat /\ 1 \in Nat /\ 0 + 1 = 1
  BY SMT
<1>1. CASE createDraftIntake
  <2>1. Noted(ledger')
    BY Zenon, <1>0, <1>1, <1>n, Appends DEF createDraftIntake, Stages
  <2>2. Moves("draft")
    BY Zenon, <1>0, <1>1, <1>n, StageMoves DEF createDraftIntake, Stages
  <2>3. OtherTypes'
    BY Zenon, <1>0, <1>1 DEF createDraftIntake, OtherTypes, requestVars, correctionVars
  <2>4. TypeOK'
    BY Zenon, <2>1, <2>2, <2>3, TypesNext DEF Noted, Moves
  <2>5. ~Structured(intakeCase.stage) /\ ~Structured("draft")
    BY SMT, <1>1 DEF createDraftIntake, Structured
  <2> QED
    BY Zenon, <1>1, <2>1, <2>2, <2>4, <2>5
       DEF createDraftIntake, CaseEffect, LeavesRequests, LeavesStructuring, Moves
<1>2. CASE createStaffCase \/ submitInitialCase
  <2>1. Moves("submitted")
    BY Zenon, <1>0, <1>2, <1>n, StageMoves DEF createStaffCase, submitInitialCase, Stages
  <2>2. Transition(ledger', "submitted")
    <3>1. CASE createStaffCase
      <4>1. ledger.sequence + 2 \in Nat /\ ledger.sequence + 2 > ledger.sequence
        BY SMT, <1>0 DEF LedgerRow
      <4>2. ledger' \in LedgerRow
        BY Zenon, <1>0, <3>1, <4>1 DEF LedgerRow, createStaffCase, Stages
      <4> QED
        BY SMT, <1>0, <3>1, <4>1, <4>2 DEF LedgerRow, createStaffCase, Transition
    <3>2. CASE submitInitialCase
      BY Zenon, <1>0, <1>n, <3>2, Appends DEF submitInitialCase, Stages
    <3> QED
      BY Zenon, <1>2, <3>1, <3>2
  <2>3. /\ UNCHANGED <<requestVars, correctionVars, notes, offeringVars, timerList>>
        /\ intakeCase.stage \in {"none", "draft"}
    BY Zenon, <1>2 DEF createStaffCase, submitInitialCase
  <2>4. /\ ~Structured(intakeCase.stage) /\ ~Structured("submitted") /\ "submitted" \in Stages
        /\ intakeCase.stage \notin {"waiting_on_applicant", "withdrawn"}
        /\ "submitted" # "waiting_on_applicant"
    BY SMT, <2>3 DEF Structured, Stages
  <2> QED
    BY Zenon, <1>0, <2>1, <2>2, <2>3, <2>4, ReviewMoves
<1>3. CASE reviewEvidence
  <2>1. notes' \in Nat
    BY SMT, <1>0, <1>3 DEF reviewEvidence
  <2>2. Noted(ledger') /\ UNCHANGED <<intakeCase, requestVars, correctionVars, offeringVars, timerList>>
    BY Zenon, <1>0, <1>3, <1>n, Appends DEF reviewEvidence, Stages
  <2>3. OtherTypes'
    BY Zenon, <1>0, <2>1, <2>2 DEF OtherTypes, requestVars, correctionVars
  <2>4. TypeOK'
    BY Zenon, <1>0, <2>2, <2>3, TypesNext DEF Noted
  <2> QED
    BY Zenon, <1>0, <2>2, <2>4 DEF CaseEffect, LeavesRequests, LeavesStructuring
<1>4. ASSUME NEW decision \in Decisions, recordFounderDecision(decision)
      PROVE  TypeOK' /\ CaseEffect /\ LeavesRequests /\ LeavesStructuring
  <2>0. /\ intakeCase.stage = "submitted"
        /\ UNCHANGED <<requestVars, correctionVars, notes, phase, timerList>>
    BY Zenon, <1>4 DEF recordFounderDecision
  <2>1. PICK stage \in {"pre_offering_open", "rejected"} :
           /\ Moves(stage) /\ Transition(ledger', stage)
           /\ jobs' \in [Jobs -> {"none", "queued", "dead"}]
           /\ jobs'["structuring"] = jobs["structuring"]
    <3>1. CASE decision = "approve"
      <4>0. /\ intakeCase' = [intakeCase EXCEPT !.stage = "pre_offering_open", !.approvedAt = TRUE]
            /\ ledger' = AppendTransition("pre_offering_open", 1)
        BY Zenon, <1>4, <3>1 DEF recordFounderDecision
      <4>1. Moves("pre_offering_open")
        BY Zenon, <1>0, <1>n, <4>0, StageMoves DEF Stages
      <4>2. Transition(ledger', "pre_offering_open")
        BY Zenon, <1>0, <1>n, <4>0, Appends DEF Stages
      <4>3. jobs' = [jobs EXCEPT !["open_offering"] = "queued"]
        BY Zenon, <1>4, <3>1 DEF recordFounderDecision, enqueueTransactionalJob
      <4>4. /\ jobs' \in [Jobs -> {"none", "queued", "dead"}]
            /\ jobs'["structuring"] = jobs["structuring"]
        BY SMT, <1>0, <4>3 DEF Jobs
      <4> QED
        BY Zenon, <4>1, <4>2, <4>4
    <3>2. CASE decision # "approve"
      <4>1. /\ intakeCase' = [intakeCase EXCEPT !.stage = "rejected"]
            /\ ledger' = AppendTransition("rejected", 0) /\ jobs' = jobs
        BY Zenon, <1>4, <3>2 DEF recordFounderDecision
      <4>2. Moves("rejected")
        BY Zenon, <1>0, <1>n, <4>1, StageMoves DEF Stages
      <4>3. Transition(ledger', "rejected")
        BY Zenon, <1>0, <1>n, <4>1, Appends DEF Stages
      <4> QED
        BY Zenon, <1>0, <4>1, <4>2, <4>3
    <3> QED
      BY Zenon, <3>1, <3>2
  <2>2. /\ ~Structured(intakeCase.stage) /\ ~Structured(stage) /\ stage \in Stages
        /\ intakeCase.stage \notin {"waiting_on_applicant", "withdrawn"}
        /\ stage # "waiting_on_applicant"
    BY SMT, <2>0 DEF Structured, Stages
  <2> QED
    BY Zenon, <1>0, <2>0, <2>1, <2>2, ReviewMoves
<1>5. ASSUME NEW outcome \in Outcomes, closeCase(outcome)
      PROVE  TypeOK' /\ CaseEffect /\ LeavesRequests /\ LeavesStructuring
  <2>1. outcome \in Stages /\ ~Structured(outcome) /\ ~Structured(intakeCase.stage)
    BY SMT, <1>5 DEF Outcomes, Stages, Structured, closeCase, closableFromStage
  <2>2. \/ outcome = "withdrawn"
        \/ /\ intakeCase.stage \notin {"waiting_on_applicant", "withdrawn"}
           /\ outcome # "waiting_on_applicant"
    BY SMT, <1>5 DEF Outcomes, closeCase, closableFromStage
  <2>3. Moves(outcome)
    BY Zenon, <1>0, <1>5, <1>n, <2>1, StageMoves DEF closeCase
  <2>4. Transition(ledger', outcome)
    BY Zenon, <1>0, <1>5, <1>n, <2>1, Appends DEF closeCase
  <2> QED
    BY Zenon, <1>0, <1>5, <2>1, <2>2, <2>3, <2>4, ReviewMoves DEF closeCase
<1> QED
  BY Zenon, <1>1, <1>2, <1>3, <1>4, <1>5
     DEF ReviewSteps, CreateDraftIntakeService, CreateStaffDraftCaseService,
         CreateStaffIntakeCaseService, SubmitInitialCaseService, SubmitStaffDraftCaseService,
         ReviewEvidenceService, RecordFounderDecisionService, CloseCaseService

\* The offering's own steps, its opening, and the failure of a handoff.
OfferingSteps == openOfferingForApprovedCase \/ OfferingMoves \/ \E job \in Jobs : HandoffFails(job)

\* They leave the case alone; final terms stay published, and their handoff comes with them.
LEMMA OfferingEffects ==
  ASSUME TypeOK, StructuringInv, OfferingSteps
  PROVE  TypeOK' /\ CaseEffect /\ LeavesRequests /\ StructuringInv'
<1>0. /\ intakeCase \in CaseRow /\ ledger \in LedgerRow /\ OtherTypes
      /\ jobs \in [Jobs -> {"none", "queued", "dead"}] /\ phase \in Face!Phases
  BY Zenon, Types DEF OtherTypes
<1>1. UNCHANGED <<caseVars, requestVars, correctionVars, notes, timerList>>
  BY Zenon DEF OfferingSteps, openOfferingForApprovedCase, OfferingMoves, HandoffFails
<1>2. /\ phase' \in Face!Phases /\ jobs' \in [Jobs -> {"none", "queued", "dead"}]
      /\ TermsPublished(phase) => TermsPublished(phase')
      /\ jobs'["structuring"] # "none" => TermsPublished(phase')
  <2>0. jobs["structuring"] # "none" => TermsPublished(phase)
    BY Zenon DEF StructuringInv
  <2>1. CASE openOfferingForApprovedCase
    BY SMT, <1>0, <2>0, <2>1
       DEF openOfferingForApprovedCase, Delivered, Jobs, TermsPublished, Face!Phases
  <2>2. CASE OfferingMoves
    <3>1. CASE Face!PublishTerms
      BY SMT, <1>0, <2>0, <2>2, <3>1
         DEF OfferingMoves, enqueueTransactionalJob, Jobs, TermsPublished, Face!Phases,
             Face!PublishTerms
    <3>2. CASE ~Face!PublishTerms
      <4>1. jobs' = jobs /\ (Face!PublishPack \/ Face!DemandMoves \/ Face!Finalize)
        BY Zenon, <2>2, <3>2 DEF OfferingMoves
      <4> QED
        BY SMT, <1>0, <2>0, <4>1
           DEF TermsPublished, Face!Phases, Face!PublishPack, Face!DemandMoves, Face!Finalize
    <3> QED
      BY Zenon, <3>1, <3>2
  <2>3. ASSUME NEW job \in Jobs, HandoffFails(job)
        PROVE  /\ phase' \in Face!Phases /\ jobs' \in [Jobs -> {"none", "queued", "dead"}]
               /\ TermsPublished(phase) => TermsPublished(phase')
               /\ jobs'["structuring"] # "none" => TermsPublished(phase')
    BY SMT, <1>0, <2>0, <2>3 DEF HandoffFails, Jobs, TermsPublished
  <2> QED
    BY Zenon, <2>1, <2>2, <2>3 DEF OfferingSteps
<1>3. OtherTypes'
  BY Zenon, <1>0, <1>1, <1>2 DEF OtherTypes, requestVars, correctionVars
<1>4. TypeOK'
  BY Zenon, <1>0, <1>1, <1>3, TypesNext DEF caseVars
<1>5. intakeCase' = intakeCase /\ StructuringInv'
  BY Zenon, <1>1, <1>2 DEF StructuringInv, caseVars
<1> QED
  BY Zenon, <1>0, <1>1, <1>4, <1>5 DEF CaseEffect, LeavesRequests, caseVars

\* The structuring: the case enters it with its final terms published, and leaves it for the
\* final offering with the work of both partners.
LEMMA StructuringEffects ==
  ASSUME TypeOK, StructuringInv, StructuringSteps
  PROVE  TypeOK' /\ CaseEffect /\ LeavesRequests /\ StructuringInv'
<1> USE DEF offeringVars
<1>0. /\ intakeCase \in CaseRow /\ ledger \in LedgerRow /\ OtherTypes
      /\ jobs \in [Jobs -> {"none", "queued", "dead"}] /\ phase \in Face!Phases
      /\ notes \in Nat
  BY Zenon, Types DEF OtherTypes
<1>n. 0 \in Nat /\ 1 \in Nat /\ 0 + 1 = 1
  BY SMT
<1>1. ASSUME transitionToPostIpoStructuring, TermsPublished(phase),
             UNCHANGED <<requestVars, correctionVars, notes, phase, timerList>>,
             jobs' \in [Jobs -> {"none", "queued", "dead"}]
      PROVE  TypeOK' /\ CaseEffect /\ LeavesRequests /\ StructuringInv'
  <2>1. OtherTypes'
    BY Zenon, <1>0, <1>1 DEF OtherTypes, requestVars, correctionVars
  <2>2. CASE UNCHANGED caseVars
    <3>1. TypeOK'
      BY Zenon, <1>0, <2>1, <2>2, TypesNext DEF caseVars
    <3>2. StructuringInv'
      BY Zenon, <1>1, <2>2 DEF StructuringInv, caseVars
    <3> QED
      BY Zenon, <1>0, <1>1, <2>2, <3>1, <3>2 DEF CaseEffect, LeavesRequests, caseVars
  <2>3. CASE intakeCase.stage = "pre_offering_open" /\ ~UNCHANGED caseVars
    <3>0. /\ intakeCase' = [intakeCase EXCEPT !.stage = "post_ipo_structuring"]
          /\ ledger' = AppendTransition("post_ipo_structuring", 0)
      BY Zenon, <1>1, <2>3 DEF transitionToPostIpoStructuring
    <3>1. Moves("post_ipo_structuring")
      BY Zenon, <1>0, <1>n, <3>0, StageMoves DEF Stages
    <3>2. Transition(ledger', "post_ipo_structuring")
      BY Zenon, <1>0, <1>n, <3>0, Appends DEF Stages
    <3>3. TypeOK'
      BY Zenon, <2>1, <3>1, <3>2, TypesNext DEF Moves, Transition
    <3>4. ~intakeCase.legal /\ ~intakeCase.appraisal
      BY SMT, <2>3 DEF StructuringInv, Structured
    <3>5. StructuringInv'
      BY SMT, <1>1, <3>1, <3>4 DEF StructuringInv, Structured, Moves
    <3> QED
      BY Zenon, <1>1, <2>3, <3>1, <3>2, <3>3, <3>5 DEF CaseEffect, LeavesRequests, Moves
  <2> QED
    BY Zenon, <1>1, <2>2, <2>3 DEF transitionToPostIpoStructuring
<1>2. CASE TransitionCaseToPostIpoStructuringService
  <2>1. /\ jobs["structuring"] = "queued"
        /\ jobs' \in [Jobs -> {"none", "queued", "dead"}]
    BY SMT, <1>0, <1>2 DEF TransitionCaseToPostIpoStructuringService, Delivered, Jobs
  <2>2. TermsPublished(phase)
    BY SMT, <2>1 DEF StructuringInv
  <2> QED
    BY Zenon, <1>1, <1>2, <2>1, <2>2 DEF TransitionCaseToPostIpoStructuringService
<1>3. CASE RetryPostIpoStructuringHandoffService
  BY Zenon, <1>0, <1>1, <1>3 DEF RetryPostIpoStructuringHandoffService

<1>4. ASSUME NEW kinds \in Assignments, assignPartnerOrganization(kinds)
      PROVE  TypeOK' /\ CaseEffect /\ LeavesRequests /\ StructuringInv'
  <2> DEFINE legalPractice == intakeCase.legalPractice \/ "legal" \in kinds
             appraisalFirm == intakeCase.appraisalFirm \/ "appraisal" \in kinds
  <2>0. legalPractice \in BOOLEAN /\ appraisalFirm \in BOOLEAN
    BY Zenon
  <2>a. intakeCase' = [intakeCase EXCEPT !.legalPractice = legalPractice,
                                         !.appraisalFirm = appraisalFirm]
    BY Zenon, <1>4 DEF assignPartnerOrganization
  <2>b. /\ intakeCase.legalPractice => legalPractice
        /\ intakeCase.appraisalFirm => appraisalFirm
    BY Zenon
  <2> HIDE DEF legalPractice, appraisalFirm
  <2>1. intakeCase' \in CaseRow
    BY Zenon, <1>0, <2>0, <2>a DEF CaseRow
  <2>2. /\ intakeCase'.stage = intakeCase.stage
        /\ intakeCase'.legal = intakeCase.legal /\ intakeCase'.appraisal = intakeCase.appraisal
        /\ intakeCase'.legalPractice = legalPractice /\ intakeCase'.appraisalFirm = appraisalFirm
    BY SMT, <1>0, <2>a DEF CaseRow
  <2>3. notes' \in Nat /\ UNCHANGED <<requestVars, correctionVars, offeringVars, timerList>>
    BY SMT, <1>0, <1>4 DEF assignPartnerOrganization, Notes
  <2>4. Noted(ledger')
    BY Zenon, <1>0, <1>4, <1>n, Appends DEF assignPartnerOrganization, Stages
  <2>5. OtherTypes'
    BY Zenon, <1>0, <2>3 DEF OtherTypes, requestVars, correctionVars
  <2>6. TypeOK'
    BY Zenon, <2>1, <2>4, <2>5, TypesNext DEF Noted
  <2>7. StructuringInv'
    BY Zenon, <2>b, <2>2, <2>3 DEF StructuringInv
  <2> QED
    BY Zenon, <2>1, <2>2, <2>3, <2>4, <2>6, <2>7 DEF CaseEffect, LeavesRequests
<1>5. ASSUME NEW legal \in BOOLEAN, NEW appraisal \in BOOLEAN, Writeback(legal, appraisal),
             legal => intakeCase.legalPractice, appraisal => intakeCase.appraisalFirm
      PROVE  TypeOK' /\ CaseEffect /\ LeavesRequests /\ StructuringInv'
  <2> DEFINE stage == IF legal /\ appraisal THEN "approved_for_final_offering"
                      ELSE intakeCase.stage
  <2>0. intakeCase.stage = "post_ipo_structuring" /\ stage \in Stages
    BY SMT, <1>5 DEF Writeback, Stages
  <2>a. intakeCase' = [intakeCase EXCEPT !.legal = legal, !.appraisal = appraisal,
                                         !.stage = stage]
    BY Zenon, <1>5 DEF Writeback
  <2>1. notes' \in Nat /\ UNCHANGED <<requestVars, correctionVars, offeringVars, timerList>>
    BY SMT, <1>0, <1>5 DEF Writeback, Notes
  <2>2. \/ legal /\ appraisal /\ stage = "approved_for_final_offering"
           /\ Transition(ledger', "approved_for_final_offering")
        \/ ~(legal /\ appraisal) /\ stage = intakeCase.stage /\ Noted(ledger')
    BY Zenon, <1>0, <1>5, <1>n, Appends DEF Writeback, Stages
  <2> HIDE DEF stage
  <2>3. intakeCase' \in CaseRow
    BY Zenon, <1>0, <2>0, <2>a DEF CaseRow
  <2>4. /\ intakeCase'.stage = stage /\ intakeCase'.legal = legal
        /\ intakeCase'.appraisal = appraisal
        /\ intakeCase'.legalPractice = intakeCase.legalPractice
        /\ intakeCase'.appraisalFirm = intakeCase.appraisalFirm
    BY SMT, <1>0, <2>a DEF CaseRow
  <2>5. OtherTypes'
    BY Zenon, <1>0, <2>1 DEF OtherTypes, requestVars, correctionVars
  <2>6. TypeOK'
    BY Zenon, <2>2, <2>3, <2>5, TypesNext DEF Noted, Transition
  <2>7. TermsPublished(phase)
    BY SMT, <2>0 DEF StructuringInv, Structured
  <2>8. phase' = phase /\ jobs' = jobs
    BY Zenon, <2>1
  <2>9. StructuringInv'
    BY SMT, <1>5, <2>0, <2>2, <2>4, <2>7, <2>8 DEF StructuringInv, Structured
  <2>10. /\ intakeCase.stage \notin {"waiting_on_applicant", "withdrawn"}
         /\ intakeCase'.stage # "waiting_on_applicant"
    BY SMT, <2>0, <2>2, <2>4
  <2> QED
    BY Zenon, <2>1, <2>2, <2>3, <2>4, <2>6, <2>9, <2>10 DEF CaseEffect, LeavesRequests
<1>6. ASSUME NEW markCompleted \in BOOLEAN, RecordLegalStructuringService(markCompleted)
      PROVE  TypeOK' /\ CaseEffect /\ LeavesRequests /\ StructuringInv'
  <2>1. /\ (intakeCase.legal \/ markCompleted) \in BOOLEAN /\ intakeCase.appraisal \in BOOLEAN
        /\ intakeCase.appraisal => intakeCase.appraisalFirm
    BY Zenon, <1>0 DEF CaseRow, StructuringInv
  <2> QED
    BY Zenon, <1>5, <1>6, <2>1
       DEF RecordLegalStructuringService, recordLegalStructuring, requirePartnerCaseAssignment
<1>7. ASSUME NEW markCompleted \in BOOLEAN, RecordAppraisalService(markCompleted)
      PROVE  TypeOK' /\ CaseEffect /\ LeavesRequests /\ StructuringInv'
  <2>1. /\ (intakeCase.appraisal \/ markCompleted) \in BOOLEAN /\ intakeCase.legal \in BOOLEAN
        /\ intakeCase.legal => intakeCase.legalPractice
    BY Zenon, <1>0 DEF CaseRow, StructuringInv
  <2> QED
    BY Zenon, <1>5, <1>7, <2>1
       DEF RecordAppraisalService, recordAppraisal, requirePartnerCaseAssignment
<1> QED
  BY Zenon, <1>2, <1>3, <1>4, <1>6, <1>7 DEF StructuringSteps, AssignPartnerOrganizationService

\* The information requests: the case enters and leaves waiting_on_applicant with one.
LEMMA RequestEffects ==
  ASSUME TypeOK, RequestsMatchTheStage, NEW r \in RequestIds, RequestSteps(r)
  PROVE  TypeOK' /\ CaseEffect /\ RequestsMatchTheStage' /\ LeavesStructuring
<1> USE DEF offeringVars
<1>0. /\ intakeCase \in CaseRow /\ ledger \in LedgerRow /\ OtherTypes
      /\ requests \in [RequestIds -> RequestStatuses] /\ overdue \in SUBSET RequestIds
      /\ timerList \in SUBSET RequestIds
  BY Zenon, Types DEF OtherTypes
<1>n. 0 \in Nat /\ 1 \in Nat /\ 0 + 1 = 1 /\ intakeCase.revision + 1 \in Nat
  BY SMT, <1>0 DEF CaseRow
<1>a. ASSUME NEW stage \in Stages, Moves(stage), ledger' = AppendTransition(stage, 0),
             NEW status \in RequestStatuses, requests' = [requests EXCEPT ![r] = status],
             ~Structured(intakeCase.stage), ~Structured(stage),
             UNCHANGED <<overdue, correctionVars, notes, offeringVars>>,
             timerList' \in SUBSET RequestIds
      PROVE  TypeOK' /\ CaseEffect /\ LeavesStructuring
  <2>1. Transition(ledger', stage)
    BY Zenon, <1>0, <1>n, <1>a, Appends
  <2>2. requests' \in [RequestIds -> RequestStatuses]
    BY Zenon, <1>0, <1>a
  <2>3. OtherTypes'
    BY Zenon, <1>0, <1>a, <2>2 DEF OtherTypes, correctionVars
  <2>4. TypeOK'
    BY Zenon, <1>a, <2>1, <2>3, TypesNext DEF Moves, Transition
  <2> QED
    BY Zenon, <1>a, <2>1, <2>4 DEF CaseEffect, LeavesStructuring, Moves
<1>b. ASSUME UNCHANGED <<caseVars, requests, correctionVars, notes, offeringVars>>,
             overdue' \in SUBSET RequestIds, timerList' \in SUBSET RequestIds
      PROVE  TypeOK' /\ CaseEffect /\ RequestsMatchTheStage' /\ LeavesStructuring
  <2>1. OtherTypes'
    BY Zenon, <1>0, <1>b DEF OtherTypes, correctionVars
  <2>2. TypeOK'
    BY Zenon, <1>0, <1>b, <2>1, TypesNext DEF caseVars
  <2>3. RequestsMatchTheStage'
    BY Zenon, <1>b DEF RequestsMatchTheStage, activeInformationRequest, caseVars
  <2> QED
    BY Zenon, <1>0, <1>b, <2>2, <2>3 DEF CaseEffect, LeavesStructuring, caseVars
<1>c. ASSUME NEW status \in {"answered", "withdrawn", "expired"},
             NEW stage \in {"submitted", "expired"}, Resolve(r, status, stage),
             Moves(stage), timerList' \in SUBSET RequestIds
      PROVE  TypeOK' /\ CaseEffect /\ RequestsMatchTheStage' /\ LeavesStructuring
  <2>1. /\ stage \in Stages /\ status \in RequestStatuses /\ status # "published"
        /\ ~Structured(stage) /\ stage # "waiting_on_applicant"
    BY SMT DEF Stages, RequestStatuses, Structured
  <2>2. ~Structured(intakeCase.stage)
    BY SMT, <1>c DEF Resolve, Structured
  <2>3. TypeOK' /\ CaseEffect /\ LeavesStructuring
    BY Zenon, <1>a, <1>c, <2>1, <2>2 DEF Resolve
  <2>4. \A q \in RequestIds : requests'[q] # "published"
    <3> SUFFICES ASSUME NEW q \in RequestIds PROVE requests'[q] # "published"
      BY Zenon
    <3>1. requests[r] = "published" /\ requests' = [requests EXCEPT ![r] = status]
      BY Zenon, <1>c DEF Resolve
    <3>2. requests[q] = "published" => q = r
      BY Zenon, <3>1 DEF RequestsMatchTheStage
    <3> QED
      BY Zenon, <1>0, <2>1, <3>1, <3>2
  <2>5. RequestsMatchTheStage'
    BY Zenon, <1>c, <2>1, <2>4 DEF RequestsMatchTheStage, activeInformationRequest, Moves
  <2> QED
    BY Zenon, <2>3, <2>5
<1>1. CASE PublishInformationRequestService(r)
  <2>0. /\ intakeCase.stage = "submitted" /\ ~activeInformationRequest
        /\ requests' = [requests EXCEPT ![r] = "published"]
        /\ intakeCase' = [intakeCase EXCEPT !.stage = "waiting_on_applicant"]
        /\ ledger' = AppendTransition("waiting_on_applicant", 0)
        /\ UNCHANGED <<overdue, correctionVars, notes, offeringVars, timerList>>
    BY Zenon, <1>1 DEF PublishInformationRequestService, publishInformationRequest
  <2>1. /\ "waiting_on_applicant" \in Stages /\ "published" \in RequestStatuses
        /\ ~Structured("waiting_on_applicant") /\ ~Structured(intakeCase.stage)
    BY SMT, <2>0 DEF Stages, RequestStatuses, Structured
  <2>2. Moves("waiting_on_applicant")
    BY Zenon, <1>0, <1>n, <2>0, <2>1, StageMoves
  <2>3. TypeOK' /\ CaseEffect /\ LeavesStructuring
    BY Zenon, <1>0, <1>a, <2>0, <2>1, <2>2
  <2>4. \A q \in RequestIds : requests'[q] = "published" <=> q = r
    BY Zenon, <1>0, <2>0 DEF activeInformationRequest
  <2>5. RequestsMatchTheStage'
    BY Zenon, <2>2, <2>4 DEF RequestsMatchTheStage, activeInformationRequest, Moves
  <2> QED
    BY Zenon, <2>3, <2>5
<1>2. CASE WithdrawInformationRequestService(r)
  <2>1. /\ Resolve(r, "withdrawn", "submitted") /\ timerList' = timerList
        /\ intakeCase' = [intakeCase EXCEPT !.stage = "submitted"]
    BY Zenon, <1>2 DEF WithdrawInformationRequestService, withdrawInformationRequest
  <2>2. Moves("submitted")
    BY Zenon, <1>0, <1>n, <2>1, StageMoves DEF Stages
  <2> QED
    BY Zenon, <1>0, <1>c, <2>1, <2>2
<1>3. CASE RespondToInformationRequestService(r)
  <2>1. /\ Resolve(r, "answered", "submitted") /\ timerList' = timerList
        /\ intakeCase' = [intakeCase EXCEPT !.stage = "submitted", !.revision = @ + 1]
    BY Zenon, <1>3 DEF RespondToInformationRequestService, resubmitAfterInformationRequest
  <2>2. Moves("submitted")
    BY Zenon, <1>0, <1>n, <2>1, StageMoves DEF Stages
  <2> QED
    BY Zenon, <1>0, <1>c, <2>1, <2>2
<1>4. CASE ForceExpireInformationRequestService(r) \/ TimerExpires(r)
  <2>1. /\ Resolve(r, "expired", "expired") /\ timerList' \in SUBSET RequestIds
        /\ intakeCase' = [intakeCase EXCEPT !.stage = "expired"]
    BY Zenon, <1>0, <1>4
       DEF ForceExpireInformationRequestService, TimerExpires, expireInformationRequest
  <2>2. Moves("expired")
    BY Zenon, <1>0, <1>n, <2>1, StageMoves DEF Stages
  <2> QED
    BY Zenon, <1>c, <2>1, <2>2
<1>5. CASE DueDatePasses(r) \/ TimerSkips(r)
  <2>1. /\ UNCHANGED <<caseVars, requests, correctionVars, notes, offeringVars>>
        /\ overdue' \in SUBSET RequestIds /\ timerList' \in SUBSET RequestIds
    BY Zenon, <1>0, <1>5 DEF DueDatePasses, TimerSkips, requestVars
  <2> QED
    BY Zenon, <1>b, <2>1
<1> QED
  BY Zenon, <1>1, <1>2, <1>3, <1>4, <1>5 DEF RequestSteps

\* A run of the expiry job reads its list and changes nothing.
LEMMA TimerEffects ==
  ASSUME TypeOK, TimerStarts
  PROVE  TypeOK' /\ CaseEffect /\ LeavesRequests /\ LeavesStructuring
<1>0. /\ intakeCase \in CaseRow /\ ledger \in LedgerRow /\ OtherTypes
      /\ overdue \in SUBSET RequestIds
  BY Zenon, Types DEF OtherTypes
<1>1. timerList' \in SUBSET RequestIds
  BY Zenon, <1>0 DEF TimerStarts
<1>2. OtherTypes'
  BY Zenon, <1>0, <1>1 DEF OtherTypes, TimerStarts, correctionVars, requestVars, offeringVars
<1>3. TypeOK'
  BY Zenon, <1>0, <1>2, TypesNext DEF TimerStarts, caseVars
<1> QED
  BY Zenon, <1>0, <1>3
     DEF TimerStarts, CaseEffect, LeavesRequests, LeavesStructuring, caseVars, offeringVars

\* A step without a correction keeps what the corrections rely on: it leaves the ledger's
\* sequence and everything else alone, or it moves the sequence on.
LEMMA EffectsKeepCorrections ==
  ASSUME TypeOK, TypeOK', EventsAgree, CorrectionInv, CaseEffect
  PROVE  EventsAgree' /\ CorrectionInv'
<1>0. /\ ledger \in LedgerRow /\ ledger' \in LedgerRow
      /\ calls \in [Callers -> Call]
      /\ operations' = operations /\ calls' = calls
      /\ \A c \in Callers : calls[c].sequence \in Nat
      /\ \A o \in OperationIds : operations[o].sequence \in Nat
  BY SMT DEF TypeOK, LedgerRow, Call, CaseEffect, correctionVars
<1>1. CASE UNCHANGED <<ledger>> /\ intakeCase' = intakeCase
  BY Zenon, <1>0, <1>1
     DEF EventsAgree, CorrectionInv, CallIsCurrent, OperationIsCurrent, OneCorrectionInFlight
<1>2. CASE ledger'.sequence > ledger.sequence
  <2>1. ASSUME NEW c \in Callers PROVE CallIsCurrent(c)'
    <3>1. CallIsCurrent(c) /\ calls[c].sequence \in Nat
      BY Zenon, <1>0 DEF CorrectionInv
    <3> QED
      BY SMT, <1>0, <1>2, <3>1 DEF CallIsCurrent, LedgerRow
  <2>2. ASSUME NEW o \in OperationIds PROVE OperationIsCurrent(o)'
    <3>1. OperationIsCurrent(o) /\ operations[o].sequence \in Nat
      BY Zenon, <1>0 DEF CorrectionInv
    <3> QED
      BY SMT, <1>0, <1>2, <3>1 DEF OperationIsCurrent, LedgerRow
  <2>3. OneCorrectionInFlight'
    BY Zenon, <1>0 DEF CorrectionInv, OneCorrectionInFlight
  <2>4. EventsAgree'
    <3>1. \/ UNCHANGED <<ledger>>
          \/ Noted(ledger') /\ intakeCase'.stage = intakeCase.stage
          \/ intakeCase'.stage = "draft"
          \/ ledger'.to = intakeCase'.stage
      BY Zenon DEF CaseEffect, Transition
    <3>2. ~UNCHANGED <<ledger>>
      BY SMT, <1>0, <1>2 DEF LedgerRow
    <3> QED
      BY Zenon, <3>1, <3>2 DEF EventsAgree, Noted
  <2> QED
    BY Zenon, <2>1, <2>2, <2>3, <2>4 DEF CorrectionInv
<1> QED
  BY Zenon, <1>1, <1>2 DEF CaseEffect, Noted, Transition

\* The parts of the invariant that a step has nothing to do with.
LEMMA EffectsKeepTheRest ==
  ASSUME TypeOK, TypeOK'
  PROVE  /\ RequestsMatchTheStage /\ LeavesRequests => RequestsMatchTheStage'
         /\ StructuringInv /\ LeavesStructuring => StructuringInv'
<1>1. ASSUME RequestsMatchTheStage, LeavesRequests PROVE RequestsMatchTheStage'
  <2>1. requests' = requests
    BY Zenon, <1>1 DEF LeavesRequests, requestVars
  <2>2. \/ intakeCase'.stage = intakeCase.stage
        \/ intakeCase'.stage = "withdrawn" /\ "withdrawn" # "waiting_on_applicant"
        \/ /\ intakeCase.stage \notin {"waiting_on_applicant", "withdrawn"}
           /\ intakeCase'.stage # "waiting_on_applicant"
    BY SMT, <1>1 DEF LeavesRequests
  <2> QED
    BY Zenon, <1>1, <2>1, <2>2 DEF RequestsMatchTheStage, activeInformationRequest
<1>2. ASSUME StructuringInv, LeavesStructuring PROVE StructuringInv'
  <2>1. intakeCase.stage \notin {"post_ipo_structuring", "approved_for_final_offering"}
          <=> ~Structured(intakeCase.stage)
    BY Zenon DEF Structured
  <2> QED
    BY SMT, <1>2 DEF StructuringInv, LeavesStructuring, Structured
<1> QED
  BY Zenon, <1>1, <1>2

-----------------------------------------------------------------------------
(* The corrections.                                                        *)

OperationRow == [status : OperationStatuses, command : reversalCommands, sequence : Nat,
                 event : Nat, requester : Staff \cup {NoOne}, approver : Staff \cup {NoOne}]

\* The types that the corrections work with.
LEMMA CorrectionTypes ==
  ASSUME TypeOK
  PROVE  /\ intakeCase \in CaseRow /\ ledger \in LedgerRow
         /\ operations \in [OperationIds -> OperationRow] /\ calls \in [Callers -> Call]
         /\ phase \in Face!Phases
BY Zenon DEF TypeOK, CaseRow, LedgerRow, OperationRow

\* The two calls that are no request.
LEMMA CallValues ==
  ASSUME NEW o \in Nat
  PROVE  /\ Idle \in Call /\ Idle.op = "idle" /\ Executes(o) \in Call
         /\ Executes(o).op = "executeReversalOperation" /\ Executes(o).id = o
<1>1. Idle \in Call /\ Idle.op = "idle"
  BY SMT DEF Idle, Call, reversalCommands
<1>2. Executes(o) \in Call
  BY Zenon, <1>1 DEF Executes, Call
<1>3. Executes(o).op = "executeReversalOperation" /\ Executes(o).id = o
  BY SMT, <1>1 DEF Executes, Call
<1> QED
  BY Zenon, <1>1, <1>2, <1>3

\* A step of a correction that is not its execution leaves the case alone.
LEMMA CaseStays ==
  ASSUME IInv, UNCHANGED <<intakeCase, requestVars, notes, offeringVars, timerList>>,
         ledger' = ledger \/ Noted(ledger'),
         operations' \in [OperationIds -> OperationRow], calls' \in [Callers -> Call]
  PROVE  TypeOK' /\ EventsAgree' /\ RequestsMatchTheStage' /\ StructuringInv'
<1>0. /\ intakeCase \in CaseRow /\ ledger \in LedgerRow /\ OtherTypes
  BY Zenon, Types DEF IInv
<1>1. TypeOK'
  <2>1. OtherTypes'
    BY Zenon, <1>0 DEF OtherTypes, OperationRow, requestVars, offeringVars
  <2> QED
    BY Zenon, <1>0, <2>1, TypesNext DEF Noted
<1>2. EventsAgree'
  BY Zenon DEF IInv, EventsAgree, Noted
<1>3. RequestsMatchTheStage'
  BY Zenon DEF IInv, RequestsMatchTheStage, activeInformationRequest, requestVars
<1>4. StructuringInv'
  BY Zenon DEF IInv, StructuringInv, offeringVars
<1> QED
  BY Zenon, <1>1, <1>2, <1>3, <1>4

\* A call that stays, ends or goes on to an execution is still current after a step that moves
\* the sequence, or that starts no correction.
LEMMA CallsKeep ==
  ASSUME IInv, TypeOK', NEW d \in Callers,
         \/ calls'[d] = calls[d] \/ calls'[d] = Idle
         \/ \E o \in OperationIds : calls'[d] = Executes(o),
         \/ ledger'.sequence > ledger.sequence
         \/ /\ ledger' = ledger
            /\ \A o \in OperationIds :
                 operations'[o].status \in InFlight => operations[o].status \in InFlight
  PROVE  CallIsCurrent(d)'
<1>0. /\ ledger.sequence \in Nat /\ ledger'.sequence \in Nat /\ calls[d].sequence \in Nat
      /\ CallIsCurrent(d)
  BY SMT DEF IInv, TypeOK, Call, CorrectionInv
<1>1. CASE calls'[d] = Idle
  <2>1. calls'[d].op = "idle"
    BY Zenon, <1>1, CallValues, 0 \in Nat
  <2> QED
    BY SMT, <2>1 DEF CallIsCurrent
<1>2. CASE \E o \in OperationIds : calls'[d] = Executes(o)
  <2>1. PICK o \in OperationIds : calls'[d] = Executes(o)
    BY Zenon, <1>2
  <2>2. calls'[d].op = "executeReversalOperation" /\ calls'[d].id = o
    <3>1. o \in Nat
      BY SMT DEF OperationIds
    <3> QED
      BY Zenon, <2>1, <3>1, CallValues
  <2>3. OperationIds' = OperationIds
    BY Zenon DEF OperationIds
  <2> QED
    BY SMT, <2>2, <2>3 DEF CallIsCurrent
<1>3. CASE calls'[d] = calls[d]
  <2>1. CASE ledger'.sequence > ledger.sequence
    BY SMT, <1>0, <1>3, <2>1 DEF CallIsCurrent
  <2>2. CASE ~(ledger'.sequence > ledger.sequence)
    <3>1. /\ ledger' = ledger
          /\ \A o \in OperationIds :
               operations'[o].status \in InFlight => operations[o].status \in InFlight
      BY Zenon, <2>2
    <3> QED
      BY Zenon, <1>0, <1>3, <3>1 DEF CallIsCurrent
  <2> QED
    BY Zenon, <2>1, <2>2
<1> QED
  BY Zenon, <1>1, <1>2, <1>3

\* An operation that a step does not touch is as current as it was.
LEMMA OperationsKeep ==
  ASSUME IInv, TypeOK', NEW o \in OperationIds, operations'[o] = operations[o],
         ledger' = ledger \/ ledger'.sequence > ledger.sequence
  PROVE  OperationIsCurrent(o)'
<1>0. /\ ledger.sequence \in Nat /\ ledger'.sequence \in Nat
      /\ operations[o].sequence \in Nat /\ OperationIsCurrent(o)
  BY SMT DEF IInv, TypeOK, CorrectionInv
<1>1. CASE ledger' = ledger
  BY Zenon, <1>0, <1>1 DEF OperationIsCurrent
<1>2. CASE ledger'.sequence > ledger.sequence
  BY SMT, <1>0, <1>2 DEF OperationIsCurrent
<1> QED
  BY Zenon, <1>1, <1>2

\* A request reads a case without a correction under way.
LEMMA RequestKeeps ==
  ASSUME IInv, NEW c \in Callers, NEW staff \in Staff, NEW command \in reversalCommands,
         RequestIntakeReversalService(c, staff, command)
  PROVE  IInv'
<1> DEFINE call == [op |-> "createReversalOperation", id |-> ledger.id, command |-> command,
                    sequence |-> ledger.sequence, by |-> staff]
<1>0. /\ ledger \in LedgerRow /\ calls \in [Callers -> Call]
      /\ operations \in [OperationIds -> OperationRow]
  BY Zenon, CorrectionTypes DEF IInv
<1>1. /\ calls' = [calls EXCEPT ![c] = call] /\ ledger' = ledger /\ operations' = operations
      /\ UNCHANGED <<intakeCase, requestVars, notes, offeringVars, timerList>>
  BY Zenon DEF RequestIntakeReversalService, caseVars
<1>2. \A o \in OperationIds : operations[o].status \notin InFlight
  <2>1. ~Snapshot(0).inProgress
    BY Zenon DEF RequestIntakeReversalService, getReversalActions, evaluateReversalActions
  <2>2. ~\E o \in OperationIds \ {0} : operations[o].status \in InFlight
    BY Zenon, <2>1 DEF Snapshot
  <2>3. 0 \notin OperationIds
    BY SMT DEF OperationIds
  <2> QED
    BY Zenon, <2>2, <2>3
<1>3. call \in Call
  <2>1. ledger.sequence \in Nat /\ ledger.id \in Nat
    BY SMT, <1>0 DEF LedgerRow
  <2> QED
    BY SMT, <2>1 DEF Call
<1>4. /\ call.op = "createReversalOperation" /\ call.id = ledger.id
      /\ call.sequence = ledger.sequence
  BY SMT
<1> HIDE DEF call
<1>5. calls' \in [Callers -> Call]
  BY Zenon, <1>0, <1>1, <1>3
<1>6. TypeOK' /\ EventsAgree' /\ RequestsMatchTheStage' /\ StructuringInv'
  BY Zenon, <1>0, <1>1, <1>5, CaseStays
<1>7. ASSUME NEW d \in Callers PROVE CallIsCurrent(d)'
  <2>1. CASE d = c
    <3>1. calls'[d] = call
      BY Zenon, <1>0, <1>1, <2>1
    <3>2. ledger.sequence \in Nat
      BY SMT, <1>0 DEF LedgerRow
    <3> QED
      BY SMT, <1>1, <1>2, <1>4, <3>1, <3>2 DEF CallIsCurrent
  <2>2. CASE d # c
    BY Zenon, <1>0, <1>1, <1>6, <2>2, CallsKeep
  <2> QED
    BY Zenon, <2>1, <2>2
<1>8. ASSUME NEW o \in OperationIds PROVE OperationIsCurrent(o)'
  BY Zenon, <1>1, <1>6, OperationsKeep
<1>9. OneCorrectionInFlight'
  BY Zenon, <1>1 DEF IInv, CorrectionInv, OneCorrectionInFlight
<1> QED
  BY Zenon, <1>6, <1>7, <1>8, <1>9 DEF IInv, CorrectionInv

\* The transaction of a request finds the sequence its service read: nothing else is under
\* way, and the operation is of the latest transition. Its own event moves the sequence, which
\* every other request compares.
LEMMA CreateKeeps ==
  ASSUME IInv, NEW c \in Callers, createReversalOperation(c)
  PROVE  IInv'
<1>0. /\ ledger \in LedgerRow /\ calls \in [Callers -> Call]
      /\ operations \in [OperationIds -> OperationRow]
  BY Zenon, CorrectionTypes DEF IInv
<1> DEFINE approval == requiresSecondApproval(calls[c].command)
           row == [status |-> IF approval THEN "pending_approval" ELSE "requested",
                   command |-> calls[c].command, sequence |-> calls[c].sequence + 1,
                   event |-> calls[c].id, requester |-> calls[c].by, approver |-> NoOne]
<1>1. PICK o \in OperationIds :
        /\ operations' = [operations EXCEPT ![o] = row]
        /\ calls' = [calls EXCEPT ![c] = IF approval THEN Idle ELSE Executes(o)]
  BY Zenon DEF createReversalOperation
<1>2. /\ calls[c].op = "createReversalOperation" /\ calls[c].sequence = ledger.sequence
      /\ ledger' = appendIntakeCaseEvent(1)
      /\ UNCHANGED <<intakeCase, requestVars, notes, offeringVars, timerList>>
  BY Zenon DEF createReversalOperation, CaseUnchanged
<1>3. /\ calls[c].id = ledger.id
      /\ \A q \in OperationIds : operations[q].status \notin InFlight
  BY Zenon, <1>2 DEF IInv, CorrectionInv, CallIsCurrent
<1>4. /\ calls[c].command \in reversalCommands /\ calls[c].by \in Staff \cup {NoOne}
      /\ calls[c].sequence + 1 \in Nat /\ calls[c].id \in Nat /\ o \in Nat
      /\ ledger.sequence \in Nat
  BY SMT, <1>0 DEF Call, LedgerRow, OperationIds
<1>5. row \in OperationRow
  BY SMT, <1>4 DEF OperationRow, OperationStatuses, InFlight
<1>6. /\ row.status = "requested" => ~requiresSecondApproval(row.command)
      /\ row.status # "approved"
      /\ row.sequence = ledger.sequence + 1 /\ row.event = ledger.id
  BY SMT, <1>2, <1>3
<1> HIDE DEF row
<1>7. ledger'.sequence = ledger.sequence + 1 /\ Noted(ledger')
  <2>0. 0 \in Nat /\ 0 + 1 = 1
    BY SMT
  <2>1. Noted(ledger')
    BY Zenon, <1>0, <1>2, <2>0, Appends DEF Stages
  <2> QED
    BY SMT, <1>0, <1>2, <2>1 DEF appendIntakeCaseEvent, LedgerRow
<1>8. calls'[c] = Idle \/ calls'[c] = Executes(o)
  BY Zenon, <1>0, <1>1
<1>9. operations' \in [OperationIds -> OperationRow] /\ calls' \in [Callers -> Call]
  BY Zenon, <1>0, <1>1, <1>4, <1>5, CallValues
<1>10. TypeOK' /\ EventsAgree' /\ RequestsMatchTheStage' /\ StructuringInv'
  BY Zenon, <1>2, <1>7, <1>9, CaseStays
<1>11. ledger'.sequence > ledger.sequence
  BY SMT, <1>4, <1>7
<1>12. ASSUME NEW d \in Callers PROVE CallIsCurrent(d)'
  <2>1. calls'[d] = calls[d] \/ calls'[d] = Idle \/ \E q \in OperationIds : calls'[d] = Executes(q)
    BY Zenon, <1>0, <1>1, <1>8
  <2> QED
    BY Zenon, <1>10, <1>11, <2>1, CallsKeep
<1>13. ASSUME NEW q \in OperationIds PROVE OperationIsCurrent(q)'
  <2>1. CASE q # o
    <3>1. operations'[q] = operations[q]
      BY Zenon, <1>0, <1>1, <2>1
    <3> QED
      BY Zenon, <1>10, <1>11, <3>1, OperationsKeep
  <2>2. CASE q = o
    <3>1. operations'[q] = row
      BY Zenon, <1>0, <1>1, <2>2
    <3>2. ledger'.id = ledger.id
      BY Zenon, <1>7 DEF Noted
    <3> QED
      BY SMT, <1>4, <1>6, <1>7, <3>1, <3>2 DEF OperationIsCurrent
  <2> QED
    BY Zenon, <2>1, <2>2
<1>14. OneCorrectionInFlight'
  <2>1. \A q \in OperationIds : operations'[q].status \in InFlight => q = o
    BY Zenon, <1>0, <1>1, <1>3
  <2> QED
    BY Zenon, <2>1 DEF OneCorrectionInFlight
<1> QED
  BY Zenon, <1>10, <1>12, <1>13, <1>14 DEF IInv, CorrectionInv

\* An approval is by a second person, and changes neither the sequence nor which correction is
\* under way.
LEMMA ApproveKeeps ==
  ASSUME IInv, NEW c \in Callers, NEW staff \in Staff, NEW o \in OperationIds,
         ApproveIntakeReversalService(c, staff, o)
  PROVE  IInv'
<1>0. /\ ledger \in LedgerRow /\ calls \in [Callers -> Call]
      /\ operations \in [OperationIds -> OperationRow] /\ o \in Nat
  <2>1. o \in Nat
    BY SMT DEF OperationIds
  <2> QED
    BY Zenon, <2>1, CorrectionTypes DEF IInv
<1>1. /\ calls' = [calls EXCEPT ![c] = Executes(o)] /\ ledger' = ledger
      /\ UNCHANGED <<intakeCase, requestVars, notes, offeringVars, timerList>>
  BY Zenon DEF ApproveIntakeReversalService, caseVars
<1>2. /\ operations' \in [OperationIds -> OperationRow]
      /\ \A q \in OperationIds : q # o => operations'[q] = operations[q]
      /\ \/ operations' = operations
         \/ /\ operations[o].status = "pending_approval" /\ operations'[o].status = "approved"
            /\ operations[o].requester # staff /\ operations'[o].approver = staff
            /\ operations'[o].requester = operations[o].requester
            /\ operations'[o].sequence = operations[o].sequence
            /\ operations'[o].event = operations[o].event
  <2>1. CASE operations' = operations
    BY Zenon, <1>0, <2>1
  <2>2. CASE operations' # operations
    <3>0. /\ operations[o].status = "pending_approval" /\ operations[o].requester # staff
          /\ operations' = [operations EXCEPT ![o] = [@ EXCEPT !.status = "approved",
                                                               !.approver = staff]]
      BY Zenon, <2>2 DEF ApproveIntakeReversalService, approveReversalOperation
    <3> DEFINE row == [operations[o] EXCEPT !.status = "approved", !.approver = staff]
    <3>1. operations' = [operations EXCEPT ![o] = row]
      BY Zenon, <1>0, <3>0
    <3>2. "approved" \in OperationStatuses
      BY SMT DEF OperationStatuses, InFlight
    <3>3. row \in OperationRow
      BY Zenon, <1>0, <3>2 DEF OperationRow
    <3>4. /\ row.status = "approved" /\ row.approver = staff
          /\ row.requester = operations[o].requester /\ row.sequence = operations[o].sequence
          /\ row.event = operations[o].event
      BY SMT, <1>0 DEF OperationRow
    <3> HIDE DEF row
    <3>5. operations'[o] = row
      BY Zenon, <1>0, <3>1
    <3> QED
      BY Zenon, <1>0, <3>0, <3>1, <3>3, <3>4, <3>5
  <2> QED
    BY Zenon, <2>1, <2>2
<1>3. calls' \in [Callers -> Call]
  BY Zenon, <1>0, <1>1, CallValues
<1>4. TypeOK' /\ EventsAgree' /\ RequestsMatchTheStage' /\ StructuringInv'
  BY Zenon, <1>1, <1>2, <1>3, CaseStays
<1>5. \A q \in OperationIds :
        operations'[q].status \in InFlight => operations[q].status \in InFlight
  BY Zenon, <1>2 DEF InFlight
<1>6. ASSUME NEW d \in Callers PROVE CallIsCurrent(d)'
  <2>1. calls'[d] = calls[d] \/ calls'[d] = Executes(o)
    BY Zenon, <1>0, <1>1
  <2> QED
    BY Zenon, <1>1, <1>4, <1>5, <2>1, CallsKeep
<1>7. ASSUME NEW q \in OperationIds PROVE OperationIsCurrent(q)'
  <2>1. CASE operations'[q] = operations[q]
    BY Zenon, <1>1, <1>4, <2>1, OperationsKeep
  <2>2. CASE operations'[q] # operations[q]
    <3>1. q = o /\ operations' # operations
      BY Zenon, <1>2, <2>2
    <3>2. OperationIsCurrent(o) /\ staff # NoOne
      BY Zenon, NoOneAssumption DEF IInv, CorrectionInv
    <3> QED
      BY SMT, <1>1, <1>2, <3>1, <3>2 DEF OperationIsCurrent, InFlight
  <2> QED
    BY Zenon, <2>1, <2>2
<1>8. OneCorrectionInFlight'
  BY Zenon, <1>5 DEF IInv, CorrectionInv, OneCorrectionInFlight
<1> QED
  BY Zenon, <1>4, <1>6, <1>7, <1>8 DEF IInv, CorrectionInv

\* What the execution of a correction finds under its locks. Structuring starts with the final
\* terms, which block the two corrections that would undo it.
LEMMA ExecutionFinds ==
  ASSUME IInv, NEW c \in Callers, runReversalExecution(c), NEW o, o = calls[c].id
  PROVE  /\ o \in OperationIds /\ operations[o].status \in {"requested", "approved"}
         /\ operations[o].event = ledger.id /\ ledger.id \notin ledger.reversed
         /\ ledger.to = intakeCase.stage /\ ledger.sequence = operations[o].sequence
         /\ \/ /\ operations[o].command = "return_to_draft"
               /\ intakeCase.stage = "submitted"
            \/ /\ operations[o].command = "reopen_pre_offering"
               /\ intakeCase.stage = "pre_offering_open" /\ phase \in {"open", "closed"}
<1>0. /\ ledger \in LedgerRow /\ calls \in [Callers -> Call] /\ phase \in Face!Phases
      /\ operations \in [OperationIds -> OperationRow]
  BY Zenon, CorrectionTypes DEF IInv
<1>1. /\ o \in OperationIds /\ operations[o].status \in {"requested", "approved"}
      /\ ReversalApplies(o) /\ operations[o].command # "withdraw_information_request"
  BY Zenon DEF runReversalExecution, Commits, IInv, CorrectionInv, CallIsCurrent
<1>2. operations[o].event = ledger.id /\ ledger.sequence = operations[o].sequence
  BY Zenon, <1>1 DEF ReversalApplies, IInv, CorrectionInv, OperationIsCurrent, InFlight
<1>3. /\ ~Snapshot(o).reversed /\ operations[o].command \in reversalCommands
      /\ HasNoBlocker(Snapshot(o), operations[o].command)
      /\ intakeCase.stage = sourceStage(operations[o].command)
  BY Zenon, <1>1 DEF ReversalApplies, evaluateReversalActions
<1>4. /\ Snapshot(o).reversed = (ledger.id \in ledger.reversed) /\ Snapshot(o).phase = phase
  BY Zenon DEF Snapshot
<1>5. \/ /\ operations[o].command = "return_to_draft"
         /\ intakeCase.stage = "submitted"
      \/ /\ operations[o].command = "reopen_pre_offering"
         /\ intakeCase.stage = "pre_offering_open" /\ phase \in {"open", "closed"}
  <2>1. operations[o].command \in {"return_to_draft", "reopen_pre_offering",
                                   "reopen_structuring", "reopen_final_offering_review"}
    BY Zenon, <1>1, <1>3 DEF reversalCommands
  <2>2. CASE operations[o].command = "return_to_draft"
    BY SMT, <1>3, <2>2 DEF sourceStage
  <2>3. CASE operations[o].command = "reopen_pre_offering"
    <3>1. intakeCase.stage = "pre_offering_open"
      BY SMT, <1>3, <2>3 DEF sourceStage
    <3>2. phase # "none" /\ ~OfferingEngaged(phase)
      BY SMT, <1>3, <1>4, <2>3 DEF HasNoBlocker
    <3> QED
      BY SMT, <1>0, <2>3, <3>1, <3>2 DEF OfferingEngaged, TermsPublished, Face!Phases
  <2>4. CASE operations[o].command = "reopen_structuring"
    <3>1. intakeCase.stage = "post_ipo_structuring"
      BY SMT, <1>3, <2>4 DEF sourceStage
    <3>2. ~TermsPublished(phase)
      BY SMT, <1>3, <1>4, <2>4 DEF HasNoBlocker
    <3> QED
      BY Zenon, <3>1, <3>2 DEF IInv, StructuringInv, Structured
  <2>5. CASE operations[o].command = "reopen_final_offering_review"
    <3>1. intakeCase.stage = "approved_for_final_offering"
      BY SMT, <1>3, <2>5 DEF sourceStage
    <3>2. ~TermsPublished(phase)
      BY SMT, <1>3, <1>4, <2>5 DEF HasNoBlocker
    <3> QED
      BY Zenon, <3>1, <3>2 DEF IInv, StructuringInv, Structured
  <2> QED
    BY Zenon, <2>1, <2>2, <2>3, <2>4, <2>5
<1>6. ledger.to = intakeCase.stage
  <2>1. intakeCase.stage \notin {"none", "draft"}
    BY SMT, <1>5
  <2> QED
    BY Zenon, <1>3, <1>4, <2>1 DEF IInv, EventsAgree
<1> QED
  BY Zenon, <1>1, <1>2, <1>3, <1>4, <1>5, <1>6

\* An operation that changes its status.
LEMMA StatusChanges ==
  ASSUME operations \in [OperationIds -> OperationRow], NEW o \in OperationIds,
         NEW status \in OperationStatuses
  PROVE  [operations EXCEPT ![o].status = status] \in [OperationIds -> OperationRow]
<1>1. [operations[o] EXCEPT !.status = status] \in OperationRow
  BY Zenon DEF OperationRow
<1> QED
  BY Zenon, <1>1

\* An operation that ends: no other one is under way, and no call depends on it.
LEMMA EndKeeps ==
  ASSUME IInv, TypeOK', NEW c \in Callers, NEW o \in OperationIds,
         NEW status \in {"completed", "failed"},
         operations' = [operations EXCEPT ![o].status = status],
         calls' = [calls EXCEPT ![c] = Idle],
         ledger' = ledger \/ ledger'.sequence > ledger.sequence
  PROVE  CorrectionInv'
<1>0. /\ calls \in [Callers -> Call] /\ operations \in [OperationIds -> OperationRow]
  BY Zenon, CorrectionTypes DEF IInv
<1>1. /\ operations'[o].status = status
      /\ \A q \in OperationIds : q # o => operations'[q] = operations[q]
  BY SMT, <1>0 DEF OperationRow
<1>2. status \notin InFlight /\ status # "requested" /\ status # "approved"
  BY SMT DEF InFlight
<1>3. \A q \in OperationIds :
        operations'[q].status \in InFlight => operations[q].status \in InFlight
  BY Zenon, <1>1, <1>2
<1>4. ASSUME NEW d \in Callers PROVE CallIsCurrent(d)'
  <2>1. calls'[d] = calls[d] \/ calls'[d] = Idle
    BY Zenon, <1>0
  <2> QED
    BY Zenon, <1>3, <2>1, CallsKeep
<1>5. ASSUME NEW q \in OperationIds PROVE OperationIsCurrent(q)'
  <2>1. CASE q # o
    BY Zenon, <1>1, <2>1, OperationsKeep
  <2>2. CASE q = o
    BY Zenon, <1>1, <1>2, <2>2 DEF OperationIsCurrent
  <2> QED
    BY Zenon, <2>1, <2>2
<1>6. OneCorrectionInFlight'
  BY Zenon, <1>3 DEF IInv, CorrectionInv, OneCorrectionInFlight
<1> QED
  BY Zenon, <1>4, <1>5, <1>6 DEF CorrectionInv

\* A correction that is carried out returns the case to draft or to review, where neither a
\* request nor a partner's work is left, and marks the latest transition as undone.
LEMMA RunKeeps ==
  ASSUME IInv, NEW c \in Callers, runReversalExecution(c)
  PROVE  IInv'
<1> DEFINE o == calls[c].id
           command == operations[o].command
           approved == intakeCase.approvedAt /\ command # "reopen_pre_offering"
<1>0. /\ intakeCase \in CaseRow /\ ledger \in LedgerRow /\ calls \in [Callers -> Call]
      /\ operations \in [OperationIds -> OperationRow] /\ phase \in Face!Phases /\ OtherTypes
  BY Zenon, CorrectionTypes, Types DEF IInv
<1>1. /\ operations' = [operations EXCEPT ![o].status = "completed"]
      /\ calls' = [calls EXCEPT ![c] = Idle]
      /\ intakeCase' = [intakeCase EXCEPT !.stage = targetStage(command), !.approvedAt = approved]
      /\ phase' = (IF command = "reopen_pre_offering" THEN "closed" ELSE phase)
      /\ ledger' = AppendReversal(operations[o].event)
      /\ UNCHANGED <<requestVars, notes, jobs, timerList>>
  BY Zenon DEF runReversalExecution, Commits
<1>2. /\ o \in OperationIds /\ operations[o].event = ledger.id
      /\ \/ command = "return_to_draft" /\ intakeCase.stage = "submitted"
         \/ /\ command = "reopen_pre_offering" /\ intakeCase.stage = "pre_offering_open"
            /\ phase \in {"open", "closed"}
  BY Zenon, ExecutionFinds
<1> HIDE DEF o
<1>3. targetStage(command) \in {"draft", "submitted"} /\ approved \in BOOLEAN
  BY SMT, <1>2 DEF targetStage
<1> HIDE DEF command, approved
<1>4. Moves(targetStage(command))
  <2>1. targetStage(command) \in Stages /\ 0 \in Nat
    BY SMT, <1>3 DEF Stages
  <2> QED
    BY Zenon, <1>0, <1>1, <1>3, <2>1, StageMoves
<1>5. /\ ledger' \in LedgerRow /\ ledger'.sequence > ledger.sequence
      /\ ledger'.id \in ledger'.reversed
  <2>1. /\ ledger.sequence + 1 \in Nat /\ ledger.reversed \cup {operations[o].event} \in SUBSET Nat
    BY SMT, <1>0, <1>2 DEF LedgerRow
  <2>2. ledger' \in LedgerRow
    BY Zenon, <1>0, <1>1, <2>1 DEF LedgerRow, AppendReversal
  <2> QED
    BY SMT, <1>0, <1>1, <1>2, <2>2 DEF LedgerRow, AppendReversal
<1>6. phase' \in Face!Phases
  BY SMT, <1>0, <1>1 DEF Face!Phases
<1>7. operations' \in [OperationIds -> OperationRow]
  BY Zenon, <1>0, <1>1, <1>2, StatusChanges DEF OperationStatuses
<1>8. calls' \in [Callers -> Call]
  BY Zenon, <1>0, <1>1, CallValues, 0 \in Nat
<1>9. TypeOK'
  <2>1. OtherTypes'
    BY Zenon, <1>0, <1>1, <1>6, <1>7, <1>8 DEF OtherTypes, OperationRow, requestVars
  <2> QED
    BY Zenon, <1>4, <1>5, <2>1, TypesNext DEF Moves
<1>10. CorrectionInv'
  BY Zenon, <1>1, <1>2, <1>5, <1>9, EndKeeps
<1>11. EventsAgree'
  BY Zenon, <1>5 DEF EventsAgree
<1>12. RequestsMatchTheStage'
  <2>1. ~activeInformationRequest
    BY Zenon, <1>2 DEF IInv, RequestsMatchTheStage
  <2>2. /\ ~activeInformationRequest' /\ intakeCase'.stage # "waiting_on_applicant"
        /\ requests' = requests
    BY Zenon, <1>1, <1>3, <1>4, <2>1 DEF activeInformationRequest, requestVars, Moves
  <2> QED
    BY Zenon, <2>2 DEF IInv, RequestsMatchTheStage
<1>13. StructuringInv'
  <2>1. ~Structured(intakeCase.stage) /\ ~Structured(intakeCase'.stage)
    BY SMT, <1>2, <1>3, <1>4 DEF Structured, Moves
  <2>2. jobs["structuring"] # "none" => TermsPublished(phase')
    BY SMT, <1>1, <1>2 DEF IInv, StructuringInv, TermsPublished
  <2>3. jobs' = jobs
    BY Zenon, <1>1
  <2>4. intakeCase'.stage \notin {"post_ipo_structuring", "approved_for_final_offering"}
    BY Zenon, <2>1 DEF Structured
  <2>5. ~intakeCase.legal /\ ~intakeCase.appraisal
    BY Zenon, <2>1 DEF IInv, StructuringInv
  <2> QED
    BY SMT, <1>4, <2>1, <2>2, <2>3, <2>4, <2>5 DEF StructuringInv, Moves
<1> QED
  BY Zenon, <1>9, <1>10, <1>11, <1>12, <1>13 DEF IInv

\* A correction that fails, and a request that is refused or stops, leave the case as it was.
LEMMA StopKeeps ==
  ASSUME IInv, NEW c \in Callers, failReversalOperation(c) \/ RequestStops(c)
  PROVE  IInv'
<1>0. /\ calls \in [Callers -> Call] /\ operations \in [OperationIds -> OperationRow]
  BY Zenon, CorrectionTypes DEF IInv
<1>1. /\ calls' = [calls EXCEPT ![c] = Idle] /\ ledger' = ledger
      /\ UNCHANGED <<intakeCase, requestVars, notes, offeringVars, timerList>>
  BY Zenon DEF failReversalOperation, RequestStops, Commits, caseVars
<1>2. calls' \in [Callers -> Call]
  BY Zenon, <1>0, <1>1, CallValues, 0 \in Nat
<1>3. CASE failReversalOperation(c)
  <2>1. /\ calls[c].id \in OperationIds
        /\ operations' = [operations EXCEPT ![calls[c].id].status = "failed"]
    BY Zenon, <1>3 DEF failReversalOperation, Commits, IInv, CorrectionInv, CallIsCurrent
  <2>2. operations' \in [OperationIds -> OperationRow]
    BY Zenon, <1>0, <2>1, StatusChanges DEF OperationStatuses
  <2>3. TypeOK' /\ EventsAgree' /\ RequestsMatchTheStage' /\ StructuringInv'
    BY Zenon, <1>1, <1>2, <2>2, CaseStays
  <2>4. CorrectionInv'
    BY Zenon, <1>1, <2>1, <2>3, EndKeeps
  <2> QED
    BY Zenon, <2>3, <2>4 DEF IInv
<1>4. CASE RequestStops(c)
  <2>1. operations' = operations
    BY Zenon, <1>4 DEF RequestStops
  <2>2. TypeOK' /\ EventsAgree' /\ RequestsMatchTheStage' /\ StructuringInv'
    BY Zenon, <1>0, <1>1, <1>2, <2>1, CaseStays
  <2>3. ASSUME NEW d \in Callers PROVE CallIsCurrent(d)'
    <3>1. calls'[d] = calls[d] \/ calls'[d] = Idle
      BY Zenon, <1>0, <1>1
    <3> QED
      BY Zenon, <1>1, <2>1, <2>2, <3>1, CallsKeep
  <2>4. ASSUME NEW q \in OperationIds PROVE OperationIsCurrent(q)'
    BY Zenon, <1>1, <2>1, <2>2, OperationsKeep
  <2>5. OneCorrectionInFlight'
    BY Zenon, <2>1 DEF IInv, CorrectionInv, OneCorrectionInFlight
  <2> QED
    BY Zenon, <2>2, <2>3, <2>4, <2>5 DEF IInv, CorrectionInv
<1> QED
  BY Zenon, <1>3, <1>4

-----------------------------------------------------------------------------
(* The invariant.                                                          *)

\* A case that does not exist yet.
LEMMA InitHolds == Init => IInv
<1> SUFFICES ASSUME Init PROVE IInv
  BY Zenon
<1>1. intakeCase \in CaseRow /\ ledger \in LedgerRow
  BY SMT DEF Init, CaseRow, LedgerRow, Stages
<1>2. NoOperation \in OperationRow /\ NoOperation.status = "none" /\ 0 \in Nat
  BY SMT DEF NoOperation, OperationRow, OperationStatuses, InFlight, reversalCommands
<1>3. /\ requests \in [RequestIds -> RequestStatuses] /\ overdue \in SUBSET RequestIds
      /\ notes \in Nat /\ phase \in Face!Phases /\ jobs \in [Jobs -> {"none", "queued", "dead"}]
      /\ timerList \in SUBSET RequestIds
  BY SMT DEF Init, RequestStatuses, Face!Phases
<1>4. /\ operations \in [OperationIds -> OperationRow]
      /\ \A o \in OperationIds : operations[o].status = "none"
  BY Zenon, <1>2 DEF Init
<1>5. calls \in [Callers -> Call] /\ \A c \in Callers : calls[c].op = "idle"
  BY Zenon, <1>2, CallValues DEF Init
<1>6. TypeOK
  BY Zenon, <1>1, <1>3, <1>4, <1>5, Types DEF OtherTypes, OperationRow
<1>7. EventsAgree /\ StructuringInv
  BY SMT DEF Init, EventsAgree, StructuringInv, Structured, Jobs
<1>8. RequestsMatchTheStage
  BY SMT DEF Init, RequestsMatchTheStage, activeInformationRequest
<1>9. CorrectionInv
  BY SMT, <1>4, <1>5
     DEF CorrectionInv, CallIsCurrent, OperationIsCurrent, OneCorrectionInFlight, InFlight
<1> QED
  BY Zenon, <1>6, <1>7, <1>8, <1>9 DEF IInv

\* Every step keeps the invariant.
LEMMA NextKeeps == IInv /\ [Next]_vars => IInv'
<1> SUFFICES ASSUME IInv, [Next]_vars PROVE IInv'
  BY Zenon
<1>1. ASSUME NEW r \in RequestIds, RequestSteps(r) PROVE IInv'
  BY Zenon, <1>1, RequestEffects, EffectsKeepCorrections, EffectsKeepTheRest DEF IInv
<1>2. CASE TimerStarts
  BY Zenon, <1>2, TimerEffects, EffectsKeepCorrections, EffectsKeepTheRest DEF IInv
<1>3. CASE ReviewSteps
  BY Zenon, <1>3, ReviewEffects, EffectsKeepCorrections, EffectsKeepTheRest DEF IInv
<1>4. CASE OfferingSteps
  BY Zenon, <1>4, OfferingEffects, EffectsKeepCorrections, EffectsKeepTheRest DEF IInv
<1>5. CASE StructuringSteps
  BY Zenon, <1>5, StructuringEffects, EffectsKeepCorrections, EffectsKeepTheRest DEF IInv
<1>6. ASSUME NEW c \in Callers, CorrectionSteps(c) PROVE IInv'
  BY Zenon, <1>6, RequestKeeps, CreateKeeps, ApproveKeeps, RunKeeps, StopKeeps
     DEF CorrectionSteps
<1>7. CASE UNCHANGED vars
  BY Zenon, <1>7
     DEF vars, IInv, TypeOK, EventsAgree, CorrectionInv, CallIsCurrent, OperationIsCurrent,
         OneCorrectionInFlight, RequestsMatchTheStage, activeInformationRequest, StructuringInv
<1> QED
  BY Zenon, <1>1, <1>2, <1>3, <1>4, <1>5, <1>6, <1>7 DEF Next, CaseSteps, OfferingSteps

\* The invariant holds in every reachable state of the case.
THEOREM CaseInvariant == Spec => []IInv
BY InitHolds, NextKeeps, PTL DEF Spec

\* The columns keep their types, for every number of requests, corrections and callers.
THEOREM CaseTypes == Spec => []TypeOK
<1>1. IInv => TypeOK
  BY Zenon DEF IInv
<1> QED
  BY <1>1, CaseInvariant, PTL

\* Requests for corrections race without a lock, and still no two corrections of a case are
\* ever under way: createReversalOperation compares the sequence, and its own event moves it.
THEOREM NoTwoCorrections == Spec => []OneCorrectionInFlight
<1>1. IInv => OneCorrectionInFlight
  BY Zenon DEF IInv, CorrectionInv
<1> QED
  BY <1>1, CaseInvariant, PTL

\* A case waits for its applicant exactly while one of its requests is published, whoever
\* answers, withdraws, expires or closes first.
THEOREM RequestsAndStageAgree == Spec => []RequestsMatchTheStage
<1>1. IInv => RequestsMatchTheStage
  BY Zenon DEF IInv
<1> QED
  BY <1>1, CaseInvariant, PTL

\* A case is structured only with its final terms published, it is approved for the final
\* offering exactly with the work of both partners, and no correction is offered for either.
THEOREM StructuringNeedsTerms == Spec => []StructuringIsEarned
<1>1. ASSUME IInv PROVE StructuringIsEarned
  <2> DEFINE s == Snapshot(0)
  <2>1. s.stage = intakeCase.stage /\ s.phase = phase
    BY Zenon DEF Snapshot
  <2> HIDE DEF s
  <2>2. /\ "reopen_structuring" \in evaluateReversalActions(s) =>
             s.stage = "post_ipo_structuring" /\ ~TermsPublished(s.phase)
        /\ "reopen_final_offering_review" \in evaluateReversalActions(s) =>
             s.stage = "approved_for_final_offering" /\ ~TermsPublished(s.phase)
    BY SMT DEF evaluateReversalActions, sourceStage, HasNoBlocker
  <2>3. Structured(intakeCase.stage) => TermsPublished(phase)
    BY Zenon, <1>1 DEF IInv, StructuringInv
  <2>4. getReversalActions = evaluateReversalActions(s)
    BY Zenon DEF getReversalActions, s
  <2>5. getReversalActions \cap {"reopen_structuring", "reopen_final_offering_review"} = {}
    BY Zenon, <2>1, <2>2, <2>3, <2>4 DEF Structured
  <2> QED
    BY Zenon, <1>1, <2>5 DEF IInv, StructuringInv, StructuringIsEarned, Structured
<1> QED
  BY <1>1, CaseInvariant, PTL

\* The readiness page, which reads the case without a lock, offers what the transactions would
\* accept in the same state.
THEOREM ReadinessIsTrue == Spec => []ReadinessMatchesTheCase
<1>1. ASSUME IInv PROVE ReadinessMatchesTheCase
  <2> DEFINE s == Snapshot(0)
  <2>1. s.stage = intakeCase.stage /\ s.phase = phase /\ s.revision = intakeCase.revision
    BY Zenon DEF Snapshot
  <2>2. getOperationsReadiness = evaluateOperationsReadiness(s)
    BY Zenon DEF getOperationsReadiness
  <2> HIDE DEF s
  <2>3. /\ \A action : action \in evaluateOperationsReadiness(s) <=>
             /\ s.stage \notin terminalStages
             /\ action \in ApplicableActions(s) /\ action \notin BlockedActions(s)
    BY Zenon DEF evaluateOperationsReadiness
  <2>4. /\ "request_information" \in ApplicableActions(s) <=>
             s.stage = "submitted" /\ s.revision # 0
        /\ "record_founder_decision" \in ApplicableActions(s) <=>
             s.stage = "submitted" /\ s.revision # 0
        /\ "assign_partner" \in ApplicableActions(s) <=> canAssignPartnerOrganization(s.stage)
        /\ "retry_post_ipo_handoff" \in ApplicableActions(s) => handoffPending(s)
    BY SMT DEF ApplicableActions
  <2>5. /\ "request_information" \in BlockedActions(s) <=> s.revision = 0
        /\ "record_founder_decision" \in BlockedActions(s) <=> s.revision = 0
        /\ "assign_partner" \in BlockedActions(s) <=> handoffPending(s)
        /\ s.phase # "ready" => "publish_final_offering_terms" \in BlockedActions(s)
    BY SMT DEF BlockedActions
  <2>6. /\ s.stage = "submitted" => s.stage \notin terminalStages
        /\ canAssignPartnerOrganization(s.stage) =>
             s.stage \notin terminalStages /\ ~handoffPending(s)
        /\ handoffPending(s) => s.stage = "pre_offering_open"
    BY SMT DEF terminalStages, canAssignPartnerOrganization, handoffPending
  <2>7. intakeCase.stage = "submitted" => ~activeInformationRequest
    BY Zenon, <1>1 DEF IInv, RequestsMatchTheStage
  <2> QED
    BY Zenon, <2>1, <2>2, <2>3, <2>4, <2>5, <2>6, <2>7 DEF ReadinessMatchesTheCase
<1> QED
  BY <1>1, CaseInvariant, PTL

\* A correction that is carried out undoes the latest transition of the case, which nothing
\* undid and nothing followed, with the second person its command asks for, and closes an
\* offering only while nobody can have seen it.
THEOREM OnlyTheLatestIsUndone == Spec => CorrectionsUndoTheLatest
<1> DEFINE Undoes(o) ==
      operations[o].status # "completed" /\ operations'[o].status = "completed" =>
         /\ operations[o].event = ledger.id /\ ledger.id \notin ledger.reversed
         /\ ledger.to = intakeCase.stage
         /\ ledger.sequence = operations[o].sequence
         /\ requiresSecondApproval(operations[o].command) =>
              operations[o].approver \notin {NoOne, operations[o].requester}
         /\ phase' # phase => ~OfferingEngaged(phase) /\ jobs["structuring"] = "none"
<1>1. ASSUME IInv, Next, NEW o \in OperationIds PROVE Undoes(o)
  <2>0. /\ operations \in [OperationIds -> OperationRow] /\ calls \in [Callers -> Call]
    BY Zenon, <1>1, CorrectionTypes DEF IInv
  <2>1. CASE \E c \in Callers : runReversalExecution(c)
    <3>1. PICK c \in Callers : runReversalExecution(c)
      BY Zenon, <2>1
    <3>2. CASE o # calls[c].id
      <4>1. operations'[o] = operations[o]
        BY Zenon, <2>0, <3>1, <3>2 DEF runReversalExecution
      <4> QED
        BY Zenon, <4>1
    <3>3. CASE o = calls[c].id
      <4>1. /\ operations[o].status \in {"requested", "approved"}
            /\ operations[o].event = ledger.id /\ ledger.id \notin ledger.reversed
            /\ ledger.to = intakeCase.stage /\ ledger.sequence = operations[o].sequence
            /\ \/ operations[o].command = "return_to_draft"
               \/ operations[o].command = "reopen_pre_offering" /\ phase \in {"open", "closed"}
        BY Zenon, <1>1, <3>1, <3>3, ExecutionFinds
      <4>2. requiresSecondApproval(operations[o].command) =>
              operations[o].approver \notin {NoOne, operations[o].requester}
        BY Zenon, <1>1, <4>1 DEF IInv, CorrectionInv, OperationIsCurrent
      <4>3. phase' # phase => operations[o].command = "reopen_pre_offering"
        BY Zenon, <3>1, <3>3 DEF runReversalExecution
      <4>4. phase \in {"open", "closed"} => ~OfferingEngaged(phase) /\ ~TermsPublished(phase)
        BY SMT DEF OfferingEngaged, TermsPublished
      <4>5. jobs["structuring"] # "none" => TermsPublished(phase)
        BY Zenon, <1>1 DEF IInv, StructuringInv
      <4>6. "return_to_draft" # "reopen_pre_offering"
        BY SMT
      <4> QED
        BY Zenon, <4>1, <4>2, <4>3, <4>4, <4>5, <4>6
    <3> QED
      BY Zenon, <3>2, <3>3
  <2>2. CASE \E c \in Callers, staff \in Staff, q \in OperationIds :
               ApproveIntakeReversalService(c, staff, q)
    <3>1. PICK c \in Callers, staff \in Staff, q \in OperationIds :
                 ApproveIntakeReversalService(c, staff, q)
      BY Zenon, <2>2
    <3>2. \/ operations'[o] = operations[o]
          \/ operations'[o] = [operations[o] EXCEPT !.status = "approved", !.approver = staff]
      BY Zenon, <2>0, <3>1 DEF ApproveIntakeReversalService, approveReversalOperation
    <3>3. operations[o] \in OperationRow
      BY Zenon, <2>0
    <3>4. /\ [operations[o] EXCEPT !.status = "approved", !.approver = staff].status = "approved"
          /\ "approved" # "completed"
      BY SMT, <3>3 DEF OperationRow
    <3> QED
      BY Zenon, <3>2, <3>4
  <2>3. CASE \E c \in Callers : createReversalOperation(c)
    <3>1. PICK c \in Callers : createReversalOperation(c)
      BY Zenon, <2>3
    <3> DEFINE row == [status |-> IF requiresSecondApproval(calls[c].command)
                                  THEN "pending_approval" ELSE "requested",
                       command |-> calls[c].command, sequence |-> calls[c].sequence + 1,
                       event |-> calls[c].id, requester |-> calls[c].by, approver |-> NoOne]
    <3>a. PICK q \in OperationIds : operations' = [operations EXCEPT ![q] = row]
      BY Zenon, <3>1 DEF createReversalOperation
    <3>b. row.status # "completed"
      BY SMT
    <3> HIDE DEF row
    <3>2. operations'[o] = operations[o] \/ operations'[o].status # "completed"
      BY Zenon, <2>0, <3>a, <3>b
    <3> QED
      BY Zenon, <3>2
  <2>4. CASE \E c \in Callers : failReversalOperation(c)
    <3>1. PICK c \in Callers : failReversalOperation(c)
      BY Zenon, <2>4
    <3>2. operations'[o] = operations[o] \/ operations'[o].status # "completed"
      BY SMT, <2>0, <3>1 DEF failReversalOperation, OperationRow
    <3> QED
      BY Zenon, <3>2
  <2>5. CASE operations' = operations
    BY Zenon, <2>5
  <2>6. ASSUME NEW c \in Callers,
               \/ RequestStops(c)
               \/ \E staff \in Staff, command \in reversalCommands :
                    RequestIntakeReversalService(c, staff, command)
        PROVE  operations' = operations
    BY Zenon, <2>6 DEF RequestStops, RequestIntakeReversalService
  <2>7. ASSUME CaseEffect PROVE operations' = operations
    BY Zenon, <2>7 DEF CaseEffect, correctionVars
  <2> QED
    BY Zenon, <1>1, <2>1, <2>2, <2>3, <2>4, <2>5, <2>6, <2>7, RequestEffects, TimerEffects,
       ReviewEffects, OfferingEffects, StructuringEffects
       DEF Next, CaseSteps, CorrectionSteps, OfferingSteps, IInv
<1>2. ASSUME IInv, [Next]_vars PROVE [\A o \in OperationIds : Undoes(o)]_vars
  BY Zenon, <1>1, <1>2
<1> QED
  BY <1>2, CaseInvariant, PTL DEF Spec, CorrectionsUndoTheLatest

\* What the case does to its offering, and lets it do, is what OfferingFace allows: only an
\* offering that nobody can have seen is closed.
THEOREM CaseImplementsFace == Spec => ImplementsFace
<1>1. Init => Face!FaceInit
  BY SMT DEF Init, Face!FaceInit
<1>2. ASSUME IInv, Next PROVE Face!FaceNext \/ phase' = phase
  <2>1. CASE openOfferingForApprovedCase
    BY Zenon, <2>1 DEF openOfferingForApprovedCase, Face!FaceNext, Face!Open
  <2>2. CASE OfferingMoves
    BY Zenon, <2>2 DEF OfferingMoves, Face!FaceNext
  <2>3. ASSUME NEW c \in Callers, runReversalExecution(c) PROVE Face!FaceNext \/ phase' = phase
    <3>1. \/ operations[calls[c].id].command = "return_to_draft"
          \/ phase \in {"open", "closed"}
      BY Zenon, <1>2, <2>3, ExecutionFinds
    <3>2. phase' = IF operations[calls[c].id].command = "reopen_pre_offering" THEN "closed"
                   ELSE phase
      BY Zenon, <2>3 DEF runReversalExecution
    <3>3. "return_to_draft" # "reopen_pre_offering"
      BY SMT
    <3> QED
      BY Zenon, <3>1, <3>2, <3>3 DEF Face!FaceNext, Face!Close
  <2>4. ASSUME NEW c \in Callers, CorrectionSteps(c), ~runReversalExecution(c)
        PROVE  phase' = phase
    BY Zenon, <2>4
       DEF CorrectionSteps, RequestIntakeReversalService, ApproveIntakeReversalService,
           createReversalOperation, failReversalOperation, RequestStops, offeringVars
  <2>5. CASE ReviewSteps \/ TimerStarts \/ \E r \in RequestIds : RequestSteps(r)
    <3>1. LeavesStructuring
      BY Zenon, <1>2, <2>5, ReviewEffects, TimerEffects, RequestEffects DEF IInv
    <3> QED
      BY Zenon, <3>1 DEF LeavesStructuring
  <2>6. CASE StructuringSteps \/ \E job \in Jobs : HandoffFails(job)
    BY Zenon, <2>6
       DEF StructuringSteps, HandoffFails, TransitionCaseToPostIpoStructuringService,
           RetryPostIpoStructuringHandoffService, AssignPartnerOrganizationService,
           assignPartnerOrganization, RecordLegalStructuringService, recordLegalStructuring,
           RecordAppraisalService, recordAppraisal, Writeback, offeringVars
  <2> QED
    BY Zenon, <1>2, <2>1, <2>2, <2>3, <2>4, <2>5, <2>6 DEF Next, CaseSteps
<1>3. IInv /\ [Next]_vars => [Face!FaceNext]_phase
  BY Zenon, <1>2 DEF vars
<1> QED
  BY <1>1, <1>3, CaseInvariant, PTL DEF Spec, ImplementsFace, Face!FaceSpec

=============================================================================
