---------------------------- MODULE MCOnboarding ----------------------------
(***************************************************************************)
(* What stands before an offering: the intake case of a property, the      *)
(* documents of that case, and the identification of a customer.  They     *)
(* share no variable, so a behaviour is one of the component in focus; the *)
(* variables of the others hold a dummy value, or their initial one.       *)
(***************************************************************************)
EXTENDS Intake, KycSamples, FiniteSets, TLC

CONSTANTS
  SupportedCountries, ReviewedMonths, CleanMonths, FreshMonths, AdultYears,   \* Kyc
  Declarations, KycDecisions, StuckAfter, MaxStarts, MaxEvents, MaxTime,
  Documents, MaxPhotos                                                        \* CaseDocuments

ASSUME RoomAssumption == IsFiniteSet(Documents) /\ MaxPhotos \in Nat

VARIABLES
  focus,
  now, kyc, poa, sessions, events, receipts, starts, tasks, stuck, renewing,
  room, rows, objects, upload, removal, choice, doomed

K == INSTANCE Kyc WITH Workers <- Callers, Decisions <- KycDecisions

D == INSTANCE CaseDocuments WITH None <- NoOne

kycVars == <<now, kyc, poa, sessions, events, receipts, starts, tasks, stuck, renewing>>
documentVars == <<room, rows, objects, upload, removal, choice, doomed>>
onboardingVars == <<focus, vars, kycVars, documentVars>>

Only(c) ==
  /\ focus = c /\ focus' = focus
  /\ IF c = "intake" THEN TRUE ELSE UNCHANGED vars
  /\ IF c = "kyc" THEN TRUE ELSE UNCHANGED kycVars
  /\ IF c = "documents" THEN TRUE ELSE UNCHANGED documentVars

DocumentsInit ==
  \/ focus = "documents" /\ D!Init
  \/ /\ focus # "documents"
     /\ room = 0 /\ rows = 0 /\ objects = 0 /\ upload = 0 /\ removal = 0 /\ choice = 0 /\ doomed = 0

OnboardingInit ==
  /\ focus \in {"intake", "kyc", "documents"}
  /\ Init /\ K!Init /\ DocumentsInit

OnboardingNext ==
  \/ Only("intake") /\ Next
  \/ Only("kyc") /\ K!Next
  \/ Only("documents") /\ D!Next

OnboardingSpec == OnboardingInit /\ [][OnboardingNext]_onboardingVars

\* Requests that are served together, and members of staff, are interchangeable.
Symmetry == Permutations(Callers) \cup Permutations(Staff)

-----------------------------------------------------------------------------
(* The view leaves out what no later step can tell apart. The sequence     *)
(* number of the ledger only grows and is only compared for equality: of a *)
(* number that was read it matters whether it is still the current one.    *)
(* The revision is only compared with 0. Nothing reads an operation or a   *)
(* request that ended, and a call that is out of date can only stop.       *)
OperationView(o) ==
  LET operation == operations[o] IN
  IF operation.status \in InFlight
  THEN <<operation.status, operation.command, operation.requester, operation.approver,
         operation.sequence = ledger.sequence,
         operation.sequence = ledger.sequence /\ operation.event = ledger.id>>
  ELSE <<operation.status = "none">>

CallView(c) ==
  LET call == calls[c] IN
  CASE call.op = "idle" -> <<>>
    [] call.op = "createReversalOperation" ->
         IF call.sequence = ledger.sequence
         THEN <<call.command, call.by, call.id = ledger.id>> ELSE <<"stale">>
    [] call.op = "executeReversalOperation" ->
         IF operations[call.id].status \in InFlight THEN <<call.id>> ELSE <<"stale">>

RequestView(r) == IF requests[r] \in {"none", "published"} THEN requests[r] ELSE "ended"

IntakeView ==
  LET published == {r \in RequestIds : requests[r] = "published"} IN
  <<[intakeCase EXCEPT !.revision = (@ # 0)], ledger.to, ledger.id \in ledger.reversed,
    [r \in RequestIds |-> RequestView(r)], overdue \cap published, timerList = {},
    timerList \cap published, [o \in OperationIds |-> OperationView(o)], notes, phase, jobs,
    [c \in Callers |-> CallView(c)]>>
View == <<focus, IntakeView, kycVars, documentVars>>

-----------------------------------------------------------------------------
(* The properties of the other two components.                             *)

\* The state of every component stays within its types.
TypesOK ==
  CASE focus = "intake" -> TypeOK
    [] focus = "kyc" -> K!TypeOK
    [] focus = "documents" -> D!TypeOK

\* The substatus, which decides whether a session may be started, agrees with eligibility.
EligibilityMatchesSubstatus == K!EligibilityMatchesSubstatus

\* Each approval makes the customer eligible at most once, whoever delivers it how often.
EligibilityIsEarnedOnce == K!EligibilityIsEarnedOnce

\* A session is only ever recorded for the reservation it was created for.
LateStartsAttachNothing == K!LateStartsAttachNothing

\* A room never has more photos than allowed, and every accepted photo has its bytes.
PhotosAreCountedAndStored == focus = "documents" => D!PhotosAreCountedAndStored
=============================================================================
