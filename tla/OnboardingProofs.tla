-------------------------- MODULE OnboardingProofs --------------------------
(***************************************************************************)
(* What stands before an offering besides the case itself, for every       *)
(* number of callers, webhooks and uploads.                                *)
(*                                                                         *)
(* The customer.  KycInv says that the row's state and substatus go        *)
(* together and that whatever a request, a worker or a job holds refers to *)
(* a session of the provider and a webhook that was sent.                  *)
(*                                                                         *)
(* The photos.  RoomInv says of every document where its objects are, that *)
(* nobody is about to delete those of one that stays, and that what the    *)
(* deletion of a room listed first is deleted when it commits.             *)
(***************************************************************************)
EXTENDS MCOnboarding, Integers, Sequences, FiniteSetTheorems, TLAPS

-----------------------------------------------------------------------------
(* The identification of a customer.                                       *)

Kinds == {"baseline", "proof_of_address"}

KycColumns ==
  {"state", "substatus", "reference", "startId", "providerUpdatedAt", "updatedAt", "declared",
   "everRequiredManualReview", "renewalDueAt"}
PoaColumns == {"status", "reference", "startId", "providerUpdatedAt", "currentUntil"}

\* What a task holds is of a session at the provider, and of a webhook that was sent unless it
\* is the job's own.
TaskIsOfASession(w) ==
  /\ tasks[w].step \in {"idle", "listed", "answered"}
  /\ tasks[w].step # "idle" => tasks[w].session \in 1..Len(sessions)
  /\ tasks[w].step = "answered" =>
       /\ tasks[w].status \in K!DiditStatuses
       /\ \/ w = "poll" /\ tasks[w].event = 0
          \/ /\ tasks[w].event \in 1..Len(events)
             /\ events[tasks[w].event].status = tasks[w].status
             /\ events[tasks[w].event].session = tasks[w].session

\* A session that was created for a request is on record as that.
StartIsOfASession(r) ==
  starts[r].step = "created" =>
    /\ starts[r].session \in 1..Len(sessions)
    /\ sessions[starts[r].session].start = r

\* The states and substatuses that go together.
Agree(state, substatus) ==
  \/ state = "not_started" /\
       substatus \in {"kyc_not_started", "kyc_session_creating", "kyc_session_creation_failed",
                      "kyc_session_open", "kyc_restart_required"}
  \/ state = "in_progress" /\ substatus \in {"kyc_pending", "kyc_resubmission_pending"}
  \/ state = "pending_manual_review" /\
       substatus \in {"kyc_manual_review", "kyc_integration_anomaly"}
  \/ state = "eligible" /\ substatus \in {"kyc_verified", "kyc_verified_owner_poa_missing"}
  \/ state = "unsupported_jurisdiction" /\ substatus = "kyc_jurisdiction_blocked"
  \/ state = "not_eligible" /\ substatus = "kyc_failed"
  \/ state = "requires_renewal" /\
       substatus \in {"kyc_reverification_required", "kyc_session_creating",
                      "kyc_session_creation_failed"}

Sessions ==
  [kind : Kinds, status : K!DiditStatuses, decision : KycDecisions \cup {K!NoDecision}, start : Nat]
Events == [session : Nat, status : K!DiditStatuses, at : Int]
Starts == [kind : Kinds, step : {"reserved", "created", "ended"}, session : Nat]

\* The row: its state and substatus go together, and where it is open it refers to a session
\* at the provider.
RowAgrees ==
  /\ DOMAIN kyc = KycColumns /\ DOMAIN poa = PoaColumns
  /\ kyc.state \in K!EligibilityStates
  /\ Agree(kyc.state, kyc.substatus)

RowRefers ==
  /\ kyc.substatus = "kyc_session_open" => kyc.reference \in 1..Len(sessions)
  /\ poa.status = "in_progress" => poa.reference \in 1..Len(sessions)

\* The provider's side, and the requests and tasks that wait for it.
ProviderKnows ==
  /\ now \in Int /\ sessions \in Seq(Sessions) /\ events \in Seq(Events)
  /\ \A e \in 1..Len(events) : events[e].session \in 1..Len(sessions)

StartsKnow ==
  /\ starts \in Seq(Starts)
  /\ \A r \in 1..Len(starts) : StartIsOfASession(r)

TasksKnow ==
  /\ DOMAIN tasks = Callers \cup {"poll"}
  /\ \A w \in Callers \cup {"poll"} : TaskIsOfASession(w)

KycInv == RowAgrees /\ RowRefers /\ ProviderKnows /\ StartsKnow /\ TasksKnow

\* The same as the case distinction of EligibilityMatchesSubstatus.
LEMMA AgreeIsTheProperty ==
  kyc.state \in K!EligibilityStates =>
    (EligibilityMatchesSubstatus <=> Agree(kyc.state, kyc.substatus))
<1> SUFFICES ASSUME kyc.state \in K!EligibilityStates
             PROVE  EligibilityMatchesSubstatus <=> Agree(kyc.state, kyc.substatus)
  BY Zenon
<1> DEFINE state == kyc.state  substatus == kyc.substatus
<1>1. CASE kyc.state = "not_started"
  BY Zenon, <1>1 DEF EligibilityMatchesSubstatus, K!EligibilityMatchesSubstatus, Agree
<1>2. CASE kyc.state = "in_progress"
  BY Zenon, <1>2 DEF EligibilityMatchesSubstatus, K!EligibilityMatchesSubstatus, Agree
<1>3. CASE kyc.state = "pending_manual_review"
  BY Zenon, <1>3 DEF EligibilityMatchesSubstatus, K!EligibilityMatchesSubstatus, Agree
<1>4. CASE kyc.state = "eligible"
  BY Zenon, <1>4 DEF EligibilityMatchesSubstatus, K!EligibilityMatchesSubstatus, Agree
<1>5. CASE kyc.state \in {"unsupported_jurisdiction", "not_eligible"}
  BY Zenon, <1>5 DEF EligibilityMatchesSubstatus, K!EligibilityMatchesSubstatus, Agree
<1>6. CASE kyc.state = "requires_renewal"
  BY Zenon, <1>6 DEF EligibilityMatchesSubstatus, K!EligibilityMatchesSubstatus, Agree
<1> QED
  BY Zenon, <1>1, <1>2, <1>3, <1>4, <1>5, <1>6 DEF K!EligibilityStates

\* Whatever the provider answers, the outcome's state and substatus go together, the customer
\* is only eligible by an approval, and a session that is open is not started.
LEMMA OutcomesAgree ==
  ASSUME NEW status \in K!DiditStatuses, NEW decision, NEW declared, NEW ever, NEW at
  PROVE  LET o == K!evaluateDiditOutcome(status, decision, declared, ever, at) IN
         /\ Agree(o.state, o.substatus) /\ o.state \in K!EligibilityStates
         /\ o.state = "eligible" => status = "Approved"
<1> DEFINE base == K!evaluateStatusOutcome(status, decision, declared, at)
           Fine(b) == /\ Agree(b.state, b.substatus) /\ b.state \in K!EligibilityStates
                      /\ b.state = "eligible" => status = "Approved"
<1>0. \A state, substatus : /\ K!outcome(state, substatus).state = state
                            /\ K!outcome(state, substatus).substatus = substatus
  BY Zenon DEF K!outcome
<1>1. ASSUME NEW reason
      PROVE  \/ K!ReviewedOr("not_eligible", "kyc_failed", reason)
                  = K!outcome("not_eligible", "kyc_failed")
             \/ K!ReviewedOr("not_eligible", "kyc_failed", reason)
                  = K!outcome("pending_manual_review", "kyc_manual_review")
  BY Zenon DEF K!ReviewedOr
<1>2. K!evaluateApproved(decision, declared, at) \in
        {K!outcome("unsupported_jurisdiction", "kyc_jurisdiction_blocked"),
         K!outcome("pending_manual_review", "kyc_integration_anomaly"),
         K!outcome("pending_manual_review", "kyc_manual_review"),
         K!outcome("not_eligible", "kyc_failed"),
         K!outcome("eligible", "kyc_verified_owner_poa_missing")}
  BY Zenon, <1>1 DEF K!evaluateApproved
<1>3. \/ base \in
           {K!outcome("not_started", "kyc_session_open"), K!outcome("in_progress", "kyc_pending"),
            K!outcome("in_progress", "kyc_resubmission_pending"),
            K!outcome("pending_manual_review", "kyc_manual_review"),
            K!outcome("not_started", "kyc_restart_required"),
            K!outcome("requires_renewal", "kyc_reverification_required"),
            K!outcome("pending_manual_review", "kyc_integration_anomaly"),
            K!outcome("not_eligible", "kyc_failed"),
            K!outcome("unsupported_jurisdiction", "kyc_jurisdiction_blocked")}
      \/ status = "Approved" /\ base = K!outcome("eligible", "kyc_verified_owner_poa_missing")
  <2>1. CASE status = "Approved"
    <3>1. base = K!evaluateApproved(decision, declared, at)
      BY Zenon, <2>1 DEF K!evaluateStatusOutcome
    <3> QED
      BY Zenon, <1>2, <2>1, <3>1
  <2>2. CASE status = "Declined"
    <3>1. base = K!ReviewedOr("not_eligible", "kyc_failed",
                              K!warningReason(decision, "ID_DOCUMENT_INVALID"))
      BY Zenon, <2>2 DEF K!evaluateStatusOutcome
    <3> QED
      BY Zenon, <1>1, <3>1
  <2>3. CASE status = "Not Started"
    <3>1. base = K!outcome("not_started", "kyc_session_open")
      BY Zenon, <2>3 DEF K!evaluateStatusOutcome
    <3> QED
      BY Zenon, <3>1
  <2>4. CASE status = "In Progress"
    <3>1. base = K!outcome("in_progress", "kyc_pending")
      BY Zenon, <2>4 DEF K!evaluateStatusOutcome
    <3> QED
      BY Zenon, <3>1
  <2>5. CASE status = "Resubmitted"
    <3>1. base = K!outcome("in_progress", "kyc_resubmission_pending")
      BY Zenon, <2>5 DEF K!evaluateStatusOutcome
    <3> QED
      BY Zenon, <3>1
  <2>6. CASE status = "In Review"
    <3>1. base = K!outcome("pending_manual_review", "kyc_manual_review")
      BY Zenon, <2>6 DEF K!evaluateStatusOutcome
    <3> QED
      BY Zenon, <3>1
  <2>7. CASE status \in {"Expired", "Abandoned"}
    <3>1. base = K!outcome("not_started", "kyc_restart_required")
      BY Zenon, <2>7 DEF K!evaluateStatusOutcome
    <3> QED
      BY Zenon, <3>1
  <2>8. CASE status = "Kyc Expired"
    <3>1. base = K!outcome("requires_renewal", "kyc_reverification_required")
      BY Zenon, <2>8 DEF K!evaluateStatusOutcome
    <3> QED
      BY Zenon, <3>1
  <2>9. CASE status \in {"Awaiting User", "unknown"}
    <3>1. base = K!outcome("pending_manual_review", "kyc_integration_anomaly")
      BY Zenon, <2>9 DEF K!evaluateStatusOutcome
    <3> QED
      BY Zenon, <3>1
  <2> QED
    BY Zenon, <2>1, <2>2, <2>3, <2>4, <2>5, <2>6, <2>7, <2>8, <2>9 DEF K!DiditStatuses
<1>4. Agree(base.state, base.substatus) /\ base.state \in K!EligibilityStates
      /\ (base.state = "eligible" => status = "Approved")
  <2> HIDE DEF base
  <2> QED
    BY SMT, <1>0, <1>3 DEF Agree, K!EligibilityStates
<1>5. LET o == K!evaluateDiditOutcome(status, decision, declared, ever, at)
      IN  o.state = base.state /\ o.substatus = base.substatus
  BY Zenon DEF K!evaluateDiditOutcome
<1> QED
  BY Zenon, <1>4, <1>5

-----------------------------------------------------------------------------

\* A step that leaves the provider, the requests and the tasks alone is right when the row is.
LEMMA OnlyTheRow ==
  ASSUME KycInv, UNCHANGED <<now, sessions, events, starts, tasks>>, RowAgrees', RowRefers'
  PROVE  KycInv'
BY Zenon DEF KycInv, ProviderKnows, StartsKnow, TasksKnow, StartIsOfASession, TaskIsOfASession

\* A step that leaves the row alone keeps what the row says.
LEMMA RowKept ==
  ASSUME RowAgrees, RowRefers, UNCHANGED <<kyc, poa>>,
         1..Len(sessions) \subseteq 1..Len(sessions')
  PROVE  RowAgrees' /\ RowRefers'
BY Zenon DEF RowAgrees, RowRefers

\* Only the stamp of the row changes.
LEMMA Stamped ==
  ASSUME RowAgrees, NEW x, kyc' = [kyc EXCEPT !.updatedAt = x]
  PROVE  /\ DOMAIN kyc' = KycColumns
         /\ kyc'.state = kyc.state /\ kyc'.substatus = kyc.substatus
         /\ kyc'.reference = kyc.reference /\ kyc'.startId = kyc.startId
BY Zenon DEF RowAgrees, KycColumns

\* A column of the proof of address changes, or several, but not the reference.
LEMMA AddressFails ==
  ASSUME RowAgrees, NEW x, poa' = [poa EXCEPT !.status = x]
  PROVE  DOMAIN poa' = PoaColumns /\ poa'.status = x /\ poa'.reference = poa.reference
BY Zenon DEF RowAgrees, PoaColumns

-----------------------------------------------------------------------------
(* The steps of the customer.                                              *)

\* A request that reserved the row has no session yet.
LEMMA ReservedKnows ==
  ASSUME StartsKnow, NEW kind \in Kinds, K!Reserved(kind), UNCHANGED sessions
  PROVE  StartsKnow'
<1> DEFINE new == [kind |-> kind, step |-> "reserved", session |-> 0]
<1>1. new \in Starts /\ new.step = "reserved" /\ starts' = Append(starts, new)
  BY Zenon DEF Starts, K!Reserved
<1> HIDE DEF new
<1>2. /\ starts' \in Seq(Starts) /\ Len(starts') = Len(starts) + 1 /\ Len(starts) \in Nat
      /\ \A r \in 1..Len(starts) : starts'[r] = starts[r]
      /\ starts'[Len(starts) + 1] = new
  BY SMT, <1>1 DEF StartsKnow
<1> QED
  BY SMT, <1>1, <1>2 DEF StartsKnow, StartIsOfASession

\* A request reserves the row.
LEMMA ReserveKeeps ==
  ASSUME KycInv, NEW d, K!StartKycSessionService(d)
  PROVE  KycInv' /\ kyc'.reference = kyc.reference /\ kyc'.state = kyc.state /\ poa' = poa
<1>1. /\ kyc' = [kyc EXCEPT !.substatus = "kyc_session_creating", !.startId = Len(starts) + 1,
                            !.declared = d, !.updatedAt = K!OwnClock]
      /\ K!canStartSession(kyc.substatus) /\ poa' = poa /\ K!Reserved("baseline")
      /\ UNCHANGED <<now, sessions, events, tasks>>
  BY Zenon DEF K!StartKycSessionService, K!reserveSessionStart
<1>2. /\ DOMAIN kyc' = KycColumns /\ kyc'.state = kyc.state
      /\ kyc'.substatus = "kyc_session_creating" /\ kyc'.reference = kyc.reference
  BY Zenon, <1>1 DEF KycInv, RowAgrees, KycColumns
<1>3. kyc.state \in {"not_started", "requires_renewal"}
  BY Zenon, <1>1 DEF KycInv, RowAgrees, Agree, K!canStartSession
<1>4. RowAgrees'
  BY Zenon, <1>1, <1>2, <1>3 DEF KycInv, RowAgrees, Agree
<1>5. RowRefers'
  BY Zenon, <1>1, <1>2 DEF KycInv, RowRefers
<1>6. StartsKnow'
  BY Zenon, <1>1, ReservedKnows DEF KycInv, Kinds
<1> QED
  BY Zenon, <1>1, <1>2, <1>4, <1>5, <1>6
  DEF KycInv, ProviderKnows, TasksKnow, TaskIsOfASession

LEMMA ReserveAddressKeeps ==
  ASSUME KycInv, K!StartProofOfAddressSessionService
  PROVE  /\ KycInv' /\ kyc'.reference = kyc.reference /\ kyc'.state = kyc.state
         /\ poa'.reference = poa.reference
<1> DEFINE id == Len(starts) + 1
<1>1. /\ kyc' = [kyc EXCEPT !.updatedAt = K!OwnClock]
      /\ poa' = [poa EXCEPT !.status = "creating", !.startId = id]
      /\ K!Reserved("proof_of_address")
      /\ UNCHANGED <<now, sessions, events, tasks>>
  BY Zenon DEF K!StartProofOfAddressSessionService, K!reserveProofOfAddressSessionStart
<1> HIDE DEF id
<1>2. /\ DOMAIN kyc' = KycColumns
      /\ kyc'.state = kyc.state /\ kyc'.substatus = kyc.substatus
      /\ kyc'.reference = kyc.reference
  BY Zenon, <1>1, Stamped DEF KycInv
<1>3. /\ DOMAIN poa' = PoaColumns /\ poa'.status = "creating" /\ poa'.reference = poa.reference
  BY Zenon, <1>1 DEF KycInv, RowAgrees, PoaColumns
<1>4. RowAgrees' /\ RowRefers'
  BY Zenon, <1>1, <1>2, <1>3 DEF KycInv, RowAgrees, RowRefers
<1>5. StartsKnow'
  BY Zenon, <1>1, ReservedKnows DEF KycInv, Kinds
<1> QED
  BY Zenon, <1>1, <1>2, <1>3, <1>4, <1>5
  DEF KycInv, ProviderKnows, TasksKnow, TaskIsOfASession

\* The provider opens a session for a request.
LEMMA CreateKeeps ==
  ASSUME KycInv, NEW r \in 1..Len(starts), K!createSession(r)
  PROVE  KycInv' /\ UNCHANGED <<kyc, poa>>
<1> DEFINE new == [kind |-> starts[r].kind, status |-> "Not Started", decision |-> K!NoDecision,
                   start |-> r]
           started == [starts[r] EXCEPT !.step = "created", !.session = Len(sessions) + 1]
<1>1. /\ sessions' = Append(sessions, new) /\ starts' = [starts EXCEPT ![r] = started]
      /\ UNCHANGED <<now, kyc, poa, events, tasks>>
  BY Zenon DEF K!createSession
<1>2. starts \in Seq(Starts) /\ starts[r] \in Starts /\ r \in Nat
  BY SMT DEF KycInv, StartsKnow
<1>3. new \in Sessions /\ new.start = r
  BY Zenon, <1>2 DEF Sessions, Starts, K!DiditStatuses
<1> HIDE DEF new
<1>4. /\ sessions' \in Seq(Sessions) /\ Len(sessions) \in Nat
      /\ Len(sessions') = Len(sessions) + 1 /\ sessions'[Len(sessions) + 1] = new
      /\ \A s \in 1..Len(sessions) : sessions'[s] = sessions[s]
  BY SMT, <1>1, <1>3 DEF KycInv, ProviderKnows
<1>5. /\ 1..Len(sessions) \subseteq 1..Len(sessions') /\ Len(sessions) + 1 \in 1..Len(sessions')
      /\ Len(sessions) + 1 \in Nat
  BY SMT, <1>4
<1>6. started \in Starts
  BY Zenon, <1>2, <1>5 DEF Starts
<1>7. started.step = "created" /\ started.session = Len(sessions) + 1
  BY Zenon, <1>2 DEF Starts
<1> HIDE DEF started
<1>8. /\ starts' \in Seq(Starts) /\ Len(starts') = Len(starts) /\ starts'[r] = started
      /\ \A q \in 1..Len(starts) : q # r => starts'[q] = starts[q]
  BY SMT, <1>1, <1>2, <1>6
<1>9. StartsKnow'
  <2> SUFFICES ASSUME NEW q \in 1..Len(starts) PROVE StartIsOfASession(q)'
    BY Zenon, <1>8 DEF StartsKnow
  <2>1. CASE q = r
    BY Zenon, <2>1, <1>3, <1>4, <1>5, <1>7, <1>8 DEF StartIsOfASession
  <2>2. CASE q # r
    <3>1. StartIsOfASession(q) /\ starts'[q] = starts[q]
      BY Zenon, <2>2, <1>8 DEF KycInv, StartsKnow
    <3> QED
      BY Zenon, <3>1, <1>4, <1>5 DEF StartIsOfASession
  <2> QED
    BY Zenon, <2>1, <2>2
<1>10. ProviderKnows'
  BY Zenon, <1>1, <1>4, <1>5 DEF KycInv, ProviderKnows
<1>11. TasksKnow'
  BY Zenon, <1>1, <1>5 DEF KycInv, TasksKnow, TaskIsOfASession
<1>12. RowAgrees' /\ RowRefers'
  BY Zenon, <1>1, <1>5, RowKept DEF KycInv
<1> QED
  BY Zenon, <1>1, <1>9, <1>10, <1>11, <1>12 DEF KycInv

\* Failing a start changes at most the substatus, and only where the start is still held.
LEMMA FailKeepsRow ==
  ASSUME RowAgrees, RowRefers, NEW kind, NEW id, K!FailStart(kind, id), UNCHANGED sessions
  PROVE  /\ RowAgrees' /\ RowRefers'
         /\ kyc'.reference = kyc.reference /\ kyc'.state = kyc.state
         /\ poa'.reference = poa.reference
<1>1. CASE UNCHANGED <<kyc, poa>>
  BY Zenon, <1>1, RowKept
<1>2. CASE /\ poa' = [poa EXCEPT !.status = "creation_failed"]
           /\ kyc' = [kyc EXCEPT !.updatedAt = K!OwnClock]
  <2>1. /\ DOMAIN kyc' = KycColumns /\ kyc'.state = kyc.state
        /\ kyc'.substatus = kyc.substatus /\ kyc'.reference = kyc.reference
    BY Zenon, <1>2, Stamped
  <2>2. /\ DOMAIN poa' = PoaColumns /\ poa'.status = "creation_failed"
        /\ poa'.reference = poa.reference
    BY Zenon, <1>2, AddressFails
  <2> QED
    BY Zenon, <2>1, <2>2 DEF RowAgrees, RowRefers
<1>3. CASE /\ kyc.substatus = "kyc_session_creating" /\ poa' = poa
           /\ kyc' = [kyc EXCEPT !.substatus = "kyc_session_creation_failed",
                                 !.updatedAt = K!OwnClock]
  <2>1. /\ DOMAIN kyc' = KycColumns /\ kyc'.state = kyc.state
        /\ kyc'.substatus = "kyc_session_creation_failed" /\ kyc'.reference = kyc.reference
    BY Zenon, <1>3 DEF RowAgrees, KycColumns
  <2>2. kyc.state \in {"not_started", "requires_renewal"}
    BY Zenon, <1>3 DEF RowAgrees, Agree
  <2>3. RowAgrees'
    BY Zenon, <1>3, <2>1, <2>2 DEF RowAgrees, Agree
  <2> QED
    BY Zenon, <1>3, <2>1, <2>3 DEF RowRefers
<1> QED
  BY Zenon, <1>1, <1>2, <1>3
  DEF K!FailStart, K!failSessionStart, K!failProofOfAddressSessionStart, K!HoldsStart

\* A request that ends leaves its session behind.
LEMMA EndKnows ==
  ASSUME StartsKnow, NEW r \in 1..Len(starts),
         starts' = [starts EXCEPT ![r].step = "ended"], UNCHANGED sessions
  PROVE  StartsKnow'
<1> DEFINE started == [starts[r] EXCEPT !.step = "ended"]
<1>1. starts \in Seq(Starts) /\ starts[r] \in Starts
  BY SMT DEF StartsKnow
<1>2. started \in Starts
  BY Zenon, <1>1 DEF Starts
<1>3. started.step = "ended" /\ starts' = [starts EXCEPT ![r] = started]
  BY Zenon, <1>1 DEF Starts
<1> HIDE DEF started
<1>4. /\ starts' \in Seq(Starts) /\ Len(starts') = Len(starts) /\ starts'[r] = started
      /\ \A q \in 1..Len(starts) : q # r => starts'[q] = starts[q]
  BY SMT, <1>1, <1>2, <1>3
<1> QED
  BY Zenon, <1>3, <1>4 DEF StartsKnow, StartIsOfASession

LEMMA StartFailsKeeps ==
  ASSUME KycInv, NEW r \in 1..Len(starts), K!StartFails(r)
  PROVE  /\ KycInv' /\ kyc'.reference = kyc.reference /\ kyc'.state = kyc.state
         /\ poa'.reference = poa.reference
<1>1. /\ K!FailStart(starts[r].kind, r) /\ UNCHANGED <<now, sessions, events, tasks>>
      /\ starts' = [starts EXCEPT ![r].step = "ended"]
  BY Zenon DEF K!StartFails, K!Ends
<1>2. StartsKnow'
  BY Zenon, <1>1, EndKnows DEF KycInv
<1> QED
  BY Zenon, <1>1, <1>2, FailKeepsRow DEF KycInv, ProviderKnows, TasksKnow, TaskIsOfASession

\* A request records its session only while the row holds its reservation.
LEMMA CompleteKeeps ==
  ASSUME KycInv, NEW r \in 1..Len(starts), K!StartCompletes(r)
  PROVE  /\ KycInv' /\ (kyc'.state = "eligible" => kyc.state = "eligible")
         /\ \/ kyc'.reference = kyc.reference
            \/ kyc.startId = r /\ sessions[kyc'.reference].start = r
         /\ \/ poa'.reference = poa.reference
            \/ poa.startId = r /\ sessions[poa'.reference].start = r
<1> DEFINE session == starts[r].session
<1>1. /\ UNCHANGED <<now, sessions, events, tasks>>
      /\ starts' = [starts EXCEPT ![r].step = "ended"]
  BY Zenon DEF K!StartCompletes, K!Ends
<1>2. StartsKnow'
  BY Zenon, <1>1, EndKnows DEF KycInv
<1>3. session \in 1..Len(sessions) /\ sessions[session].start = r
  BY Zenon DEF K!StartCompletes, KycInv, StartsKnow, StartIsOfASession
<1> SUFFICES /\ RowAgrees' /\ RowRefers' /\ (kyc'.state = "eligible" => kyc.state = "eligible")
             /\ kyc'.reference = kyc.reference \/ (kyc.startId = r /\ kyc'.reference = session)
             /\ poa'.reference = poa.reference \/ (poa.startId = r /\ poa'.reference = session)
  BY Zenon, <1>1, <1>2, <1>3 DEF KycInv, ProviderKnows, TasksKnow, TaskIsOfASession
<1>4. CASE UNCHANGED <<kyc, poa>>
  BY Zenon, <1>1, <1>4, RowKept DEF KycInv
<1>5. CASE /\ kyc.startId = r /\ poa' = poa
           /\ kyc' = [kyc EXCEPT !.reference = session, !.substatus = "kyc_session_open",
                                 !.state = "not_started", !.providerUpdatedAt = K!OwnClock,
                                 !.updatedAt = K!OwnClock]
  <2> HIDE DEF session
  <2>1. /\ DOMAIN kyc' = KycColumns /\ kyc'.state = "not_started"
        /\ kyc'.substatus = "kyc_session_open" /\ kyc'.reference = session
    BY Zenon, <1>5 DEF KycInv, RowAgrees, KycColumns
  <2>2. RowAgrees'
    BY Zenon, <1>5, <2>1 DEF KycInv, RowAgrees, Agree, K!EligibilityStates
  <2>3. RowRefers' /\ kyc'.state # "eligible"
    BY Zenon, <1>1, <1>3, <1>5, <2>1 DEF KycInv, RowRefers
  <2> QED
    BY Zenon, <1>5, <2>1, <2>2, <2>3
<1>6. CASE /\ poa.startId = r /\ kyc' = [kyc EXCEPT !.updatedAt = K!OwnClock]
           /\ poa' = [poa EXCEPT !.reference = session, !.status = "in_progress",
                                 !.providerUpdatedAt = K!OwnClock]
  <2> HIDE DEF session
  <2>1. /\ DOMAIN kyc' = KycColumns /\ kyc'.state = kyc.state
        /\ kyc'.substatus = kyc.substatus /\ kyc'.reference = kyc.reference
    BY Zenon, <1>6, Stamped DEF KycInv
  <2>2. /\ DOMAIN poa' = PoaColumns /\ poa'.status = "in_progress"
        /\ poa'.reference = session
    BY Zenon, <1>6 DEF KycInv, RowAgrees, PoaColumns
  <2>3. RowAgrees' /\ RowRefers'
    BY Zenon, <1>1, <1>3, <2>1, <2>2 DEF KycInv, RowAgrees, RowRefers
  <2> QED
    BY Zenon, <1>6, <2>1, <2>2, <2>3
<1> QED
  BY Zenon, <1>4, <1>5, <1>6
  DEF K!StartCompletes, K!completeSessionStart, K!completeProofOfAddressSessionStart,
      K!HoldsStart

\* The provider moves a session and sends a webhook.
LEMMA DiditKeeps ==
  ASSUME KycInv, NEW s \in 1..Len(sessions), NEW status \in K!DiditStatuses,
         NEW d \in KycDecisions, K!DiditMoves(s, status, d)
  PROVE  KycInv' /\ UNCHANGED <<kyc, poa>>
<1> DEFINE event == [session |-> s, status |-> status, at |-> K!DiditClock]
           moved == [sessions[s] EXCEPT !.status = status,
                                        !.decision = IF status \in {"Approved", "Declined"}
                                                     THEN d ELSE sessions[s].decision]
<1>1. /\ sessions' = [sessions EXCEPT ![s] = moved] /\ events' = Append(events, event)
      /\ UNCHANGED <<now, kyc, poa, starts, tasks>>
  BY Zenon DEF K!DiditMoves
<1>2. sessions \in Seq(Sessions) /\ sessions[s] \in Sessions /\ s \in Nat
  BY SMT DEF KycInv, ProviderKnows
<1>3. moved \in Sessions
  BY Zenon, <1>2 DEF Sessions
<1>4. moved.start = sessions[s].start
  BY Zenon, <1>2 DEF Sessions
<1> HIDE DEF moved
<1>5. /\ sessions' \in Seq(Sessions) /\ Len(sessions') = Len(sessions)
      /\ \A q \in 1..Len(sessions) : sessions'[q].start = sessions[q].start
  BY SMT, <1>1, <1>2, <1>3, <1>4
<1>6. event \in Events /\ event.session = s
  BY SMT, <1>2 DEF Events, K!DiditClock, KycInv, ProviderKnows
<1> HIDE DEF event
<1>7. /\ events' \in Seq(Events) /\ Len(events) \in Nat /\ Len(events') = Len(events) + 1
      /\ events'[Len(events) + 1] = event
      /\ \A e \in 1..Len(events) : events'[e] = events[e] /\ e \in 1..Len(events')
  BY SMT, <1>1, <1>6 DEF KycInv, ProviderKnows
<1>8. ProviderKnows'
  <2> SUFFICES ASSUME NEW e \in 1..Len(events') PROVE events'[e].session \in 1..Len(sessions)
    BY Zenon, <1>1, <1>5, <1>7 DEF KycInv, ProviderKnows
  <2>1. e \in 1..Len(events) \/ e = Len(events) + 1
    BY SMT, <1>7
  <2> QED
    BY Zenon, <2>1, <1>6, <1>7 DEF KycInv, ProviderKnows
<1>9. StartsKnow'
  BY Zenon, <1>1, <1>5 DEF KycInv, StartsKnow, StartIsOfASession
<1>10. TasksKnow'
  BY Zenon, <1>1, <1>5, <1>7 DEF KycInv, TasksKnow, TaskIsOfASession
<1>11. RowAgrees' /\ RowRefers'
  BY Zenon, <1>1, <1>5, RowKept DEF KycInv
<1> QED
  BY Zenon, <1>1, <1>8, <1>9, <1>10, <1>11 DEF KycInv

-----------------------------------------------------------------------------
(* The steps of the workers and the jobs.                                  *)

\* A step of one task leaves the others as they were.
LEMMA TaskSteps ==
  ASSUME KycInv, NEW w \in Callers \cup {"poll"}, NEW task,
         tasks' = [tasks EXCEPT ![w] = task], UNCHANGED <<sessions, events>>,
         /\ task.step \in {"idle", "listed", "answered"}
         /\ task.step # "idle" => task.session \in 1..Len(sessions)
         /\ task.step = "answered" =>
              /\ task.status \in K!DiditStatuses
              /\ \/ w = "poll" /\ task.event = 0
                 \/ /\ task.event \in 1..Len(events)
                    /\ events[task.event].status = task.status
                    /\ events[task.event].session = task.session
  PROVE  TasksKnow' /\ tasks'[w] = task
<1>1. /\ DOMAIN tasks' = Callers \cup {"poll"} /\ tasks'[w] = task
      /\ \A x \in Callers \cup {"poll"} : x # w => tasks'[x] = tasks[x]
  BY Zenon DEF KycInv, TasksKnow
<1>2. ASSUME NEW x \in Callers \cup {"poll"} PROVE TaskIsOfASession(x)'
  <2>1. CASE x = w
    BY Zenon, <2>1, <1>1 DEF TaskIsOfASession
  <2>2. CASE x # w
    <3>1. tasks'[x] = tasks[x] /\ TaskIsOfASession(x)
      BY Zenon, <2>2, <1>1 DEF KycInv, TasksKnow
    <3> QED
      BY Zenon, <3>1 DEF TaskIsOfASession
  <2> QED
    BY Zenon, <2>1, <2>2
<1> QED
  BY Zenon, <1>1, <1>2 DEF TasksKnow

\* A task that ends holds nothing.
LEMMA TaskEnds ==
  ASSUME KycInv, NEW w \in Callers \cup {"poll"}, tasks' = [tasks EXCEPT ![w] = K!Idle],
         UNCHANGED <<sessions, events>>
  PROVE  TasksKnow' /\ tasks'[w] = K!Idle
<1>1. K!Idle.step = "idle"
  BY Zenon DEF K!Idle
<1> QED
  BY Zenon, <1>1, TaskSteps

LEMMA TaskFailsKeeps ==
  ASSUME KycInv, NEW w \in Callers \cup {"poll"}, K!TaskFails(w)
  PROVE  KycInv' /\ UNCHANGED <<kyc, poa>>
<1>1. /\ tasks' = [tasks EXCEPT ![w] = K!Idle]
      /\ UNCHANGED <<now, kyc, poa, sessions, events, starts>>
  BY Zenon DEF K!TaskFails
<1>2. TasksKnow' /\ RowAgrees' /\ RowRefers'
  BY Zenon, <1>1, TaskEnds, RowKept DEF KycInv
<1> QED
  BY Zenon, <1>1, <1>2 DEF KycInv, ProviderKnows, StartsKnow, StartIsOfASession

\* A worker takes a webhook: its task is of that webhook's session, with the status it says.
LEMMA WebhookKeeps ==
  ASSUME KycInv, NEW w \in Callers, NEW e \in 1..Len(events),
         K!ProcessDiditWebhookService(w, e)
  PROVE  KycInv' /\ UNCHANGED <<kyc, poa>>
<1> DEFINE event == events[e]
           task == [step |-> "answered", event |-> e, kind |-> sessions[event.session].kind,
                    session |-> event.session, status |-> event.status, at |-> event.at,
                    decision |-> IF K!shouldFetchDecision(event.status)
                                 THEN sessions[event.session].decision ELSE K!NoDecision,
                    declared |-> kyc.declared, ever |-> kyc.everRequiredManualReview]
<1>1. /\ tasks' = [tasks EXCEPT ![w] = task] \/ UNCHANGED tasks
      /\ UNCHANGED <<now, kyc, poa, sessions, events, starts>>
  BY Zenon DEF K!ProcessDiditWebhookService
<1>2. event \in Events /\ event.session \in 1..Len(sessions)
  BY SMT DEF KycInv, ProviderKnows
<1>3. event.status \in K!DiditStatuses
  BY Zenon, <1>2 DEF Events
<1>4. /\ task.step = "answered" /\ task.event = e
      /\ task.session = event.session /\ task.status = event.status
  BY Zenon
<1>5. TasksKnow'
  <2>1. CASE UNCHANGED tasks
    BY Zenon, <2>1, <1>1 DEF KycInv, TasksKnow, TaskIsOfASession
  <2>2. CASE tasks' = [tasks EXCEPT ![w] = task]
    <3> HIDE DEF task
    <3> QED
      BY Zenon, <2>2, <1>1, <1>2, <1>3, <1>4, TaskSteps
  <2> QED
    BY Zenon, <1>1, <2>1, <2>2
<1>6. RowAgrees' /\ RowRefers'
  BY Zenon, <1>1, RowKept DEF KycInv
<1> QED
  BY Zenon, <1>1, <1>5, <1>6 DEF KycInv, ProviderKnows, StartsKnow, StartIsOfASession

\* An outcome for the session the row refers to.
LEMMA OutcomeKeepsRow ==
  ASSUME RowAgrees, RowRefers, NEW task, task.status \in K!DiditStatuses,
         task.session \in 1..Len(sessions), kyc.reference = task.session,
         kyc' = K!ApplyOutcome(task), UNCHANGED <<poa, sessions>>
  PROVE  /\ RowAgrees' /\ RowRefers' /\ kyc'.reference = kyc.reference
         /\ kyc'.state = "eligible" => task.status = "Approved"
<1> DEFINE o == K!evaluateDiditOutcome(task.status, task.decision, task.declared, task.ever,
                                       task.at)
<1>1. /\ Agree(o.state, o.substatus) /\ o.state \in K!EligibilityStates
      /\ o.state = "eligible" => task.status = "Approved"
  BY Zenon, OutcomesAgree
<1>2. /\ DOMAIN kyc' = KycColumns /\ kyc'.state = o.state /\ kyc'.reference = kyc.reference
      /\ \/ kyc'.substatus = o.substatus
         \/ o.state = "eligible" /\ kyc'.substatus = "kyc_verified"
  BY Zenon DEF K!ApplyOutcome, RowAgrees, KycColumns
<1> HIDE DEF o
<1>3. RowAgrees'
  BY Zenon, <1>1, <1>2 DEF RowAgrees, Agree
<1>4. RowRefers'
  BY Zenon, <1>2 DEF RowRefers
<1> QED
  BY Zenon, <1>1, <1>2, <1>3, <1>4

\* The outcome of a proof of address moves an eligible customer between the two substatuses of
\* eligibility, and nobody else.
LEMMA AddressOutcomeKeepsRow ==
  ASSUME RowAgrees, RowRefers, NEW task, task.session \in 1..Len(sessions),
         K!applyProofOfAddressOutcome(task), UNCHANGED sessions
  PROVE  /\ RowAgrees' /\ RowRefers' /\ kyc'.reference = kyc.reference
         /\ kyc'.state = kyc.state /\ poa'.reference = poa.reference
<1> DEFINE o == K!evaluateProofOfAddressOutcome(task.status, task.decision,
                                                task.declared.residence, task.at)
<1>1. CASE UNCHANGED <<kyc, poa>>
  BY Zenon, <1>1, RowKept
<1> DEFINE stamp == K!Max({kyc.updatedAt, task.at})
           verified == IF kyc.state # "eligible" THEN kyc.substatus
                       ELSE IF o.status = "current" THEN "kyc_verified"
                       ELSE "kyc_verified_owner_poa_missing"
<1>2. CASE /\ poa.reference = task.session
           /\ poa' = [poa EXCEPT !.status = o.status, !.currentUntil = o.currentUntil,
                                 !.providerUpdatedAt = task.at]
           /\ kyc' = [kyc EXCEPT !.updatedAt = stamp, !.substatus = verified]
  <2>0. \/ verified = kyc.substatus
        \/ /\ kyc.state = "eligible"
           /\ verified \in {"kyc_verified", "kyc_verified_owner_poa_missing"}
    BY Zenon
  <2> HIDE DEF o, stamp, verified
  <2>1. DOMAIN poa' = PoaColumns /\ poa'.reference = poa.reference
    BY Zenon, <1>2 DEF RowAgrees, PoaColumns
  <2>2. /\ DOMAIN kyc' = KycColumns /\ kyc'.state = kyc.state /\ kyc'.reference = kyc.reference
        /\ \/ kyc'.substatus = kyc.substatus
           \/ /\ kyc.state = "eligible"
              /\ kyc'.substatus \in {"kyc_verified", "kyc_verified_owner_poa_missing"}
    BY Zenon, <1>2, <2>0 DEF RowAgrees, KycColumns
  <2>3. RowAgrees'
    BY Zenon, <2>1, <2>2 DEF RowAgrees, Agree
  <2>4. RowRefers'
    BY Zenon, <1>2, <2>1, <2>2 DEF RowRefers
  <2> QED
    BY Zenon, <2>1, <2>2, <2>3, <2>4
<1> QED
  BY Zenon, <1>1, <1>2 DEF K!applyProofOfAddressOutcome

\* An outcome is applied; it makes the customer eligible only by an approval, for the session the
\* row refers to, that nobody has claimed.
LEMMA ApplyKeeps ==
  ASSUME KycInv, NEW w \in Callers \cup {"poll"}, K!Applies(w)
  PROVE  /\ KycInv' /\ UNCHANGED events /\ tasks'[w] = K!Idle
         /\ kyc'.reference = kyc.reference /\ poa'.reference = poa.reference
         /\ receipts' = receipts \cup ({tasks[w].event} \ {0})
         /\ kyc.state # "eligible" /\ kyc'.state = "eligible" =>
              /\ tasks[w].status = "Approved" /\ tasks[w].session = kyc.reference
              /\ tasks[w].event \notin receipts
<1> DEFINE task == tasks[w]
<1>1. /\ task.step = "answered" /\ tasks' = [tasks EXCEPT ![w] = K!Idle]
      /\ UNCHANGED <<now, sessions, events, starts>>
  BY Zenon DEF K!Applies
<1>2. TasksKnow' /\ tasks'[w] = K!Idle
  BY Zenon, <1>1, TaskEnds
<1>3. task.status \in K!DiditStatuses /\ task.session \in 1..Len(sessions)
  BY Zenon, <1>1 DEF KycInv, TasksKnow, TaskIsOfASession
<1> SUFFICES /\ RowAgrees' /\ RowRefers'
             /\ kyc'.reference = kyc.reference /\ poa'.reference = poa.reference
             /\ receipts' = receipts \cup ({task.event} \ {0})
             /\ kyc.state # "eligible" /\ kyc'.state = "eligible" =>
                  /\ task.status = "Approved" /\ task.session = kyc.reference
                  /\ task.event \notin receipts
  BY Zenon, <1>1, <1>2 DEF KycInv, ProviderKnows, StartsKnow, StartIsOfASession
<1> HIDE DEF task
<1>4. CASE K!applyProviderOutcome(task)
  <2>1. poa' = poa /\ receipts' = receipts \cup ({task.event} \ {0})
    BY Zenon, <1>4 DEF K!applyProviderOutcome
  <2>2. CASE kyc' = kyc
    BY Zenon, <1>1, <2>1, <2>2, RowKept DEF KycInv
  <2>3. CASE /\ task.event \notin receipts /\ kyc.reference = task.session
             /\ kyc' = K!ApplyOutcome(task)
    BY Zenon, <1>1, <1>3, <2>1, <2>3, OutcomeKeepsRow DEF KycInv
  <2> QED
    BY Zenon, <1>4, <2>2, <2>3 DEF K!applyProviderOutcome, K!Claimed
<1>5. CASE K!applyProofOfAddressOutcome(task)
  <2>1. receipts' = receipts \cup ({task.event} \ {0})
    BY Zenon, <1>5 DEF K!applyProofOfAddressOutcome
  <2> QED
    BY Zenon, <1>1, <1>3, <1>5, <2>1, AddressOutcomeKeepsRow DEF KycInv
<1> QED
  BY Zenon, <1>4, <1>5 DEF K!Applies, task

\* The reconciliation job lists an open session, hears of it, and the renewal job moves the row.
LEMMA PollListsKeeps ==
  ASSUME KycInv, NEW kind \in Kinds, K!ReconcileStuckOpenSessionsService(kind)
  PROVE  KycInv' /\ UNCHANGED <<kyc, poa>>
<1> DEFINE task == [step |-> "listed", event |-> 0, kind |-> kind,
                    session |-> K!ReferenceOf(kind), at |-> K!OwnClock,
                    declared |-> kyc.declared, ever |-> kyc.everRequiredManualReview]
<1>1. /\ tasks' = [tasks EXCEPT !["poll"] = task]
      /\ kind \in K!listStuckOpenSessionsForTimer
      /\ UNCHANGED <<now, kyc, poa, sessions, events, starts>>
  BY Zenon DEF K!ReconcileStuckOpenSessionsService
<1>2. task.step = "listed" /\ task.session = K!ReferenceOf(kind)
  BY Zenon
<1>3. K!ReferenceOf(kind) \in 1..Len(sessions)
  BY Zenon, <1>1 DEF K!ReferenceOf, K!listStuckOpenSessionsForTimer, KycInv, RowRefers, Kinds
<1> HIDE DEF task
<1>4. TasksKnow'
  BY Zenon, <1>1, <1>2, <1>3, TaskSteps
<1>5. RowAgrees' /\ RowRefers'
  BY Zenon, <1>1, RowKept DEF KycInv
<1> QED
  BY Zenon, <1>1, <1>4, <1>5 DEF KycInv, ProviderKnows, StartsKnow, StartIsOfASession

LEMMA PollAnswersKeeps ==
  ASSUME KycInv, K!PollAnswered
  PROVE  KycInv' /\ UNCHANGED <<kyc, poa>>
<1> DEFINE task == tasks["poll"]
           s == sessions[task.session]
           answer == [step |-> "answered", event |-> 0, kind |-> task.kind,
                      session |-> task.session, status |-> s.status, at |-> task.at,
                      decision |-> s.decision, declared |-> task.declared, ever |-> task.ever]
<1>1. /\ task.step = "listed"
      /\ \/ tasks' = [tasks EXCEPT !["poll"] = K!Idle]
         \/ tasks' = [tasks EXCEPT !["poll"] = answer]
      /\ UNCHANGED <<now, kyc, poa, sessions, events, starts>>
  BY Zenon DEF K!PollAnswered
<1>2. task.session \in 1..Len(sessions)
  <2>1. TaskIsOfASession("poll")
    BY Zenon DEF KycInv, TasksKnow
  <2>2. task.step # "idle"
    BY Zenon, <1>1
  <2> QED
    BY Zenon, <2>1, <2>2 DEF TaskIsOfASession
<1>3. s.status \in K!DiditStatuses
  <2> HIDE DEF task
  <2>1. s \in Sessions
    BY SMT, <1>2 DEF KycInv, ProviderKnows
  <2> QED
    BY Zenon, <2>1 DEF Sessions
<1>4. /\ answer.step = "answered" /\ answer.event = 0
      /\ answer.session = task.session /\ answer.status = s.status
  BY Zenon
<1>5. TasksKnow'
  <2>1. CASE tasks' = [tasks EXCEPT !["poll"] = K!Idle]
    BY Zenon, <2>1, <1>1, TaskEnds
  <2>2. CASE tasks' = [tasks EXCEPT !["poll"] = answer]
    <3> HIDE DEF answer, s, task
    <3> QED
      BY Zenon, <2>2, <1>1, <1>2, <1>3, <1>4, TaskSteps
  <2> QED
    BY Zenon, <1>1, <2>1, <2>2
<1>6. RowAgrees' /\ RowRefers'
  BY Zenon, <1>1, RowKept DEF KycInv
<1> QED
  BY Zenon, <1>1, <1>5, <1>6 DEF KycInv, ProviderKnows, StartsKnow, StartIsOfASession

LEMMA RenewalKeeps ==
  ASSUME KycInv, K!transitionToRequiresRenewal
  PROVE  KycInv' /\ kyc'.reference = kyc.reference /\ poa' = poa
         /\ (kyc'.state = "eligible" => kyc.state = "eligible")
<1>1. UNCHANGED <<now, poa, sessions, events, starts, tasks>>
  BY Zenon DEF K!transitionToRequiresRenewal
<1>2. CASE kyc' = kyc
  BY Zenon, <1>1, <1>2, RowKept, OnlyTheRow DEF KycInv
<1>3. CASE kyc' = [kyc EXCEPT !.state = "requires_renewal",
                              !.substatus = "kyc_reverification_required",
                              !.updatedAt = K!OwnClock]
  <2>1. /\ DOMAIN kyc' = KycColumns /\ kyc'.state = "requires_renewal"
        /\ kyc'.substatus = "kyc_reverification_required" /\ kyc'.reference = kyc.reference
    BY Zenon, <1>3 DEF KycInv, RowAgrees, KycColumns
  <2>2. RowAgrees'
    BY Zenon, <1>1, <2>1 DEF KycInv, RowAgrees, Agree, K!EligibilityStates
  <2>3. RowRefers'
    BY Zenon, <1>1, <2>1 DEF KycInv, RowRefers
  <2> QED
    BY Zenon, <1>1, <2>1, <2>2, <2>3, OnlyTheRow
<1> QED
  BY Zenon, <1>2, <1>3 DEF K!transitionToRequiresRenewal

LEMMA TickKeeps ==
  ASSUME KycInv, K!Tick
  PROVE  KycInv' /\ UNCHANGED <<kyc, poa>>
<1>1. now' \in Int /\ UNCHANGED <<kyc, poa, sessions, events, starts, tasks>>
  BY SMT DEF K!Tick, KycInv, ProviderKnows
<1>2. RowAgrees' /\ RowRefers'
  BY Zenon, <1>1, RowKept DEF KycInv
<1> QED
  BY Zenon, <1>1, <1>2
  DEF KycInv, ProviderKnows, StartsKnow, StartIsOfASession, TasksKnow, TaskIsOfASession

-----------------------------------------------------------------------------
(* Every step.                                                             *)

\* A reference is only set to a session of the reservation that the row holds.
AttachedToItsStart ==
  /\ kyc'.reference # kyc.reference => sessions[kyc'.reference].start = kyc.startId
  /\ poa'.reference # poa.reference => sessions[poa'.reference].start = poa.startId

\* The customer becomes eligible by a webhook that is claimed in the same step, or by the
\* answer to the reconciliation job.
EarnedByAnAnswer ==
  kyc.state # "eligible" /\ kyc'.state = "eligible" =>
    \/ \E e \in receipts' \ receipts :
         events[e].status = "Approved" /\ events[e].session = kyc.reference
    \/ /\ tasks["poll"].step = "answered" /\ tasks'["poll"] = K!Idle
       /\ tasks["poll"].status = "Approved" /\ tasks["poll"].session = kyc.reference

LEMMA ApplyEarns ==
  ASSUME KycInv, NEW w \in Callers \cup {"poll"}, K!Applies(w)
  PROVE  EarnedByAnAnswer
<1> SUFFICES ASSUME kyc.state # "eligible", kyc'.state = "eligible"
             PROVE  \/ \E e \in receipts' \ receipts :
                         events[e].status = "Approved" /\ events[e].session = kyc.reference
                    \/ /\ tasks["poll"].step = "answered" /\ tasks'["poll"] = K!Idle
                       /\ tasks["poll"].status = "Approved"
                       /\ tasks["poll"].session = kyc.reference
  BY Zenon DEF EarnedByAnAnswer
<1>1. /\ tasks[w].step = "answered" /\ tasks'[w] = K!Idle
      /\ tasks[w].status = "Approved" /\ tasks[w].session = kyc.reference
      /\ tasks[w].event \notin receipts
      /\ receipts' = receipts \cup ({tasks[w].event} \ {0})
  BY Zenon, ApplyKeeps DEF K!Applies
<1>2. \/ w = "poll"
      \/ /\ tasks[w].event \in 1..Len(events)
         /\ events[tasks[w].event].status = "Approved"
         /\ events[tasks[w].event].session = kyc.reference
  BY Zenon, <1>1 DEF KycInv, TasksKnow, TaskIsOfASession
<1>3. CASE w = "poll"
  BY Zenon, <1>1, <1>3
<1>4. CASE w # "poll"
  <2>1. tasks[w].event \in 1..Len(events)
    BY Zenon, <1>2, <1>4
  <2>2. Len(events) \in Nat
    BY SMT DEF KycInv, ProviderKnows
  <2>3. tasks[w].event # 0
    BY SMT, <2>1, <2>2
  <2>4. tasks[w].event \in receipts' \ receipts
    BY Zenon, <1>1, <2>3
  <2> QED
    BY Zenon, <1>2, <1>4, <2>4
<1> QED
  BY Zenon, <1>3, <1>4

LEMMA KycStarts == K!Init => KycInv
<1> SUFFICES ASSUME K!Init PROVE KycInv
  BY Zenon
<1>1. RowAgrees /\ kyc.substatus = "kyc_not_started" /\ poa.status = "not_started"
  BY Zenon DEF K!Init, RowAgrees, KycColumns, PoaColumns, Agree, K!EligibilityStates
<1>2. RowRefers
  BY Zenon, <1>1 DEF RowRefers
<1>3. ProviderKnows /\ StartsKnow
  BY SMT DEF K!Init, ProviderKnows, StartsKnow
<1>4. K!Idle.step = "idle"
  BY Zenon DEF K!Idle
<1>5. TasksKnow
  BY Zenon, <1>4 DEF K!Init, TasksKnow, TaskIsOfASession
<1> QED
  BY Zenon, <1>1, <1>2, <1>3, <1>5 DEF KycInv

LEMMA KycSteps ==
  ASSUME KycInv, K!Next
  PROVE  KycInv' /\ AttachedToItsStart /\ EarnedByAnAnswer
<1>1. ASSUME NEW d \in Declarations, K!StartKycSessionService(d)
      PROVE  KycInv' /\ AttachedToItsStart /\ EarnedByAnAnswer
  BY Zenon, <1>1, ReserveKeeps DEF AttachedToItsStart, EarnedByAnAnswer
<1>2. CASE K!StartProofOfAddressSessionService
  BY Zenon, <1>2, ReserveAddressKeeps DEF AttachedToItsStart, EarnedByAnAnswer
<1>3. ASSUME NEW r \in 1..Len(starts), K!createSession(r)
      PROVE  KycInv' /\ AttachedToItsStart /\ EarnedByAnAnswer
  BY Zenon, <1>3, CreateKeeps DEF AttachedToItsStart, EarnedByAnAnswer
<1>4. ASSUME NEW r \in 1..Len(starts), K!StartFails(r)
      PROVE  KycInv' /\ AttachedToItsStart /\ EarnedByAnAnswer
  BY Zenon, <1>4, StartFailsKeeps DEF AttachedToItsStart, EarnedByAnAnswer
<1>5. ASSUME NEW r \in 1..Len(starts), K!StartCompletes(r)
      PROVE  KycInv' /\ AttachedToItsStart /\ EarnedByAnAnswer
  BY Zenon, <1>5, CompleteKeeps DEF AttachedToItsStart, EarnedByAnAnswer
<1>6. ASSUME NEW s \in 1..Len(sessions), NEW status \in K!DiditStatuses,
             NEW d \in KycDecisions, K!DiditMoves(s, status, d)
      PROVE  KycInv' /\ AttachedToItsStart /\ EarnedByAnAnswer
  BY Zenon, <1>6, DiditKeeps DEF AttachedToItsStart, EarnedByAnAnswer
<1>7. ASSUME NEW w \in Callers, NEW e \in 1..Len(events), K!ProcessDiditWebhookService(w, e)
      PROVE  KycInv' /\ AttachedToItsStart /\ EarnedByAnAnswer
  BY Zenon, <1>7, WebhookKeeps DEF AttachedToItsStart, EarnedByAnAnswer
<1>8. ASSUME NEW w \in Callers \cup {"poll"}, K!Applies(w)
      PROVE  KycInv' /\ AttachedToItsStart /\ EarnedByAnAnswer
  BY Zenon, <1>8, ApplyKeeps, ApplyEarns DEF AttachedToItsStart
<1>9. ASSUME NEW w \in Callers \cup {"poll"}, K!TaskFails(w)
      PROVE  KycInv' /\ AttachedToItsStart /\ EarnedByAnAnswer
  BY Zenon, <1>9, TaskFailsKeeps DEF AttachedToItsStart, EarnedByAnAnswer
<1>10. CASE K!ExpireStuckSessionCreationsService \/ K!RunKycRenewalTimerService
  <2>1. UNCHANGED <<now, kyc, poa, sessions, events, starts, tasks>>
    BY Zenon, <1>10 DEF K!ExpireStuckSessionCreationsService, K!RunKycRenewalTimerService
  <2>2. KycInv'
    BY Zenon, <2>1, RowKept, OnlyTheRow DEF KycInv
  <2> QED
    BY Zenon, <2>1, <2>2 DEF AttachedToItsStart, EarnedByAnAnswer
<1>11. ASSUME NEW x \in stuck, K!StuckCreationFails(x)
       PROVE  KycInv' /\ AttachedToItsStart /\ EarnedByAnAnswer
  <2>1. K!FailStart(x[1], x[2]) /\ UNCHANGED <<now, sessions, events, starts, tasks>>
    BY Zenon, <1>11 DEF K!StuckCreationFails
  <2>2. /\ KycInv' /\ kyc'.reference = kyc.reference /\ kyc'.state = kyc.state
        /\ poa'.reference = poa.reference
    BY Zenon, <2>1, FailKeepsRow, OnlyTheRow DEF KycInv
  <2> QED
    BY Zenon, <2>2 DEF AttachedToItsStart, EarnedByAnAnswer
<1>12. ASSUME NEW kind \in Kinds, K!ReconcileStuckOpenSessionsService(kind)
       PROVE  KycInv' /\ AttachedToItsStart /\ EarnedByAnAnswer
  BY Zenon, <1>12, PollListsKeeps DEF AttachedToItsStart, EarnedByAnAnswer
<1>13. CASE K!PollAnswered
  BY Zenon, <1>13, PollAnswersKeeps DEF AttachedToItsStart, EarnedByAnAnswer
<1>14. CASE K!transitionToRequiresRenewal
  BY Zenon, <1>14, RenewalKeeps DEF AttachedToItsStart, EarnedByAnAnswer
<1>15. CASE K!Tick
  BY Zenon, <1>15, TickKeeps DEF AttachedToItsStart, EarnedByAnAnswer
<1>16. CASE K!CustomerSteps
  BY Zenon, <1>16, <1>1, <1>2, <1>3, <1>4, <1>5, <1>6 DEF K!CustomerSteps
<1>17. CASE K!WorkerSteps
  BY Zenon, <1>17, <1>7, <1>8, <1>9 DEF K!WorkerSteps
<1>18. CASE K!JobSteps
  BY Zenon, <1>18, <1>10, <1>11, <1>12, <1>13, <1>14 DEF K!JobSteps, Kinds
<1> QED
  BY Zenon, <1>15, <1>16, <1>17, <1>18 DEF K!Next

\* A step of another component, and a step in which nothing happens.
LEMMA KycRests ==
  ASSUME KycInv, UNCHANGED kycVars
  PROVE  KycInv' /\ AttachedToItsStart /\ EarnedByAnAnswer
<1>1. UNCHANGED <<now, kyc, poa, sessions, events, starts, tasks>>
  BY Zenon DEF kycVars
<1>2. KycInv'
  BY Zenon, <1>1, RowKept, OnlyTheRow DEF KycInv
<1> QED
  BY Zenon, <1>1, <1>2 DEF AttachedToItsStart, EarnedByAnAnswer

LEMMA OnboardingKeepsKyc ==
  KycInv /\ [OnboardingNext]_onboardingVars => KycInv' /\ AttachedToItsStart /\ EarnedByAnAnswer
<1> SUFFICES ASSUME KycInv, [OnboardingNext]_onboardingVars
             PROVE  KycInv' /\ AttachedToItsStart /\ EarnedByAnAnswer
  BY Zenon
<1>1. K!Next \/ UNCHANGED kycVars
  BY Zenon DEF OnboardingNext, Only, onboardingVars
<1> QED
  BY Zenon, <1>1, KycSteps, KycRests

\* For every number of workers, requests and webhooks, whatever is lost, repeated or late, the
\* row's state and substatus go together and the row, the requests and the tasks refer to
\* sessions the provider has.
THEOREM KycInvariant == OnboardingSpec => []KycInv
<1>1. OnboardingInit => KycInv
  BY Zenon, KycStarts DEF OnboardingInit
<1>2. KycInv /\ [OnboardingNext]_onboardingVars => KycInv'
  BY Zenon, OnboardingKeepsKyc
<1> QED
  BY <1>1, <1>2, PTL DEF OnboardingSpec

\* The substatus, which alone decides whether a session may be started, agrees with the
\* eligibility state, whichever request, webhook or job wrote last.
THEOREM SubstatusAgrees == OnboardingSpec => []EligibilityMatchesSubstatus
<1>1. KycInv => EligibilityMatchesSubstatus
  BY Zenon, AgreeIsTheProperty DEF KycInv, RowAgrees
<1> QED
  BY <1>1, KycInvariant, PTL

\* An approval makes the customer eligible at most once, whoever delivers it how often.
THEOREM ApprovalsCountOnce == OnboardingSpec => EligibilityIsEarnedOnce
<1>1. KycInv /\ [OnboardingNext]_onboardingVars => [EarnedByAnAnswer]_(K!vars)
  BY Zenon, OnboardingKeepsKyc
<1> QED
  BY <1>1, KycInvariant, PTL
  DEF OnboardingSpec, EligibilityIsEarnedOnce, K!EligibilityIsEarnedOnce, EarnedByAnAnswer

\* A request that answers late attaches its session to nothing.
THEOREM SessionsJoinTheirStart == OnboardingSpec => LateStartsAttachNothing
<1>1. KycInv /\ [OnboardingNext]_onboardingVars => [AttachedToItsStart]_(K!vars)
  BY Zenon, OnboardingKeepsKyc
<1> QED
  BY <1>1, KycInvariant, PTL
  DEF OnboardingSpec, LateStartsAttachNothing, K!LateStartsAttachNothing, AttachedToItsStart

-----------------------------------------------------------------------------
(* The photos of a room.                                                   *)

\* A row is written when its upload is over, an upload that goes on has stored what it says,
\* an accepted document has its bytes, and no deletion of them is under way.
PhotoIsStored(d) ==
  /\ rows[d].status # "absent" => upload[d] = "done"
  /\ upload[d] = "stored" => <<d, "original">> \in objects
  /\ upload[d] = "thumbnailed" => D!ObjectsOf(d) \subseteq objects
  /\ rows[d].status = "accepted" => D!ObjectsOf(d) \subseteq objects
  /\ rows[d].status = "accepted" \/ upload[d] # "done" => D!ObjectsOf(d) \cap doomed = {}

\* What the deletion of the room has listed is deleted when it commits: whatever it listed
\* first was deleted meanwhile, or is among the rows it holds.
RemovalIsRight(d) ==
  /\ d \in removal.marked => rows[d].status # "absent"
  /\ removal.at = "idle" => d \notin removal.listed
  /\ removal.at = "listed" /\ d \in removal.listed =>
       rows[d].status = "deleted" \/ d \in D!RoomPhotos
  /\ removal.at = "marked" /\ d \in removal.listed =>
       rows[d].status = "deleted" \/ d \in removal.marked

PhotosCounted == Cardinality(D!RoomPhotos) <= MaxPhotos

RoomInv ==
  /\ D!TypeOK /\ PhotosCounted
  /\ \A d \in Documents : PhotoIsStored(d) /\ RemovalIsRight(d)

\* The count of the module is the one the theorems about finite sets speak of.
LEMMA SameCount == \A S : D!Cardinality(S) = Cardinality(S)
BY Zenon DEF Cardinality, D!Cardinality

\* The objects of a document are its two, and no other document has one of them.
LEMMA ObjectsAreOwn ==
  /\ \A d : D!ObjectsOf(d) = {<<d, "original">>, <<d, "thumbnail">>}
  /\ \A d, e : d # e => D!ObjectsOf(d) \cap D!ObjectsOf(e) = {}
<1>1. \A d : D!ObjectsOf(d) = {<<d, "original">>, <<d, "thumbnail">>}
  BY SMT DEF D!ObjectsOf, D!Variants
<1> QED
  BY SMT, <1>1

\* Fewer photos are few enough.
LEMMA FewerPhotos ==
  ASSUME PhotosCounted, D!RoomPhotos' \subseteq D!RoomPhotos
  PROVE  PhotosCounted'
<1>1. IsFiniteSet(D!RoomPhotos)
  BY Zenon, RoomAssumption, FS_Subset DEF D!RoomPhotos
<1>2. /\ Cardinality(D!RoomPhotos') <= Cardinality(D!RoomPhotos)
      /\ Cardinality(D!RoomPhotos) \in Nat /\ Cardinality(D!RoomPhotos') \in Nat
  BY Zenon, <1>1, FS_Subset, FS_CardinalityType
<1> QED
  BY SMT, <1>2, RoomAssumption DEF PhotosCounted

\* One more photo, where there was room for one.
LEMMA OneMorePhoto ==
  ASSUME NEW d, D!RoomPhotos' = D!RoomPhotos \cup {d},
         Cardinality(D!RoomPhotos) < MaxPhotos
  PROVE  PhotosCounted'
<1>1. IsFiniteSet(D!RoomPhotos)
  BY Zenon, RoomAssumption, FS_Subset DEF D!RoomPhotos
<1>2. /\ Cardinality(D!RoomPhotos) \in Nat
      /\ Cardinality(D!RoomPhotos \cup {d}) \in {Cardinality(D!RoomPhotos), Cardinality(D!RoomPhotos) + 1}
  BY Zenon, <1>1, FS_AddElement, FS_CardinalityType
<1> QED
  BY SMT, <1>2, RoomAssumption DEF PhotosCounted

LEMMA RoomStarts == D!Init => RoomInv
<1> SUFFICES ASSUME D!Init PROVE RoomInv
  BY Zenon
<1>1. \A d \in Documents : rows[d].status = "absent" /\ ~rows[d].inRoom /\ upload[d] = "idle"
  BY Zenon DEF D!Init, D!NoRow
<1>2. removal.at = "idle" /\ removal.listed = {} /\ removal.marked = {}
  BY Zenon DEF D!Init, D!NoRemoval
<1>3. D!TypeOK
  BY Zenon DEF D!Init, D!TypeOK, D!NoRow, D!NoRemoval
<1>4. PhotosCounted
  <2>1. D!RoomPhotos = {}
    BY Zenon, <1>1 DEF D!RoomPhotos
  <2>2. Cardinality({}) = 0
    BY Zenon, FS_EmptySet
  <2> QED
    BY SMT, <2>1, <2>2, RoomAssumption DEF PhotosCounted
<1>5. ASSUME NEW d \in Documents PROVE PhotoIsStored(d) /\ RemovalIsRight(d)
  <2>1. doomed = {}
    BY Zenon DEF D!Init
  <2> QED
    BY Zenon, <2>1, <1>1, <1>2 DEF PhotoIsStored, RemovalIsRight
<1> QED
  BY Zenon, <1>3, <1>4, <1>5 DEF RoomInv

\* A step of an upload that has written no row.
LEMMA UploadMoves ==
  ASSUME RoomInv, NEW d \in Documents, upload[d] # "done",
         NEW to \in {"scanned", "stored", "thumbnailed", "failed", "done"},
         upload' = [upload EXCEPT ![d] = to],
         objects \subseteq objects', objects' \subseteq Documents \X D!Variants,
         to = "stored" => <<d, "original">> \in objects',
         to = "thumbnailed" => D!ObjectsOf(d) \subseteq objects',
         UNCHANGED <<room, rows, removal, choice, doomed>>
  PROVE  RoomInv'
<1>1. /\ upload'[d] = to
      /\ \A e \in Documents : e # d => upload'[e] = upload[e]
      /\ upload' \in [Documents -> {"idle", "scanned", "stored", "thumbnailed", "failed", "done"}]
  BY Zenon DEF RoomInv, D!TypeOK
<1>2. D!TypeOK'
  BY Zenon, <1>1 DEF RoomInv, D!TypeOK
<1>3. D!RoomPhotos' = D!RoomPhotos
  BY Zenon DEF D!RoomPhotos
<1>4. PhotosCounted'
  BY Zenon, <1>3 DEF RoomInv, PhotosCounted
<1>5. ASSUME NEW e \in Documents PROVE PhotoIsStored(e)'
  <2>1. CASE e # d
    <3>1. upload'[e] = upload[e] /\ PhotoIsStored(e)
      BY Zenon, <2>1, <1>1 DEF RoomInv
    <3> QED
      BY Zenon, <3>1 DEF PhotoIsStored
  <2>2. CASE e = d
    <3>1. /\ PhotoIsStored(d) /\ rows[d].status = "absent"
      BY Zenon DEF RoomInv, PhotoIsStored
    <3> QED
      BY Zenon, <2>2, <3>1, <1>1 DEF PhotoIsStored
  <2> QED
    BY Zenon, <2>1, <2>2
<1>6. ASSUME NEW e \in Documents PROVE RemovalIsRight(e)'
  BY Zenon, <1>3 DEF RoomInv, RemovalIsRight
<1> QED
  BY Zenon, <1>2, <1>4, <1>5, <1>6 DEF RoomInv

\* The rows are written: the objects are there, and nobody deletes them.
LEMMA InsertKeeps ==
  ASSUME RoomInv, NEW d \in Documents, D!insertRows(d)
  PROVE  RoomInv'
<1>0. upload[d] = "thumbnailed" /\ UNCHANGED <<room, objects, removal, choice, doomed>>
  BY Zenon DEF D!insertRows
<1>1. CASE upload' = [upload EXCEPT ![d] = "failed"] /\ UNCHANGED rows
  <2>1. objects \subseteq objects' /\ objects' \subseteq Documents \X D!Variants
    BY Zenon, <1>0 DEF RoomInv, D!TypeOK
  <2> QED
    BY Zenon, <1>0, <1>1, <2>1, UploadMoves
<1>2. CASE /\ Cardinality(D!RoomPhotos) < MaxPhotos
           /\ rows' = [rows EXCEPT ![d] = [status |-> "accepted", inRoom |-> TRUE]]
           /\ upload' = [upload EXCEPT ![d] = "done"]
  <2> DEFINE row == [status |-> "accepted", inRoom |-> TRUE]
  <2>1. row \in [status : {"absent", "accepted", "deleted"}, inRoom : BOOLEAN]
        /\ row.status = "accepted" /\ row.inRoom
    BY Zenon
  <2> HIDE DEF row
  <2>2. /\ rows'[d] = row /\ upload'[d] = "done"
        /\ \A e \in Documents : e # d => rows'[e] = rows[e] /\ upload'[e] = upload[e]
        /\ upload' \in [Documents -> {"idle", "scanned", "stored", "thumbnailed", "failed", "done"}]
        /\ rows' \in [Documents -> [status : {"absent", "accepted", "deleted"}, inRoom : BOOLEAN]]
    BY Zenon, <1>2, <2>1 DEF RoomInv, D!TypeOK, row
  <2>3. D!TypeOK'
    BY Zenon, <1>0, <2>2 DEF RoomInv, D!TypeOK
  <2>4. D!RoomPhotos' = D!RoomPhotos \cup {d}
    BY Zenon, <2>1, <2>2 DEF D!RoomPhotos
  <2>5. PhotosCounted'
    BY Zenon, <1>2, <2>4, OneMorePhoto
  <2>6. ASSUME NEW e \in Documents PROVE PhotoIsStored(e)'
    <3>1. CASE e # d
      <4>1. upload'[e] = upload[e] /\ rows'[e] = rows[e] /\ PhotoIsStored(e)
        BY Zenon, <3>1, <2>2 DEF RoomInv
      <4> QED
        BY Zenon, <1>0, <4>1 DEF PhotoIsStored
    <3>2. CASE e = d
      <4>1. PhotoIsStored(d) /\ upload[d] # "done"
        BY Zenon, <1>0 DEF RoomInv
      <4> QED
        BY Zenon, <1>0, <3>2, <4>1, <2>1, <2>2 DEF PhotoIsStored
    <3> QED
      BY Zenon, <3>1, <3>2
  <2>7. ASSUME NEW e \in Documents PROVE RemovalIsRight(e)'
    <3>1. CASE e # d
      <4>1. rows'[e] = rows[e] /\ RemovalIsRight(e)
        BY Zenon, <3>1, <2>2 DEF RoomInv
      <4> QED
        BY Zenon, <1>0, <4>1, <2>4 DEF RemovalIsRight
    <3>2. CASE e = d
      <4>1. rows[d].status = "absent"
        BY Zenon, <1>0 DEF RoomInv, PhotoIsStored
      <4>2. e \in D!RoomPhotos' /\ e \notin D!RoomPhotos /\ RemovalIsRight(e)
        BY Zenon, <2>4, <3>2, <4>1 DEF D!RoomPhotos, RoomInv
      <4>3. d \notin removal.marked /\ (removal.at = "marked" => d \notin removal.listed)
        BY Zenon, <3>2, <4>1, <4>2 DEF RemovalIsRight
      <4> QED
        BY Zenon, <1>0, <3>2, <4>2, <4>3 DEF RemovalIsRight
    <3> QED
      BY Zenon, <3>1, <3>2
  <2> QED
    BY Zenon, <2>3, <2>5, <2>6, <2>7 DEF RoomInv
<1> QED
  BY Zenon, <1>1, <1>2, SameCount DEF D!insertRows

\* The other steps of an upload but the last one.
LEMMA UploadKeeps ==
  ASSUME RoomInv, NEW d \in Documents,
         \/ D!checkRoom(d) \/ D!putObject(d) \/ D!createThumbnail(d) \/ D!thumbnailFails(d)
         \/ D!UploadStops(d)
  PROVE  RoomInv'
<1>1. objects \subseteq Documents \X D!Variants
  BY Zenon DEF RoomInv, D!TypeOK
<1>2. CASE D!checkRoom(d)
  <2>1. /\ upload[d] # "done" /\ upload' = [upload EXCEPT ![d] = "scanned"]
        /\ UNCHANGED <<room, rows, objects, removal, choice, doomed>>
    BY Zenon, <1>2 DEF D!checkRoom
  <2> QED
    BY Zenon, <1>1, <2>1, UploadMoves
<1>3. CASE D!putObject(d)
  <2>1. /\ upload[d] # "done" /\ upload' = [upload EXCEPT ![d] = "stored"]
        /\ objects' = objects \cup {<<d, "original">>}
        /\ UNCHANGED <<room, rows, removal, choice, doomed>>
    BY Zenon, <1>3 DEF D!putObject
  <2>2. objects \subseteq objects' /\ objects' \subseteq Documents \X D!Variants
    BY SMT, <1>1, <2>1 DEF D!Variants
  <2> QED
    BY Zenon, <2>1, <2>2, UploadMoves
<1>4. CASE D!createThumbnail(d)
  <2>1. /\ upload[d] = "stored" /\ upload' = [upload EXCEPT ![d] = "thumbnailed"]
        /\ objects' = objects \cup {<<d, "thumbnail">>}
        /\ UNCHANGED <<room, rows, removal, choice, doomed>>
    BY Zenon, <1>4 DEF D!createThumbnail
  <2>2. objects \subseteq objects' /\ objects' \subseteq Documents \X D!Variants
    BY SMT, <1>1, <2>1 DEF D!Variants
  <2>3. <<d, "original">> \in objects
    BY Zenon, <2>1 DEF RoomInv, PhotoIsStored
  <2>4. D!ObjectsOf(d) \subseteq objects'
    BY Zenon, <2>1, <2>3, ObjectsAreOwn
  <2> QED
    BY Zenon, <2>1, <2>2, <2>4, UploadMoves
<1>5. CASE D!thumbnailFails(d)
  <2>1. /\ upload[d] # "done" /\ upload' = [upload EXCEPT ![d] = "failed"]
        /\ UNCHANGED <<room, rows, objects, removal, choice, doomed>>
    BY Zenon, <1>5 DEF D!thumbnailFails
  <2> QED
    BY Zenon, <1>1, <2>1, UploadMoves
<1>6. CASE D!UploadStops(d)
  <2>1. /\ upload[d] # "done" /\ upload' = [upload EXCEPT ![d] = "done"]
        /\ UNCHANGED <<room, rows, objects, removal, choice, doomed>>
    BY Zenon, <1>6 DEF D!UploadStops
  <2> QED
    BY Zenon, <1>1, <2>1, UploadMoves
<1> QED
  BY Zenon, <1>2, <1>3, <1>4, <1>5, <1>6

\* The catch block dooms the objects of an upload that wrote no row.
LEMMA CompensateKeeps ==
  ASSUME RoomInv, NEW d \in Documents, D!compensate(d)
  PROVE  RoomInv'
<1>1. /\ upload[d] = "failed" /\ upload' = [upload EXCEPT ![d] = "done"]
      /\ doomed' = doomed \cup (D!ObjectsOf(d) \cap objects)
      /\ UNCHANGED <<room, rows, objects, removal, choice>>
  BY Zenon DEF D!compensate
<1>2. /\ upload'[d] = "done"
      /\ \A e \in Documents : e # d => upload'[e] = upload[e]
      /\ upload' \in [Documents -> {"idle", "scanned", "stored", "thumbnailed", "failed", "done"}]
  BY Zenon, <1>1 DEF RoomInv, D!TypeOK
<1>3. D!TypeOK'
  <2>1. doomed' \subseteq Documents \X D!Variants
    BY Zenon, <1>1 DEF RoomInv, D!TypeOK
  <2> QED
    BY Zenon, <1>1, <1>2, <2>1 DEF RoomInv, D!TypeOK
<1>4. D!RoomPhotos' = D!RoomPhotos
  BY Zenon, <1>1 DEF D!RoomPhotos
<1>5. PhotosCounted'
  BY Zenon, <1>4 DEF RoomInv, PhotosCounted
<1>6. ASSUME NEW e \in Documents PROVE PhotoIsStored(e)'
  <2>1. CASE e # d
    <3>1. upload'[e] = upload[e] /\ PhotoIsStored(e)
      BY Zenon, <2>1, <1>2 DEF RoomInv
    <3>2. D!ObjectsOf(e) \cap D!ObjectsOf(d) = {}
      BY Zenon, <2>1, ObjectsAreOwn
    <3>3. D!ObjectsOf(e) \cap doomed = {} => D!ObjectsOf(e) \cap doomed' = {}
      BY Zenon, <1>1, <3>2
    <3> QED
      BY Zenon, <1>1, <3>1, <3>3 DEF PhotoIsStored
  <2>2. CASE e = d
    <3>1. PhotoIsStored(d) /\ rows[d].status = "absent"
      BY Zenon, <1>1 DEF RoomInv, PhotoIsStored
    <3> QED
      BY Zenon, <1>1, <1>2, <2>2, <3>1 DEF PhotoIsStored
  <2> QED
    BY Zenon, <2>1, <2>2
<1>7. ASSUME NEW e \in Documents PROVE RemovalIsRight(e)'
  BY Zenon, <1>1, <1>4 DEF RoomInv, RemovalIsRight
<1> QED
  BY Zenon, <1>3, <1>5, <1>6, <1>7 DEF RoomInv

\* The choice of the representative photo touches neither rows nor objects.
LEMMA ChoiceKeeps ==
  ASSUME RoomInv,
         \/ \E d \in Documents : D!selectRepresentative(d)
         \/ D!setRepresentative \/ D!ChoiceStops
  PROVE  RoomInv'
<1>1. UNCHANGED <<rows, objects, upload, removal, doomed>>
  BY Zenon DEF D!selectRepresentative, D!setRepresentative, D!ChoiceStops
<1>2. choice' \in Documents \cup {NoOne}
  BY Zenon DEF D!selectRepresentative, D!setRepresentative, D!ChoiceStops
<1>3. room' \in [exists : BOOLEAN, preferred : Documents \cup {NoOne}]
  <2>1. room' = room \/ room' = [room EXCEPT !.preferred = choice]
    BY Zenon DEF D!selectRepresentative, D!setRepresentative, D!ChoiceStops
  <2> QED
    BY Zenon, <2>1 DEF RoomInv, D!TypeOK
<1>4. D!TypeOK'
  BY Zenon, <1>1, <1>2, <1>3 DEF RoomInv, D!TypeOK
<1>5. D!RoomPhotos' = D!RoomPhotos
  BY Zenon, <1>1 DEF D!RoomPhotos
<1> QED
  BY Zenon, <1>1, <1>4, <1>5 DEF RoomInv, PhotosCounted, PhotoIsStored, RemovalIsRight

\* A photo is deleted.
LEMMA DeletePhotoKeeps ==
  ASSUME RoomInv, NEW d \in Documents, D!deletePhoto(d)
  PROVE  RoomInv'
<1> DEFINE row == [rows[d] EXCEPT !.status = "deleted"]
           Rows == [status : {"absent", "accepted", "deleted"}, inRoom : BOOLEAN]
<1>1. /\ d \in D!RoomPhotos /\ rows' = [rows EXCEPT ![d] = row]
      /\ doomed' = doomed \cup D!ObjectsOf(d)
      /\ room' = room \/ room' = [room EXCEPT !.preferred = NoOne]
      /\ UNCHANGED <<objects, upload, removal, choice>>
  BY Zenon DEF D!deletePhoto
<1>2. rows[d] \in Rows /\ rows[d].status = "accepted"
  BY Zenon, <1>1 DEF RoomInv, D!TypeOK, D!RoomPhotos
<1>3. row \in Rows
  BY Zenon, <1>2
<1>4. row.status = "deleted"
  BY Zenon, <1>2
<1> HIDE DEF row
<1>5. /\ rows'[d] = row /\ rows' \in [Documents -> Rows]
      /\ \A e \in Documents : e # d => rows'[e] = rows[e]
  BY Zenon, <1>1, <1>3 DEF RoomInv, D!TypeOK
<1>6. doomed' \subseteq Documents \X D!Variants
  BY SMT, <1>1, ObjectsAreOwn DEF RoomInv, D!TypeOK, D!Variants
<1>7. room' \in [exists : BOOLEAN, preferred : Documents \cup {NoOne}]
  BY Zenon, <1>1 DEF RoomInv, D!TypeOK
<1>8. D!TypeOK'
  BY Zenon, <1>1, <1>5, <1>6, <1>7 DEF RoomInv, D!TypeOK
<1>9. D!RoomPhotos' \subseteq D!RoomPhotos /\ \A e \in D!RoomPhotos : e # d => e \in D!RoomPhotos'
  BY Zenon, <1>4, <1>5 DEF D!RoomPhotos
<1>10. PhotosCounted'
  BY Zenon, <1>9, FewerPhotos DEF RoomInv
<1>11. ASSUME NEW e \in Documents PROVE PhotoIsStored(e)' /\ RemovalIsRight(e)'
  <2>1. CASE e # d
    <3>1. rows'[e] = rows[e] /\ PhotoIsStored(e) /\ RemovalIsRight(e)
      BY Zenon, <2>1, <1>5 DEF RoomInv
    <3>2. D!ObjectsOf(e) \cap doomed = {} => D!ObjectsOf(e) \cap doomed' = {}
      BY Zenon, <1>1, <2>1, ObjectsAreOwn
    <3>3. PhotoIsStored(e)'
      BY Zenon, <1>1, <3>1, <3>2 DEF PhotoIsStored
    <3>4. RemovalIsRight(e)'
      BY Zenon, <1>1, <1>9, <2>1, <3>1 DEF RemovalIsRight
    <3> QED
      BY Zenon, <3>3, <3>4
  <2>2. CASE e = d
    <3>1. upload[d] = "done" /\ RemovalIsRight(d)
      BY Zenon, <1>2 DEF RoomInv, PhotoIsStored
    <3>2. PhotoIsStored(e)'
      BY Zenon, <1>1, <1>4, <1>5, <2>2, <3>1 DEF PhotoIsStored
    <3>3. RemovalIsRight(e)'
      BY Zenon, <1>1, <1>4, <1>5, <2>2, <3>1 DEF RemovalIsRight
    <3> QED
      BY Zenon, <3>2, <3>3
  <2> QED
    BY Zenon, <2>1, <2>2
<1> QED
  BY Zenon, <1>8, <1>10, <1>11 DEF RoomInv

\* The deletion of the room begins, takes hold of the rows, or stops.
LEMMA RemovalKeeps ==
  ASSUME RoomInv, D!listRoomDocuments \/ D!markRoomDocuments \/ D!RemovalStops
  PROVE  RoomInv'
<1> DEFINE Removals == [at : {"idle", "listed", "marked"}, listed : SUBSET Documents,
                        marked : SUBSET Documents]
<1>1. UNCHANGED <<room, rows, objects, upload, choice, doomed>>
  BY Zenon DEF D!listRoomDocuments, D!markRoomDocuments, D!RemovalStops
<1>2. D!RoomPhotos' = D!RoomPhotos /\ D!RoomPhotos \subseteq Documents
  BY Zenon, <1>1 DEF D!RoomPhotos
<1> SUFFICES removal' \in Removals /\ \A e \in Documents : RemovalIsRight(e)'
  BY Zenon, <1>1, <1>2 DEF RoomInv, D!TypeOK, PhotosCounted, PhotoIsStored
<1>3. \A e \in D!RoomPhotos : rows[e].status = "accepted"
  BY Zenon DEF D!RoomPhotos
<1>4. CASE D!listRoomDocuments
  <2>1. /\ removal' \in Removals /\ removal'.at = "listed" /\ removal'.listed = D!RoomPhotos
        /\ removal'.marked = {}
    BY Zenon, <1>2, <1>4 DEF D!listRoomDocuments
  <2> QED
    BY Zenon, <1>1, <1>2, <2>1 DEF RemovalIsRight
<1>5. CASE D!markRoomDocuments
  <2>1. removal \in Removals /\ removal.at = "listed"
    BY Zenon, <1>5 DEF RoomInv, D!TypeOK, D!markRoomDocuments
  <2>2. removal' = [removal EXCEPT !.at = "marked", !.marked = D!RoomPhotos]
    BY Zenon, <1>5 DEF D!markRoomDocuments
  <2>3. removal' \in Removals
    BY Zenon, <1>2, <2>1, <2>2
  <2>4. /\ removal'.at = "marked" /\ removal'.listed = removal.listed
        /\ removal'.marked = D!RoomPhotos
    BY Zenon, <2>1, <2>2
  <2>5. ASSUME NEW e \in Documents PROVE RemovalIsRight(e)'
    <3>1. RemovalIsRight(e) /\ (e \in D!RoomPhotos => rows[e].status # "absent")
      BY Zenon, <1>3 DEF RoomInv
    <3> QED
      BY Zenon, <1>1, <1>2, <2>1, <2>4, <3>1 DEF RemovalIsRight
  <2> QED
    BY Zenon, <2>3, <2>5
<1>6. CASE D!RemovalStops
  <2>1. /\ removal' \in Removals /\ removal'.at = "idle" /\ removal'.listed = {}
        /\ removal'.marked = {}
    BY Zenon, <1>6 DEF D!RemovalStops, D!NoRemoval
  <2> QED
    BY Zenon, <2>1 DEF RemovalIsRight
<1> QED
  BY Zenon, <1>4, <1>5, <1>6

\* The room is deleted: of the objects it dooms none is of a photo that stays.
LEMMA DeleteRoomKeeps ==
  ASSUME RoomInv, D!deleteRoom
  PROVE  RoomInv'
<1> DEFINE Rows == [status : {"absent", "accepted", "deleted"}, inRoom : BOOLEAN]
           Removals == [at : {"idle", "listed", "marked"}, listed : SUBSET Documents,
                        marked : SUBSET Documents]
           theirs == UNION {D!ObjectsOf(d) : d \in removal.listed}
<1>1. /\ removal.at = "marked" /\ removal' = D!NoRemoval
      /\ rows' = [d \in Documents |->
                    [status |-> IF d \in removal.marked THEN "deleted" ELSE rows[d].status,
                     inRoom |-> FALSE]]
      /\ room' = [exists |-> FALSE, preferred |-> NoOne]
      /\ doomed' = doomed \cup theirs
      /\ UNCHANGED <<objects, upload, choice>>
  BY Zenon DEF D!deleteRoom
<1>2. /\ removal' \in Removals /\ removal'.listed = {} /\ removal'.marked = {}
      /\ removal'.at = "idle"
  BY Zenon, <1>1 DEF D!NoRemoval
<1>3. removal.listed \subseteq Documents /\ rows \in [Documents -> Rows]
  BY Zenon DEF RoomInv, D!TypeOK
<1>4. rows' \in [Documents -> Rows]
  BY Zenon, <1>1, <1>3
<1>5. ASSUME NEW d \in Documents
      PROVE  /\ rows'[d].status = IF d \in removal.marked THEN "deleted" ELSE rows[d].status
             /\ ~rows'[d].inRoom
  BY Zenon, <1>1
<1>6. room' \in [exists : BOOLEAN, preferred : Documents \cup {NoOne}]
  BY Zenon, <1>1
<1>7. doomed' \subseteq Documents \X D!Variants
  BY SMT, <1>1, <1>3, ObjectsAreOwn DEF RoomInv, D!TypeOK, D!Variants
<1>8. D!TypeOK'
  BY Zenon, <1>1, <1>2, <1>4, <1>6, <1>7 DEF RoomInv, D!TypeOK
<1>9. PhotosCounted'
  <2>1. D!RoomPhotos' \subseteq D!RoomPhotos
    BY Zenon, <1>5 DEF D!RoomPhotos
  <2> QED
    BY Zenon, <2>1, FewerPhotos DEF RoomInv
<1>10. ASSUME NEW e \in Documents PROVE PhotoIsStored(e)'
  <2>1. PhotoIsStored(e) /\ RemovalIsRight(e)
    BY Zenon DEF RoomInv
  <2>2. /\ rows'[e].status # "absent" => rows[e].status # "absent"
        /\ rows'[e].status = "accepted" => rows[e].status = "accepted"
    BY Zenon, <1>5, <2>1 DEF RemovalIsRight
  <2>3. e \in removal.listed => rows'[e].status = "deleted" /\ upload[e] = "done"
    BY Zenon, <1>1, <1>5, <2>1 DEF RemovalIsRight, PhotoIsStored
  <2>4. e \notin removal.listed => D!ObjectsOf(e) \cap theirs = {}
    <3> SUFFICES ASSUME e \notin removal.listed PROVE D!ObjectsOf(e) \cap theirs = {}
      BY Zenon
    <3>1. \A d \in removal.listed : D!ObjectsOf(e) \cap D!ObjectsOf(d) = {}
      BY Zenon, ObjectsAreOwn
    <3> QED
      BY Zenon, <3>1
  <2> HIDE DEF theirs
  <2>5. rows'[e].status = "accepted" \/ upload[e] # "done" => D!ObjectsOf(e) \cap doomed' = {}
    BY Zenon, <1>1, <2>1, <2>2, <2>3, <2>4 DEF PhotoIsStored
  <2> QED
    BY Zenon, <1>1, <2>1, <2>2, <2>5 DEF PhotoIsStored
<1>11. ASSUME NEW e \in Documents PROVE RemovalIsRight(e)'
  BY Zenon, <1>2 DEF RemovalIsRight
<1> QED
  BY Zenon, <1>8, <1>9, <1>10, <1>11 DEF RoomInv

\* An object goes, or its deletion is forgotten: no photo that stays has it.
LEMMA DeleteObjectKeeps ==
  ASSUME RoomInv, NEW o \in doomed, D!deleteObject(o)
  PROVE  RoomInv'
<1>1. /\ objects' \subseteq objects /\ objects \ {o} \subseteq objects' /\ doomed' = doomed \ {o}
      /\ UNCHANGED <<room, rows, upload, removal, choice>>
  BY Zenon DEF D!deleteObject
<1>2. D!TypeOK'
  BY Zenon, <1>1 DEF RoomInv, D!TypeOK
<1>3. D!RoomPhotos' = D!RoomPhotos
  BY Zenon, <1>1 DEF D!RoomPhotos
<1>4. ASSUME NEW e \in Documents PROVE PhotoIsStored(e)' /\ RemovalIsRight(e)'
  <2>1. PhotoIsStored(e) /\ RemovalIsRight(e)
    BY Zenon DEF RoomInv
  <2>2. D!ObjectsOf(e) \cap doomed = {} =>
          o \notin D!ObjectsOf(e) /\ D!ObjectsOf(e) \cap doomed' = {}
    BY Zenon, <1>1
  <2>3. <<e, "original">> \in D!ObjectsOf(e)
    BY Zenon, ObjectsAreOwn
  <2>4. PhotoIsStored(e)'
    BY Zenon, <1>1, <2>1, <2>2, <2>3 DEF PhotoIsStored
  <2>5. RemovalIsRight(e)'
    BY Zenon, <1>1, <1>3, <2>1 DEF RemovalIsRight
  <2> QED
    BY Zenon, <2>4, <2>5
<1> QED
  BY Zenon, <1>2, <1>3, <1>4 DEF RoomInv, PhotosCounted

LEMMA RoomSteps ==
  ASSUME RoomInv, D!Next
  PROVE  RoomInv'
<1>1. ASSUME NEW d \in Documents, D!Upload(d) PROVE RoomInv'
  BY Zenon, <1>1, UploadKeeps, InsertKeeps, CompensateKeeps DEF D!Upload
<1> QED
  BY Zenon, <1>1, ChoiceKeeps, DeletePhotoKeeps, RemovalKeeps, DeleteRoomKeeps,
     DeleteObjectKeeps DEF D!Next

\* While the documents are in focus.
LEMMA OnboardingKeepsRoom ==
  ASSUME focus = "documents" => RoomInv, [OnboardingNext]_onboardingVars
  PROVE  (focus = "documents" => RoomInv)'
<1>1. focus' = focus /\ (focus # "documents" \/ D!Next \/ UNCHANGED documentVars)
  BY Zenon DEF OnboardingNext, Only, onboardingVars
<1>2. CASE focus = "documents" /\ UNCHANGED documentVars
  <2>1. UNCHANGED <<room, rows, objects, upload, removal, choice, doomed>>
    BY Zenon, <1>2 DEF documentVars
  <2> QED
    BY Zenon, <1>2, <2>1
    DEF RoomInv, D!TypeOK, PhotosCounted, D!RoomPhotos, PhotoIsStored, RemovalIsRight
<1> QED
  BY Zenon, <1>1, <1>2, RoomSteps

\* However many uploads and deletions overlap or stop on the way, the rows, the objects and
\* what is to be deleted fit together.
THEOREM RoomInvariant == OnboardingSpec => [](focus = "documents" => RoomInv)
<1>1. OnboardingInit => (focus = "documents" => RoomInv)
  BY Zenon, RoomStarts DEF OnboardingInit, DocumentsInit
<1>2. (focus = "documents" => RoomInv) /\ [OnboardingNext]_onboardingVars
        => (focus = "documents" => RoomInv)'
  BY Zenon, OnboardingKeepsRoom
<1> QED
  BY <1>1, <1>2, PTL DEF OnboardingSpec

\* A room never has more photos than the code allows, and an accepted photo has its bytes and
\* its thumbnail, for any number of documents and any limit.
THEOREM RoomsAreCountedAndStored == OnboardingSpec => []PhotosAreCountedAndStored
<1>1. (focus = "documents" => RoomInv) => PhotosAreCountedAndStored
  BY Zenon, SameCount
  DEF RoomInv, PhotosCounted, PhotoIsStored, PhotosAreCountedAndStored,
      D!PhotosAreCountedAndStored
<1> QED
  BY <1>1, RoomInvariant, PTL
=============================================================================
