------------------------------ MODULE Accounts -------------------------------
(***************************************************************************)
(* What staff and the customer decide about one customer account: recovery *)
(* after a full lockout, reviewed by two people, and closure.              *)
(*                                                                         *)
(* status is the account's, recoveryRequired whether its identity has      *)
(* recoveryRequiredAt set, signedIn whether it has a live session and      *)
(* enrolled whether it has an active device.  cases and closures are the   *)
(* account's recovery cases and closure requests, oldest first.            *)
(*                                                                         *)
(* An operation that reads first and writes later is in doing: one entry   *)
(* for each member of staff and for the customer, with what it read.  Each *)
(* later step is one transaction, or one call on the identity provider's   *)
(* tables, which share no transaction with the rest.                       *)
(***************************************************************************)
EXTENDS Naturals, Sequences

CONSTANTS
  Staff,       \* members of staff with the admin_operations role
  Customer,    \* the account's own customer
  MaxCases,    \* bound: recovery cases
  MaxClosures  \* bound: closure requests

VARIABLES status, recoveryRequired, signedIn, enrolled, cases, closures, doing

vars == <<status, recoveryRequired, signedIn, enrolled, cases, closures, doing>>

Idle == [step |-> "idle", of |-> 0]

NoReviewer == "none"

Init ==
  /\ status = "active" /\ recoveryRequired = FALSE
  /\ signedIn = TRUE /\ enrolled = TRUE
  /\ cases = <<>> /\ closures = <<>>
  /\ doing = [a \in Staff \cup {Customer} |-> Idle]

Does(a, step, i) == doing' = [doing EXCEPT ![a] = [step |-> step, of |-> i]]

Finishes(a) == doing' = [doing EXCEPT ![a] = Idle]

At(a, step) == doing[a].step = step

(* The customer acts: a request with a live session of an active account.  *)
Authenticated == signedIn /\ status = "active" /\ ~recoveryRequired

-----------------------------------------------------------------------------
(* The customer signs in and enrols a phone.  The identity provider refuses *)
(* a session while recovery is required, the enrolment unless the account   *)
(* is active.                                                              *)

SignIn ==
  /\ ~signedIn /\ ~recoveryRequired
  /\ signedIn' = TRUE
  /\ UNCHANGED <<status, recoveryRequired, enrolled, cases, closures, doing>>

Enrol ==
  /\ Authenticated /\ ~enrolled
  /\ enrolled' = TRUE
  /\ UNCHANGED <<status, recoveryRequired, signedIn, cases, closures, doing>>

revokeAllSessions ==
  /\ recoveryRequired' = TRUE /\ signedIn' = FALSE

-----------------------------------------------------------------------------
(* Recovery.                                                               *)

OpenAccountRecoveryCaseService(s) ==
  /\ At(s, "idle") /\ Len(cases) < MaxCases
  /\ status = "active"
  /\ \A i \in DOMAIN cases : cases[i].status # "open"
  /\ Does(s, "open_revoke", 0)
  /\ UNCHANGED <<status, recoveryRequired, signedIn, enrolled, cases, closures>>

OpenRevokes(s) ==
  /\ At(s, "open_revoke")
  /\ revokeAllSessions
  /\ Does(s, "open_record", 0)
  /\ UNCHANGED <<status, enrolled, cases, closures>>

openCase(s) ==
  /\ At(s, "open_record") /\ Len(cases) < MaxCases
  /\ cases' = Append(cases, [status |-> "open", verified |-> FALSE,
                             primary |-> NoReviewer, secondary |-> NoReviewer])
  /\ status' = "recovery_review"
  /\ Finishes(s)
  /\ UNCHANGED <<recoveryRequired, signedIn, enrolled, closures>>

(* A fresh identity verification is created with the provider for a case   *)
(* read as open, and recorded while it still is.                           *)
CreateRecoveryDiditSessionService(s, i) ==
  /\ At(s, "idle") /\ cases[i].status = "open"
  /\ Does(s, "didit_record", i)
  /\ UNCHANGED <<status, recoveryRequired, signedIn, enrolled, cases, closures>>

recordDiditSession(s) ==
  LET i == doing[s].of IN
  /\ At(s, "didit_record")
  /\ cases' = IF cases[i].status = "open" THEN [cases EXCEPT ![i].verified = TRUE] ELSE cases
  /\ Finishes(s)
  /\ UNCHANGED <<status, recoveryRequired, signedIn, enrolled, closures>>

(* One transaction, in a request of its own.                               *)
recordPrimaryReview(s, i) ==
  /\ cases[i].status = "open" /\ cases[i].primary = NoReviewer /\ cases[i].verified
  /\ cases' = [cases EXCEPT ![i].primary = s]
  /\ UNCHANGED <<status, recoveryRequired, signedIn, enrolled, closures, doing>>

RecordPrimaryRecoveryReviewService(s, i) == recordPrimaryReview(s, i)

DecideAccountRecoveryCaseService(s, i) ==
  /\ At(s, "idle") /\ cases[i].primary # s
  /\ Does(s, "decide", i)
  /\ UNCHANGED <<status, recoveryRequired, signedIn, enrolled, cases, closures>>

\* Mutant: the decision relies on the reviewer the service read.
DecideAsRead(s, decision) ==
  LET i == doing[s].of IN
  /\ At(s, "decide")
  /\ cases' = IF cases[i].status = "open" /\ cases[i].primary # NoReviewer
              THEN [cases EXCEPT ![i] = [@ EXCEPT !.status = decision, !.secondary = s]]
              ELSE cases
  /\ Finishes(s)
  /\ UNCHANGED <<status, recoveryRequired, signedIn, enrolled, closures>>

decideCase(s, decision) ==
  LET i == doing[s].of IN
  /\ At(s, "decide")
  /\ cases' = IF cases[i].status = "open" /\ cases[i].primary \notin {NoReviewer, s}
              THEN [cases EXCEPT ![i] = [@ EXCEPT !.status = decision, !.secondary = s]]
              ELSE cases
  /\ Finishes(s)
  /\ UNCHANGED <<status, recoveryRequired, signedIn, enrolled, closures>>

(* Completion of an approved case: the devices, the sessions and the flag, *)
(* each on its own, then the case and the account.                         *)
CompleteAccountRecoveryService(s, i) ==
  /\ At(s, "idle") /\ cases[i].status = "approved"
  /\ Does(s, "revoke_devices", i)
  /\ UNCHANGED <<status, recoveryRequired, signedIn, enrolled, cases, closures>>

revokeDevicesForRecovery(s) ==
  /\ At(s, "revoke_devices")
  /\ enrolled' = FALSE
  /\ Does(s, "revoke_sessions", doing[s].of)
  /\ UNCHANGED <<status, recoveryRequired, signedIn, cases, closures>>

revokeSessionsForRecoveryCompletion(s) ==
  /\ At(s, "revoke_sessions")
  /\ signedIn' = FALSE
  /\ Does(s, "clear", doing[s].of)
  /\ UNCHANGED <<status, recoveryRequired, enrolled, cases, closures>>

clearRecoveryRequired(s) ==
  /\ At(s, "clear")
  /\ recoveryRequired' = FALSE
  /\ Does(s, "complete", doing[s].of)
  /\ UNCHANGED <<status, signedIn, enrolled, cases, closures>>

completeCase(s) ==
  LET i == doing[s].of IN
  /\ At(s, "complete")
  /\ IF cases[i].status = "approved"
     THEN cases' = [cases EXCEPT ![i].status = "completed"] /\ status' = "active"
     ELSE UNCHANGED <<cases, status>>
  /\ Finishes(s)
  /\ UNCHANGED <<recoveryRequired, signedIn, enrolled, closures>>

-----------------------------------------------------------------------------
(* Closure.                                                                *)

RequestAccountClosureService ==
  /\ Authenticated /\ At(Customer, "idle") /\ Len(closures) < MaxClosures
  /\ \A i \in DOMAIN closures : closures[i] # "pending"
  /\ Does(Customer, "request", 0)
  /\ UNCHANGED <<status, recoveryRequired, signedIn, enrolled, cases, closures>>

createClosureRequest ==
  /\ At(Customer, "request")
  /\ closures' = Append(closures, "pending")
  /\ Finishes(Customer)
  /\ UNCHANGED <<status, recoveryRequired, signedIn, enrolled, cases>>

CancelAccountClosureService(i) ==
  /\ Authenticated /\ At(Customer, "idle") /\ closures[i] = "pending"
  /\ Does(Customer, "cancel", i)
  /\ UNCHANGED <<status, recoveryRequired, signedIn, enrolled, cases, closures>>

cancelClosureRequest ==
  LET i == doing[Customer].of IN
  /\ At(Customer, "cancel")
  /\ closures' = IF closures[i] = "pending" THEN [closures EXCEPT ![i] = "cancelled"]
                 ELSE closures
  /\ Finishes(Customer)
  /\ UNCHANGED <<status, recoveryRequired, signedIn, enrolled, cases>>

DecideAccountClosureRequestService(s, i, decision) ==
  /\ At(s, "idle") /\ closures[i] = "pending"
  /\ Does(s, IF decision = "approved" THEN "close_revoke" ELSE "close_reject", i)
  /\ UNCHANGED <<status, recoveryRequired, signedIn, enrolled, cases, closures>>

CloseRevokes(s) ==
  /\ At(s, "close_revoke")
  /\ revokeAllSessions
  /\ Does(s, "close_approve", doing[s].of)
  /\ UNCHANGED <<status, enrolled, cases, closures>>

decideClosureRequest(s) ==
  LET i == doing[s].of IN
  /\ doing[s].step \in {"close_approve", "close_reject"}
  /\ IF closures[i] # "pending" THEN UNCHANGED <<closures, status>>
     ELSE IF At(s, "close_approve")
     THEN closures' = [closures EXCEPT ![i] = "approved"] /\ status' = "suspended_restricted"
     ELSE closures' = [closures EXCEPT ![i] = "rejected"] /\ UNCHANGED status
  /\ Finishes(s)
  /\ UNCHANGED <<recoveryRequired, signedIn, enrolled, cases>>

(* A call fails, or the process dies: what was written stays.              *)
Fails(a) ==
  /\ ~At(a, "idle")
  /\ Finishes(a)
  /\ UNCHANGED <<status, recoveryRequired, signedIn, enrolled, cases, closures>>

-----------------------------------------------------------------------------
RecoverySteps(s) ==
  \/ OpenAccountRecoveryCaseService(s) \/ OpenRevokes(s) \/ openCase(s)
  \/ recordDiditSession(s)
  \/ \E i \in DOMAIN cases :
       \/ CreateRecoveryDiditSessionService(s, i) \/ RecordPrimaryRecoveryReviewService(s, i)
       \/ DecideAccountRecoveryCaseService(s, i) \/ CompleteAccountRecoveryService(s, i)
  \/ \E decision \in {"approved", "rejected"} : decideCase(s, decision)
  \/ revokeDevicesForRecovery(s) \/ revokeSessionsForRecoveryCompletion(s)
  \/ clearRecoveryRequired(s) \/ completeCase(s)

ClosureSteps(s) ==
  \/ \E i \in DOMAIN closures, decision \in {"approved", "rejected"} :
       DecideAccountClosureRequestService(s, i, decision)
  \/ CloseRevokes(s) \/ decideClosureRequest(s)

CustomerSteps ==
  \/ SignIn \/ Enrol
  \/ RequestAccountClosureService \/ createClosureRequest
  \/ \E i \in DOMAIN closures : CancelAccountClosureService(i)
  \/ cancelClosureRequest

Next ==
  \/ CustomerSteps
  \/ \E s \in Staff : RecoverySteps(s) \/ ClosureSteps(s)
  \/ \E a \in Staff \cup {Customer} : Fails(a)

Spec == Init /\ [][Next]_vars

-----------------------------------------------------------------------------
(* The variables keep their types.                                         *)
TypeOK ==
  /\ status \in {"active", "recovery_review", "suspended_restricted"}
  /\ {recoveryRequired, signedIn, enrolled} \subseteq BOOLEAN
  /\ cases \in Seq([status : {"open", "approved", "rejected", "completed"},
                    verified : BOOLEAN, primary : Staff \cup {NoReviewer},
                    secondary : Staff \cup {NoReviewer}])
  /\ closures \in Seq({"pending", "approved", "rejected", "cancelled"})
  /\ \A a \in Staff \cup {Customer} : doing[a].of \in 0..(Len(cases) + Len(closures))

StatusChanges ==
  /\ status # "recovery_review" /\ status' = "recovery_review" =>
       Len(cases') > Len(cases)
  /\ status # "suspended_restricted" /\ status' = "suspended_restricted" =>
       \E i \in DOMAIN closures : closures[i] = "pending" /\ closures'[i] = "approved"
  /\ status # "active" /\ status' = "active" =>
       \E i \in DOMAIN cases :
         /\ cases[i].status = "approved" /\ cases'[i].status = "completed"
         /\ cases[i].verified
         /\ NoReviewer \notin {cases[i].primary, cases[i].secondary}
         /\ cases[i].primary # cases[i].secondary

(* The status of an account changes only by a decision about it, taken in  *)
(* the same transaction: into recovery by a case that opens, into closure  *)
(* by a request that was still pending, not one cancelled meanwhile; and a *)
(* restriction is lifted only by completing a case with a fresh identity   *)
(* verification that two different people have reviewed.                   *)
StatusChangesAreDecided == [][StatusChanges]_vars

=============================================================================
