----------------------------- MODULE StaffWebAuthn -----------------------------
(***************************************************************************)
(* The WebAuthn credentials of a staff account: the registration and the   *)
(* authentication ceremony, and the recovery that takes every credential   *)
(* away.                                                                   *)
(*                                                                         *)
(* Each ceremony is two requests.  The first stores a challenge for the    *)
(* session, the second answers it: it is authenticated, reads the          *)
(* challenge and the credential, verifies the answer and completes in one  *)
(* transaction.  A recovery flags the user, deletes the sessions and then, *)
(* in a transaction of its own, the proofs, challenges and credentials.    *)
(* Deleting a session deletes its challenges and proof, and a challenge    *)
(* cannot be stored for a session that is gone (foreign keys).             *)
(***************************************************************************)
EXTENDS Integers, FiniteSets

CONSTANTS
  Sessions, Challenges, Keys, Calls,
  Recoveries,     \* recoveries an administrator starts
  Counterless,    \* the keys whose authenticator always answers with counter 0
  NoOne,
  MaxCounter      \* bound: signatures an authenticator makes

VARIABLES
  recoveryRequired,  \* auth_user.recoveryRequiredAt is set
  emptied,           \* ghost: a recovery took the credentials of a flagged user, and the
                     \* flag was not cleared since
  signingIn, live,   \* sessions whose user was checked; sessions
  challenges, credentials, proofs,
  authenticator,     \* the signature counter of each key's authenticator
  calls, recoveries, contexts

vars == <<recoveryRequired, emptied, signingIn, live, challenges, credentials, proofs,
          authenticator, calls, recoveries, contexts>>

Absent == -1   \* the counter of a credential that is not registered

Unissued == [state |-> "unissued", session |-> NoOne, purpose |-> "none"]

Idle == [step |-> "idle", session |-> NoOne, purpose |-> "none", challenge |-> NoOne,
         key |-> NoOne, expected |-> 0, new |-> 0]

Init ==
  /\ recoveryRequired = FALSE /\ emptied = FALSE
  /\ signingIn = {} /\ live = {}
  /\ challenges = [c \in Challenges |-> Unissued]
  /\ credentials = [k \in Keys |-> Absent]
  /\ proofs = [s \in Sessions |-> NoOne]
  /\ authenticator = [k \in Keys |-> 0]
  /\ calls = [f \in Calls |-> Idle]
  /\ recoveries = [r \in Recoveries |-> "idle"]
  /\ contexts = 0

listCredentials == {k \in Keys : credentials[k] # Absent}

Authenticated(s) == s \in live /\ ~recoveryRequired

-----------------------------------------------------------------------------
(* Signing in with the passkey: the guard reads the user, then the session *)
(* is inserted.                                                            *)

SignIn(s) ==
  /\ s \notin signingIn \cup live /\ ~recoveryRequired
  /\ signingIn' = signingIn \cup {s}
  /\ UNCHANGED <<recoveryRequired, emptied, live, challenges, credentials, proofs,
                 authenticator, calls, recoveries, contexts>>

createSession(s) ==
  /\ s \in signingIn
  /\ live' = live \cup {s} /\ signingIn' = signingIn \ {s}
  /\ UNCHANGED <<recoveryRequired, emptied, challenges, credentials, proofs,
                 authenticator, calls, recoveries, contexts>>

\* Mutant: the proof of a session outlives it.
DeleteSessionRows(gone) ==
  /\ live' = live \ gone
  /\ challenges' = [c \in Challenges |->
       IF challenges[c].session \in gone /\ challenges[c].state # "unissued"
       THEN [challenges[c] EXCEPT !.state = "gone"] ELSE challenges[c]]
  /\ UNCHANGED proofs

DeleteSessions(gone) ==
  /\ live' = live \ gone
  /\ challenges' = [c \in Challenges |->
       IF challenges[c].session \in gone /\ challenges[c].state # "unissued"
       THEN [challenges[c] EXCEPT !.state = "gone"] ELSE challenges[c]]
  /\ proofs' = [s \in Sessions |-> IF s \in gone THEN NoOne ELSE proofs[s]]

SignOut(s) ==
  /\ s \in live /\ DeleteSessions({s})
  /\ UNCHANGED <<recoveryRequired, emptied, signingIn, credentials, authenticator, calls,
                 recoveries, contexts>>

-----------------------------------------------------------------------------
(* The ceremonies.                                                         *)

Goes(f, call) == calls' = [calls EXCEPT ![f] = call]

RowsKept == UNCHANGED <<recoveryRequired, emptied, signingIn, live, recoveries, contexts>>

startCeremony(f, s, purpose) ==
  /\ calls[f].step = "idle" /\ Authenticated(s)
  /\ Goes(f, [Idle EXCEPT !.step = "challenge", !.session = s, !.purpose = purpose])
  /\ UNCHANGED <<challenges, credentials, proofs, authenticator>> /\ RowsKept

(* A session of a passkey sign-in is a verified one: it may add a          *)
(* credential to those there are.                                          *)
startRegistration(f, s) == startCeremony(f, s, "registration")

startAuthentication(f, s) ==
  listCredentials # {} /\ startCeremony(f, s, "authentication")

(* A challenge that was never stored: which one makes no difference.       *)
Fresh ==
  LET unissued == {c \in Challenges : challenges[c].state = "unissued"} IN
  IF unissued = {} THEN {} ELSE {CHOOSE c \in unissued : TRUE}

replaceChallenge(f) ==
  LET call == calls[f] IN
  /\ call.step = "challenge"
  /\ \/ /\ call.session \in live
        /\ \E c \in Fresh :
             /\ challenges' = [d \in Challenges |->
                  IF d = c THEN [state |-> "open", session |-> call.session,
                                 purpose |-> call.purpose]
                  ELSE IF /\ challenges[d].state = "open"
                          /\ challenges[d].session = call.session
                          /\ challenges[d].purpose = call.purpose
                       THEN [challenges[d] EXCEPT !.state = "used"]
                       ELSE challenges[d]]
     \/ call.session \notin live /\ UNCHANGED challenges
  /\ Goes(f, Idle)
  /\ UNCHANGED <<credentials, proofs, authenticator>> /\ RowsKept

(* The answer: the authenticator signs with its next counter.              *)
finishCeremony(f, c, k) ==
  LET next == IF k \in Counterless THEN 0 ELSE authenticator[k] + 1 IN
  /\ calls[f].step = "idle" /\ next <= MaxCounter
  /\ challenges[c].state \in {"open", "used"} /\ Authenticated(challenges[c].session)
  /\ authenticator' = [authenticator EXCEPT ![k] = next]
  /\ Goes(f, [Idle EXCEPT !.step = "read", !.session = challenges[c].session,
                !.purpose = challenges[c].purpose, !.challenge = c, !.key = k, !.new = next])
  /\ UNCHANGED <<challenges, credentials, proofs>> /\ RowsKept

Open(f) == challenges[calls[f].challenge].state = "open"

(* The new counter is past the stored one, unless the authenticator keeps  *)
(* none.                                                                   *)
verifyAuthentication(stored, new) == new > stored \/ (new = 0 /\ stored = 0)

Verified(call) ==
  \/ call.purpose = "registration" /\ credentials[call.key] = Absent
  \/ /\ call.purpose = "authentication" /\ credentials[call.key] # Absent
     /\ verifyAuthentication(credentials[call.key], call.new)

failChallenge(f) ==
  challenges' = [challenges EXCEPT ![calls[f].challenge].state = "used"]

readCeremony(f) ==
  LET call == calls[f] IN
  /\ call.step = "read"
  /\ \/ Open(f) /\ Verified(call) /\ UNCHANGED challenges
        /\ Goes(f, [call EXCEPT !.step = "complete", !.expected = credentials[call.key]])
     \/ Open(f) /\ failChallenge(f) /\ Goes(f, Idle)
     \/ ~Open(f) /\ UNCHANGED challenges /\ Goes(f, Idle)
  /\ UNCHANGED <<credentials, proofs, authenticator>> /\ RowsKept

(* The transaction that completes a ceremony: the challenge is used, the   *)
(* credential stored, the session proved.                                  *)
Complete(f) ==
  /\ challenges' = [challenges EXCEPT ![calls[f].challenge].state = "used"]
  /\ credentials' = [credentials EXCEPT ![calls[f].key] = calls[f].new]
  /\ proofs' = [proofs EXCEPT ![calls[f].session] = calls[f].key]

CeremonyRefused(f, ok) ==
  /\ ~ok /\ UNCHANGED <<challenges, credentials, proofs>>

completeRegistration(f) ==
  LET ok == Open(f) /\ credentials[calls[f].key] = Absent IN
  /\ calls[f].step = "complete" /\ calls[f].purpose = "registration"
  /\ (ok /\ Complete(f)) \/ CeremonyRefused(f, ok)
  /\ Goes(f, Idle)
  /\ UNCHANGED authenticator /\ RowsKept

\* Mutant: the authentication writes its counter over whatever is stored.
AuthenticateAnyCounter(f) ==
  LET ok == Open(f) /\ credentials[calls[f].key] # Absent IN
  /\ calls[f].step = "complete" /\ calls[f].purpose = "authentication"
  /\ (ok /\ Complete(f)) \/ CeremonyRefused(f, ok)
  /\ Goes(f, Idle)
  /\ UNCHANGED authenticator /\ RowsKept

(* A credential that changed since it was read rolls the transaction back. *)
completeAuthentication(f) ==
  LET ok == Open(f) /\ credentials[calls[f].key] = calls[f].expected IN
  /\ calls[f].step = "complete" /\ calls[f].purpose = "authentication"
  /\ (ok /\ Complete(f)) \/ CeremonyRefused(f, ok)
  /\ Goes(f, Idle)
  /\ UNCHANGED authenticator /\ RowsKept

-----------------------------------------------------------------------------
(* Recovery by another administrator.                                      *)

RecoverStaffAccountService(r) ==
  /\ recoveries[r] = "idle"
  /\ recoveryRequired' = TRUE
  /\ recoveries' = [recoveries EXCEPT ![r] = "sessions"]
  /\ UNCHANGED <<emptied, signingIn, live, challenges, credentials, proofs, authenticator,
                 calls, contexts>>

deleteUserSessions(r) ==
  /\ recoveries[r] = "sessions"
  /\ DeleteSessions(live)
  /\ recoveries' = [recoveries EXCEPT ![r] = "rows"]
  /\ UNCHANGED <<recoveryRequired, emptied, signingIn, credentials, authenticator, calls, contexts>>

prepareRecovery(r) ==
  /\ recoveries[r] = "rows"
  /\ proofs' = [s \in Sessions |-> NoOne]
  /\ challenges' = [c \in Challenges |->
       IF challenges[c].state = "unissued" THEN challenges[c]
       ELSE [challenges[c] EXCEPT !.state = "gone"]]
  /\ credentials' = [k \in Keys |-> Absent]
  /\ emptied' = recoveryRequired
  /\ recoveries' = [recoveries EXCEPT ![r] = "email"]
  /\ UNCHANGED <<recoveryRequired, signingIn, live, authenticator, calls, contexts>>

sendRecoveryEmail(r) ==
  /\ recoveries[r] = "email"
  /\ recoveries' = [recoveries EXCEPT ![r] = "done"]
  /\ contexts' \in {contexts, contexts + 1}
  /\ UNCHANGED <<recoveryRequired, emptied, signingIn, live, challenges, credentials, proofs,
                 authenticator, calls>>

(* The process dies; the administrator may start the recovery again.       *)
RecoveryCrashes(r) ==
  /\ recoveries[r] \in {"sessions", "rows", "email"}
  /\ recoveries' = [recoveries EXCEPT ![r] = "done"]
  /\ UNCHANGED <<recoveryRequired, emptied, signingIn, live, challenges, credentials, proofs,
                 authenticator, calls, contexts>>

(* A new passkey is registered with the context the email carries.         *)
consumePasskeyBootstrap ==
  /\ contexts > 0 /\ contexts' = contexts - 1
  /\ recoveryRequired' = FALSE /\ emptied' = FALSE
  /\ UNCHANGED <<signingIn, live, challenges, credentials, proofs, authenticator, calls, recoveries>>

-----------------------------------------------------------------------------
Ceremonies(f) ==
  \/ \E s \in Sessions : startRegistration(f, s) \/ startAuthentication(f, s)
  \/ \E c \in Challenges, k \in Keys : finishCeremony(f, c, k)
  \/ replaceChallenge(f) \/ readCeremony(f)
  \/ completeRegistration(f) \/ completeAuthentication(f)

Recovers(r) ==
  \/ RecoverStaffAccountService(r) \/ deleteUserSessions(r) \/ prepareRecovery(r)
  \/ sendRecoveryEmail(r) \/ RecoveryCrashes(r)

Next ==
  \/ \E s \in Sessions : SignIn(s) \/ createSession(s) \/ SignOut(s)
  \/ \E f \in Calls : Ceremonies(f)
  \/ \E r \in Recoveries : Recovers(r)
  \/ consumePasskeyBootstrap

Spec == Init /\ [][Next]_vars

-----------------------------------------------------------------------------
(* The variables keep their types; a proof belongs to a live session and a *)
(* registered credential.                                                  *)
TypeOK ==
  /\ live \subseteq Sessions /\ signingIn \subseteq Sessions
  /\ \A c \in Challenges : challenges[c].state \in {"unissued", "open", "used", "gone"}
  /\ \A k \in Keys : credentials[k] \in Absent..MaxCounter
  /\ \A s \in Sessions : proofs[s] # NoOne => s \in live /\ credentials[proofs[s]] # Absent
  /\ contexts \in 0..Cardinality(Recoveries)

CounterAdvances ==
  /\ \A k \in Keys : credentials[k] # Absent /\ credentials'[k] # Absent
                       => credentials'[k] >= credentials[k]
  /\ recoveryRequired' /\ emptied' => \A k \in Keys : credentials'[k] = Absent

(* A credential's counter never goes back while the credential is          *)
(* registered, whatever ceremonies overlap; and once a recovery has taken  *)
(* the credentials, none is registered before the staff member re-enrols,  *)
(* not even by a ceremony that was under way.                              *)
CredentialsAdvance == [][CounterAdvances]_vars

=============================================================================
