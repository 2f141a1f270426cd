----------------------------- MODULE StaffAccess -----------------------------
(***************************************************************************)
(* Access of staff: their invitations and roles (F), and the keys of one   *)
(* staff account (W).  The two share no variable.                          *)
(***************************************************************************)
EXTENDS Integers, Sequences, FiniteSets

CONSTANTS
  StaffCalls,      \* the requests that are served at a time
  NoOne,
  People, MaxInvitations, MaxGrants,
  StaffSessions, StaffChallenges, Keys, Counterless, Recoveries, MaxCounter

\* The words for nobody and for the bootstrap tool name no request.
ASSUME StaffNamesAssumption == NoOne \notin StaffCalls /\ "cli" \notin StaffCalls /\ NoOne # "cli"

VARIABLES
  invitations, locks, identities, suspended, roles, accepting, cli, acting,
  wRecoveryRequired, emptied, signingIn, live, wChallenges, credentials, proofs,
  authenticator, wCalls, recoveries, contexts

F == INSTANCE Staff WITH Acceptors <- StaffCalls

W == INSTANCE StaffWebAuthn WITH
       Sessions <- StaffSessions, Challenges <- StaffChallenges, Calls <- StaffCalls,
       recoveryRequired <- wRecoveryRequired, challenges <- wChallenges, calls <- wCalls

staffVars == <<invitations, locks, identities, suspended, roles, accepting, cli, acting>>
keyVars == <<wRecoveryRequired, emptied, signingIn, live, wChallenges, credentials, proofs,
             authenticator, wCalls, recoveries, contexts>>

\* An invitation grants one role if it was accepted and none otherwise.
InvitationsGrantOnce == F!InvitationsGrantOnce

\* A credential's counter never goes back, and a recovery leaves no credential.
CredentialsAdvance == [][W!CounterAdvances]_keyVars
=============================================================================
