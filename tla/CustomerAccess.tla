---------------------------- MODULE CustomerAccess ----------------------------
(***************************************************************************)
(* Access of a customer beside the phones themselves: the codes that       *)
(* replace a phone (R), the lifetime of sessions (S), and recovery and     *)
(* closure of the account (A).  They share no variable.                    *)
(***************************************************************************)
EXTENDS Integers, Sequences, FiniteSets

CONSTANTS
  CustomerCalls,   \* the requests that are served at a time
  CustomerSessions, NoSession,
  CodeTtl, Cooldown, RequestWindow, MaxRequests, MaxAttempts, MaxCodes, MaxMisses, MaxPhones,
  LastCodeTime,
  IdleTimeout, Lifetime, FreshWindow, LastMoment,
  Staff, Customer, MaxCases, MaxClosures

\* The word for no reviewer names no member of staff; the limits are numbers, and the idle
\* timeout of a session is no longer than its lifetime.
ASSUME ReviewersAssumption == "none" \notin Staff
ASSUME LimitsAssumption ==
  CodeTtl \in Nat /\ IdleTimeout \in Nat /\ Lifetime \in Nat /\ IdleTimeout <= Lifetime

VARIABLES
  rNow, codes, phones, rEnrolled, rCalls, replacements,
  sNow, row, mirror, hooks, sRequest, accepted, ended,
  status, recoveryRequired, signedIn, aEnrolled, cases, closures, doing

R == INSTANCE DeviceReplacement WITH
       Calls <- CustomerCalls, Sessions <- CustomerSessions, MaxTime <- LastCodeTime,
       now <- rNow, enrolled <- rEnrolled, calls <- rCalls

S == INSTANCE Sessions WITH
       SessionIds <- CustomerSessions, Requests <- CustomerCalls, MaxTime <- LastMoment,
       now <- sNow, request <- sRequest

A == INSTANCE Accounts WITH enrolled <- aEnrolled

replacementVars == <<rNow, codes, phones, rEnrolled, rCalls, replacements>>
sessionVars == <<sNow, row, mirror, hooks, sRequest, accepted, ended>>
accountVars == <<status, recoveryRequired, signedIn, aEnrolled, cases, closures, doing>>

\* A replacement code replaces at most one phone.
CodesReplaceOnce == R!CodesReplaceOnce

\* A session ends on time and for good.
SessionsEndOnTime == S!SessionsEndOnTime

\* The status of an account changes only by a decision taken in the same transaction.
StatusChangesAreDecided == [][A!StatusChanges]_accountVars
=============================================================================
