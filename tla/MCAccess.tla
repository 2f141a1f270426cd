------------------------------- MODULE MCAccess -------------------------------
(***************************************************************************)
(* Who may act, and as whom: the phones customers enrol and sign in with   *)
(* and their replacement, the lifetime of sessions, account recovery and   *)
(* closure, staff invitations and roles, the keys of staff, and the answer *)
(* to a request that is sent again.  They share no variable, so a          *)
(* behaviour is one of the component in focus; the others stay in their    *)
(* initial state.                                                          *)
(***************************************************************************)
EXTENDS Devices, CustomerAccess, StaffAccess, TLC

CONSTANT Bodies  \* Idempotency

VARIABLES focus, effect, stored, iRequest, sent

I == INSTANCE Idempotency WITH request <- iRequest

answerVars == <<effect, stored, iRequest, sent>>
accessVars == <<focus, vars, accountVars, replacementVars, staffVars, keyVars, sessionVars,
                answerVars>>

Only(c) ==
  /\ focus = c /\ focus' = focus
  /\ IF c = "devices" THEN TRUE ELSE UNCHANGED vars
  /\ IF c = "accounts" THEN TRUE ELSE UNCHANGED accountVars
  /\ IF c = "replacement" THEN TRUE ELSE UNCHANGED replacementVars
  /\ IF c = "staff" THEN TRUE ELSE UNCHANGED staffVars
  /\ IF c = "keys" THEN TRUE ELSE UNCHANGED keyVars
  /\ IF c = "sessions" THEN TRUE ELSE UNCHANGED sessionVars
  /\ IF c = "answers" THEN TRUE ELSE UNCHANGED answerVars

AccessInit ==
  /\ focus \in {"devices", "accounts", "replacement", "staff", "keys", "sessions", "answers"}
  /\ Init /\ A!Init /\ R!Init /\ F!Init /\ W!Init /\ S!Init /\ I!Init

AccessNext ==
  \/ Only("devices") /\ Next
  \/ Only("accounts") /\ A!Next
  \/ Only("replacement") /\ R!Next
  \/ Only("staff") /\ F!Next
  \/ Only("keys") /\ W!Next
  \/ Only("sessions") /\ S!Next
  \/ Only("answers") /\ I!Next

AccessSpec == AccessInit /\ [][AccessNext]_accessVars

\* Overlapping requests and phones are interchangeable. So are the reviewers, the
\* people invited and the sessions of staff: the configuration gives them the same values.
Symmetry == Permutations(Phones) \cup Permutations(Requests)

\* Of the two phones only one goes on after the first moment, with no session after the second;
\* a recovery of the keys meets at most two of the three challenges.
Within ==
  /\ now = 0 \/ Cardinality((pending \cup {challenges[c].key : c \in Challenges}) \ {None}) <= 1
  /\ now <= 1 \/ sessions = {}
  /\ (\E v \in Recoveries : recoveries[v] # "idle")
       => \E c \in StaffChallenges : wChallenges[c].state = "unissued"

-----------------------------------------------------------------------------

\* The state of every component stays within its types.
TypesOK ==
  CASE focus = "devices" -> TypeOK
    [] focus = "accounts" -> A!TypeOK
    [] focus = "replacement" -> R!TypeOK
    [] focus = "staff" -> F!TypeOK
    [] focus = "keys" -> W!TypeOK
    [] focus = "sessions" -> S!TypeOK
    [] focus = "answers" -> I!TypeOK
=============================================================================
