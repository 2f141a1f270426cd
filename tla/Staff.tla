-------------------------------- MODULE Staff --------------------------------
(***************************************************************************)
(* Who is staff: invitations and their acceptance, the command line tool   *)
(* that invites the first administrator, granting and revoking roles, and  *)
(* offboarding.                                                            *)
(*                                                                         *)
(* A person is an email address and the account it gets.  identities are   *)
(* the people the identity provider knows, suspended those whose account   *)
(* was offboarded.  invitations is auth.staff_invitations and roles        *)
(* auth.staff_role_assignments, in the order their rows were committed; by *)
(* is the invitation that granted a role, 0 if an administrator did.       *)
(*                                                                         *)
(* An acceptance claims its invitation, resolves the identity and grants   *)
(* the role in one transaction, whose read, update and commit are separate *)
(* steps; so are the row locks, the count and the commit of the bootstrap  *)
(* transaction.  locks maps each invitation to the transaction that holds  *)
(* its row: other writers of the row wait for it.                          *)
(***************************************************************************)
EXTENDS Naturals, Sequences, FiniteSets

CONSTANTS
  People,
  Acceptors,       \* acceptance requests
  NoOne,
  MaxInvitations,  \* bound: invitations issued
  MaxGrants        \* bound: roles granted by administrators

VARIABLES invitations, locks, identities, suspended, roles, accepting, cli, acting

vars == <<invitations, locks, identities, suspended, roles, accepting, cli, acting>>

Roles == {"admin_operations", "partner"}

Idle == [step |-> "idle", of |-> 0]

NotActing == [step |-> "idle", person |-> NoOne]

CliIdle == [step |-> "idle", email |-> NoOne, live |-> {}]

Init ==
  /\ invitations = <<>> /\ locks = <<>> /\ roles = <<>>
  /\ identities = {} /\ suspended = {}
  /\ accepting = [a \in Acceptors |-> Idle]
  /\ cli = CliIdle /\ acting = NotActing

Pending(i) == invitations[i].state = "pending"

Unlocked(i) == locks[i] = NoOne

HasRole(p, role) ==
  \E n \in DOMAIN roles : roles[n].account = p /\ roles[n].role = role /\ roles[n].active

activeAdmins == {p \in People \ suspended : HasRole(p, "admin_operations")}

hasActiveStaffRole(p) == \E role \in Roles : HasRole(p, role)

assertEmailAvailable(p) == p \notin identities

Revoked(live) ==
  [i \in DOMAIN invitations |->
     IF i \in live THEN [invitations[i] EXCEPT !.state = "revoked"] ELSE invitations[i]]

Issued(p, role, via) ==
  [email |-> p, role |-> role, via |-> via, state |-> "pending", expired |-> FALSE,
   claim |-> NoOne, stale |-> FALSE]

-----------------------------------------------------------------------------
(* Issuing an invitation replaces what is pending for the address.  One    *)
(* that cannot be delivered is revoked.                                    *)

IssueStaffInvitationService(p) ==
  /\ acting.step = "idle" /\ activeAdmins # {}
  /\ assertEmailAvailable(p)
  /\ acting' = [step |-> "invite", person |-> p]
  /\ UNCHANGED <<invitations, locks, identities, suspended, roles, accepting, cli>>

createInvitation(role) ==
  LET replaced == {i \in DOMAIN invitations : Pending(i) /\ invitations[i].email = acting.person} IN
  /\ acting.step = "invite" /\ Len(invitations) < MaxInvitations
  /\ \A i \in replaced : Unlocked(i)
  /\ invitations' = Append(Revoked(replaced), Issued(acting.person, role, "staff"))
  /\ locks' = Append(locks, NoOne)
  /\ acting' = NotActing
  /\ UNCHANGED <<identities, suspended, roles, accepting, cli>>

revokeInvitation(i) ==
  /\ Pending(i) /\ Unlocked(i) /\ invitations[i].via = "staff"
  /\ invitations' = Revoked({i})
  /\ UNCHANGED <<locks, identities, suspended, roles, accepting, cli, acting>>

(* Time passes: an invitation expires, a claim is ten minutes old.         *)
Expires(i) ==
  /\ Pending(i) /\ ~invitations[i].expired
  /\ invitations' = [invitations EXCEPT ![i].expired = TRUE]
  /\ UNCHANGED <<locks, identities, suspended, roles, accepting, cli, acting>>

ClaimGoesStale(i) ==
  /\ Pending(i) /\ invitations[i].claim # NoOne /\ ~invitations[i].stale
  /\ invitations' = [invitations EXCEPT ![i].stale = TRUE]
  /\ UNCHANGED <<locks, identities, suspended, roles, accepting, cli, acting>>

-----------------------------------------------------------------------------
(* Accepting one.                                                          *)

claimInvitation(a, i) ==
  /\ accepting[a].step = "idle"
  /\ Pending(i) /\ ~invitations[i].expired /\ Unlocked(i)
  /\ invitations[i].claim = NoOne \/ invitations[i].stale
  /\ invitations' = [invitations EXCEPT ![i] = [@ EXCEPT !.claim = a, !.stale = FALSE]]
  /\ accepting' = [accepting EXCEPT ![a] = [step |-> "identity", of |-> i]]
  /\ UNCHANGED <<locks, identities, suspended, roles, cli, acting>>

createOrResolveInvitedStaff(a) ==
  /\ accepting[a].step = "identity"
  /\ identities' = identities \cup {invitations[accepting[a].of].email}
  /\ accepting' = [accepting EXCEPT ![a].step = "read"]
  /\ UNCHANGED <<invitations, locks, suspended, roles, cli, acting>>

(* The address belongs to a customer, or the identity provider fails.      *)
createOrResolveFails(a) ==
  /\ accepting[a].step = "identity"
  /\ accepting' = [accepting EXCEPT ![a].step = "release"]
  /\ UNCHANGED <<invitations, locks, identities, suspended, roles, cli, acting>>

(* The rows the acceptance transaction may change.                         *)
Acceptable(a, i) == Pending(i) /\ invitations[i].claim = a

completeAcceptance(a) ==
  LET i == accepting[a].of IN
  /\ accepting[a].step = "read"
  /\ accepting' = [accepting EXCEPT ![a].step =
       IF Acceptable(a, i) /\ ~invitations[i].expired THEN "update" ELSE "release"]
  /\ UNCHANGED <<invitations, locks, identities, suspended, roles, cli, acting>>

\* Mutant: the acceptance relies on what it read before it had the row.
AcceptAsRead(a) ==
  LET i == accepting[a].of IN
  /\ accepting[a].step = "update" /\ Unlocked(i)
  /\ locks' = [locks EXCEPT ![i] = a]
  /\ accepting' = [accepting EXCEPT ![a].step = "commit"]
  /\ UNCHANGED <<invitations, identities, suspended, roles, cli, acting>>

(* The role is inserted, then the invitation updated: the update waits for *)
(* the row and finds it as it then is.  An invitation that has changed, or *)
(* a second one for the account (a unique index), rolls the role back.     *)
AcceptanceUpdates(a) ==
  LET i == accepting[a].of
      others == {j \in DOMAIN invitations \ {i} : invitations[j].email = invitations[i].email}
  IN
  /\ accepting[a].step = "update" /\ Unlocked(i)
  /\ \A j \in others : locks[j] \notin Acceptors
  /\ IF Acceptable(a, i) /\ \A j \in others : invitations[j].state # "accepted"
     THEN /\ locks' = [locks EXCEPT ![i] = a]
          /\ accepting' = [accepting EXCEPT ![a].step = "commit"]
     ELSE /\ accepting' = [accepting EXCEPT ![a].step = "release"]
          /\ UNCHANGED locks
  /\ UNCHANGED <<invitations, identities, suspended, roles, cli, acting>>

AcceptanceCommits(a) ==
  LET i == accepting[a].of IN
  /\ accepting[a].step = "commit"
  /\ invitations' = [invitations EXCEPT ![i] =
                       [@ EXCEPT !.state = "accepted", !.claim = NoOne, !.stale = FALSE]]
  /\ roles' = Append(roles, [account |-> invitations[i].email, role |-> invitations[i].role,
                             by |-> i, active |-> TRUE])
  /\ locks' = [locks EXCEPT ![i] = NoOne]
  /\ accepting' = [accepting EXCEPT ![a] = Idle]
  /\ UNCHANGED <<identities, suspended, cli, acting>>

releaseClaim(a) ==
  LET i == accepting[a].of IN
  /\ accepting[a].step = "release" /\ Unlocked(i)
  /\ invitations' = IF Acceptable(a, i)
                    THEN [invitations EXCEPT ![i] = [@ EXCEPT !.claim = NoOne, !.stale = FALSE]]
                    ELSE invitations
  /\ accepting' = [accepting EXCEPT ![a] = Idle]
  /\ UNCHANGED <<locks, identities, suspended, roles, cli, acting>>

(* A process dies: its transaction is rolled back, its claim stays.        *)
AcceptanceCrashes(a) ==
  /\ accepting[a].step # "idle"
  /\ locks' = [i \in DOMAIN locks |-> IF locks[i] = a THEN NoOne ELSE locks[i]]
  /\ accepting' = [accepting EXCEPT ![a] = Idle]
  /\ UNCHANGED <<invitations, identities, suspended, roles, cli, acting>>

-----------------------------------------------------------------------------
(* The first administrator.  An advisory lock lets one run in at a time.   *)

BootstrapFirstAdminService(p) ==
  /\ cli.step = "idle"
  /\ activeAdmins = {} /\ assertEmailAvailable(p)
  /\ cli' = [step |-> "lock", email |-> p, live |-> {}]
  /\ UNCHANGED <<invitations, locks, identities, suspended, roles, accepting, acting>>

LiveFor(p) ==
  {i \in DOMAIN invitations :
     Pending(i) /\ (invitations[i].via = "cli_bootstrap" \/ invitations[i].email = p)}

LockLive ==
  LET live == LiveFor(cli.email) IN
  /\ cli.step = "lock" /\ \A i \in live : Unlocked(i)
  /\ locks' = [i \in DOMAIN locks |-> IF i \in live THEN "cli" ELSE locks[i]]
  /\ cli' = [cli EXCEPT !.step = "count", !.live = live]
  /\ UNCHANGED <<invitations, identities, suspended, roles, accepting, acting>>

CliUnlocks == [i \in DOMAIN locks |-> IF locks[i] = "cli" THEN NoOne ELSE locks[i]]

CountAdmins ==
  /\ cli.step = "count"
  /\ IF activeAdmins = {}
     THEN cli' = [cli EXCEPT !.step = "issue"] /\ UNCHANGED locks
     ELSE cli' = CliIdle /\ locks' = CliUnlocks
  /\ UNCHANGED <<invitations, identities, suspended, roles, accepting, acting>>

(* The unique indexes allow one pending invitation of the tool, and one    *)
(* for an address.                                                         *)
issueBootstrapInvitation ==
  /\ cli.step = "issue"
  /\ IF LiveFor(cli.email) \subseteq cli.live
     THEN /\ Len(invitations) < MaxInvitations
          /\ invitations' =
               Append(Revoked({i \in cli.live : Pending(i)}),
                      Issued(cli.email, "admin_operations", "cli_bootstrap"))
          /\ locks' = Append(CliUnlocks, NoOne)
     ELSE locks' = CliUnlocks /\ UNCHANGED invitations
  /\ cli' = CliIdle
  /\ UNCHANGED <<identities, suspended, roles, accepting, acting>>

(* The run dies, or waits too long for a row.                              *)
BootstrapFails ==
  /\ cli.step # "idle"
  /\ cli' = CliIdle /\ locks' = CliUnlocks
  /\ UNCHANGED <<invitations, identities, suspended, roles, accepting, acting>>

-----------------------------------------------------------------------------
(* Role changes and offboarding, by another administrator.                 *)

Admins(p) == activeAdmins \ {p}

GrantStaffRoleService(p) ==
  /\ acting.step = "idle" /\ Admins(p) # {}
  /\ p \notin suspended /\ hasActiveStaffRole(p) /\ ~HasRole(p, "admin_operations")
  /\ Cardinality({n \in DOMAIN roles : roles[n].by = 0}) < MaxGrants
  /\ acting' = [step |-> "grant", person |-> p]
  /\ UNCHANGED <<invitations, locks, identities, suspended, roles, accepting, cli>>

grantRole ==
  /\ acting.step = "grant"
  /\ roles' = Append(roles, [account |-> acting.person, role |-> "admin_operations",
                             by |-> 0, active |-> TRUE])
  /\ acting' = NotActing
  /\ UNCHANGED <<invitations, locks, identities, suspended, accepting, cli>>

revokeRole(n) ==
  /\ roles[n].active
  /\ roles' = [roles EXCEPT ![n].active = FALSE]
  /\ UNCHANGED <<invitations, locks, identities, suspended, accepting, cli, acting>>

\* One request is one transaction: nothing of what the service looked at is used later.
RevokeStaffRoleService(n) == Admins(roles[n].account) # {} /\ revokeRole(n)

OffboardStaffAccountService(p) ==
  /\ acting.step = "idle" /\ p \in identities /\ Admins(p) # {}
  /\ acting' = [step |-> "offboard", person |-> p]
  /\ UNCHANGED <<invitations, locks, identities, suspended, roles, accepting, cli>>

(* The process dies between an administrator's check and its write.        *)
ActingFails ==
  /\ acting.step # "idle"
  /\ acting' = NotActing
  /\ UNCHANGED <<invitations, locks, identities, suspended, roles, accepting, cli>>

completeOffboarding ==
  /\ acting.step = "offboard"
  /\ roles' = [n \in DOMAIN roles |->
                 IF roles[n].account = acting.person
                 THEN [roles[n] EXCEPT !.active = FALSE] ELSE roles[n]]
  /\ suspended' = suspended \cup {acting.person}
  /\ acting' = NotActing
  /\ UNCHANGED <<invitations, locks, identities, accepting, cli>>

-----------------------------------------------------------------------------
AcceptanceSteps(a) ==
  \/ \E i \in DOMAIN invitations : claimInvitation(a, i)
  \/ createOrResolveInvitedStaff(a) \/ createOrResolveFails(a) \/ completeAcceptance(a)
  \/ AcceptanceUpdates(a) \/ AcceptanceCommits(a) \/ releaseClaim(a) \/ AcceptanceCrashes(a)

Next ==
  \/ \E p \in People : IssueStaffInvitationService(p)
  \/ \E role \in Roles : createInvitation(role)
  \/ \E i \in DOMAIN invitations : revokeInvitation(i) \/ Expires(i) \/ ClaimGoesStale(i)
  \/ \E a \in Acceptors : AcceptanceSteps(a)
  \/ \E p \in People : BootstrapFirstAdminService(p)
  \/ LockLive \/ CountAdmins \/ issueBootstrapInvitation \/ BootstrapFails
  \/ \E p \in People : GrantStaffRoleService(p) \/ OffboardStaffAccountService(p)
  \/ grantRole \/ completeOffboarding \/ ActingFails
  \/ \E n \in DOMAIN roles : RevokeStaffRoleService(n)

Spec == Init /\ [][Next]_vars

-----------------------------------------------------------------------------
(* The variables keep their types.                                         *)
TypeOK ==
  /\ Len(invitations) <= MaxInvitations /\ Len(locks) = Len(invitations)
  /\ \A i \in DOMAIN invitations :
       /\ invitations[i].email \in People /\ invitations[i].role \in Roles
       /\ invitations[i].state \in {"pending", "accepted", "revoked"}
       /\ invitations[i].claim \in Acceptors \cup {NoOne}
       /\ locks[i] \in Acceptors \cup {NoOne, "cli"}
  /\ identities \subseteq People /\ suspended \subseteq identities
  /\ \A n \in DOMAIN roles : roles[n].account \in identities /\ roles[n].by \in 0..Len(invitations)

(* An invitation grants one role if it was accepted and none otherwise,    *)
(* whatever acceptances, reissues and revocations meet; and the bootstrap  *)
(* tool never makes a second administrator while the one it made before is *)
(* active, although that one may be accepting while the tool runs.         *)
InvitationsGrantOnce ==
  /\ \A i \in DOMAIN invitations :
       Cardinality({n \in DOMAIN roles : roles[n].by = i})
         = IF invitations[i].state = "accepted" THEN 1 ELSE 0
  /\ Cardinality({n \in DOMAIN roles :
       /\ roles[n].active /\ roles[n].account \notin suspended
       /\ roles[n].by # 0 /\ invitations[roles[n].by].via = "cli_bootstrap"}) <= 1

=============================================================================
