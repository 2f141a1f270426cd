------------------------------ MODULE Sessions ------------------------------
(***************************************************************************)
(* The device sessions of one customer: how each request looks its session *)
(* up, when a session ends of itself, how a request counts as activity,    *)
(* and the copy of a session that the customer's list is made from.        *)
(*                                                                         *)
(* A session is idle after IdleTimeout and over after Lifetime. A lookup   *)
(* reads the row at one time and answers at a later one; a request that    *)
(* passed its checks takes the time and then updates the row. Any number   *)
(* of other requests, and the clock, move in between.                      *)
(***************************************************************************)
EXTENDS Integers, FiniteSets, FiniteSetsExt

CONSTANTS
  SessionIds,       \* the sessions the customer's phone creates
  Requests,         \* requests that are served at a time
  IdleTimeout,      \* DEVICE_SESSION_IDLE_TIMEOUT_MS
  Lifetime,         \* DEVICE_SESSION_ABSOLUTE_LIFETIME_MS
  FreshWindow,      \* FRESH_AUTH_WINDOW_MS
  NoSession,        \* no such session
  MaxTime           \* the last moment looked at

VARIABLES
  now,
  row,              \* auth_session: createdAt, and updatedAt as the last activity
  mirror,           \* sessions: the copy, with its status and idle expiry
  hooks,            \* the copies a process is about to create or to mark as revoked
  request,          \* how far each request is, and what it has read
  accepted,         \* ghost: the times that count as activity of a session
  ended             \* ghost: the sessions that were answered with REAUTH_REQUIRED

vars == <<now, row, mirror, hooks, request, accepted, ended>>

NoRow == [status |-> "none", created |-> 0, activity |-> 0]
NoCopy == [status |-> "none", idleExpiresAt |-> 0]
Idle == [pc |-> "idle", session |-> NoSession, created |-> 0, activity |-> 0, at |-> 0]

Init ==
  /\ now = 0
  /\ row = [s \in SessionIds |-> NoRow]
  /\ mirror = [s \in SessionIds |-> NoCopy]
  /\ hooks = {}
  /\ request = [r \in Requests |-> Idle]
  /\ accepted = [s \in SessionIds |-> {}]
  /\ ended = {}

-----------------------------------------------------------------------------
\* Both limits count as reached at their exact boundary.
evaluateDeviceSessionLifetime(created, activity, at) ==
  at < created + Lifetime /\ at < Max({created, activity}) + IdleTimeout

idleExpiresAt(created, activity) == Min({activity + IdleTimeout, created + Lifetime})

isFreshDeviceSession(created) == created >= now - FreshWindow

-----------------------------------------------------------------------------
(* A device session and its copy. The hooks of Better Auth keep the copy;  *)
(* a hook that fails is reported and changes nothing else.                 *)

CreateSession(s) ==
  /\ row[s].status = "none"
  /\ row' = [row EXCEPT ![s] = [status |-> "live", created |-> now, activity |-> now]]
  /\ hooks' = hooks \cup {<<"created", s>>}
  /\ accepted' = [accepted EXCEPT ![s] = {now}]
  /\ UNCHANGED <<now, mirror, request, ended>>

recordCreated(s) ==
  /\ <<"created", s>> \in hooks
  /\ hooks' = hooks \ {<<"created", s>>}
  /\ mirror' = [mirror EXCEPT ![s] =
       [status |-> "active", idleExpiresAt |-> row[s].created + IdleTimeout]]
  /\ UNCHANGED <<now, row, request, accepted, ended>>

recordRevoked(s) ==
  /\ <<"revoked", s>> \in hooks
  /\ hooks' = hooks \ {<<"revoked", s>>}
  /\ mirror' = [mirror EXCEPT ![s].status = IF @ = "active" THEN "revoked" ELSE @]
  /\ UNCHANGED <<now, row, request, accepted, ended>>

HookFails(hook) ==
  /\ hooks' = hooks \ {hook}
  /\ UNCHANGED <<now, row, mirror, request, accepted, ended>>

\* Only a delete that found a row runs the hook.
deleteSessions(doomed) ==
  LET live == {s \in doomed : row[s].status = "live"} IN
  /\ row' = [s \in SessionIds |-> IF s \in live THEN [row[s] EXCEPT !.status = "gone"]
                                  ELSE row[s]]
  /\ hooks' = hooks \cup {<<"revoked", s>> : s \in live}

-----------------------------------------------------------------------------
(* A request under a device session.                                       *)

Goes(r, to) == request' = [request EXCEPT ![r] = to]

\* Better Auth reads the row; one that is not there is no session.
findSession(r, s) ==
  /\ request[r] = Idle /\ row[s].status = "live"
  /\ Goes(r, [pc |-> "found", session |-> s, created |-> row[s].created,
              activity |-> row[s].activity, at |-> now])
  /\ UNCHANGED <<now, row, mirror, hooks, accepted, ended>>

\* Judged when it was read, and again when the answer is made.
WithinLimits(q) ==
  /\ evaluateDeviceSessionLifetime(q.created, q.activity, q.at)
  /\ evaluateDeviceSessionLifetime(q.created, q.activity, now)

\* Mutant: the session is refused and its row is left.
RefuseOnly(r) ==
  LET q == request[r] IN
  /\ q.pc = "found" /\ ~WithinLimits(q)
  /\ ended' = ended \cup {q.session}
  /\ Goes(r, Idle)
  /\ UNCHANGED <<now, row, hooks, mirror, accepted>>

applyDeviceSessionLimits(r) ==
  LET q == request[r] IN
  /\ q.pc = "found" /\ ~WithinLimits(q)
  /\ deleteSessions({q.session})
  /\ ended' = ended \cup {q.session}
  /\ Goes(r, Idle)
  /\ UNCHANGED <<now, mirror, accepted>>

resolve(r) ==
  /\ request[r].pc = "found" /\ WithinLimits(request[r])
  /\ Goes(r, [request[r] EXCEPT !.pc = "resolved"])
  /\ UNCHANGED <<now, row, mirror, hooks, accepted, ended>>

\* The key, the account or the rate limit refuses it, or the request is done.
RequestEnds(r) ==
  /\ request[r].pc \in {"resolved", "served"}
  /\ Goes(r, Idle)
  /\ UNCHANGED <<now, row, mirror, hooks, accepted, ended>>

\* Every check has passed; recordActivity takes the time.
createRequireAuthentication(r) ==
  /\ request[r].pc = "resolved"
  /\ Goes(r, [request[r] EXCEPT !.pc = "counted", !.at = now])
  /\ accepted' = [accepted EXCEPT ![request[r].session] = @ \cup {now}]
  /\ UNCHANGED <<now, row, mirror, hooks, ended>>

\* One conditional update, that checks both limits again at the time it was given.
recordActivity(r) ==
  LET q == request[r]
      s == q.session IN
  /\ q.pc = "counted"
  /\ row[s].status = "live"
  /\ row[s].created > q.at - Lifetime /\ row[s].activity > q.at - IdleTimeout
  /\ row' = [row EXCEPT ![s].activity = Max({@, q.at})]
  /\ Goes(r, [q EXCEPT !.pc = "copy"])
  /\ UNCHANGED <<now, mirror, hooks, accepted, ended>>

\* The update found no row or failed: the request goes on all the same.
ActivityIsLost(r) ==
  /\ request[r].pc \in {"counted", "copy"}
  /\ Goes(r, [request[r] EXCEPT !.pc = "served"])
  /\ UNCHANGED <<now, row, mirror, hooks, accepted, ended>>

mirrorActivity(r) ==
  LET q == request[r] IN
  /\ q.pc = "copy"
  /\ mirror' = [mirror EXCEPT ![q.session].idleExpiresAt =
       IF mirror[q.session].status = "active" THEN idleExpiresAt(q.created, q.at) ELSE @]
  /\ Goes(r, [q EXCEPT !.pc = "served"])
  /\ UNCHANGED <<now, row, hooks, accepted, ended>>

\* The request's session began within the window.
createRequireFreshAuthentication(r) == isFreshDeviceSession(request[r].created)

\* The revoker looks the caller's session up once more, and takes what it ends from the
\* sessions that are still there.
Revokes(r, doomed) ==
  LET s == request[r].session IN
  /\ request[r].pc = "served" /\ createRequireFreshAuthentication(r)
  /\ row[s].status = "live"
  /\ evaluateDeviceSessionLifetime(row[s].created, row[s].activity, now)
  /\ deleteSessions(doomed)
  /\ Goes(r, Idle)
  /\ UNCHANGED <<now, mirror, accepted, ended>>

RevokeOwnSessionService(r, s) == mirror[s].status # "none" /\ Revokes(r, {s})

RevokeAllOwnSessionsService(r) == Revokes(r, SessionIds)

Tick ==
  /\ now < MaxTime
  /\ now' = now + 1
  /\ UNCHANGED <<row, mirror, hooks, request, accepted, ended>>

-----------------------------------------------------------------------------
Serve(r) ==
  \/ applyDeviceSessionLimits(r) \/ resolve(r) \/ RequestEnds(r)
  \/ createRequireAuthentication(r) \/ recordActivity(r) \/ ActivityIsLost(r)
  \/ mirrorActivity(r) \/ RevokeAllOwnSessionsService(r)
  \/ \E s \in SessionIds : findSession(r, s) \/ RevokeOwnSessionService(r, s)

Next ==
  \/ \E s \in SessionIds : CreateSession(s) \/ recordCreated(s) \/ recordRevoked(s)
  \/ \E hook \in hooks : HookFails(hook)
  \/ \E r \in Requests : Serve(r)
  \/ Tick

Spec == Init /\ [][Next]_vars

-----------------------------------------------------------------------------
(* Properties.                                                             *)

Times == 0..(MaxTime + IdleTimeout + Lifetime)

\* The state stays within the values the columns hold.
TypeOK ==
  /\ now \in Times
  /\ row \in [SessionIds -> [status : {"none", "live", "gone"}, created : Times,
                             activity : Times]]
  /\ mirror \in [SessionIds -> [status : {"none", "active", "revoked"},
                                idleExpiresAt : Times]]
  /\ hooks \in SUBSET ({"created", "revoked"} \X SessionIds)
  /\ request \in [Requests ->
       [pc : {"idle", "found", "resolved", "counted", "copy", "served"},
        session : SessionIds \cup {NoSession}, created : Times, activity : Times, at : Times]]
  /\ accepted \in [SessionIds -> SUBSET Times]
  /\ ended \in SUBSET SessionIds

\* A session ends on time and for good. However lookups and activity updates overlap, a request
\* gets through only before the session's absolute end and within the idle timeout of its
\* creation or of a request that passed every check; a session that was answered with
\* REAUTH_REQUIRED is not found again; and the copy never promises more than the row keeps.
SessionsEndOnTime ==
  /\ \A r \in Requests : request[r].pc = "resolved" =>
       LET q == request[r] IN
       /\ q.at < q.created + Lifetime
       /\ \E t \in accepted[q.session] : t <= q.at /\ q.at < t + IdleTimeout
  /\ \A s \in ended : row[s].status = "gone"
  /\ \A s \in SessionIds : mirror[s].status # "none" =>
       mirror[s].idleExpiresAt <= idleExpiresAt(row[s].created, row[s].activity)
=============================================================================
