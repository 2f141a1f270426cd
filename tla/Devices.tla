------------------------------- MODULE Devices -------------------------------
(***************************************************************************)
(* The phones of one customer account: enrolling a phone (E2), logging in  *)
(* with one (L2), the single-use challenges both present, and the device   *)
(* sessions both create.                                                   *)
(*                                                                         *)
(* A phone is its DPoP key.  challenges is auth.device_challenges, devices *)
(* the account's active rows of auth.devices and loginMethod the device    *)
(* its device_key login method names; a device is named after the request  *)
(* that registered it.  pending is the set of phones with an oauth_pending *)
(* session bound to their key, sessions the live device_biometric ones.  A *)
(* session's number is its place in the order (createdAt, id): API clocks  *)
(* differ, so a later insert may well be an earlier session.               *)
(*                                                                         *)
(* requests are the E2 and L2 calls, several at once, each step of them    *)
(* one statement or transaction.  The clock is the database's: every limit *)
(* of the protocol is read from it.  expired, spared and undone record     *)
(* what has happened: the challenges answered DEVICE_CHALLENGE_EXPIRED, by *)
(* key, the ceremonies whose session a crash or a failed delete may have   *)
(* left, the phones with a session that ended in another way than being    *)
(* superseded.                                                             *)
(***************************************************************************)
EXTENDS Integers, FiniteSets

CONSTANTS
  Phones, Challenges, Requests,
  SessionIds,     \* numbers, at least one for each request
  None,           \* no device
  ChallengeTtl,   \* ENROL_CHALLENGE_TTL_SECONDS, LOGIN_CHALLENGE_TTL_SECONDS
  InsertDeadline, \* ENROLMENT_INSERT_DEADLINE_MS
  InsertLimit,    \* what the timeouts of the insert transaction add up to
  ReplayWindow,   \* CHALLENGE_REPLAY_WINDOW_MS
  MaxTime         \* bound: the last value of the clock

ASSUME DevicesAssumption ==
  /\ None \notin Requests
  /\ SessionIds \subseteq Nat \ {0}
  /\ {ChallengeTtl, InsertDeadline, InsertLimit, ReplayWindow, MaxTime} \subseteq Nat
  /\ InsertDeadline + InsertLimit <= ReplayWindow

VARIABLES now, challenges, devices, loginMethod, pending, sessions, requests,
          expired, spared, undone

vars == <<now, challenges, devices, loginMethod, pending, sessions, requests,
          expired, spared, undone>>

Never == -1

Unissued ==
  [row |-> "unissued", purpose |-> None, key |-> None, device |-> None,
   expiresAt |-> 0, consumedAt |-> Never]

NoRequest ==
  [step |-> "idle", kind |-> None, key |-> None, challenge |-> None, device |-> None,
   since |-> 0, session |-> 0, todo |-> {}]

Ended == {"idle", "done", "refused", "crashed"}

Init ==
  /\ now = 0
  /\ challenges = [c \in Challenges |-> Unissued]
  /\ devices = {} /\ loginMethod = None /\ pending = {} /\ sessions = {}
  /\ requests = [r \in Requests |-> NoRequest]
  /\ expired = {} /\ spared = {} /\ undone = {}

-----------------------------------------------------------------------------
(* Challenges.                                                             *)

findByDpopJkt(p) == {d \in devices : d.key = p}

findActiveDeviceForAccount == devices

(* A challenge that was never stored: which one makes no difference.       *)
FreshChallenge ==
  LET unissued == {c \in Challenges : challenges[c].row = "unissued"} IN
  IF unissued = {} THEN {} ELSE {CHOOSE c \in unissued : TRUE}

issue(c, purpose, p, d) ==
  /\ c \in FreshChallenge
  /\ challenges' = [challenges EXCEPT ![c] =
       [row |-> "stored", purpose |-> purpose, key |-> p, device |-> d,
        expiresAt |-> now + ChallengeTtl, consumedAt |-> Never]]
  /\ UNCHANGED <<now, devices, loginMethod, pending, sessions, requests,
                 expired, spared, undone>>

IssueEnrolmentChallenge(c, p) == issue(c, "enrol", p, None)

(* A login challenge is bound to the device its key belongs to, if any.    *)
issueLoginChallenge(c, p) ==
  issue(c, "login", p, IF findByDpopJkt(p) = {} THEN None
                       ELSE (CHOOSE d \in findByDpopJkt(p) : TRUE).id)

(* The row of the challenge q presents, if it is the one issued for q's    *)
(* purpose, key and device.                                                *)
Matches(q) ==
  LET row == challenges[q.challenge] IN
  /\ row.row = "stored"
  /\ row.purpose = q.kind /\ row.key = q.key /\ row.device = q.device

Consumable(q) ==
  /\ Matches(q)
  /\ challenges[q.challenge].consumedAt = Never
  /\ challenges[q.challenge].expiresAt > now

\* Mutant: a replay is answered as one only until the insert deadline.
RecentUntilTheDeadline(q) ==
  /\ Matches(q)
  /\ challenges[q.challenge].consumedAt # Never
  /\ challenges[q.challenge].consumedAt > now - InsertDeadline

wasConsumedWithinReplayWindow(q) ==
  /\ Matches(q)
  /\ challenges[q.challenge].consumedAt # Never
  /\ challenges[q.challenge].consumedAt >= now - ReplayWindow

(* A transaction that checks the deadline locks the row until it ends.     *)
Locked(c) ==
  \E r \in Requests : /\ requests[r].step = "commit" /\ requests[r].challenge = c
                      /\ now <= requests[r].since + InsertLimit

pruneExpired ==
  LET old == {c \in Challenges : /\ challenges[c].row = "stored"
                                 /\ challenges[c].expiresAt < now - ReplayWindow
                                 /\ ~Locked(c)}
  IN /\ old # {}
     /\ challenges' = [c \in Challenges |->
          IF c \in old THEN [Unissued EXCEPT !.row = "pruned"] ELSE challenges[c]]
     /\ UNCHANGED <<now, devices, loginMethod, pending, sessions, requests,
                    expired, spared, undone>>

-----------------------------------------------------------------------------
(* Both ceremonies up to their session.                                    *)

SignIn(p) ==
  /\ p \notin pending
  /\ pending' = pending \cup {p}
  /\ UNCHANGED <<now, challenges, devices, loginMethod, sessions, requests,
                 expired, spared, undone>>

Goes(r, step) == requests' = [requests EXCEPT ![r].step = step]

Ends(r, step) ==
  requests' = [requests EXCEPT ![r].step = step, ![r].since = 0, ![r].todo = {}]

Starts(r, kind, p, c, d, step) ==
  requests' = [requests EXCEPT ![r] =
    [step |-> step, kind |-> kind, key |-> p, challenge |-> c, device |-> d,
     since |-> 0, session |-> 0, todo |-> {}]]

(* E2 from a phone with a pending session.  An account that already has a  *)
(* device is refused before the challenge is touched.                      *)
enrolVerify(r, p, c) ==
  /\ requests[r].step = "idle" /\ p \in pending /\ challenges[c].row # "unissued"
  /\ Starts(r, "enrol", p, c, None,
            IF findActiveDeviceForAccount = {} THEN "consume" ELSE "refused")
  /\ UNCHANGED <<now, challenges, devices, loginMethod, pending, sessions,
                 expired, spared, undone>>

(* L2: the device is the active one of the request's key.                  *)
loginVerify(r, p, c) ==
  /\ requests[r].step = "idle" /\ challenges[c].row # "unissued"
  /\ \/ \E d \in findByDpopJkt(p) : Starts(r, "login", p, c, d.id, "consume")
     \/ /\ findByDpopJkt(p) = {}
        /\ Starts(r, "login", p, c, None, "refused")
  /\ UNCHANGED <<now, challenges, devices, loginMethod, pending, sessions,
                 expired, spared, undone>>

consume(r) ==
  LET q == requests[r] IN
  /\ q.step = "consume"
  /\ IF Consumable(q)
     THEN /\ challenges' = [challenges EXCEPT ![q.challenge].consumedAt = now]
          /\ Goes(r, "verify")
     ELSE UNCHANGED challenges /\ Goes(r, "replay")
  /\ UNCHANGED <<now, devices, loginMethod, pending, sessions, expired, spared, undone>>

(* The answer for a challenge that was not consumable: REPLAYED inside the *)
(* window; past it a login is answered EXPIRED, an enrolment looks for a   *)
(* device first.                                                           *)
throwForUnusableChallenge(r) ==
  LET q == requests[r] IN
  /\ q.step = "replay"
  /\ IF q.kind = "enrol" /\ ~wasConsumedWithinReplayWindow(q)
     THEN Goes(r, "lookup") ELSE Ends(r, "refused")
  /\ UNCHANGED <<now, challenges, devices, loginMethod, pending, sessions,
                 expired, spared, undone>>

AnswerExpired(r) ==
  expired' = expired \cup {<<requests[r].challenge, requests[r].key>>}

LookForADevice(r) ==
  LET registered == findByDpopJkt(requests[r].key) \cup findActiveDeviceForAccount IN
  /\ requests[r].step = "lookup"
  /\ IF registered = {} THEN AnswerExpired(r) ELSE UNCHANGED expired
  /\ Ends(r, "refused")
  /\ UNCHANGED <<now, challenges, devices, loginMethod, pending, sessions, spared, undone>>

(* The signature and, for E2, that no device has the key and the           *)
(* attestation; for L2, that the account is active.                        *)
verifyDeviceAuthJws(r) ==
  LET q == requests[r] IN
  /\ q.step = "verify"
  /\ IF q.kind = "login" THEN Goes(r, "session")
     ELSE IF findByDpopJkt(q.key) = {} THEN Goes(r, "insert") ELSE Ends(r, "refused")
  /\ UNCHANGED <<now, challenges, devices, loginMethod, pending, sessions,
                 expired, spared, undone>>

(* Any of these checks fails, the account is restricted, or the insert is  *)
(* rolled back by one of its timeouts.                                     *)
Refuse(r) ==
  /\ requests[r].step \in {"verify", "insert", "commit"}
  /\ Ends(r, "refused")
  /\ UNCHANGED <<now, challenges, devices, loginMethod, pending, sessions,
                 expired, spared, undone>>

-----------------------------------------------------------------------------
(* E2 registers its device in one transaction: the insert deadline, then   *)
(* the row and the login method, committed while no timeout has run out.   *)

OpenInsert(r) ==
  LET q == requests[r] IN
  /\ q.step = "insert"
  /\ IF Matches(q) /\ challenges[q.challenge].consumedAt > now - InsertDeadline
     THEN /\ requests' = [requests EXCEPT ![r].step = "commit", ![r].since = now]
          /\ UNCHANGED expired
     ELSE Ends(r, "refused") /\ AnswerExpired(r)
  /\ UNCHANGED <<now, challenges, devices, loginMethod, pending, sessions, spared, undone>>

(* One active device for an account, and for a key.                        *)
CommitInsert(r) ==
  LET q == requests[r] IN
  /\ q.step = "commit" /\ now <= q.since + InsertLimit
  /\ IF devices = {}
     THEN /\ devices' = {[id |-> r, key |-> q.key, challenge |-> q.challenge]}
          /\ loginMethod' = r
          /\ requests' = [requests EXCEPT ![r].step = "session", ![r].since = 0]
     ELSE UNCHANGED <<devices, loginMethod>> /\ Ends(r, "refused")
  /\ UNCHANGED <<now, challenges, pending, sessions, expired, spared, undone>>

-----------------------------------------------------------------------------
(* The session of a ceremony.                                              *)

Fresh == SessionIds \ {requests[r].session : r \in Requests}

createSession(r) ==
  /\ requests[r].step = "session"
  /\ \E s \in Fresh :
       /\ sessions' = sessions \cup {[id |-> s, key |-> requests[r].key, by |-> r]}
       /\ requests' = [requests EXCEPT ![r].step = "cookie", ![r].session = s]
  /\ UNCHANGED <<now, challenges, devices, loginMethod, pending, expired, spared, undone>>

createSessionFails(r) ==
  /\ requests[r].step = "session"
  /\ IF requests[r].kind = "enrol" THEN Goes(r, "rollback") ELSE Ends(r, "refused")
  /\ UNCHANGED <<now, challenges, devices, loginMethod, pending, sessions,
                 expired, spared, undone>>

(* The session is handed out; E2 deletes the pending one.                  *)
setSessionCookie(r) ==
  /\ requests[r].step = "cookie"
  /\ Goes(r, "supersede")
  /\ pending' = IF requests[r].kind = "enrol" THEN pending \ {requests[r].key} ELSE pending
  /\ UNCHANGED <<now, challenges, devices, loginMethod, sessions, expired, spared, undone>>

\* Mutant: a failed enrolment goes straight to removing its device.
CookieFailsToRollback(r) ==
  /\ requests[r].step = "cookie"
  /\ IF requests[r].kind = "enrol" THEN Goes(r, "rollback") ELSE Goes(r, "discard")
  /\ UNCHANGED <<now, challenges, devices, loginMethod, pending, sessions,
                 expired, spared, undone>>

setSessionCookieFails(r) ==
  /\ requests[r].step = "cookie"
  /\ Goes(r, "discard")
  /\ UNCHANGED <<now, challenges, devices, loginMethod, pending, sessions,
                 expired, spared, undone>>

(* Deleting the session may fail: it is logged and the session stays.      *)
discardCeremonySession(r) ==
  /\ requests[r].step = "discard"
  /\ \/ /\ sessions' = {s \in sessions : s.by # r}
        /\ undone' = undone \cup {requests[r].key}
        /\ UNCHANGED spared
     \/ spared' = spared \cup {r} /\ UNCHANGED <<sessions, undone>>
  /\ IF requests[r].kind = "enrol" THEN Goes(r, "rollback") ELSE Ends(r, "refused")
  /\ UNCHANGED <<now, challenges, devices, loginMethod, pending, expired>>

rollback(r) ==
  /\ requests[r].step = "rollback"
  /\ \/ /\ devices' = {d \in devices : d.id # r}
        /\ loginMethod' = IF loginMethod = r THEN None ELSE loginMethod
     \/ UNCHANGED <<devices, loginMethod>>
  /\ Ends(r, "refused")
  /\ UNCHANGED <<now, challenges, pending, sessions, expired, spared, undone>>

-----------------------------------------------------------------------------
(* Superseding the phone's earlier sessions, best effort.                  *)

\* Mutant: a session counts as newer than itself.
IsNewerOrSame(s, t) == s.id >= t.id

isNewer(s, t) == s.id > t.id

sessionsToSupersede(r) ==
  LET candidates == {s \in sessions : s.key = requests[r].key}
  IN {s \in candidates : \E t \in candidates : isNewer(t, s)}

supersedeEarlierDeviceSessions(r) ==
  /\ requests[r].step = "supersede"
  /\ IF sessionsToSupersede(r) = {} THEN Ends(r, "done")
     ELSE requests' = [requests EXCEPT ![r].step = "revoke",
                                       ![r].todo = sessionsToSupersede(r)]
  /\ UNCHANGED <<now, challenges, devices, loginMethod, pending, sessions,
                 expired, spared, undone>>

listSessionsFails(r) ==
  /\ requests[r].step = "supersede"
  /\ Ends(r, "done")
  /\ spared' = spared \cup {r}
  /\ UNCHANGED <<now, challenges, devices, loginMethod, pending, sessions, expired, undone>>

RevokeSuperseded(r) ==
  /\ requests[r].step = "revoke"
  /\ \E s \in requests[r].todo :
       /\ IF requests[r].todo = {s} THEN Ends(r, "done")
          ELSE requests' = [requests EXCEPT ![r].todo = @ \ {s}]
       /\ \/ sessions' = sessions \ {s} /\ UNCHANGED spared
          \/ spared' = spared \cup {s.by} /\ UNCHANGED sessions
  /\ UNCHANGED <<now, challenges, devices, loginMethod, pending, expired, undone>>

-----------------------------------------------------------------------------
(* What else ends a device or a session.                                   *)

(* The API process dies in the middle of a ceremony.                       *)
Crash(r) ==
  /\ requests[r].step \notin Ended
  /\ Ends(r, "crashed")
  /\ spared' = IF requests[r].session = 0 THEN spared ELSE spared \cup {r}
  /\ UNCHANGED <<now, challenges, devices, loginMethod, pending, sessions, expired, undone>>

(* A device replacement and an account recovery revoke the account's       *)
(* active devices and its device_key login method in one transaction.      *)
revokeDevices ==
  /\ devices # {}
  /\ devices' = {} /\ loginMethod' = None
  /\ UNCHANGED <<now, challenges, pending, sessions, requests, expired, spared, undone>>

(* The customer revokes the sessions of one key, one of them or all.       *)
revokeByDpopKey(gone) ==
  /\ gone # {} /\ gone \subseteq sessions
  /\ sessions' = sessions \ gone
  /\ undone' = undone \cup {s.key : s \in gone}
  /\ UNCHANGED <<now, challenges, devices, loginMethod, pending, requests, expired, spared>>

(* A session reaches its idle or its absolute limit.                       *)
applyDeviceSessionLimits(s) ==
  /\ s \in sessions
  /\ sessions' = sessions \ {s}
  /\ undone' = undone \cup {s.key}
  /\ UNCHANGED <<now, challenges, devices, loginMethod, pending, requests, expired, spared>>

Tick ==
  /\ now < MaxTime
  /\ now' = now + 1
  /\ UNCHANGED <<challenges, devices, loginMethod, pending, sessions, requests,
                 expired, spared, undone>>

-----------------------------------------------------------------------------
Ceremony(r) ==
  \/ \E p \in Phones, c \in Challenges : enrolVerify(r, p, c) \/ loginVerify(r, p, c)
  \/ consume(r) \/ throwForUnusableChallenge(r) \/ LookForADevice(r)
  \/ verifyDeviceAuthJws(r) \/ Refuse(r) \/ OpenInsert(r) \/ CommitInsert(r)
  \/ createSession(r) \/ createSessionFails(r)
  \/ setSessionCookie(r) \/ setSessionCookieFails(r)
  \/ discardCeremonySession(r) \/ rollback(r)
  \/ supersedeEarlierDeviceSessions(r) \/ listSessionsFails(r) \/ RevokeSuperseded(r)
  \/ Crash(r)

Next ==
  \/ \E p \in Phones, c \in Challenges :
       IssueEnrolmentChallenge(c, p) \/ issueLoginChallenge(c, p)
  \/ \E p \in Phones : SignIn(p)
  \/ \E r \in Requests : Ceremony(r)
  \/ \E gone \in SUBSET sessions : revokeByDpopKey(gone)
  \/ \E s \in sessions : applyDeviceSessionLimits(s)
  \/ revokeDevices \/ pruneExpired \/ Tick

Spec == Init /\ [][Next]_vars

-----------------------------------------------------------------------------
(* The variables keep their types, and the account has at most one device. *)
TypeOK ==
  /\ now \in 0..MaxTime
  /\ \A c \in Challenges :
       /\ challenges[c].row \in {"unissued", "stored", "pruned"}
       /\ challenges[c].consumedAt = Never \/ challenges[c].consumedAt \in 0..now
       /\ challenges[c].expiresAt \in 0..(MaxTime + ChallengeTtl)
  /\ Cardinality(devices) <= 1
  /\ loginMethod \in Requests \cup {None}
  /\ pending \subseteq Phones
  /\ sessions \subseteq [id : SessionIds, key : Phones, by : Requests]
  /\ \A r \in Requests : requests[r].session \in SessionIds \cup {0}
  /\ expired \subseteq Challenges \X Phones
  /\ spared \subseteq Requests /\ undone \subseteq Phones

(* Once an enrolment has been answered DEVICE_CHALLENGE_EXPIRED for a      *)
(* challenge, no device is registered with that challenge: the app may     *)
(* drop the key it had prepared.  The window in which a replay is answered *)
(* REPLAYED, the insert deadline and the row lock have to fit together.    *)
ExpiredIsFinal ==
  [][\A d \in devices' \ devices : <<d.challenge, d.key>> \notin expired]_vars

(* When no ceremony of a phone is under way, it has at most one session,   *)
(* but for those a crash or a failed delete left behind; and a phone with  *)
(* a successful ceremony has one, unless a session of it was discarded,    *)
(* revoked or ran out: overlapping ceremonies never revoke each other.     *)
OneSessionPerPhone ==
  \A p \in Phones :
    (\A r \in Requests : requests[r].key = p => requests[r].step \in Ended) =>
      /\ Cardinality({s \in sessions : s.key = p /\ s.by \notin spared}) <= 1
      /\ (\E r \in Requests : requests[r].key = p /\ requests[r].step = "done")
           /\ p \notin undone => \E s \in sessions : s.key = p

(* An enrolment that fails after its device was registered never leaves a  *)
(* session behind the device it is about to remove, unless deleting the    *)
(* session failed; and the device_key login method is the active device.   *)
EnrolmentsLeaveNoOrphan ==
  /\ \A s \in sessions : requests[s.by].step \in {"rollback", "refused"} => s.by \in spared
  /\ {d.id : d \in devices} = {loginMethod} \ {None}

=============================================================================
