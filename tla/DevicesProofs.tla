---------------------------- MODULE DevicesProofs ----------------------------
(***************************************************************************)
(* For any number of phones, challenges and overlapping requests and any   *)
(* limits that fit together: the ceremonies keep their types, a failed     *)
(* enrolment leaves no session behind, an enrolment that was answered      *)
(* DEVICE_CHALLENGE_EXPIRED registers nothing afterwards, and a phone      *)
(* without a ceremony under way has one session.                           *)
(*                                                                         *)
(* That answer is given by one request about what every other request with *)
(* the same challenge can still do.  The invariant says how far each of    *)
(* them can get: who consumed a challenge is the only one to go on with    *)
(* it, opens its transaction before the insert deadline, and has committed *)
(* or lost the transaction before the replay window ends; a challenge is   *)
(* pruned only after that.                                                 *)
(*                                                                         *)
(* The sessions of a phone are superseded by whichever of its ceremonies   *)
(* lists them.  Of any two, the ceremony of one or the other is still to   *)
(* revoke the earlier one, and what a ceremony means to revoke has a later *)
(* one that stays, whatever the others revoke in the meantime.             *)
(***************************************************************************)
EXTENDS Devices, TLAPS

Steps == {"idle", "consume", "replay", "lookup", "verify", "insert", "commit", "session",
          "cookie", "discard", "rollback", "supersede", "revoke", "done", "refused", "crashed"}

Kinds == {None, "enrol", "login"}

Challenge == [row : {"unissued", "stored", "pruned"}, purpose : Kinds, key : Phones \cup {None},
              device : Requests \cup {None}, expiresAt : Int, consumedAt : Int]

Session == [id : SessionIds, key : Phones \cup {None}, by : Requests]

Device == [id : Requests, key : Phones \cup {None}, challenge : Challenges \cup {None}]

Request == [step : Steps, kind : Kinds, key : Phones \cup {None},
            challenge : Challenges \cup {None}, device : Requests \cup {None}, since : Nat,
            session : SessionIds \cup {0}, todo : SUBSET Session]

Types ==
  /\ now \in Nat
  /\ challenges \in [Challenges -> Challenge]
  /\ requests \in [Requests -> Request]
  /\ sessions \subseteq Session
  /\ devices \subseteq Device
  /\ loginMethod \in Requests \cup {None}

-----------------------------------------------------------------------------
(* What a challenge still allows.                                          *)

\* The challenge was issued for an enrolment with the key.
Enrols(c, p) ==
  /\ challenges[c].row = "stored"
  /\ challenges[c].purpose = "enrol" /\ challenges[c].key = p /\ challenges[c].device = None

Consumed(c) == challenges[c].consumedAt # Never

Spent(c, p) == ~Enrols(c, p) \/ Consumed(c) \/ challenges[c].expiresAt <= now

\* No request may open its transaction any more.
PastTheDeadline(c) ==
  challenges[c].row = "pruned" \/ challenges[c].consumedAt + InsertDeadline <= now

\* A replay is no longer answered as one.
PastTheWindow(c, p) ==
  ~Enrols(c, p) \/ ~Consumed(c) \/ challenges[c].consumedAt + ReplayWindow < now

Of(r, c, p) == requests[r].challenge = c /\ requests[r].key = p /\ requests[r].kind = "enrol"

TimedOut(r) == now > requests[r].since + InsertLimit

Owning == {"verify", "insert", "commit"}

-----------------------------------------------------------------------------
ConsumedInTime ==
  \A c \in Challenges :
    /\ Consumed(c) /\ challenges[c].row = "stored"
         => /\ challenges[c].consumedAt \in Nat /\ challenges[c].consumedAt <= now
            /\ challenges[c].consumedAt < challenges[c].expiresAt

\* An active request presents a challenge that was issued.
PresentsAChallenge(r) ==
  requests[r].step \notin Ended =>
    /\ requests[r].challenge \in Challenges /\ requests[r].kind \in {"enrol", "login"}
    /\ challenges[requests[r].challenge].row # "unissued"
    /\ requests[r].kind = "enrol" => requests[r].device = None

\* Which requests enrol, and what they know of their challenge.
KnowsItsChallenge(r) ==
  LET q == requests[r] IN
  /\ q.step \in {"lookup", "insert", "commit"} => q.kind = "enrol"
  /\ q.step \in {"replay", "lookup"} /\ q.kind = "enrol" => Spent(q.challenge, q.key)
  /\ q.step = "lookup" => PastTheWindow(q.challenge, q.key)
  /\ q.step \in Owning /\ q.kind = "enrol" =>
       \/ challenges[q.challenge].row = "pruned"
       \/ Enrols(q.challenge, q.key) /\ Consumed(q.challenge)
  /\ q.step \in Owning /\ q.kind = "login" =>
       challenges[q.challenge].row = "pruned" \/ Consumed(q.challenge)
  /\ q.step = "commit" =>
       \/ TimedOut(r)
       \/ /\ challenges[q.challenge].row = "stored"
          /\ q.since < challenges[q.challenge].consumedAt + InsertDeadline

OwnsAlone ==
  \A r, s \in Requests :
    /\ requests[r].step \in Owning /\ requests[s].step \in Owning
    /\ requests[r].challenge = requests[s].challenge
    => r = s

\* Nobody consumes the challenge, opens a transaction with it or commits any more.
IsOver(c, p) ==
  /\ challenges[c].row # "unissued" /\ Spent(c, p)
  /\ \A r \in Requests : Of(r, c, p) =>
       /\ requests[r].step \in {"verify", "insert"} => PastTheDeadline(c)
       /\ requests[r].step = "commit" => TimedOut(r)

\* After DEVICE_CHALLENGE_EXPIRED it is over.
ExpiredIsOver ==
  \A c \in Challenges, p \in Phones \cup {None} : <<c, p>> \in expired => IsOver(c, p)

ExpiredInv ==
  /\ Types
  /\ ConsumedInTime
  /\ \A r \in Requests : PresentsAChallenge(r) /\ KnowsItsChallenge(r)
  /\ OwnsAlone
  /\ ExpiredIsOver

-----------------------------------------------------------------------------
(* The sessions a ceremony has, and the account's device.                  *)

Holding == {"cookie", "discard", "supersede", "revoke", "done", "crashed"}

OrphanInv ==
  /\ Types
  /\ \A s \in sessions : requests[s.by].step \in Holding \/ s.by \in spared
  /\ \/ devices = {} /\ loginMethod = None
     \/ \E d \in Device : devices = {d} /\ loginMethod = d.id

-----------------------------------------------------------------------------
(* Requests.                                                               *)

\* Only request r changes.
OnlyRequest(r) == \A s \in Requests : s # r => requests'[s] = requests[s]

\* Request r keeps what it presents.
KeepsItsInput(r) ==
  /\ requests'[r].challenge = requests[r].challenge /\ requests'[r].key = requests[r].key
  /\ requests'[r].kind = requests[r].kind /\ requests'[r].device = requests[r].device

\* A challenge that was not issued and a request that has not begun have their types.
LEMMA Empty == Unissued \in Challenge /\ NoRequest \in Request
<1>1. Unissued \in Challenge
  BY SMTT(60) DEF Unissued, Challenge, Kinds, Never
<1>2. NoRequest \in Request
  BY Zenon DEF NoRequest, Request, Kinds, Steps
<1> QED BY Zenon, <1>1, <1>2

\* A request that moves on to another step keeps the rest.
LEMMA GoesOn ==
  ASSUME requests \in [Requests -> Request], NEW r \in Requests, NEW step \in Steps, Goes(r, step)
  PROVE  /\ requests' \in [Requests -> Request] /\ OnlyRequest(r) /\ KeepsItsInput(r)
         /\ requests'[r].step = step /\ requests'[r].since = requests[r].since
         /\ requests'[r].session = requests[r].session
<1>1. requests' = [requests EXCEPT ![r] = [requests[r] EXCEPT !.step = step]]
  BY Zenon DEF Goes
<1>2. [requests[r] EXCEPT !.step = step] \in Request
  BY Zenon DEF Request
<1> QED BY Zenon, <1>1, <1>2 DEF Request, OnlyRequest, KeepsItsInput

\* So does one that ends.
LEMMA EndsWith ==
  ASSUME requests \in [Requests -> Request], NEW r \in Requests, NEW step \in Steps, Ends(r, step)
  PROVE  /\ requests' \in [Requests -> Request] /\ OnlyRequest(r) /\ KeepsItsInput(r)
         /\ requests'[r].step = step /\ requests'[r].session = requests[r].session
<1>1. requests' = [requests EXCEPT ![r] = [requests[r] EXCEPT !.step = step, !.since = 0,
                                                              !.todo = {}]]
  BY Zenon DEF Ends
<1>2. [requests[r] EXCEPT !.step = step, !.since = 0, !.todo = {}] \in Request
  BY ZenonT(60) DEF Request
<1> QED BY Zenon, <1>1, <1>2 DEF Request, OnlyRequest, KeepsItsInput

\* A new request has the input it was given.
LEMMA StartsWith ==
  ASSUME requests \in [Requests -> Request], NEW r \in Requests, NEW step \in Steps,
         NEW kind \in Kinds, NEW p \in Phones, NEW c \in Challenges, NEW d \in Requests \cup {None},
         Starts(r, kind, p, c, d, step)
  PROVE  /\ requests' \in [Requests -> Request] /\ OnlyRequest(r)
         /\ requests'[r].step = step /\ requests'[r].kind = kind /\ requests'[r].key = p
         /\ requests'[r].challenge = c /\ requests'[r].device = d
<1> DEFINE x == [step |-> step, kind |-> kind, key |-> p, challenge |-> c, device |-> d,
                 since |-> 0, session |-> 0, todo |-> {}]
<1>1. x \in Request
  BY Zenon DEF Request
<1>2. requests' = [requests EXCEPT ![r] = x]
  BY Zenon DEF Starts
<1> QED BY Zenon, <1>1, <1>2 DEF OnlyRequest

\* The steps after which a request has nothing more to do with its challenge.
Done == Steps \ ({"consume", "replay", "lookup"} \cup Owning)

LeavesItsChallenge(r) ==
  /\ UNCHANGED <<now, challenges>>
  /\ requests' \in [Requests -> Request] /\ OnlyRequest(r) /\ KeepsItsInput(r)
  /\ requests[r].step \notin Ended /\ requests'[r].step \in Done

Refused(r) == Refuse(r) \/ Crash(r)

OpensSession(r) == createSession(r) \/ createSessionFails(r) \/ setSessionCookie(r)
               \/ setSessionCookieFails(r)

Undoes(r) == discardCeremonySession(r) \/ rollback(r) \/ listSessionsFails(r)

Supersedes(r) == supersedeEarlierDeviceSessions(r) \/ RevokeSuperseded(r)

\* From the registered device on, the challenge is left alone.
LEMMA CeremonyLeavesItsChallenge ==
  ASSUME Types, NEW r \in Requests,
         Refused(r) \/ CommitInsert(r) \/ OpensSession(r) \/ Undoes(r) \/ Supersedes(r)
  PROVE  LeavesItsChallenge(r) /\ UNCHANGED expired
<1>0. requests \in [Requests -> Request] /\ requests[r] \in Request
  BY Zenon DEF Types
<1>1. CASE Refused(r)
  BY Zenon, <1>0, <1>1, EndsWith
  DEF Refused, Refuse, Crash, LeavesItsChallenge, Done, Steps, Owning, Ended
<1>2. CASE CommitInsert(r)
  <2>1. CASE devices = {}
    <3>1. requests' = [requests EXCEPT ![r] = [requests[r] EXCEPT !.step = "session", !.since = 0]]
      BY Zenon, <1>2, <2>1 DEF CommitInsert
    <3>2. [requests[r] EXCEPT !.step = "session", !.since = 0] \in Request
      BY ZenonT(60), <1>0 DEF Request, Steps
    <3>3. requests' \in [Requests -> Request] /\ OnlyRequest(r) /\ KeepsItsInput(r)
          /\ requests'[r].step = "session"
      BY Zenon, <1>0, <3>1, <3>2 DEF Request, OnlyRequest, KeepsItsInput
    <3> QED BY Zenon, <1>2, <3>3 DEF CommitInsert, LeavesItsChallenge, Done, Steps, Owning, Ended
  <2>2. CASE devices # {}
    BY Zenon, <1>0, <1>2, <2>2, EndsWith
    DEF CommitInsert, LeavesItsChallenge, Done, Steps, Owning, Ended
  <2> QED BY Zenon, <2>1, <2>2
<1>3. CASE OpensSession(r)
  <2>1. CASE createSession(r)
    <3>1. PICK n \in SessionIds :
            requests' = [requests EXCEPT ![r].step = "cookie", ![r].session = n]
      BY Zenon, <2>1 DEF createSession, Fresh
    <3>2. requests' = [requests EXCEPT ![r] = [requests[r] EXCEPT !.step = "cookie", !.session = n]]
      BY Zenon, <1>0, <3>1
    <3>3. [requests[r] EXCEPT !.step = "cookie", !.session = n] \in Request
      BY ZenonT(60), <1>0 DEF Request, Steps
    <3>4. requests' \in [Requests -> Request] /\ OnlyRequest(r) /\ KeepsItsInput(r)
          /\ requests'[r].step = "cookie"
      BY Zenon, <1>0, <3>2, <3>3 DEF Request, OnlyRequest, KeepsItsInput
    <3> QED BY Zenon, <2>1, <3>4 DEF createSession, LeavesItsChallenge, Done, Steps, Owning, Ended
  <2>2. CASE createSessionFails(r)
    BY Zenon, <1>0, <2>2, EndsWith, GoesOn
    DEF createSessionFails, LeavesItsChallenge, Done, Steps, Owning, Ended
  <2>3. CASE setSessionCookie(r) \/ setSessionCookieFails(r)
    BY Zenon, <1>0, <2>3, GoesOn
    DEF setSessionCookie, setSessionCookieFails, LeavesItsChallenge, Done, Steps, Owning, Ended
  <2> QED BY Zenon, <1>3, <2>1, <2>2, <2>3 DEF OpensSession
<1>4. CASE Undoes(r)
  BY Zenon, <1>0, <1>4, EndsWith, GoesOn
  DEF Undoes, discardCeremonySession, rollback, listSessionsFails, LeavesItsChallenge, Done,
      Steps, Owning, Ended
<1>5. CASE Supersedes(r)
  <2>1. ASSUME NEW T \in SUBSET Session,
               requests' = [requests EXCEPT ![r] = [requests[r] EXCEPT !.step = "revoke",
                                                                       !.todo = T]]
        PROVE  requests' \in [Requests -> Request] /\ OnlyRequest(r) /\ KeepsItsInput(r)
               /\ requests'[r].step = "revoke"
    <3>1. [requests[r] EXCEPT !.step = "revoke", !.todo = T] \in Request
      BY Zenon, <1>0 DEF Request, Steps
    <3> QED BY Zenon, <1>0, <2>1, <3>1 DEF Request, OnlyRequest, KeepsItsInput
  <2>2. CASE supersedeEarlierDeviceSessions(r)
    <3>1. sessionsToSupersede(r) \in SUBSET Session
      BY Zenon DEF sessionsToSupersede, Types
    <3>2. CASE sessionsToSupersede(r) = {}
      BY Zenon, <1>0, <2>2, <3>2, EndsWith
      DEF supersedeEarlierDeviceSessions, LeavesItsChallenge, Done, Steps, Owning, Ended
    <3>3. CASE sessionsToSupersede(r) # {}
      <4>1. requests' = [requests EXCEPT ![r] = [requests[r] EXCEPT !.step = "revoke",
                                                   !.todo = sessionsToSupersede(r)]]
        BY Zenon, <1>0, <2>2, <3>3 DEF supersedeEarlierDeviceSessions
      <4>2. requests' \in [Requests -> Request] /\ OnlyRequest(r) /\ KeepsItsInput(r)
            /\ requests'[r].step = "revoke"
        BY Zenon, <2>1, <3>1, <4>1
      <4> QED
        BY Zenon, <2>2, <4>2
        DEF supersedeEarlierDeviceSessions, LeavesItsChallenge, Done, Steps, Owning, Ended
    <3> QED BY Zenon, <3>2, <3>3
  <2>3. CASE RevokeSuperseded(r)
    <3>1. PICK t \in requests[r].todo :
            IF requests[r].todo = {t} THEN Ends(r, "done")
            ELSE requests' = [requests EXCEPT ![r].todo = @ \ {t}]
      BY Zenon, <2>3 DEF RevokeSuperseded
    <3>2. CASE requests[r].todo = {t}
      BY Zenon, <1>0, <2>3, <3>1, <3>2, EndsWith
      DEF RevokeSuperseded, LeavesItsChallenge, Done, Steps, Owning, Ended
    <3>3. CASE requests[r].todo # {t}
      <4>1. requests' = [requests EXCEPT ![r] = [requests[r] EXCEPT !.todo = @ \ {t}]]
        BY Zenon, <1>0, <3>1, <3>3
      <4>2. [requests[r] EXCEPT !.todo = @ \ {t}] \in Request
        BY Zenon, <1>0 DEF Request
      <4>3. requests' \in [Requests -> Request] /\ OnlyRequest(r) /\ KeepsItsInput(r)
            /\ requests'[r].step = requests[r].step
        BY Zenon, <1>0, <4>1, <4>2 DEF Request, OnlyRequest, KeepsItsInput
      <4> QED
        BY Zenon, <2>3, <4>3 DEF RevokeSuperseded, LeavesItsChallenge, Done, Steps, Owning, Ended
    <3> QED BY Zenon, <3>2, <3>3
  <2> QED BY Zenon, <1>5, <2>2, <2>3 DEF Supersedes
<1> QED BY Zenon, <1>1, <1>2, <1>3, <1>4, <1>5

-----------------------------------------------------------------------------
(* The steps up to the transaction.                                        *)

PresentsIt(r) == consume(r) \/ throwForUnusableChallenge(r) \/ LookForADevice(r)

OpensTheInsert(r) == verifyDeviceAuthJws(r) \/ OpenInsert(r)

BeginsCeremony(r) ==
  \E p \in Phones, c \in Challenges : enrolVerify(r, p, c) \/ loginVerify(r, p, c)

\* What these steps do to the request that takes them.
LEMMA CeremonyKeepsItsInput ==
  ASSUME Types, NEW r \in Requests, PresentsIt(r) \/ OpensTheInsert(r)
  PROVE  /\ requests' \in [Requests -> Request] /\ OnlyRequest(r) /\ KeepsItsInput(r)
         /\ now' = now
<1>0. requests \in [Requests -> Request] /\ requests[r] \in Request /\ now \in Nat
  BY Zenon DEF Types
<1>1. CASE PresentsIt(r)
  BY Zenon, <1>0, <1>1, EndsWith, GoesOn
  DEF PresentsIt, consume, throwForUnusableChallenge, LookForADevice, Steps
<1>2. CASE verifyDeviceAuthJws(r)
  BY Zenon, <1>0, <1>2, EndsWith, GoesOn DEF verifyDeviceAuthJws, Steps
<1>3. CASE OpenInsert(r)
  <2>1. CASE Ends(r, "refused")
    BY Zenon, <1>0, <1>3, <2>1, EndsWith DEF OpenInsert, Steps
  <2>2. CASE requests' = [requests EXCEPT ![r].step = "commit", ![r].since = now]
    <3>1. requests' = [requests EXCEPT ![r] = [requests[r] EXCEPT !.step = "commit", !.since = now]]
      BY Zenon, <1>0, <2>2
    <3>2. [requests[r] EXCEPT !.step = "commit", !.since = now] \in Request
      BY Zenon, <1>0 DEF Request, Steps
    <3> QED BY Zenon, <1>0, <1>3, <3>1, <3>2 DEF Request, OnlyRequest, KeepsItsInput, OpenInsert
  <2> QED BY Zenon, <1>3, <2>1, <2>2 DEF OpenInsert
<1> QED BY Zenon, <1>1, <1>2, <1>3 DEF OpensTheInsert

\* A device is registered for the request that commits it, and never for another.
LEMMA DevicesKeepTheirType ==
  ASSUME Types, NEW r \in Requests, Ceremony(r)
  PROVE  devices' \subseteq Device /\ loginMethod' \in Requests \cup {None} /\ sessions' \subseteq Session
<1>0. /\ devices \subseteq Device /\ loginMethod \in Requests \cup {None} /\ sessions \subseteq Session
      /\ requests[r] \in Request
  BY Zenon DEF Types
<1>1. CASE CommitInsert(r)
  <2>1. [id |-> r, key |-> requests[r].key, challenge |-> requests[r].challenge] \in Device
    BY Zenon, <1>0 DEF Request, Device
  <2> QED BY Zenon, <1>0, <1>1, <2>1 DEF CommitInsert
<1>2. CASE createSession(r)
  <2>1. \A n \in SessionIds : [id |-> n, key |-> requests[r].key, by |-> r] \in Session
    BY Zenon, <1>0 DEF Request, Session
  <2> QED BY Zenon, <1>0, <1>2, <2>1 DEF createSession, Fresh
<1>3. CASE rollback(r) \/ discardCeremonySession(r) \/ RevokeSuperseded(r)
  BY Zenon, <1>0, <1>3 DEF rollback, discardCeremonySession, RevokeSuperseded
<1>4. CASE ~(CommitInsert(r) \/ createSession(r) \/ rollback(r) \/ discardCeremonySession(r)
             \/ RevokeSuperseded(r))
  <2>1. UNCHANGED <<devices, loginMethod, sessions>>
    BY Zenon, <1>4
    DEF Ceremony, enrolVerify, loginVerify, consume, throwForUnusableChallenge, LookForADevice,
        verifyDeviceAuthJws, Refuse, OpenInsert, createSessionFails, setSessionCookie,
        setSessionCookieFails, supersedeEarlierDeviceSessions, listSessionsFails, Crash
  <2> QED BY Zenon, <1>0, <2>1
<1> QED BY Zenon, <1>1, <1>2, <1>3, <1>4

Issues(c, p) == IssueEnrolmentChallenge(c, p) \/ issueLoginChallenge(c, p)

\* Issuing stores a challenge in the place of one that was never stored.
LEMMA IssuedChallenge ==
  ASSUME Types, NEW c \in Challenges, NEW p \in Phones, Issues(c, p)
  PROVE  \E x \in Challenge : /\ x.row = "stored" /\ x.consumedAt = Never
                              /\ challenges' = [challenges EXCEPT ![c] = x]
                              /\ challenges[c].row = "unissued"
<1>1. PICK purpose \in {"enrol", "login"}, d \in Requests \cup {None} : issue(c, purpose, p, d)
  <2>1. CASE IssueEnrolmentChallenge(c, p)
    BY Zenon, <2>1 DEF IssueEnrolmentChallenge
  <2>2. CASE issueLoginChallenge(c, p)
    <3>1. CASE findByDpopJkt(p) = {}
      BY Zenon, <2>2, <3>1 DEF issueLoginChallenge
    <3>2. CASE findByDpopJkt(p) # {}
      <4>1. PICK d \in findByDpopJkt(p) : d = CHOOSE e \in findByDpopJkt(p) : TRUE
        BY Zenon, <3>2
      <4>2. d.id \in Requests
        BY Zenon, <4>1 DEF findByDpopJkt, Types, Device
      <4> QED BY Zenon, <2>2, <3>2, <4>1, <4>2 DEF issueLoginChallenge
    <3> QED BY Zenon, <3>1, <3>2
  <2> QED BY Zenon, <2>1, <2>2 DEF Issues
<1> DEFINE x == [row |-> "stored", purpose |-> purpose, key |-> p, device |-> d,
                 expiresAt |-> now + ChallengeTtl, consumedAt |-> Never]
<1>2. x \in Challenge
  BY DevicesAssumption DEF Types, Challenge, Kinds, Never
<1>3. challenges' = [challenges EXCEPT ![c] = x] /\ challenges[c].row = "unissued"
  <2>1. challenges[c].row = "unissued"
    <3>1. c \in FreshChallenge
      BY Zenon, <1>1 DEF issue
    <3>2. FreshChallenge \subseteq {e \in Challenges : challenges[e].row = "unissued"}
      BY Zenon DEF FreshChallenge
    <3> QED BY Zenon, <3>1, <3>2
  <2> QED BY Zenon, <1>1, <2>1 DEF issue
<1> QED BY Zenon, <1>2, <1>3

\* Pruning leaves no trace of a challenge.
LEMMA PrunedChallenges ==
  ASSUME Types, pruneExpired
  PROVE  /\ challenges' \in [Challenges -> Challenge]
         /\ \A c \in Challenges :
              \/ challenges'[c] = challenges[c]
              \/ /\ challenges'[c].row = "pruned" /\ challenges[c].row = "stored" /\ ~Locked(c)
         /\ UNCHANGED <<now, devices, loginMethod, sessions, requests, expired>>
<1> DEFINE old == {c \in Challenges : /\ challenges[c].row = "stored"
                                       /\ challenges[c].expiresAt < now - ReplayWindow
                                       /\ ~Locked(c)}
           gone == [Unissued EXCEPT !.row = "pruned"]
<1>1. challenges' = [c \in Challenges |-> IF c \in old THEN gone ELSE challenges[c]]
      /\ UNCHANGED <<now, devices, loginMethod, sessions, requests, expired>>
  BY Zenon DEF pruneExpired
<1>2. gone \in Challenge /\ gone.row = "pruned"
  BY DEF Unissued, Challenge, Kinds, Never
<1>3. \A c \in old : challenges[c].row = "stored" /\ ~Locked(c)
  OBVIOUS
<1> HIDE DEF old, gone
<1> QED BY Zenon, <1>1, <1>2, <1>3 DEF Types

\* Every step keeps the variables within their types.
LEMMA TypesPreserved == Types /\ [Next]_vars => Types'
<1> SUFFICES ASSUME Types, [Next]_vars PROVE Types'
  OBVIOUS
<1>0. /\ now \in Nat /\ challenges \in [Challenges -> Challenge]
      /\ requests \in [Requests -> Request]
      /\ sessions \subseteq Session /\ devices \subseteq Device
      /\ loginMethod \in Requests \cup {None}
  BY Zenon DEF Types
<1>1. ASSUME NEW p \in Phones, NEW c \in Challenges, Issues(c, p) PROVE Types'
  <2>1. challenges' \in [Challenges -> Challenge]
    BY Zenon, <1>0, <1>1, IssuedChallenge
  <2> QED
    BY Zenon, <1>0, <1>1, <2>1 DEF Types, Issues, IssueEnrolmentChallenge, issueLoginChallenge, issue
<1>2. ASSUME NEW r \in Requests, Ceremony(r) PROVE Types'
  <2>1. devices' \subseteq Device /\ loginMethod' \in Requests \cup {None} /\ sessions' \subseteq Session
    BY Zenon, <1>2, DevicesKeepTheirType
  <2>2. CASE BeginsCeremony(r)
    <3>1. PICK p \in Phones, c \in Challenges : enrolVerify(r, p, c) \/ loginVerify(r, p, c)
      BY Zenon, <2>2 DEF BeginsCeremony
    <3>2. CASE enrolVerify(r, p, c)
      <4>1. PICK step \in {"consume", "refused"} : Starts(r, "enrol", p, c, None, step)
        BY Zenon, <3>2 DEF enrolVerify
      <4>2. requests' \in [Requests -> Request]
        BY SMTT(60), <1>0, <4>1, StartsWith DEF Steps, Kinds
      <4> QED BY Zenon, <1>0, <2>1, <3>2, <4>2 DEF enrolVerify, Types
    <3>3. CASE loginVerify(r, p, c)
      <4>1. \A d \in findByDpopJkt(p) : d.id \in Requests
        BY Zenon, <1>0 DEF findByDpopJkt, Device
      <4>2. requests' \in [Requests -> Request]
        BY Zenon, <1>0, <3>3, <4>1, StartsWith DEF loginVerify, Steps, Kinds
      <4> QED BY Zenon, <1>0, <2>1, <3>3, <4>2 DEF loginVerify, Types
    <3> QED BY Zenon, <3>1, <3>2, <3>3
  <2>3. CASE PresentsIt(r) \/ OpensTheInsert(r)
    <3>1. requests' \in [Requests -> Request] /\ now' = now
      BY Zenon, <2>3, CeremonyKeepsItsInput
    <3>2. challenges' \in [Challenges -> Challenge]
      <4>1. CASE consume(r)
        <5>1. CASE challenges' = challenges
          BY Zenon, <1>0, <5>1
        <5>2. CASE Consumable(requests[r])
          <6>1. challenges' = [challenges EXCEPT ![requests[r].challenge].consumedAt = now]
            BY Zenon, <4>1, <5>2 DEF consume
          <6>2. \A c \in Challenges : [challenges[c] EXCEPT !.consumedAt = now] \in Challenge
            BY <1>0 DEF Challenge
          <6> QED BY Zenon, <1>0, <6>1, <6>2
        <5> QED BY Zenon, <4>1, <5>1, <5>2 DEF consume
      <4>2. CASE ~consume(r)
        BY Zenon, <1>0, <2>3, <4>2
        DEF PresentsIt, OpensTheInsert, throwForUnusableChallenge, LookForADevice,
            verifyDeviceAuthJws, OpenInsert
      <4> QED BY Zenon, <4>1, <4>2
    <3> QED BY Zenon, <1>0, <2>1, <3>1, <3>2 DEF Types
  <2>4. CASE Refused(r) \/ CommitInsert(r) \/ OpensSession(r) \/ Undoes(r) \/ Supersedes(r)
    BY Zenon, <1>0, <2>1, <2>4, CeremonyLeavesItsChallenge DEF LeavesItsChallenge, Types
  <2> QED
    BY Zenon, <1>2, <2>2, <2>3, <2>4
    DEF Ceremony, BeginsCeremony, PresentsIt, OpensTheInsert, Refused, OpensSession, Undoes,
        Supersedes
<1>3. CASE pruneExpired
  BY Zenon, <1>0, <1>3, PrunedChallenges DEF Types
<1>4. CASE Tick
  BY <1>0, <1>4 DEF Types, Tick
<1>5. CASE \/ \E p \in Phones : SignIn(p)
           \/ \E gone \in SUBSET sessions : revokeByDpopKey(gone)
           \/ \E t \in sessions : applyDeviceSessionLimits(t)
           \/ revokeDevices \/ UNCHANGED vars
  BY Zenon, <1>0, <1>5 DEF Types, SignIn, revokeByDpopKey, applyDeviceSessionLimits, revokeDevices, vars
<1> QED BY Zenon, <1>1, <1>2, <1>3, <1>4, <1>5 DEF Next, Issues

-----------------------------------------------------------------------------
(* What a request knows of its challenge stays true when others move.      *)

\* A challenge that was issued only ever changes by being consumed, once, or pruned.
Same(c) == challenges'[c] = challenges[c]

Prunes(c) == challenges'[c].row = "pruned" /\ challenges[c].row = "stored" /\ ~Locked(c)

Consumes(c) ==
  /\ challenges[c].row = "stored" /\ ~Consumed(c) /\ challenges[c].expiresAt > now
  /\ challenges' = [challenges EXCEPT ![c].consumedAt = now]

\* A request that does not move stays informed when its challenge changes in one of these ways.
LEMMA StaysInformed ==
  ASSUME Types, Types', now <= now', NEW s \in Requests, requests'[s] = requests[s],
         PresentsAChallenge(s), KnowsItsChallenge(s),
         NEW c \in Challenges, requests[s].challenge = c, requests[s].step \notin Ended,
         Same(c) \/ (Prunes(c) /\ now' = now) \/ (Consumes(c) /\ now' = now)
  PROVE  PresentsAChallenge(s)' /\ KnowsItsChallenge(s)'
<1>0. /\ requests[s] \in Request /\ challenges[c] \in Challenge /\ challenges'[c] \in Challenge
      /\ now \in Nat /\ now' \in Nat
      /\ requests[s].since \in Nat
      /\ challenges[c].expiresAt \in Int /\ challenges[c].consumedAt \in Int
      /\ challenges'[c].expiresAt \in Int /\ challenges'[c].consumedAt \in Int
  BY Zenon DEF Types, Request, Challenge
<1>1. InsertDeadline \in Nat /\ InsertLimit \in Nat /\ ReplayWindow \in Nat
  BY Zenon, DevicesAssumption
<1>2. CASE Same(c)
  <2>1. PresentsAChallenge(s)'
    BY Zenon, <1>2 DEF PresentsAChallenge, Same
  <2>2. KnowsItsChallenge(s)'
    BY SMTT(60), <1>0, <1>1, <1>2
    DEF KnowsItsChallenge, Same, Spent, PastTheWindow, Enrols, Consumed, TimedOut
  <2> QED BY Zenon, <2>1, <2>2
<1>3. CASE Prunes(c) /\ now' = now
  <2>1. PresentsAChallenge(s)'
    BY Zenon, <1>3 DEF PresentsAChallenge, Prunes
  <2>2. requests[s].step = "commit" => TimedOut(s)'
    BY SMTT(60), <1>0, <1>1, <1>3 DEF Prunes, Locked, TimedOut
  <2>3. challenges'[c].row = "pruned"
    BY Zenon, <1>3 DEF Prunes
  <2>4. KnowsItsChallenge(s)'
    BY Zenon, <2>2, <2>3 DEF KnowsItsChallenge, Spent, PastTheWindow, Enrols
  <2> QED BY Zenon, <2>1, <2>4
<1>4. CASE Consumes(c) /\ now' = now
  <2>1. /\ challenges'[c].row = challenges[c].row /\ challenges'[c].purpose = challenges[c].purpose
        /\ challenges'[c].key = challenges[c].key /\ challenges'[c].device = challenges[c].device
    BY Zenon, <1>0, <1>4 DEF Consumes, Types, Challenge
  <2>2. PresentsAChallenge(s)'
    BY Zenon, <2>1 DEF PresentsAChallenge
  <2>3. requests[s].step \notin Owning
    BY Zenon, <1>4 DEF Consumes, KnowsItsChallenge, PresentsAChallenge, Owning
  <2>4. requests[s].step \in {"replay", "lookup"} /\ requests[s].kind = "enrol"
          => ~Enrols(c, requests[s].key)'
    BY SMTT(30), <1>0, <1>4, <2>1 DEF Consumes, KnowsItsChallenge, Spent, Enrols
  <2>5. KnowsItsChallenge(s)'
    BY ZenonT(60), <2>3, <2>4 DEF KnowsItsChallenge, Spent, PastTheWindow, Owning
  <2> QED BY Zenon, <2>2, <2>5
<1> QED BY Zenon, <1>2, <1>3, <1>4

\* A request that is not under way knows nothing that could become false.
LEMMA EndedIsInformed ==
  ASSUME NEW s \in Requests, requests'[s].step \in Ended
  PROVE  PresentsAChallenge(s)' /\ KnowsItsChallenge(s)'
BY Zenon DEF PresentsAChallenge, KnowsItsChallenge, Ended, Owning

\* Every step moves each challenge that was issued in one of these ways, and time never back.
LEMMA ChallengesMove ==
  ASSUME Types, [Next]_vars
  PROVE  /\ now' \in Nat /\ now <= now'
         /\ \A c \in Challenges :
              challenges[c].row # "unissued" =>
                Same(c) \/ (Prunes(c) /\ now' = now) \/ (Consumes(c) /\ now' = now)
<1>0. now \in Nat /\ challenges \in [Challenges -> Challenge] /\ requests \in [Requests -> Request]
  BY Zenon DEF Types
<1>1. CASE UNCHANGED <<now, challenges>>
  BY <1>0, <1>1 DEF Same
<1>2. ASSUME NEW p \in Phones, NEW c \in Challenges, Issues(c, p)
      PROVE  now' = now /\ \A d \in Challenges : challenges[d].row # "unissued" => Same(d)
  <2>1. now' = now
    BY Zenon, <1>2 DEF Issues, IssueEnrolmentChallenge, issueLoginChallenge, issue
  <2> QED BY Zenon, <1>0, <1>2, <2>1, IssuedChallenge DEF Same
<1>3. ASSUME NEW r \in Requests, consume(r)
      PROVE  now' = now /\ \A d \in Challenges : Same(d) \/ Consumes(d)
  <2>1. CASE Consumable(requests[r])
    <3>1. challenges' = [challenges EXCEPT ![requests[r].challenge].consumedAt = now] /\ now' = now
      BY Zenon, <1>3, <2>1 DEF consume
    <3>2. \A d \in Challenges : d # requests[r].challenge => Same(d)
      BY Zenon, <1>0, <3>1 DEF Same
    <3>3. requests[r].challenge \in Challenges => Consumes(requests[r].challenge)
      BY Zenon, <2>1, <3>1 DEF Consumes, Consumable, Matches, Consumed
    <3> QED BY Zenon, <3>1, <3>2, <3>3
  <2>2. CASE ~Consumable(requests[r])
    BY Zenon, <1>3, <2>2 DEF consume, Same
  <2> QED BY Zenon, <2>1, <2>2
<1>4. CASE pruneExpired
  BY <1>0, <1>4, PrunedChallenges DEF Same, Prunes
<1>5. CASE Tick
  BY <1>0, <1>5 DEF Tick, Same
<1>6. ASSUME NEW r \in Requests, Ceremony(r)
      PROVE  now' = now /\ \A d \in Challenges : Same(d) \/ Consumes(d)
  <2>1. CASE consume(r)
    BY Zenon, <1>3, <2>1
  <2>2. CASE Refused(r) \/ CommitInsert(r) \/ OpensSession(r) \/ Undoes(r) \/ Supersedes(r)
    BY Zenon, <2>2, CeremonyLeavesItsChallenge DEF LeavesItsChallenge, Same
  <2>3. CASE BeginsCeremony(r) \/ throwForUnusableChallenge(r) \/ LookForADevice(r)
             \/ verifyDeviceAuthJws(r) \/ OpenInsert(r)
    BY Zenon, <2>3
    DEF BeginsCeremony, enrolVerify, loginVerify, throwForUnusableChallenge, LookForADevice,
        verifyDeviceAuthJws, OpenInsert, Same
  <2> QED
    BY Zenon, <1>6, <2>1, <2>2, <2>3
    DEF Ceremony, BeginsCeremony, Refused, OpensSession, Undoes, Supersedes
<1>7. CASE \/ \E p \in Phones : SignIn(p)
           \/ \E gone \in SUBSET sessions : revokeByDpopKey(gone)
           \/ \E t \in sessions : applyDeviceSessionLimits(t)
           \/ revokeDevices \/ UNCHANGED vars
  BY Zenon, <1>1, <1>7 DEF SignIn, revokeByDpopKey, applyDeviceSessionLimits, revokeDevices, vars
<1>8. CASE \E p \in Phones, c \in Challenges : Issues(c, p)
  BY <1>0, <1>2, <1>8
<1>9. CASE \E r \in Requests : Ceremony(r)
  BY <1>0, <1>6, <1>9
<1> QED BY Zenon, <1>4, <1>5, <1>7, <1>8, <1>9 DEF Next, Issues

\* Requests that take no part in a step stay informed.
LEMMA OthersStayInformed ==
  ASSUME ExpiredInv, [Next]_vars, NEW s \in Requests, requests'[s] = requests[s]
  PROVE  PresentsAChallenge(s)' /\ KnowsItsChallenge(s)'
<1>0. Types /\ Types' /\ PresentsAChallenge(s) /\ KnowsItsChallenge(s)
  BY Zenon, TypesPreserved DEF ExpiredInv
<1>1. CASE requests[s].step \in Ended
  BY Zenon, <1>1, EndedIsInformed
<1>2. CASE requests[s].step \notin Ended
  <2>1. PICK c \in Challenges : c = requests[s].challenge /\ challenges[c].row # "unissued"
    BY Zenon, <1>0, <1>2 DEF PresentsAChallenge
  <2>2. now <= now' /\ (Same(c) \/ (Prunes(c) /\ now' = now) \/ (Consumes(c) /\ now' = now))
    BY Zenon, <1>0, <2>1, ChallengesMove
  <2> QED BY Zenon, <1>0, <1>2, <2>1, <2>2, StaysInformed
<1> QED BY Zenon, <1>1, <1>2

\* A challenge is consumed before it expires, and never later than now.
LEMMA ConsumptionStaysInTime ==
  ASSUME ExpiredInv, [Next]_vars
  PROVE  ConsumedInTime'
<1>0. Types /\ Types' /\ ConsumedInTime
  BY Zenon, TypesPreserved DEF ExpiredInv
<1> SUFFICES ASSUME NEW c \in Challenges, Consumed(c)', challenges'[c].row = "stored"
             PROVE  /\ challenges'[c].consumedAt \in Nat /\ challenges'[c].consumedAt <= now'
                    /\ challenges'[c].consumedAt < challenges'[c].expiresAt
  BY Zenon DEF ConsumedInTime
<1>1. now \in Nat /\ now' \in Nat /\ now <= now' /\ challenges \in [Challenges -> Challenge]
  BY Zenon, <1>0, ChallengesMove DEF Types
<1>2. CASE challenges[c].row # "unissued"
  <2>1. CASE Same(c)
    BY <1>0, <1>1, <2>1 DEF Same, ConsumedInTime, Consumed
  <2>2. CASE Consumes(c) /\ now' = now
    BY Zenon, <1>1, <2>2 DEF Consumes, Challenge
  <2>3. CASE Prunes(c)
    BY Zenon, <2>3 DEF Prunes
  <2> QED BY Zenon, <1>0, <1>2, <2>1, <2>2, <2>3, ChallengesMove
<1>3. CASE challenges[c].row = "unissued"
  <2>1. CASE Same(c)
    BY Zenon, <1>3, <2>1 DEF Same
  <2>2. CASE ~Same(c)
    <3>1. \A r \in Requests : consume(r) => Same(c)
      BY Zenon, <1>1, <1>3 DEF consume, Consumable, Matches, Same
    <3>2. pruneExpired => Same(c)
      BY Zenon, <1>0, <1>3, PrunedChallenges DEF Same
    <3>3. ASSUME NEW r \in Requests, Ceremony(r) PROVE Same(c)
      BY Zenon, <1>0, <3>1, <3>3, CeremonyLeavesItsChallenge
      DEF Ceremony, enrolVerify, loginVerify, throwForUnusableChallenge, LookForADevice,
          verifyDeviceAuthJws, OpenInsert, Refused, OpensSession, Undoes, Supersedes,
          LeavesItsChallenge, Same
    <3>4. PICK d \in Challenges, p \in Phones : Issues(d, p)
      BY Zenon, <2>2, <3>2, <3>3
      DEF Next, Issues, SignIn, revokeByDpopKey, applyDeviceSessionLimits, revokeDevices, Tick,
          vars, Same
    <3> QED BY Zenon, <1>0, <1>1, <2>2, <3>4, IssuedChallenge DEF Same, Consumed
  <2> QED BY Zenon, <2>1, <2>2
<1> QED BY Zenon, <1>2, <1>3

-----------------------------------------------------------------------------
(* The request that takes a step.                                          *)

\* A request that begins presents a challenge that was issued and knows nothing yet.
LEMMA BeginningIsInformed ==
  ASSUME Types, NEW r \in Requests, BeginsCeremony(r)
  PROVE  /\ PresentsAChallenge(r)' /\ KnowsItsChallenge(r)'
         /\ requests'[r].step \in {"consume", "refused"} /\ OnlyRequest(r)
         /\ UNCHANGED <<now, challenges, expired>>
<1>0. requests \in [Requests -> Request]
  BY Zenon DEF Types
<1>1. PICK p \in Phones, c \in Challenges : enrolVerify(r, p, c) \/ loginVerify(r, p, c)
  BY Zenon DEF BeginsCeremony
<1>2. \E kind \in {"enrol", "login"}, d \in Requests \cup {None}, step \in {"consume", "refused"} :
        Starts(r, kind, p, c, d, step) /\ (kind = "enrol" => d = None)
  <2>1. CASE enrolVerify(r, p, c)
    BY Zenon, <2>1 DEF enrolVerify
  <2>2. CASE loginVerify(r, p, c)
    <3>1. \A d \in findByDpopJkt(p) : d.id \in Requests
      BY Zenon DEF findByDpopJkt, Device, Types
    <3> QED BY Zenon, <2>2, <3>1 DEF loginVerify
  <2> QED BY Zenon, <1>1, <2>1, <2>2
<1>3. PICK kind \in {"enrol", "login"}, d \in Requests \cup {None}, step \in {"consume", "refused"} :
        Starts(r, kind, p, c, d, step) /\ (kind = "enrol" => d = None)
  BY Zenon, <1>2
<1>4. /\ requests'[r].step = step /\ requests'[r].kind = kind /\ requests'[r].challenge = c
      /\ requests'[r].device = d /\ OnlyRequest(r)
  BY SMTT(60), <1>0, <1>3, StartsWith DEF Steps, Kinds
<1>5. UNCHANGED <<now, challenges, expired>> /\ challenges[c].row # "unissued"
  BY Zenon, <1>1 DEF enrolVerify, loginVerify
<1>6. PresentsAChallenge(r)'
  BY Zenon, <1>3, <1>4, <1>5 DEF PresentsAChallenge
<1>7. KnowsItsChallenge(r)'
  BY Zenon, <1>4 DEF KnowsItsChallenge, Owning
<1> QED BY Zenon, <1>4, <1>5, <1>6, <1>7

-----------------------------------------------------------------------------
(* The request that takes a step.                                          *)

\* Presenting the challenge: it is this request's alone, or spent.
LEMMA PresentingIsInformed ==
  ASSUME ExpiredInv, NEW r \in Requests, PresentsIt(r)
  PROVE  PresentsAChallenge(r)' /\ KnowsItsChallenge(r)'
<1> DEFINE c == requests[r].challenge
           p == requests[r].key
<1>0. /\ Types /\ PresentsAChallenge(r) /\ KnowsItsChallenge(r)
      /\ requests \in [Requests -> Request] /\ challenges \in [Challenges -> Challenge]
      /\ now \in Nat
  BY Zenon DEF ExpiredInv, Types
<1>1. /\ OnlyRequest(r) /\ now' = now
      /\ requests'[r].challenge = c /\ requests'[r].key = p
      /\ requests'[r].kind = requests[r].kind /\ requests'[r].device = requests[r].device
  BY Zenon, <1>0, CeremonyKeepsItsInput DEF KeepsItsInput
<1>2. /\ c \in Challenges /\ challenges[c].row # "unissued"
      /\ requests[r].kind \in {"enrol", "login"}
      /\ requests[r].kind = "enrol" => requests[r].device = None
  BY Zenon, <1>0 DEF PresentsIt, consume, throwForUnusableChallenge, LookForADevice, PresentsAChallenge,
              Ended
<1>3. CASE consume(r) /\ Consumable(requests[r])
  <2>1. challenges' = [challenges EXCEPT ![c].consumedAt = now] /\ requests'[r].step = "verify"
    BY Zenon, <1>0, <1>3, GoesOn DEF consume, Steps
  <2>2. /\ challenges'[c].row = "stored" /\ challenges'[c].consumedAt = now
        /\ challenges'[c].purpose = requests[r].kind /\ challenges'[c].key = p
        /\ challenges'[c].device = requests[r].device
    BY Zenon, <1>0, <1>2, <1>3, <2>1 DEF Consumable, Matches, Challenge
  <2>3. Consumed(c)'
    BY SMTT(60), <1>0, <1>1, <2>2 DEF Consumed, Never
  <2>4. PresentsAChallenge(r)'
    BY Zenon, <1>1, <1>2, <2>2 DEF PresentsAChallenge
  <2>5. KnowsItsChallenge(r)'
    BY Zenon, <1>1, <1>2, <2>1, <2>2, <2>3 DEF KnowsItsChallenge, Enrols, Owning
  <2> QED BY Zenon, <2>4, <2>5
<1>4. CASE consume(r) /\ ~Consumable(requests[r])
  <2>1. challenges' = challenges /\ requests'[r].step = "replay"
    BY Zenon, <1>0, <1>4, GoesOn DEF consume, Steps
  <2>2. requests[r].kind = "enrol" => Spent(c, p)
    BY SMTT(60), <1>0, <1>2, <1>4 DEF Consumable, Matches, Spent, Enrols, Consumed, Challenge
  <2>3. Spent(c, p) => Spent(c, p)'
    BY Zenon, <1>1, <2>1 DEF Spent, Enrols, Consumed
  <2>4. PresentsAChallenge(r)'
    BY Zenon, <1>1, <1>2, <2>1 DEF PresentsAChallenge
  <2>5. KnowsItsChallenge(r)'
    BY Zenon, <1>1, <2>1, <2>2, <2>3 DEF KnowsItsChallenge, Owning, Spent, Enrols, Consumed
  <2> QED BY Zenon, <2>4, <2>5
<1>5. CASE throwForUnusableChallenge(r)
  <2>1. challenges' = challenges /\ requests'[r].step \in {"lookup", "refused"}
    BY Zenon, <1>0, <1>5, GoesOn, EndsWith DEF throwForUnusableChallenge, Steps
  <2>2. CASE requests'[r].step = "refused"
    BY Zenon, <2>2, EndedIsInformed DEF Ended
  <2>3. CASE requests'[r].step = "lookup"
    <3>1. requests[r].kind = "enrol" /\ ~wasConsumedWithinReplayWindow(requests[r])
      <4>1. CASE ~(requests[r].kind = "enrol" /\ ~wasConsumedWithinReplayWindow(requests[r]))
        BY Zenon, <1>0, <1>5, <2>3, <4>1, EndsWith DEF throwForUnusableChallenge, Steps
      <4> QED BY Zenon, <4>1
    <3>2. Spent(c, p)
      BY Zenon, <1>0, <1>5, <3>1 DEF throwForUnusableChallenge, KnowsItsChallenge
    <3>3. PastTheWindow(c, p)
      BY SMTT(60), <1>0, <1>2, <3>1, DevicesAssumption
      DEF wasConsumedWithinReplayWindow, Matches, PastTheWindow, Enrols, Consumed, Challenge
    <3>4. PresentsAChallenge(r)'
      BY Zenon, <1>1, <1>2, <2>1 DEF PresentsAChallenge
    <3>5. Spent(c, p)' /\ PastTheWindow(c, p)'
      BY Zenon, <1>1, <2>1, <3>2, <3>3 DEF Spent, PastTheWindow, Enrols, Consumed
    <3>6. KnowsItsChallenge(r)'
      BY ZenonT(60), <1>1, <2>3, <3>1, <3>5 DEF KnowsItsChallenge, Owning, Spent, PastTheWindow, Enrols, Consumed
    <3> QED BY Zenon, <3>4, <3>6
  <2> QED BY Zenon, <2>1, <2>2, <2>3
<1>6. CASE LookForADevice(r)
  BY Zenon, <1>0, <1>6, EndsWith, EndedIsInformed DEF LookForADevice, Steps, Ended
<1> QED BY Zenon, <1>3, <1>4, <1>5, <1>6 DEF PresentsIt, consume

\* A transaction is opened before the insert deadline.
LEMMA OpeningIsInformed ==
  ASSUME ExpiredInv, NEW r \in Requests, OpensTheInsert(r)
  PROVE  /\ PresentsAChallenge(r)' /\ KnowsItsChallenge(r)'
         /\ UNCHANGED challenges
         /\ requests'[r].step \in {"session", "insert", "commit", "refused"}
         /\ requests'[r].step = "commit" => requests[r].step = "insert"
              /\ Matches(requests[r])
              /\ challenges[requests[r].challenge].consumedAt > now - InsertDeadline
<1> DEFINE c == requests[r].challenge
           p == requests[r].key
<1>0. /\ Types /\ PresentsAChallenge(r) /\ KnowsItsChallenge(r)
      /\ requests \in [Requests -> Request] /\ challenges \in [Challenges -> Challenge]
      /\ now \in Nat
  BY Zenon DEF ExpiredInv, Types
<1>1. /\ OnlyRequest(r) /\ now' = now /\ challenges' = challenges
      /\ requests'[r].challenge = c /\ requests'[r].key = p
      /\ requests'[r].kind = requests[r].kind /\ requests'[r].device = requests[r].device
  BY Zenon, <1>0, CeremonyKeepsItsInput DEF KeepsItsInput, OpensTheInsert, verifyDeviceAuthJws, OpenInsert
<1>2. /\ c \in Challenges /\ challenges[c].row # "unissued"
      /\ requests[r].kind \in {"enrol", "login"}
      /\ requests[r].kind = "enrol" => requests[r].device = None
      /\ requests[r].step \in {"verify", "insert"}
  BY Zenon, <1>0 DEF OpensTheInsert, verifyDeviceAuthJws, OpenInsert, PresentsAChallenge, Ended
<1>3. PresentsAChallenge(r)'
  BY Zenon, <1>1, <1>2 DEF PresentsAChallenge
<1>4. CASE verifyDeviceAuthJws(r)
  <2>1. \/ requests'[r].step = "session" \/ requests'[r].step = "refused"
        \/ requests'[r].step = "insert" /\ requests[r].kind = "enrol"
    BY Zenon, <1>0, <1>2, <1>4, GoesOn, EndsWith DEF verifyDeviceAuthJws, Steps
  <2>2. requests[r].kind = "enrol" => \/ challenges[c].row = "pruned"
                                      \/ Enrols(c, p) /\ Consumed(c)
    BY Zenon, <1>0, <1>2 DEF KnowsItsChallenge, Owning
  <2>3. KnowsItsChallenge(r)'
    BY Zenon, <1>1, <2>1, <2>2 DEF KnowsItsChallenge, Owning, Enrols, Consumed
  <2> QED BY Zenon, <1>1, <1>3, <2>1, <2>3
<1>5. CASE OpenInsert(r)
  <2> DEFINE inTime == Matches(requests[r]) /\ challenges[c].consumedAt > now - InsertDeadline
  <2>1. CASE inTime
    <3>1. requests' = [requests EXCEPT ![r].step = "commit", ![r].since = now]
      BY Zenon, <1>5, <2>1 DEF OpenInsert
    <3>2. requests'[r].step = "commit" /\ requests'[r].since = now
      BY Zenon, <1>0, <3>1 DEF Request
    <3>3. requests[r].kind = "enrol" /\ requests[r].step = "insert"
          /\ (challenges[c].row = "pruned" \/ (Enrols(c, p) /\ Consumed(c)))
      BY Zenon, <1>0, <1>5 DEF OpenInsert, KnowsItsChallenge, Owning
    <3>4. challenges[c].row = "stored" /\ now < challenges[c].consumedAt + InsertDeadline
      BY SMTT(60), <1>0, <1>2, <2>1, DevicesAssumption DEF Matches, Challenge
    <3>5. Enrols(c, p)' /\ Consumed(c)'
      BY Zenon, <1>1, <3>3, <3>4 DEF Enrols, Consumed
    <3>6. KnowsItsChallenge(r)'
      BY Zenon, <1>1, <3>2, <3>3, <3>4, <3>5 DEF KnowsItsChallenge, Owning, Enrols, Consumed
    <3> QED BY Zenon, <1>1, <1>3, <2>1, <3>2, <3>3, <3>6
  <2>2. CASE ~inTime
    <3>1. requests'[r].step = "refused"
      BY Zenon, <1>0, <1>5, <2>2, EndsWith DEF OpenInsert, Steps
    <3> QED BY Zenon, <1>1, <1>3, <3>1, EndedIsInformed DEF Ended
  <2> QED BY Zenon, <2>1, <2>2
<1> QED BY Zenon, <1>4, <1>5 DEF OpensTheInsert

\* A request that has left its challenge knows nothing that could become false.
LEMMA LeavingIsInformed ==
  ASSUME ExpiredInv, NEW r \in Requests, LeavesItsChallenge(r)
  PROVE  PresentsAChallenge(r)' /\ KnowsItsChallenge(r)'
<1>1. PresentsAChallenge(r)
  BY Zenon DEF ExpiredInv
<1>2. PresentsAChallenge(r)'
  BY Zenon, <1>1 DEF PresentsAChallenge, LeavesItsChallenge, KeepsItsInput
<1>3. KnowsItsChallenge(r)'
  BY Zenon DEF KnowsItsChallenge, LeavesItsChallenge, Done, Owning
<1> QED BY Zenon, <1>2, <1>3

\* Every request knows its challenge after every step.
LEMMA EveryoneStaysInformed ==
  ASSUME ExpiredInv, [Next]_vars
  PROVE  \A s \in Requests : PresentsAChallenge(s)' /\ KnowsItsChallenge(s)'
<1>0. Types
  BY Zenon DEF ExpiredInv
<1>1. CASE requests' = requests
  BY Zenon, <1>1, OthersStayInformed
<1>2. ASSUME NEW r \in Requests, Ceremony(r)
      PROVE  \A s \in Requests : PresentsAChallenge(s)' /\ KnowsItsChallenge(s)'
  <2>1. OnlyRequest(r) /\ PresentsAChallenge(r)' /\ KnowsItsChallenge(r)'
    <3>1. CASE BeginsCeremony(r)
      BY Zenon, <1>0, <3>1, BeginningIsInformed
    <3>2. CASE PresentsIt(r)
      BY Zenon, <1>0, <3>2, PresentingIsInformed, CeremonyKeepsItsInput
    <3>3. CASE OpensTheInsert(r)
      BY Zenon, <1>0, <3>3, OpeningIsInformed, CeremonyKeepsItsInput
    <3>4. CASE Refused(r) \/ CommitInsert(r) \/ OpensSession(r) \/ Undoes(r) \/ Supersedes(r)
      <4>1. LeavesItsChallenge(r)
        BY Zenon, <1>0, <3>4, CeremonyLeavesItsChallenge
      <4> QED BY Zenon, <4>1, LeavingIsInformed DEF LeavesItsChallenge
    <3> QED
      BY Zenon, <1>2, <3>1, <3>2, <3>3, <3>4
      DEF Ceremony, BeginsCeremony, PresentsIt, OpensTheInsert, Refused, OpensSession, Undoes,
          Supersedes
  <2> QED BY Zenon, <2>1, OthersStayInformed DEF OnlyRequest
<1> QED
  BY Zenon, <1>1, <1>2
  DEF Next, vars, IssueEnrolmentChallenge, issueLoginChallenge, issue, SignIn, revokeByDpopKey,
      applyDeviceSessionLimits, revokeDevices, pruneExpired, Tick

-----------------------------------------------------------------------------
(* One request owns a challenge, and none after it was answered EXPIRED.   *)

\* A request that changes is the one that takes the step.
LEMMA OnlyOneMoves ==
  ASSUME Types, [Next]_vars, NEW s \in Requests, requests'[s] # requests[s]
  PROVE  Ceremony(s)
<1>1. PICK r \in Requests : Ceremony(r)
  BY Zenon DEF Next, vars, IssueEnrolmentChallenge, issueLoginChallenge, issue, SignIn, revokeByDpopKey,
      applyDeviceSessionLimits, revokeDevices, pruneExpired, Tick
<1>2. OnlyRequest(r)
  BY ZenonT(40), <1>1, BeginningIsInformed, CeremonyKeepsItsInput, CeremonyLeavesItsChallenge
  DEF Ceremony, BeginsCeremony, PresentsIt, OpensTheInsert, Refused, OpensSession, Undoes,
      Supersedes, LeavesItsChallenge
<1> QED BY Zenon, <1>1, <1>2 DEF OnlyRequest

\* A request comes to own a challenge by consuming it, and only one opens its transaction that is
\* in time.
LEMMA OwningMoves ==
  ASSUME ExpiredInv, NEW r \in Requests, Ceremony(r), requests'[r].step \in Owning
  PROVE  /\ OnlyRequest(r) /\ KeepsItsInput(r)
         /\ \/ requests[r].step \in Owning
            \/ requests[r].step = "consume" /\ Consumable(requests[r]) /\ requests'[r].step = "verify"
         /\ requests'[r].step \in {"verify", "insert"} /\ requests[r].step \in Owning
              => requests[r].step \in {"verify", "insert"}
         /\ requests'[r].step = "commit" =>
              /\ requests[r].step = "insert" /\ Matches(requests[r])
              /\ challenges[requests[r].challenge].consumedAt > now - InsertDeadline
<1>0. Types /\ requests \in [Requests -> Request]
  BY Zenon DEF ExpiredInv, Types
<1>1. CASE BeginsCeremony(r)
  BY Zenon, <1>0, <1>1, BeginningIsInformed DEF Owning
<1>2. CASE PresentsIt(r)
  <2>1. OnlyRequest(r) /\ KeepsItsInput(r)
    BY Zenon, <1>0, <1>2, CeremonyKeepsItsInput
  <2>2. CASE consume(r)
    BY Zenon, <1>0, <2>1, <2>2, GoesOn DEF consume, Steps, Owning
  <2>3. CASE ~consume(r)
    <3>1. requests'[r].step \in {"lookup", "refused"}
      BY Zenon, <1>0, <1>2, <2>3, GoesOn, EndsWith
      DEF PresentsIt, throwForUnusableChallenge, LookForADevice, Steps
    <3> QED BY Zenon, <3>1 DEF Owning
  <2> QED BY Zenon, <2>2, <2>3
<1>3. CASE OpensTheInsert(r)
  <2>1. OnlyRequest(r) /\ KeepsItsInput(r)
    BY Zenon, <1>0, <1>3, CeremonyKeepsItsInput
  <2>2. requests[r].step \in {"verify", "insert"}
    BY Zenon, <1>3 DEF OpensTheInsert, verifyDeviceAuthJws, OpenInsert
  <2> QED BY Zenon, <1>3, <2>1, <2>2, OpeningIsInformed DEF Owning
<1>4. CASE Refused(r) \/ CommitInsert(r) \/ OpensSession(r) \/ Undoes(r) \/ Supersedes(r)
  BY Zenon, <1>0, <1>4, CeremonyLeavesItsChallenge DEF LeavesItsChallenge, Done
<1> QED
  BY Zenon, <1>1, <1>2, <1>3, <1>4
  DEF Ceremony, BeginsCeremony, PresentsIt, OpensTheInsert, Refused, OpensSession, Undoes,
      Supersedes

\* A challenge somebody owns cannot be consumed.
LEMMA OwnedIsNotConsumable ==
  ASSUME ExpiredInv, NEW s \in Requests, requests[s].step \in Owning
  PROVE  /\ requests[s].challenge \in Challenges
         /\ \/ challenges[requests[s].challenge].row = "pruned"
            \/ Consumed(requests[s].challenge)
<1>1. PresentsAChallenge(s) /\ KnowsItsChallenge(s)
  BY Zenon DEF ExpiredInv
<1> QED BY Zenon, <1>1 DEF PresentsAChallenge, KnowsItsChallenge, Owning, Ended

\* Two requests never own the same challenge.
LEMMA OwningStaysAlone ==
  ASSUME ExpiredInv, [Next]_vars
  PROVE  OwnsAlone'
<1>0. OwnsAlone
  BY Zenon DEF ExpiredInv
<1>1. CASE requests' = requests
  BY Zenon, <1>0, <1>1 DEF OwnsAlone
<1>2. ASSUME NEW r \in Requests, Ceremony(r) PROVE OwnsAlone'
  <2>1. CASE requests'[r].step \in Owning
    <3>1. ASSUME NEW s \in Requests, s # r, requests'[s].step \in Owning,
                 requests'[s].challenge = requests'[r].challenge
          PROVE  FALSE
      <4>1. /\ OnlyRequest(r) /\ KeepsItsInput(r)
            /\ \/ requests[r].step \in Owning
               \/ Consumable(requests[r])
        BY Zenon, <1>2, <2>1, OwningMoves
      <4>2. requests[s].step \in Owning /\ requests[s].challenge = requests[r].challenge
        BY Zenon, <3>1, <4>1 DEF OnlyRequest, KeepsItsInput
      <4>3. CASE requests[r].step \in Owning
        BY Zenon, <1>0, <3>1, <4>2, <4>3 DEF OwnsAlone
      <4>4. CASE Consumable(requests[r])
        BY Zenon, <4>2, <4>4, OwnedIsNotConsumable DEF Consumable, Matches, Consumed
      <4> QED BY Zenon, <4>1, <4>3, <4>4
    <3>2. ASSUME NEW s \in Requests, NEW t \in Requests, s # r, t # r,
                 requests'[s].step \in Owning, requests'[t].step \in Owning,
                 requests'[s].challenge = requests'[t].challenge
          PROVE  s = t
      BY Zenon, <1>0, <1>2, <2>1, <3>2, OwningMoves DEF OwnsAlone, OnlyRequest
    <3> QED BY Zenon, <3>1, <3>2 DEF OwnsAlone
  <2>2. CASE requests'[r].step \notin Owning
    <3>1. OnlyRequest(r)
      <4>1. Types
        BY Zenon DEF ExpiredInv
      <4> QED
        BY Zenon, <1>2, <4>1, BeginningIsInformed, CeremonyKeepsItsInput, CeremonyLeavesItsChallenge
        DEF Ceremony, BeginsCeremony, PresentsIt, OpensTheInsert, Refused, OpensSession, Undoes,
            Supersedes, LeavesItsChallenge
    <3> QED BY Zenon, <1>0, <2>2, <3>1 DEF OwnsAlone, OnlyRequest
  <2> QED BY Zenon, <2>1, <2>2
<1> QED
  BY Zenon, <1>1, <1>2
  DEF Next, vars, IssueEnrolmentChallenge, issueLoginChallenge, issue, SignIn, revokeByDpopKey,
      applyDeviceSessionLimits, revokeDevices, pruneExpired, Tick

\* A spent challenge stays spent, and one past its insert deadline stays so if it was consumed.
LEMMA SpentStays ==
  ASSUME Types, Types', now <= now', NEW c \in Challenges, NEW p,
         Same(c) \/ (Prunes(c) /\ now' = now) \/ (Consumes(c) /\ now' = now)
  PROVE  /\ challenges[c].row # "unissued" => challenges'[c].row # "unissued"
         /\ Spent(c, p) => Spent(c, p)'
         /\ PastTheDeadline(c) /\ (challenges[c].row = "pruned" \/ Consumed(c))
              => PastTheDeadline(c)'
<1>0. /\ challenges[c] \in Challenge /\ challenges'[c] \in Challenge
      /\ challenges \in [Challenges -> Challenge] /\ now \in Nat /\ now' \in Nat
      /\ challenges[c].expiresAt \in Int /\ challenges[c].consumedAt \in Int
  BY Zenon DEF Types, Challenge
<1>1. InsertDeadline \in Nat
  BY Zenon, DevicesAssumption
<1>2. CASE Same(c)
  BY SMTT(60), <1>0, <1>1, <1>2 DEF Same, Spent, PastTheDeadline, Enrols, Consumed
<1>3. CASE Prunes(c)
  BY Zenon, <1>3 DEF Prunes, Spent, PastTheDeadline, Enrols
<1>4. CASE Consumes(c)
  <2>1. challenges'[c].row = challenges[c].row /\ challenges'[c].consumedAt = now
    BY Zenon, <1>0, <1>4 DEF Consumes, Challenge
  <2> QED BY <1>0, <1>4, <2>1 DEF Consumes, Spent, Consumed, Never
<1> QED BY Zenon, <1>2, <1>3, <1>4

\* What is over stays over.
LEMMA OverStays ==
  ASSUME ExpiredInv, [Next]_vars, NEW c \in Challenges, NEW p \in Phones \cup {None}, IsOver(c, p)
  PROVE  IsOver(c, p)'
<1>0. /\ Types /\ Types' /\ now \in Nat /\ now' \in Nat /\ now <= now'
      /\ challenges[c].row # "unissued" /\ Spent(c, p)
      /\ challenges[c] \in Challenge
  BY Zenon, TypesPreserved, ChallengesMove DEF ExpiredInv, IsOver, Types
<1>1. Same(c) \/ (Prunes(c) /\ now' = now) \/ (Consumes(c) /\ now' = now)
  BY Zenon, <1>0, ChallengesMove
<1>2. challenges'[c].row # "unissued" /\ Spent(c, p)'
  BY Zenon, <1>0, <1>1, SpentStays
<1>3. InsertDeadline \in Nat /\ InsertLimit \in Nat
  BY Zenon, DevicesAssumption
<1>4. ASSUME NEW s \in Requests, Of(s, c, p), requests[s].step \in {"verify", "insert"}
      PROVE  PastTheDeadline(c) /\ PastTheDeadline(c)'
  <2>1. PastTheDeadline(c)
    BY Zenon, <1>4 DEF IsOver
  <2>2. challenges[c].row = "pruned" \/ Consumed(c)
    BY Zenon, <1>4, OwnedIsNotConsumable DEF Owning, Of
  <2> QED BY ZenonT(60), <1>0, <1>1, <2>1, <2>2, SpentStays
<1>5. ASSUME NEW s \in Requests, requests'[s] = requests[s], Of(s, c, p)'
      PROVE  /\ requests'[s].step \in {"verify", "insert"} => PastTheDeadline(c)'
             /\ requests'[s].step = "commit" => TimedOut(s)'
  <2>1. Of(s, c, p) /\ requests[s].since \in Nat
    BY Zenon, <1>0, <1>5 DEF Of, Types, Request
  <2>2. requests'[s].step = "commit" => TimedOut(s)'
    <3>1. requests'[s].step = "commit" => TimedOut(s)
      BY Zenon, <1>5, <2>1 DEF IsOver
    <3> QED BY SMTT(60), <1>0, <1>3, <1>5, <2>1, <3>1 DEF TimedOut
  <2> QED BY Zenon, <1>4, <1>5, <2>1, <2>2
<1>6. ASSUME NEW r \in Requests, Ceremony(r), Of(r, c, p)', requests'[r].step \in Owning
      PROVE  requests'[r].step \in {"verify", "insert"} /\ PastTheDeadline(c)'
  <2>1. Of(r, c, p)
    BY Zenon, <1>6, OwningMoves DEF Of, KeepsItsInput
  <2>2. requests[r].step # "consume" \/ ~Consumable(requests[r])
    <3>1. requests[r].step = "consume" => requests[r].device = None
      BY Zenon, <2>1 DEF ExpiredInv, PresentsAChallenge, Of, Ended
    <3>2. ASSUME Consumable(requests[r]), requests[r].device = None PROVE FALSE
      <4>1. Enrols(c, p) /\ ~Consumed(c) /\ challenges[c].expiresAt > now
        BY Zenon, <2>1, <3>2 DEF Consumable, Matches, Of, Enrols, Consumed
      <4> QED BY SMTT(60), <1>0, <4>1 DEF Spent, Challenge
    <3> QED BY Zenon, <3>1, <3>2
  <2>3. requests'[r].step # "commit"
    <3> SUFFICES ASSUME requests'[r].step = "commit" PROVE FALSE
      BY Zenon
    <3>1. /\ requests[r].step = "insert" /\ challenges[c].row = "stored"
          /\ challenges[c].consumedAt > now - InsertDeadline
      BY Zenon, <1>6, <2>1, OwningMoves DEF Of, Matches
    <3>2. PastTheDeadline(c)
      BY Zenon, <1>4, <2>1, <3>1
    <3> QED BY SMTT(60), <1>0, <1>3, <3>1, <3>2 DEF PastTheDeadline, Challenge
  <2>4. requests'[r].step \in {"verify", "insert"}
    BY Zenon, <1>6, <2>3 DEF Owning
  <2>5. requests[r].step \in {"verify", "insert"}
    BY Zenon, <1>6, <2>2, <2>4, OwningMoves
  <2> QED BY Zenon, <1>4, <2>1, <2>4, <2>5
<1>7. ASSUME NEW s \in Requests, Of(s, c, p)'
      PROVE  /\ requests'[s].step \in {"verify", "insert"} => PastTheDeadline(c)'
             /\ requests'[s].step = "commit" => TimedOut(s)'
  <2>1. CASE requests'[s] = requests[s]
    BY Zenon, <1>5, <1>7, <2>1
  <2>2. CASE requests'[s] # requests[s]
    <3>1. Ceremony(s)
      BY Zenon, <1>0, <2>2, OnlyOneMoves
    <3> QED BY Zenon, <1>6, <1>7, <3>1 DEF Owning
  <2> QED BY Zenon, <2>1, <2>2
<1> QED BY Zenon, <1>2, <1>7 DEF IsOver

\* A lookup past the replay window is the end of the challenge, whoever else had consumed it.
LEMMA LookupEndsIt ==
  ASSUME ExpiredInv, NEW r \in Requests, LookForADevice(r)
  PROVE  IsOver(requests[r].challenge, requests[r].key)'
<1>0. /\ Types /\ requests \in [Requests -> Request] /\ now \in Nat
      /\ challenges \in [Challenges -> Challenge]
      /\ PresentsAChallenge(r) /\ KnowsItsChallenge(r) /\ requests[r].step = "lookup"
  BY Zenon DEF ExpiredInv, Types, LookForADevice
<1>1. PICK c \in Challenges, p \in Phones \cup {None} : c = requests[r].challenge /\ p = requests[r].key
  BY Zenon, <1>0 DEF PresentsAChallenge, Ended, Request
<1>2. /\ challenges[c].row # "unissued" /\ Spent(c, p) /\ PastTheWindow(c, p)
  BY ZenonT(60), <1>0, <1>1 DEF PresentsAChallenge, KnowsItsChallenge, Ended
<1>3. /\ challenges' = challenges /\ now' = now /\ OnlyRequest(r) /\ requests'[r].step = "refused"
      /\ requests'[r].challenge = c /\ requests'[r].key = p
  BY Zenon, <1>0, <1>1, EndsWith DEF LookForADevice, Steps, KeepsItsInput
<1>4. /\ InsertDeadline \in Nat /\ InsertLimit \in Nat /\ ReplayWindow \in Nat
      /\ InsertDeadline + InsertLimit <= ReplayWindow
  BY Zenon, DevicesAssumption
<1>5. ASSUME NEW s \in Requests, requests'[s] = requests[s], Of(s, c, p), requests[s].step \in Owning
      PROVE  PastTheDeadline(c) /\ (requests[s].step = "commit" => TimedOut(s))
  <2>1. KnowsItsChallenge(s) /\ requests[s].since \in Nat /\ challenges[c].consumedAt \in Int
    BY Zenon, <1>0 DEF ExpiredInv, Request, Challenge
  <2>2. challenges[c].row = "pruned" \/ (Enrols(c, p) /\ Consumed(c))
    BY ZenonT(40), <1>5, <2>1 DEF KnowsItsChallenge, Of
  <2>3. requests[s].step = "commit" =>
          \/ TimedOut(s)
          \/ /\ challenges[c].row = "stored"
             /\ requests[s].since < challenges[c].consumedAt + InsertDeadline
    BY ZenonT(60), <1>5, <2>1 DEF KnowsItsChallenge, Of
  <2>4. CASE challenges[c].row = "pruned"
    BY Zenon, <2>3, <2>4 DEF PastTheDeadline
  <2>5. CASE Enrols(c, p) /\ Consumed(c)
    <3>1. challenges[c].consumedAt + ReplayWindow < now
      BY Zenon, <1>2, <2>5 DEF PastTheWindow
    <3>2. PastTheDeadline(c)
      BY <1>0, <1>4, <2>1, <3>1 DEF PastTheDeadline
    <3>3. requests[s].step = "commit" => TimedOut(s)
      BY SMTT(60), <1>0, <1>4, <2>1, <2>3, <3>1 DEF TimedOut
    <3> QED BY Zenon, <3>2, <3>3
  <2> QED BY Zenon, <2>2, <2>4, <2>5
<1>6. ASSUME NEW s \in Requests, Of(s, c, p)'
      PROVE  /\ requests'[s].step \in {"verify", "insert"} => PastTheDeadline(c)'
             /\ requests'[s].step = "commit" => TimedOut(s)'
  <2>1. CASE s = r
    BY Zenon, <1>3, <2>1
  <2>2. CASE s # r
    <3>1. requests'[s] = requests[s] /\ Of(s, c, p)
      BY Zenon, <1>3, <1>6, <2>2 DEF OnlyRequest, Of
    <3> QED BY Zenon, <1>3, <1>5, <3>1 DEF Owning, PastTheDeadline, TimedOut
  <2> QED BY Zenon, <2>1, <2>2
<1>7. challenges'[c].row # "unissued" /\ Spent(c, p)'
  BY Zenon, <1>2, <1>3 DEF Spent, Enrols, Consumed
<1>8. IsOver(c, p)'
  BY Zenon, <1>6, <1>7 DEF IsOver
<1> QED BY ZenonT(60), <1>1, <1>8, <1>3 DEF IsOver, Of, Spent, Enrols, Consumed, PastTheDeadline, TimedOut

\* An enrolment that misses its insert deadline was the only one to own the challenge.
LEMMA MissedDeadlineEndsIt ==
  ASSUME ExpiredInv, NEW r \in Requests, OpenInsert(r), requests'[r].step # "commit"
  PROVE  IsOver(requests[r].challenge, requests[r].key)'
<1>0. /\ Types /\ requests \in [Requests -> Request] /\ now \in Nat
      /\ PresentsAChallenge(r) /\ KnowsItsChallenge(r) /\ requests[r].step = "insert"
      /\ OwnsAlone /\ OpensTheInsert(r)
  BY Zenon DEF ExpiredInv, Types, OpenInsert, OpensTheInsert
<1>1. PICK c \in Challenges, p \in Phones \cup {None} : c = requests[r].challenge /\ p = requests[r].key
  BY Zenon, <1>0 DEF PresentsAChallenge, Ended, Request
<1>2. /\ challenges[c].row # "unissued"
      /\ challenges[c].row = "pruned" \/ (Enrols(c, p) /\ Consumed(c))
  BY Zenon, <1>0, <1>1 DEF PresentsAChallenge, KnowsItsChallenge, Ended, Owning
<1>3. /\ challenges' = challenges /\ now' = now /\ OnlyRequest(r) /\ requests'[r].step = "refused"
      /\ requests'[r].challenge = c /\ requests'[r].key = p
  <2>1. /\ challenges' = challenges /\ now' = now /\ OnlyRequest(r)
        /\ requests'[r].challenge = c /\ requests'[r].key = p
    BY ZenonT(60), <1>0, <1>1, OpeningIsInformed, CeremonyKeepsItsInput DEF KeepsItsInput
  <2>2. CASE Ends(r, "refused")
    BY Zenon, <1>0, <2>1, <2>2, EndsWith DEF Steps
  <2>3. CASE requests' = [requests EXCEPT ![r].step = "commit", ![r].since = now]
    BY Zenon, <1>0, <2>3 DEF Request
  <2> QED BY Zenon, <2>1, <2>2, <2>3 DEF OpenInsert
<1>4. challenges'[c].row # "unissued" /\ Spent(c, p)'
  BY Zenon, <1>2, <1>3 DEF Spent, Enrols, Consumed
<1>5. ASSUME NEW s \in Requests, Of(s, c, p)' PROVE requests'[s].step \notin Owning
  <2>1. CASE s = r
    BY Zenon, <1>3, <2>1 DEF Owning
  <2>2. CASE s # r
    BY Zenon, <1>0, <1>1, <1>3, <1>5, <2>2 DEF OnlyRequest, Of, OwnsAlone, Owning
  <2> QED BY Zenon, <2>1, <2>2
<1>6. IsOver(c, p)'
  BY Zenon, <1>4, <1>5 DEF IsOver, Owning
<1> QED BY Zenon, <1>1, <1>6, <1>3 DEF IsOver, Of, Spent, Enrols, Consumed, PastTheDeadline, TimedOut

\* Every answer DEVICE_CHALLENGE_EXPIRED is given when it is over, and it stays over.
LEMMA OverWhenExpired ==
  ASSUME ExpiredInv, [Next]_vars
  PROVE  ExpiredIsOver'
<1>0. Types /\ ExpiredIsOver
  BY Zenon DEF ExpiredInv
<1> SUFFICES ASSUME NEW c \in Challenges, NEW p \in Phones \cup {None}, <<c, p>> \in expired'
             PROVE  IsOver(c, p)'
  BY Zenon DEF ExpiredIsOver
<1>1. CASE <<c, p>> \in expired
  BY Zenon, <1>0, <1>1, OverStays DEF ExpiredIsOver
<1>2. CASE <<c, p>> \notin expired
  <2>1. PICK r \in Requests : Ceremony(r) /\ expired' # expired
    BY Zenon, <1>2
    DEF Next, vars, IssueEnrolmentChallenge, issueLoginChallenge, issue, SignIn, revokeByDpopKey,
        applyDeviceSessionLimits, revokeDevices, pruneExpired, Tick
  <2>2. PresentsIt(r) \/ OpensTheInsert(r)
    BY Zenon, <1>0, <2>1, BeginningIsInformed, CeremonyLeavesItsChallenge
    DEF Ceremony, BeginsCeremony, PresentsIt, OpensTheInsert, Refused, OpensSession, Undoes,
        Supersedes
  <2>3. LookForADevice(r) \/ OpenInsert(r)
    BY Zenon, <2>1, <2>2
    DEF PresentsIt, OpensTheInsert, consume, throwForUnusableChallenge, verifyDeviceAuthJws
  <2>4. KeepsItsInput(r)
    BY Zenon, <1>0, <2>2, CeremonyKeepsItsInput
  <2>5. AnswerExpired(r)
    BY Zenon, <2>1, <2>3 DEF LookForADevice, OpenInsert
  <2>6. c = requests[r].challenge /\ p = requests[r].key
    BY Zenon, <1>2, <2>5 DEF AnswerExpired
  <2>7. IsOver(requests[r].challenge, requests[r].key)'
    <3>1. CASE LookForADevice(r)
      BY Zenon, <3>1, LookupEndsIt
    <3>2. CASE OpenInsert(r)
      <4>1. requests'[r].step # "commit"
        BY Zenon, <1>0, <2>1, <3>2, EndsWith DEF OpenInsert, Steps, Types
      <4> QED BY Zenon, <3>2, <4>1, MissedDeadlineEndsIt
    <3> QED BY Zenon, <2>3, <3>1, <3>2
  <2>8. c = requests'[r].challenge /\ p = requests'[r].key
    BY Zenon, <2>4, <2>6 DEF KeepsItsInput
  <2> QED BY ZenonT(60), <2>7, <2>8 DEF IsOver, Of, Spent, Enrols, Consumed, PastTheDeadline, TimedOut
<1> QED BY Zenon, <1>1, <1>2

-----------------------------------------------------------------------------
(* A failed enrolment removes its session before its device.               *)

\* A step adds at most the session of the request that takes it, and forgets no failed delete.
SessionsOf(r) ==
  /\ OnlyRequest(r) /\ spared \subseteq spared'
  /\ \A s \in sessions' : s \in sessions \/ (s.by = r /\ requests'[r].step \in Holding)

\* A request keeps its session in hand, had none, or discards it.
LEMMA SessionsMove ==
  ASSUME Types, NEW r \in Requests, Ceremony(r)
  PROVE  /\ SessionsOf(r)
         /\ \/ requests'[r].step \in Holding \/ requests[r].step \notin Holding
            \/ r \in spared' \/ \A s \in sessions' : s.by # r
<1>0. requests \in [Requests -> Request] /\ requests[r] \in Request
  BY Zenon DEF Types
<1>1. CASE BeginsCeremony(r) \/ PresentsIt(r) \/ OpensTheInsert(r)
  <2>1. OnlyRequest(r)
    BY Zenon, <1>1, BeginningIsInformed, CeremonyKeepsItsInput
  <2>2. UNCHANGED <<sessions, spared>> /\ requests[r].step \notin Holding
    BY Zenon, <1>1
    DEF BeginsCeremony, PresentsIt, OpensTheInsert, enrolVerify, loginVerify, consume,
        throwForUnusableChallenge, LookForADevice, verifyDeviceAuthJws, OpenInsert, Holding
  <2> QED BY Zenon, <2>1, <2>2 DEF SessionsOf
<1>2. CASE Refuse(r) \/ CommitInsert(r) \/ createSessionFails(r) \/ rollback(r)
  <2>1. OnlyRequest(r)
    BY Zenon, <1>2, CeremonyLeavesItsChallenge DEF LeavesItsChallenge, Refused, OpensSession, Undoes
  <2>2. UNCHANGED <<sessions, spared>> /\ requests[r].step \notin Holding
    BY Zenon, <1>2 DEF Refuse, CommitInsert, createSessionFails, rollback, Holding
  <2> QED BY Zenon, <2>1, <2>2 DEF SessionsOf
<1>3. CASE createSession(r)
  <2>1. OnlyRequest(r)
    BY Zenon, <1>3, CeremonyLeavesItsChallenge DEF LeavesItsChallenge, OpensSession
  <2>2. PICK n \in Fresh :
          /\ sessions' = sessions \cup {[id |-> n, key |-> requests[r].key, by |-> r]}
          /\ requests' = [requests EXCEPT ![r].step = "cookie", ![r].session = n]
          /\ spared' = spared
    BY Zenon, <1>3 DEF createSession
  <2>3. requests'[r].step = "cookie"
    BY Zenon, <1>0, <2>2 DEF Request
  <2> QED BY <2>1, <2>2, <2>3 DEF SessionsOf, Holding
<1>4. CASE setSessionCookie(r) \/ setSessionCookieFails(r)
  <2>1. UNCHANGED <<sessions, spared>> /\ OnlyRequest(r) /\ requests'[r].step \in Holding
    BY Zenon, <1>0, <1>4, GoesOn DEF setSessionCookie, setSessionCookieFails, Steps, Holding
  <2> QED BY Zenon, <2>1 DEF SessionsOf
<1>5. CASE discardCeremonySession(r)
  <2>1. OnlyRequest(r)
    BY Zenon, <1>5, CeremonyLeavesItsChallenge DEF LeavesItsChallenge, Undoes
  <2>2. CASE sessions' = {s \in sessions : s.by # r} /\ UNCHANGED spared
    BY Zenon, <2>1, <2>2 DEF SessionsOf
  <2>3. CASE spared' = spared \cup {r} /\ UNCHANGED sessions
    BY Zenon, <2>1, <2>3 DEF SessionsOf
  <2> QED BY ZenonT(60), <1>5, <2>2, <2>3 DEF discardCeremonySession
<1>6. CASE Supersedes(r) \/ listSessionsFails(r)
  <2>1. OnlyRequest(r)
    BY Zenon, <1>6, CeremonyLeavesItsChallenge DEF LeavesItsChallenge, Refused, OpensSession, Undoes
  <2>2. sessions' \subseteq sessions /\ spared \subseteq spared'
    BY Zenon, <1>6 DEF Supersedes, supersedeEarlierDeviceSessions, listSessionsFails, RevokeSuperseded
  <2>3. requests'[r].step \in Holding
    <3>1. CASE Ends(r, "done")
      BY Zenon, <1>0, <3>1, EndsWith DEF Steps, Holding
    <3>2. CASE \E t : requests' = [requests EXCEPT ![r].step = "revoke", ![r].todo = t]
      BY Zenon, <1>0, <3>2 DEF Request, Holding
    <3>3. CASE /\ requests[r].step = "revoke"
               /\ \E t : requests' = [requests EXCEPT ![r].todo = @ \ {t}]
      BY Zenon, <1>0, <3>3 DEF Request, Holding
    <3> QED
      BY Zenon, <1>6, <3>1, <3>2, <3>3
      DEF Supersedes, supersedeEarlierDeviceSessions, listSessionsFails, RevokeSuperseded
  <2> QED BY Zenon, <2>1, <2>2, <2>3 DEF SessionsOf
<1>7. CASE Crash(r)
  <2>1. /\ OnlyRequest(r) /\ requests'[r].step = "crashed" /\ sessions' = sessions
        /\ spared \subseteq spared'
    BY Zenon, <1>0, <1>7, EndsWith DEF Crash, Steps
  <2> QED BY Zenon, <2>1 DEF SessionsOf, Holding
<1> QED
  BY ZenonT(60), <1>1, <1>2, <1>3, <1>4, <1>5, <1>6, <1>7
  DEF Ceremony, BeginsCeremony, PresentsIt, OpensTheInsert, Supersedes

\* Only the commit of an insert and its rollback touch the account's device.
LEMMA OthersLeaveTheDevice ==
  ASSUME NEW r \in Requests, Ceremony(r), ~CommitInsert(r), ~rollback(r)
  PROVE  UNCHANGED <<devices, loginMethod>>
<1>1. CASE BeginsCeremony(r)
  BY Zenon, <1>1 DEF BeginsCeremony, enrolVerify, loginVerify
<1>2. CASE PresentsIt(r) \/ OpensTheInsert(r)
  BY Zenon, <1>2
  DEF PresentsIt, OpensTheInsert, consume, throwForUnusableChallenge, LookForADevice,
      verifyDeviceAuthJws, OpenInsert
<1>3. CASE OpensSession(r)
  BY Zenon, <1>3
  DEF OpensSession, createSession, createSessionFails, setSessionCookie, setSessionCookieFails
<1>4. CASE Supersedes(r) \/ listSessionsFails(r) \/ discardCeremonySession(r) \/ Refused(r)
  BY Zenon, <1>4
  DEF Supersedes, supersedeEarlierDeviceSessions, listSessionsFails, RevokeSuperseded,
      discardCeremonySession, Refused, Refuse, Crash
<1> QED
  BY Zenon, <1>1, <1>2, <1>3, <1>4
  DEF Ceremony, BeginsCeremony, PresentsIt, OpensTheInsert, OpensSession, Supersedes, Refused

\* The account's device and its login method name each other after every step.
LEMMA DeviceAndMethod ==
  ASSUME OrphanInv, [Next]_vars
  PROVE  \/ devices' = {} /\ loginMethod' = None
         \/ \E d \in Device : devices' = {d} /\ loginMethod' = d.id
<1>0. /\ \/ devices = {} /\ loginMethod = None
         \/ \E d \in Device : devices = {d} /\ loginMethod = d.id
      /\ Types
  BY Zenon DEF OrphanInv
<1>1. CASE UNCHANGED <<devices, loginMethod>>
  BY Zenon, <1>0, <1>1
<1>2. CASE revokeDevices
  BY Zenon, <1>2 DEF revokeDevices
<1>3. ASSUME NEW r \in Requests, CommitInsert(r), devices = {}
      PROVE  \E d \in Device : devices' = {d} /\ loginMethod' = d.id
  <2> DEFINE d == [id |-> r, key |-> requests[r].key, challenge |-> requests[r].challenge]
  <2>1. d \in Device /\ d.id = r
    BY Zenon, <1>0 DEF Types, Request, Device
  <2>2. devices' = {d} /\ loginMethod' = r
    BY Zenon, <1>3 DEF CommitInsert
  <2> HIDE DEF d
  <2> QED BY Zenon, <2>1, <2>2
<1>4. ASSUME NEW r \in Requests, rollback(r), ~UNCHANGED <<devices, loginMethod>>
      PROVE  \/ devices' = {} /\ loginMethod' = None
             \/ \E d \in Device : devices' = {d} /\ loginMethod' = d.id
  <2>1. /\ devices' = {d \in devices : d.id # r}
        /\ loginMethod' = IF loginMethod = r THEN None ELSE loginMethod
    BY Zenon, <1>4 DEF rollback
  <2>2. CASE devices = {} /\ loginMethod = None
    BY Zenon, <2>1, <2>2
  <2>3. ASSUME NEW d \in Device, devices = {d}, loginMethod = d.id
        PROVE  \/ devices' = {} /\ loginMethod' = None
               \/ devices' = {d} /\ loginMethod' = d.id
    BY Zenon, <2>1, <2>3
  <2> QED BY Zenon, <1>0, <2>2, <2>3
<1>5. CASE \E r \in Requests : Ceremony(r) /\ ~CommitInsert(r) /\ ~rollback(r)
  BY Zenon, <1>1, <1>5, OthersLeaveTheDevice
<1>6. CASE ~\E r \in Requests : Ceremony(r)
  BY Zenon, <1>1, <1>2, <1>6
  DEF Next, vars, IssueEnrolmentChallenge, issueLoginChallenge, issue, SignIn, revokeByDpopKey,
      applyDeviceSessionLimits, pruneExpired, Tick
<1>7. ASSUME NEW r \in Requests, CommitInsert(r)
      PROVE  UNCHANGED <<devices, loginMethod>> \/ devices = {}
  BY Zenon, <1>7 DEF CommitInsert
<1> QED BY Zenon, <1>1, <1>3, <1>4, <1>5, <1>6, <1>7

\* The sessions in hand and the account's device, in every state.
LEMMA OrphanInvariant == Spec => []OrphanInv
<1>1. Init => OrphanInv
  <2> SUFFICES ASSUME Init PROVE OrphanInv
    OBVIOUS
  <2>1. Unissued \in Challenge /\ NoRequest \in Request
    BY Zenon, Empty
  <2> QED BY Zenon, <2>1 DEF Init, Types, OrphanInv
<1>2. OrphanInv /\ [Next]_vars => OrphanInv'
  <2> SUFFICES ASSUME OrphanInv, [Next]_vars PROVE OrphanInv'
    OBVIOUS
  <2>1. Types /\ Types'
    BY Zenon, TypesPreserved DEF OrphanInv
  <2>2. ASSUME NEW s \in sessions' PROVE requests'[s.by].step \in Holding \/ s.by \in spared'
    <3>1. CASE \E r \in Requests : Ceremony(r)
      <4>1. PICK r \in Requests : Ceremony(r)
        BY Zenon, <3>1
      <4>2. SessionsOf(r) /\ s.by \in Requests
        BY Zenon, <2>1, <2>2, <4>1, SessionsMove DEF Types, Session
      <4>3. CASE s.by # r
        BY Zenon, <2>2, <4>2, <4>3 DEF SessionsOf, OnlyRequest, OrphanInv
      <4>4. CASE s.by = r
        BY ZenonT(60), <2>1, <2>2, <4>1, <4>2, <4>4, SessionsMove DEF SessionsOf, OrphanInv
      <4> QED BY Zenon, <4>3, <4>4
    <3>2. CASE ~\E r \in Requests : Ceremony(r)
      <4>1. sessions' \subseteq sessions /\ UNCHANGED <<requests, spared>>
        BY Zenon, <3>2
        DEF Next, vars, IssueEnrolmentChallenge, issueLoginChallenge, issue, SignIn,
            revokeByDpopKey, applyDeviceSessionLimits, revokeDevices, pruneExpired, Tick
      <4> QED BY Zenon, <2>2, <4>1 DEF OrphanInv
    <3> QED BY Zenon, <3>1, <3>2
  <2> QED BY Zenon, <2>1, <2>2, DeviceAndMethod DEF OrphanInv
<1> QED BY <1>1, <1>2, PTL DEF Spec

\* A failed enrolment leaves no session behind the device it removes unless deleting it failed, and
\* the device_key login method is the active device: discardCeremonySession before rollback.
THEOREM FailedEnrolmentsLeaveNoOrphan == Spec => []EnrolmentsLeaveNoOrphan
<1>1. OrphanInv => EnrolmentsLeaveNoOrphan
  <2> SUFFICES ASSUME OrphanInv PROVE EnrolmentsLeaveNoOrphan
    OBVIOUS
  <2>1. \A s \in sessions : requests[s.by].step \in {"rollback", "refused"} => s.by \in spared
    BY Zenon DEF OrphanInv, Holding
  <2>2. {d.id : d \in devices} = {loginMethod} \ {None}
    <3>1. CASE devices = {} /\ loginMethod = None
      BY Zenon, <3>1
    <3>2. ASSUME NEW d \in Device, devices = {d}, loginMethod = d.id
          PROVE  {e.id : e \in devices} = {loginMethod} \ {None}
      <4>1. d.id # None
        BY Zenon, DevicesAssumption DEF Device
      <4> QED BY Zenon, <3>2, <4>1
    <3> QED BY Zenon, <3>1, <3>2 DEF OrphanInv
  <2> QED BY Zenon, <2>1, <2>2 DEF EnrolmentsLeaveNoOrphan
<1> QED BY <1>1, OrphanInvariant, PTL

\* The invariant holds in the empty database and every step keeps it.
LEMMA ExpiredInvariant == Spec => []ExpiredInv
<1>1. Init => ExpiredInv
  <2> SUFFICES ASSUME Init PROVE ExpiredInv
    BY Zenon
  <2>1. Unissued \in Challenge /\ NoRequest \in Request
    BY Zenon, Empty
  <2>2. Types
    BY Zenon, <2>1 DEF Init, Types
  <2>3. ConsumedInTime
    BY Zenon DEF Init, ConsumedInTime, Consumed, Unissued
  <2>4. \A r \in Requests : requests[r].step = "idle"
    BY Zenon DEF Init, NoRequest
  <2>5. \A r \in Requests : PresentsAChallenge(r) /\ KnowsItsChallenge(r)
    BY Zenon, <2>4 DEF PresentsAChallenge, KnowsItsChallenge, Ended, Owning
  <2>6. OwnsAlone
    BY Zenon, <2>4 DEF OwnsAlone, Owning
  <2>7. ExpiredIsOver
    BY Zenon DEF Init, ExpiredIsOver
  <2> QED BY Zenon, <2>2, <2>3, <2>5, <2>6, <2>7 DEF ExpiredInv
<1>2. ExpiredInv /\ [Next]_vars => ExpiredInv'
  <2> SUFFICES ASSUME ExpiredInv, [Next]_vars PROVE ExpiredInv'
    OBVIOUS
  <2>1. Types'
    BY Zenon, TypesPreserved DEF ExpiredInv
  <2> QED
    BY Zenon, <2>1, ConsumptionStaysInTime, EveryoneStaysInformed, OwningStaysAlone, OverWhenExpired
    DEF ExpiredInv
<1> QED BY <1>1, <1>2, PTL DEF Spec

\* After an enrolment was answered DEVICE_CHALLENGE_EXPIRED for a challenge and a key, no device is
\* ever registered with them: enrolVerify, the insert transaction and pruneExpired together.
THEOREM ExpiredEnrolmentsRegisterNothing == Spec => ExpiredIsFinal
<1>1. ASSUME ExpiredInv, [Next]_vars, NEW d \in devices' \ devices, <<d.challenge, d.key>> \in expired
      PROVE  FALSE
  <2>1. PICK r \in Requests : CommitInsert(r)
    <3>1. CASE ~\E r \in Requests : Ceremony(r)
      <4>1. devices' \subseteq devices
        BY Zenon, <1>1, <3>1
        DEF Next, vars, IssueEnrolmentChallenge, issueLoginChallenge, issue, SignIn,
            revokeByDpopKey, applyDeviceSessionLimits, revokeDevices, pruneExpired, Tick
      <4> QED BY Zenon, <1>1, <4>1
    <3>2. ASSUME NEW r \in Requests, Ceremony(r), ~CommitInsert(r) PROVE FALSE
      <4>1. devices' \subseteq devices
        BY Zenon, <3>2, OthersLeaveTheDevice DEF rollback
      <4> QED BY Zenon, <1>1, <4>1
    <3> QED BY Zenon, <3>1, <3>2
  <2>2. /\ requests[r].step = "commit" /\ now <= requests[r].since + InsertLimit
        /\ d.challenge = requests[r].challenge /\ d.key = requests[r].key
    BY <1>1, <2>1 DEF CommitInsert
  <2>3. /\ requests[r].challenge \in Challenges /\ requests[r].key \in Phones \cup {None}
        /\ requests[r].kind = "enrol" /\ now \in Nat /\ requests[r].since \in Nat
    BY Zenon, <1>1, <2>2 DEF ExpiredInv, Types, Request, PresentsAChallenge, KnowsItsChallenge, Ended
  <2>4. TimedOut(r)
    BY ZenonT(60), <1>1, <2>2, <2>3 DEF ExpiredInv, ExpiredIsOver, IsOver, Of
  <2>5. InsertLimit \in Nat
    BY Zenon, DevicesAssumption
  <2> QED BY SMTT(30), <2>2, <2>3, <2>4, <2>5 DEF TimedOut
<1>2. ExpiredInv /\ [Next]_vars =>
        [\A d \in devices' \ devices : <<d.challenge, d.key>> \notin expired]_vars
  BY Zenon, <1>1
<1> QED BY <1>2, ExpiredInvariant, PTL DEF Spec, ExpiredIsFinal

-----------------------------------------------------------------------------
(* The sessions of a phone.                                                *)

\* The steps before a ceremony has a session, and those that still deal with it.
Early == {"idle", "consume", "replay", "lookup", "verify", "insert", "commit", "session"}
InHand == {"cookie", "discard", "supersede", "revoke"}

\* A session is the one of the request that created it, and has a number of its own.
SessionsAreOwned ==
  /\ \A s \in sessions : s.id = requests[s.by].session /\ s.key = requests[s.by].key
  /\ \A q, r \in Requests :
       requests[q].session = requests[r].session /\ requests[q].session # 0 => q = r
  /\ \A r \in Requests :
       /\ requests[r].step \in Early => requests[r].session = 0
       /\ requests[r].step \in InHand \cup {"done"} => requests[r].session # 0

\* The ceremony will still revoke s, unless it fails.
WillRevoke(r, s) ==
  \/ requests[r].step \in {"cookie", "discard", "supersede"}
  \/ requests[r].step = "revoke" /\ s \in requests[r].todo

\* Of two sessions of a phone the ceremony of one or the other will revoke the earlier one.
EarlierIsRevoked ==
  \A s, t \in sessions :
    s.key = t.key /\ t.id > s.id /\ s.by \notin spared /\ t.by \notin spared =>
      WillRevoke(s.by, s) \/ WillRevoke(t.by, s)

\* What is revoked as superseded leaves a later session.
LaterRemains ==
  /\ \A r \in Requests : \A s \in requests[r].todo :
       s.key \notin undone => \E t \in sessions : t.key = s.key /\ t.id > s.id
  /\ \A r \in Requests :
       requests[r].session # 0 /\ requests[r].key \notin undone =>
         \E t \in sessions : t.key = requests[r].key /\ t.id >= requests[r].session

PhoneInv == Types /\ SessionsAreOwned /\ EarlierIsRevoked /\ LaterRemains

-----------------------------------------------------------------------------
(* The steps of a ceremony, as far as its session goes.                    *)

\* Request r keeps its session, its key once it has one, and what it has to revoke at most.
KeepsItsSession(r) ==
  /\ OnlyRequest(r) /\ requests'[r].session = requests[r].session
  /\ requests[r].session # 0 => requests'[r].key = requests[r].key
  /\ requests'[r].todo \subseteq requests[r].todo

\* The ceremony goes on without revoking anything.
GoesOnQuietly(r) ==
  /\ UNCHANGED <<sessions, spared, undone>> /\ KeepsItsSession(r)
  /\ \/ /\ requests[r].step \notin InHand /\ requests'[r].step \notin InHand \cup {"done"}
        /\ requests'[r].step \in Early => requests[r].step \in Early
     \/ requests[r].step = "cookie" /\ requests'[r].step \in {"discard", "supersede"}

CreatesIt(r) ==
  /\ requests[r].step = "session" /\ requests'[r].step = "cookie" /\ OnlyRequest(r)
  /\ requests'[r].key = requests[r].key /\ requests'[r].todo = requests[r].todo
  /\ requests'[r].session \in Fresh
  /\ sessions' = sessions \cup {[id |-> requests'[r].session, key |-> requests[r].key, by |-> r]}
  /\ UNCHANGED <<spared, undone>>

DiscardsIt(r) ==
  /\ requests[r].step = "discard" /\ requests'[r].step \in {"rollback", "refused"}
  /\ KeepsItsSession(r)
  /\ \/ /\ sessions' = {s \in sessions : s.by # r} /\ spared' = spared
        /\ undone' = undone \cup {requests[r].key}
     \/ UNCHANGED <<sessions, undone>> /\ spared' = spared \cup {r}

GivesUp(r) ==
  /\ KeepsItsSession(r) /\ UNCHANGED <<sessions, undone>>
  /\ \/ requests'[r].step = "crashed"
     \/ requests'[r].step = "done" /\ requests[r].step = "supersede"
  /\ \/ spared' = spared \cup {r}
     \/ requests[r].session = 0 /\ spared' = spared

ListsThem(r) ==
  /\ requests[r].step = "supersede" /\ UNCHANGED <<sessions, spared, undone>>
  /\ OnlyRequest(r) /\ KeepsItsInput(r) /\ requests'[r].session = requests[r].session
  /\ requests'[r].todo = sessionsToSupersede(r)
  /\ \/ requests'[r].step = "revoke"
     \/ requests'[r].step = "done" /\ sessionsToSupersede(r) = {}

RevokesOne(r, s) ==
  /\ requests[r].step = "revoke" /\ s \in requests[r].todo /\ undone' = undone
  /\ OnlyRequest(r) /\ KeepsItsInput(r) /\ requests'[r].session = requests[r].session
  /\ requests'[r].todo = requests[r].todo \ {s}
  /\ \/ requests'[r].step = "revoke"
     \/ requests'[r].step = "done" /\ requests[r].todo = {s}
  /\ \/ sessions' = sessions \ {s} /\ UNCHANGED spared
     \/ spared' = spared \cup {s.by} /\ UNCHANGED sessions

\* What a request that moves on or ends has left to revoke.
LEMMA LeftToRevoke ==
  ASSUME requests \in [Requests -> Request], NEW r \in Requests, NEW step
  PROVE  /\ Goes(r, step) => requests'[r].todo = requests[r].todo
         /\ Ends(r, step) => requests'[r].todo = {}
<1>1. ASSUME Goes(r, step) PROVE requests'[r].todo = requests[r].todo
  BY Zenon, <1>1 DEF Goes, Request
<1>2. ASSUME Ends(r, step) PROVE requests'[r].todo = {}
  BY Zenon, <1>2 DEF Ends, Request
<1> QED BY Zenon, <1>1, <1>2

LEMMA GoesKeeps ==
  ASSUME requests \in [Requests -> Request], NEW r \in Requests, NEW step \in Steps,
         Goes(r, step) \/ Ends(r, step)
  PROVE  KeepsItsSession(r) /\ requests'[r].step = step /\ OnlyRequest(r) /\ KeepsItsInput(r)
<1>1. CASE Goes(r, step)
  <2>1. /\ OnlyRequest(r) /\ KeepsItsInput(r) /\ requests'[r].session = requests[r].session
        /\ requests'[r].step = step
    BY Zenon, <1>1, GoesOn
  <2>2. requests'[r].todo \subseteq requests[r].todo
    BY Zenon, <1>1, LeftToRevoke
  <2> QED BY Zenon, <2>1, <2>2 DEF KeepsItsSession, KeepsItsInput
<1>2. CASE Ends(r, step)
  <2>1. /\ OnlyRequest(r) /\ KeepsItsInput(r) /\ requests'[r].session = requests[r].session
        /\ requests'[r].step = step
    BY Zenon, <1>2, EndsWith
  <2>2. requests'[r].todo = {}
    BY Zenon, <1>2, LeftToRevoke
  <2>3. requests'[r].todo \subseteq requests[r].todo
    BY Zenon, <2>2
  <2> QED BY Zenon, <2>1, <2>3 DEF KeepsItsSession, KeepsItsInput
<1> QED BY Zenon, <1>1, <1>2

\* Up to its session, and when its device is removed again, a ceremony goes on quietly.
LEMMA EarlyStepsAreQuiet ==
  ASSUME Types, SessionsAreOwned, NEW r \in Requests,
         \/ BeginsCeremony(r) \/ PresentsIt(r) \/ OpensTheInsert(r) \/ Refuse(r)
         \/ CommitInsert(r) \/ createSessionFails(r) \/ rollback(r)
         \/ setSessionCookie(r) \/ setSessionCookieFails(r)
  PROVE  GoesOnQuietly(r)
<1>0. requests \in [Requests -> Request] /\ requests[r] \in Request
  BY Zenon DEF Types
<1>1. CASE BeginsCeremony(r)
  <2>1. PICK p \in Phones, c \in Challenges : enrolVerify(r, p, c) \/ loginVerify(r, p, c)
    BY Zenon, <1>1 DEF BeginsCeremony
  <2>2. UNCHANGED <<sessions, spared, undone>> /\ requests[r].step = "idle"
    BY Zenon, <2>1 DEF enrolVerify, loginVerify
  <2>3. PICK kind \in {"enrol", "login"}, d \in Requests \cup {None}, step \in {"consume", "refused"} :
          Starts(r, kind, p, c, d, step)
    <3>1. CASE enrolVerify(r, p, c)
      BY Zenon, <3>1 DEF enrolVerify
    <3>2. CASE loginVerify(r, p, c)
      <4>1. \A d \in findByDpopJkt(p) : d.id \in Requests
        BY Zenon DEF findByDpopJkt, Device, Types
      <4> QED BY Zenon, <3>2, <4>1 DEF loginVerify
    <3> QED BY Zenon, <2>1, <3>1, <3>2
  <2>4. OnlyRequest(r) /\ requests'[r].session = 0 /\ requests'[r].todo = {}
        /\ requests'[r].step = step
    BY Zenon, <1>0, <2>3 DEF Starts, OnlyRequest
  <2>5. requests[r].session = 0
    BY Zenon, <2>2 DEF SessionsAreOwned, Early
  <2>6. KeepsItsSession(r)
    BY Zenon, <2>4, <2>5 DEF KeepsItsSession
  <2> QED BY Zenon, <2>2, <2>3, <2>4, <2>6 DEF GoesOnQuietly, Early, InHand
<1>2. CASE PresentsIt(r) \/ verifyDeviceAuthJws(r) \/ Refuse(r) \/ createSessionFails(r)
           \/ setSessionCookie(r) \/ setSessionCookieFails(r) \/ rollback(r)
  <2>1. UNCHANGED <<sessions, spared, undone>>
    BY Zenon, <1>2
    DEF PresentsIt, consume, throwForUnusableChallenge, LookForADevice, verifyDeviceAuthJws,
        Refuse, createSessionFails, setSessionCookie, setSessionCookieFails, rollback
  <2>2. \E step \in {"verify", "replay", "lookup", "session", "insert", "refused", "rollback"} :
          /\ Goes(r, step) \/ Ends(r, step)
          /\ requests[r].step \in (Early \ {"idle"}) \cup {"rollback"}
          /\ step \in Early => requests[r].step # "rollback"
        \/ \E st \in {"supersede", "discard"} : Goes(r, st) /\ requests[r].step = "cookie"
    <3>1. CASE PresentsIt(r)
      BY Zenon, <3>1
      DEF PresentsIt, consume, throwForUnusableChallenge, LookForADevice, Early
    <3>2. CASE verifyDeviceAuthJws(r) \/ Refuse(r) \/ createSessionFails(r)
      BY Zenon, <3>2 DEF verifyDeviceAuthJws, Refuse, createSessionFails, Early
    <3>3. CASE setSessionCookie(r) \/ setSessionCookieFails(r) \/ rollback(r)
      BY Zenon, <3>3 DEF setSessionCookie, setSessionCookieFails, rollback, Early
    <3> QED BY Zenon, <1>2, <3>1, <3>2, <3>3
  <2>3. ASSUME NEW step \in {"verify", "replay", "lookup", "session", "insert", "refused", "rollback"},
               Goes(r, step) \/ Ends(r, step),
               requests[r].step \in (Early \ {"idle"}) \cup {"rollback"},
               step \in Early => requests[r].step # "rollback"
        PROVE  GoesOnQuietly(r)
    <3>1. KeepsItsSession(r) /\ requests'[r].step = step
      BY Zenon, <1>0, <2>3, GoesKeeps DEF Steps
    <3> QED BY Zenon, <2>1, <2>3, <3>1 DEF GoesOnQuietly, Early, InHand
  <2>4. ASSUME NEW step \in {"supersede", "discard"}, Goes(r, step), requests[r].step = "cookie"
        PROVE  GoesOnQuietly(r)
    <3>1. KeepsItsSession(r) /\ requests'[r].step = step
      BY Zenon, <1>0, <2>4, GoesKeeps DEF Steps
    <3> QED BY Zenon, <2>1, <2>4, <3>1 DEF GoesOnQuietly
  <2> QED BY Zenon, <2>2, <2>3, <2>4
<1>3. CASE OpenInsert(r) \/ CommitInsert(r)
  <2>1. UNCHANGED <<sessions, spared, undone>> /\ requests[r].step \in {"insert", "commit"}
    BY Zenon, <1>3 DEF OpenInsert, CommitInsert
  <2>2. CASE Ends(r, "refused")
    <3>1. KeepsItsSession(r) /\ requests'[r].step = "refused"
      BY Zenon, <1>0, <2>2, GoesKeeps DEF Steps
    <3> QED BY Zenon, <2>1, <3>1 DEF GoesOnQuietly, Early, InHand
  <2>3. ASSUME NEW step \in {"commit", "session"}, NEW m,
               requests' = [requests EXCEPT ![r].step = step, ![r].since = m]
        PROVE  GoesOnQuietly(r)
    <3>1. OnlyRequest(r) /\ requests'[r].session = requests[r].session
          /\ requests'[r].key = requests[r].key /\ requests'[r].todo = requests[r].todo
          /\ requests'[r].step = step
      BY Zenon, <1>0, <2>3 DEF Request, OnlyRequest
    <3> QED BY Zenon, <2>1, <3>1 DEF GoesOnQuietly, KeepsItsSession, Early, InHand
  <2> QED BY Zenon, <1>3, <2>2, <2>3 DEF OpenInsert, CommitInsert
<1> QED BY Zenon, <1>1, <1>2, <1>3 DEF OpensTheInsert

\* Every step of a ceremony is one of these.
LEMMA CeremonySteps ==
  ASSUME Types, SessionsAreOwned, NEW r \in Requests, Ceremony(r)
  PROVE  \/ GoesOnQuietly(r) \/ CreatesIt(r) \/ DiscardsIt(r) \/ GivesUp(r) \/ ListsThem(r)
         \/ \E s \in Session : RevokesOne(r, s)
<1>0. requests \in [Requests -> Request] /\ requests[r] \in Request
  BY Zenon DEF Types
<1>1. ASSUME createSession(r) PROVE CreatesIt(r)
  <2>1. PICK n \in Fresh :
          /\ sessions' = sessions \cup {[id |-> n, key |-> requests[r].key, by |-> r]}
          /\ requests' = [requests EXCEPT ![r].step = "cookie", ![r].session = n]
    BY Zenon, <1>1 DEF createSession
  <2>2. /\ requests'[r].session = n /\ requests'[r].step = "cookie" /\ OnlyRequest(r)
        /\ requests'[r].key = requests[r].key /\ requests'[r].todo = requests[r].todo
    BY Zenon, <1>0, <2>1 DEF Request, OnlyRequest
  <2>3. requests[r].step = "session" /\ UNCHANGED <<spared, undone>>
    BY Zenon, <1>1 DEF createSession
  <2> QED BY Zenon, <2>1, <2>2, <2>3 DEF CreatesIt
<1>2. ASSUME discardCeremonySession(r) PROVE DiscardsIt(r)
  <2>1. PICK step \in {"rollback", "refused"} : Goes(r, step) \/ Ends(r, step)
    BY Zenon, <1>2 DEF discardCeremonySession
  <2>2. KeepsItsSession(r) /\ requests'[r].step = step
    BY Zenon, <1>0, <2>1, GoesKeeps DEF Steps
  <2> QED BY Zenon, <1>2, <2>1, <2>2 DEF discardCeremonySession, DiscardsIt
<1>3. ASSUME listSessionsFails(r) \/ Crash(r) PROVE GivesUp(r)
  <2>1. PICK step \in {"done", "crashed"} :
          Ends(r, step) /\ (step = "done" => requests[r].step = "supersede")
    BY Zenon, <1>3 DEF listSessionsFails, Crash
  <2>2. KeepsItsSession(r) /\ requests'[r].step = step
    BY Zenon, <1>0, <2>1, GoesKeeps DEF Steps
  <2>3. /\ UNCHANGED <<sessions, undone>>
        /\ spared' = spared \cup {r} \/ (requests[r].session = 0 /\ spared' = spared)
    BY Zenon, <1>3 DEF listSessionsFails, Crash
  <2> QED BY Zenon, <2>1, <2>2, <2>3 DEF GivesUp
<1>4. ASSUME supersedeEarlierDeviceSessions(r) PROVE ListsThem(r)
  <2> DEFINE X == sessionsToSupersede(r)
  <2>1. requests[r].step = "supersede" /\ UNCHANGED <<sessions, spared, undone>>
    BY Zenon, <1>4 DEF supersedeEarlierDeviceSessions
  <2>2. CASE X = {} /\ Ends(r, "done")
    <3>1. OnlyRequest(r) /\ KeepsItsInput(r) /\ requests'[r].session = requests[r].session
          /\ requests'[r].step = "done" /\ requests'[r].todo = {}
      BY Zenon, <1>0, <2>2, EndsWith, LeftToRevoke DEF Steps
    <3> QED BY Zenon, <2>1, <2>2, <3>1 DEF ListsThem
  <2>3. CASE requests' = [requests EXCEPT ![r].step = "revoke", ![r].todo = X]
    <3> HIDE DEF X
    <3>1. OnlyRequest(r) /\ requests'[r].session = requests[r].session
          /\ requests'[r].step = "revoke" /\ requests'[r].todo = X
      BY Zenon, <1>0, <2>3 DEF Request, OnlyRequest
    <3>2. KeepsItsInput(r)
      BY Zenon, <1>0, <2>3 DEF Request, KeepsItsInput
    <3> QED BY Zenon, <2>1, <3>1, <3>2 DEF ListsThem, X
  <2> QED BY Zenon, <1>4, <2>2, <2>3 DEF supersedeEarlierDeviceSessions
<1>5. ASSUME RevokeSuperseded(r) PROVE \E s \in Session : RevokesOne(r, s)
  <2>1. PICK s \in requests[r].todo :
          /\ IF requests[r].todo = {s} THEN Ends(r, "done")
             ELSE requests' = [requests EXCEPT ![r].todo = @ \ {s}]
          /\ \/ sessions' = sessions \ {s} /\ UNCHANGED spared
             \/ spared' = spared \cup {s.by} /\ UNCHANGED sessions
    BY Zenon, <1>5 DEF RevokeSuperseded
  <2>2. requests[r].step = "revoke" /\ undone' = undone
    BY Zenon, <1>5 DEF RevokeSuperseded
  <2>3. s \in Session
    BY Zenon, <1>0, <2>1 DEF Request
  <2>4. CASE requests[r].todo = {s} /\ Ends(r, "done")
    <3>1. OnlyRequest(r) /\ KeepsItsInput(r) /\ requests'[r].session = requests[r].session
          /\ requests'[r].step = "done" /\ requests'[r].todo = {}
      BY Zenon, <1>0, <2>4, EndsWith, LeftToRevoke DEF Steps
    <3>2. requests'[r].todo = requests[r].todo \ {s}
      BY Zenon, <2>4, <3>1
    <3> QED BY Zenon, <2>1, <2>2, <2>3, <2>4, <3>1, <3>2 DEF RevokesOne
  <2>5. CASE requests' = [requests EXCEPT ![r].todo = @ \ {s}]
    <3>1. OnlyRequest(r) /\ requests'[r].session = requests[r].session
          /\ requests'[r].step = "revoke" /\ requests'[r].todo = requests[r].todo \ {s}
      BY Zenon, <1>0, <2>2, <2>5 DEF Request, OnlyRequest
    <3>2. KeepsItsInput(r)
      BY Zenon, <1>0, <2>5 DEF Request, KeepsItsInput
    <3> QED BY Zenon, <2>1, <2>2, <2>3, <3>1, <3>2 DEF RevokesOne
  <2> QED BY Zenon, <2>1, <2>4, <2>5
<1> QED
  BY Zenon, <1>1, <1>2, <1>3, <1>4, <1>5, EarlyStepsAreQuiet
  DEF Ceremony, BeginsCeremony, PresentsIt, OpensTheInsert

\* What is not a step of a ceremony ends sessions for another reason, if it ends any.
LEMMA OtherStepsEndThem ==
  ASSUME ~\E r \in Requests : Ceremony(r), [Next]_vars
  PROVE  /\ UNCHANGED <<requests, spared>>
         /\ sessions' \subseteq sessions /\ undone \subseteq undone'
         /\ \A s \in sessions : s \notin sessions' => s.key \in undone'
<1>1. CASE \E gone \in SUBSET sessions : revokeByDpopKey(gone)
  BY Zenon, <1>1 DEF revokeByDpopKey
<1>2. CASE \E s \in sessions : applyDeviceSessionLimits(s)
  BY Zenon, <1>2 DEF applyDeviceSessionLimits
<1>3. CASE UNCHANGED <<requests, spared, sessions, undone>>
  BY Zenon, <1>3
<1>4. ASSUME \/ \E p \in Phones, c \in Challenges :
                  IssueEnrolmentChallenge(c, p) \/ issueLoginChallenge(c, p)
             \/ \E p \in Phones : SignIn(p)
             \/ revokeDevices \/ pruneExpired \/ Tick \/ UNCHANGED vars
      PROVE  UNCHANGED <<requests, spared, sessions, undone>>
  BY Zenon, <1>4
  DEF IssueEnrolmentChallenge, issueLoginChallenge, issue, SignIn, revokeDevices, pruneExpired,
      Tick, vars
<1> QED BY Zenon, <1>1, <1>2, <1>3, <1>4 DEF Next

-----------------------------------------------------------------------------
(* One session for each phone.                                             *)

LEMMA TypedSessions ==
  ASSUME Types
  PROVE  /\ \A s \in sessions : /\ s \in Session /\ s.id \in Nat /\ s.id # 0 /\ s.by \in Requests
         /\ \A r \in Requests : requests[r].session \in Nat /\ requests[r].todo \subseteq Session
         /\ \A s \in Session : s.id \in Nat /\ s.by \in Requests
<1>1. SessionIds \subseteq Nat \ {0}
  BY Zenon, DevicesAssumption
<1>2. \A s \in Session : s.id \in SessionIds /\ s.by \in Requests
  BY Zenon DEF Session
<1>3. \A r \in Requests : requests[r] \in Request
  BY Zenon DEF Types
<1>4. \A q \in Request : q.session \in SessionIds \cup {0} /\ q.todo \in SUBSET Session
  BY Zenon DEF Request
<1>5. sessions \subseteq Session
  BY Zenon DEF Types
<1>6. \A s \in Session : s.id \in Nat /\ s.id # 0
  BY Zenon, <1>1, <1>2
<1>7. \A r \in Requests : requests[r].session \in Nat /\ requests[r].todo \subseteq Session
  <2>1. \A n \in SessionIds \cup {0} : n \in Nat
    BY SMTT(60), <1>1
  <2> QED BY Zenon, <1>3, <1>4, <2>1
<1> QED BY Zenon, <1>2, <1>5, <1>6, <1>7

\* A step after which the numbers are the same keeps the sessions their owners'.
LEMMA SameNumbers ==
  ASSUME Types, SessionsAreOwned, NEW r \in Requests, OnlyRequest(r), sessions' \subseteq sessions,
         requests'[r].session = requests[r].session,
         requests[r].session # 0 => requests'[r].key = requests[r].key,
         requests'[r].step \in Early => requests[r].session = 0,
         requests'[r].step \in InHand \cup {"done"} => requests[r].session # 0
  PROVE  SessionsAreOwned'
<1>1. \A q \in Requests : requests'[q].session = requests[q].session
  BY Zenon DEF OnlyRequest
<1>2. \A q \in Requests : requests[q].session # 0 => requests'[q].key = requests[q].key
  BY Zenon DEF OnlyRequest
<1>3. ASSUME NEW s \in sessions'
      PROVE  s.id = requests'[s.by].session /\ s.key = requests'[s.by].key
  <2>1. s \in sessions /\ s.by \in Requests /\ s.id # 0
    BY Zenon, <1>3, TypedSessions
  <2>2. s.id = requests[s.by].session /\ s.key = requests[s.by].key
    BY Zenon, <2>1 DEF SessionsAreOwned
  <2> QED BY Zenon, <1>1, <1>2, <2>1, <2>2
<1>4. \A q, p \in Requests :
        requests'[q].session = requests'[p].session /\ requests'[q].session # 0 => q = p
  BY Zenon, <1>1 DEF SessionsAreOwned
<1>5. ASSUME NEW q \in Requests
      PROVE  /\ requests'[q].step \in Early => requests'[q].session = 0
             /\ requests'[q].step \in InHand \cup {"done"} => requests'[q].session # 0
  <2>1. CASE q = r
    BY Zenon, <1>1, <2>1
  <2>2. CASE q # r
    <3>1. requests'[q] = requests[q]
      BY Zenon, <2>2 DEF OnlyRequest
    <3>2. /\ requests[q].step \in Early => requests[q].session = 0
          /\ requests[q].step \in InHand \cup {"done"} => requests[q].session # 0
      BY Zenon DEF SessionsAreOwned
    <3> QED BY SMTT(60), <3>1, <3>2
  <2> QED BY Zenon, <2>1, <2>2
<1> QED BY Zenon, <1>3, <1>4, <1>5 DEF SessionsAreOwned

LEMMA NewNumber ==
  ASSUME Types, SessionsAreOwned, NEW r \in Requests, CreatesIt(r)
  PROVE  SessionsAreOwned' /\ requests[r].session = 0 /\ requests'[r].session \in Nat \ {0}
         /\ \A s \in sessions : s.by # r
<1> DEFINE n == requests'[r].session
           x == [id |-> n, key |-> requests[r].key, by |-> r]
<1>1. /\ requests'[r].step = "cookie" /\ OnlyRequest(r) /\ requests'[r].key = requests[r].key
      /\ n \in Fresh /\ sessions' = sessions \cup {x} /\ requests[r].step = "session"
  BY Zenon DEF CreatesIt
<1>2. n \in Nat \ {0} /\ \A q \in Requests : requests[q].session # n
  <2>1. n \in SessionIds /\ \A q \in Requests : requests[q].session # n
    BY Zenon, <1>1 DEF Fresh
  <2> QED BY Zenon, <2>1, DevicesAssumption
<1>3. requests[r].session = 0
  BY Zenon, <1>1 DEF SessionsAreOwned, Early
<1>4. \A s \in sessions : s.by # r
  BY Zenon, <1>3, TypedSessions DEF SessionsAreOwned
<1>5. ASSUME NEW s \in sessions'
      PROVE  s.id = requests'[s.by].session /\ s.key = requests'[s.by].key
  <2>1. CASE s \in sessions
    <3>1. s.by \in Requests /\ s.by # r
      BY Zenon, <1>4, <2>1, TypedSessions
    <3> QED BY Zenon, <1>1, <2>1, <3>1 DEF SessionsAreOwned, OnlyRequest
  <2>2. CASE s = x
    BY Zenon, <1>1, <2>2
  <2> QED BY Zenon, <1>1, <1>5, <2>1, <2>2
<1>6. ASSUME NEW q \in Requests, NEW p \in Requests, requests'[q].session = requests'[p].session,
             requests'[q].session # 0
      PROVE  q = p
  <2>1. CASE q # r /\ p # r
    BY Zenon, <1>1, <1>6, <2>1 DEF SessionsAreOwned, OnlyRequest
  <2>2. CASE q = r \/ p = r
    BY Zenon, <1>1, <1>2, <1>6, <2>2 DEF OnlyRequest
  <2> QED BY Zenon, <2>1, <2>2
<1>7. ASSUME NEW q \in Requests
      PROVE  /\ requests'[q].step \in Early => requests'[q].session = 0
             /\ requests'[q].step \in InHand \cup {"done"} => requests'[q].session # 0
  <2>1. CASE q # r
    <3>1. requests'[q] = requests[q]
      BY Zenon, <1>1, <2>1 DEF OnlyRequest
    <3>2. /\ requests[q].step \in Early => requests[q].session = 0
          /\ requests[q].step \in InHand \cup {"done"} => requests[q].session # 0
      BY Zenon DEF SessionsAreOwned
    <3> QED BY Zenon, <3>1, <3>2
  <2>2. CASE q = r
    BY Zenon, <1>1, <1>2, <2>2 DEF Early
  <2> QED BY Zenon, <2>1, <2>2
<1>8. SessionsAreOwned'
  BY Zenon, <1>5, <1>6, <1>7 DEF SessionsAreOwned
<1> QED BY Zenon, <1>2, <1>3, <1>4, <1>8

LEMMA OwnedStays == ASSUME Types, SessionsAreOwned, [Next]_vars PROVE SessionsAreOwned'
<1>1. CASE ~\E r \in Requests : Ceremony(r)
  <2>1. UNCHANGED requests /\ sessions' \subseteq sessions
    BY Zenon, <1>1, OtherStepsEndThem
  <2> QED BY Zenon, <2>1 DEF SessionsAreOwned
<1>2. ASSUME NEW r \in Requests, Ceremony(r) PROVE SessionsAreOwned'
  <2>0. /\ requests[r].step \in Early => requests[r].session = 0
        /\ requests[r].step \in InHand \cup {"done"} => requests[r].session # 0
    BY Zenon DEF SessionsAreOwned
  <2>1. CASE GoesOnQuietly(r)
    <3>1. /\ requests'[r].step \in Early => requests[r].step \in Early
          /\ requests'[r].step \in InHand \cup {"done"} => requests[r].step \in InHand
      BY Zenon, <2>1 DEF GoesOnQuietly, Early, InHand
    <3>2. sessions' \subseteq sessions /\ KeepsItsSession(r)
      BY Zenon, <2>1 DEF GoesOnQuietly
    <3> QED BY Zenon, <2>0, <3>1, <3>2, SameNumbers DEF KeepsItsSession
  <2>2. CASE CreatesIt(r)
    BY Zenon, <2>2, NewNumber
  <2>3. CASE DiscardsIt(r) \/ GivesUp(r)
    <3>1. /\ requests'[r].step \notin Early
          /\ requests'[r].step \in InHand \cup {"done"} => requests[r].step \in InHand
      BY Zenon, <2>3 DEF DiscardsIt, GivesUp, Early, InHand
    <3>2. sessions' \subseteq sessions /\ KeepsItsSession(r)
      BY Zenon, <2>3 DEF DiscardsIt, GivesUp
    <3> QED BY Zenon, <2>0, <3>1, <3>2, SameNumbers DEF KeepsItsSession
  <2>4. CASE ListsThem(r) \/ \E s \in Session : RevokesOne(r, s)
    <3>1. requests'[r].step \notin Early /\ requests[r].step \in InHand
      BY Zenon, <2>4 DEF ListsThem, RevokesOne, Early, InHand
    <3>2. /\ sessions' \subseteq sessions /\ OnlyRequest(r) /\ KeepsItsInput(r)
          /\ requests'[r].session = requests[r].session
      BY Zenon, <2>4 DEF ListsThem, RevokesOne
    <3> QED BY Zenon, <2>0, <3>1, <3>2, SameNumbers DEF KeepsItsInput
  <2> QED BY Zenon, <1>2, <2>1, <2>2, <2>3, <2>4, CeremonySteps
<1> QED BY Zenon, <1>1, <1>2

\* Of two sessions that stay, the ceremony that was to revoke the earlier one still will, if the
\* one that takes a step does.
LEMMA StillRevoked ==
  ASSUME Types, EarlierIsRevoked, NEW r \in Requests, OnlyRequest(r), sessions' \subseteq sessions,
         spared \subseteq spared',
         \A s, t \in sessions' :
           /\ s.key = t.key /\ t.id > s.id /\ s.by \notin spared' /\ t.by \notin spared'
           /\ r = s.by \/ r = t.by
           /\ WillRevoke(r, s)
           => WillRevoke(r, s)'
  PROVE  EarlierIsRevoked'
<1> SUFFICES ASSUME NEW s \in sessions', NEW t \in sessions', s.key = t.key, t.id > s.id,
                    s.by \notin spared', t.by \notin spared'
             PROVE  WillRevoke(s.by, s)' \/ WillRevoke(t.by, s)'
  BY Zenon DEF EarlierIsRevoked
<1>1. WillRevoke(s.by, s) \/ WillRevoke(t.by, s)
  BY Zenon DEF EarlierIsRevoked
<1>2. ASSUME NEW q \in Requests, q = s.by \/ q = t.by, WillRevoke(q, s)
      PROVE  WillRevoke(q, s)'
  <2>1. CASE q = r
    BY Zenon, <1>2, <2>1
  <2>2. CASE q # r
    <3>1. requests'[q] = requests[q]
      BY Zenon, <2>2 DEF OnlyRequest
    <3> QED BY Zenon, <1>2, <3>1 DEF WillRevoke
  <2> QED BY Zenon, <2>1, <2>2
<1>3. s.by \in Requests /\ t.by \in Requests
  BY Zenon, TypedSessions
<1> QED BY Zenon, <1>1, <1>2, <1>3

LEMMA EarlierStays ==
  ASSUME Types, SessionsAreOwned, EarlierIsRevoked, [Next]_vars
  PROVE  EarlierIsRevoked'
<1>1. CASE ~\E r \in Requests : Ceremony(r)
  <2>1. UNCHANGED <<requests, spared>> /\ sessions' \subseteq sessions
    BY Zenon, <1>1, OtherStepsEndThem
  <2> QED BY Zenon, <2>1 DEF EarlierIsRevoked, WillRevoke
<1>2. ASSUME NEW r \in Requests, Ceremony(r) PROVE EarlierIsRevoked'
  <2>1. CASE GoesOnQuietly(r)
    <3>1. UNCHANGED <<sessions, spared>> /\ OnlyRequest(r)
      BY Zenon, <2>1 DEF GoesOnQuietly, KeepsItsSession
    <3>2. ASSUME NEW s, WillRevoke(r, s) PROVE WillRevoke(r, s)'
      BY Zenon, <2>1, <3>2 DEF GoesOnQuietly, WillRevoke, InHand
    <3> QED BY Zenon, <3>1, <3>2, StillRevoked
  <2>2. CASE CreatesIt(r)
    <3> DEFINE x == [id |-> requests'[r].session, key |-> requests[r].key, by |-> r]
    <3>1. /\ sessions' = sessions \cup {x} /\ spared' = spared /\ OnlyRequest(r)
          /\ requests'[r].step = "cookie" /\ x.by = r
      BY Zenon, <2>2 DEF CreatesIt
    <3> HIDE DEF x
    <3>2. \A s : WillRevoke(r, s)'
      BY Zenon, <3>1 DEF WillRevoke
    <3>3. \A q \in Requests : \A s : WillRevoke(q, s) => WillRevoke(q, s)'
      BY Zenon, <3>1, <3>2 DEF WillRevoke, OnlyRequest
    <3> SUFFICES ASSUME NEW s \in sessions', NEW t \in sessions', s.key = t.key, t.id > s.id,
                        s.by \notin spared', t.by \notin spared'
                 PROVE  WillRevoke(s.by, s)' \/ WillRevoke(t.by, s)'
      BY Zenon DEF EarlierIsRevoked
    <3>4. CASE s = x \/ t = x
      BY Zenon, <3>1, <3>2, <3>4
    <3>5. CASE s \in sessions /\ t \in sessions
      <4>1. WillRevoke(s.by, s) \/ WillRevoke(t.by, s)
        BY Zenon, <3>1, <3>5 DEF EarlierIsRevoked
      <4>2. s.by \in Requests /\ t.by \in Requests
        BY Zenon, <3>5, TypedSessions
      <4> QED BY Zenon, <3>3, <4>1, <4>2
    <3> QED BY Zenon, <3>1, <3>4, <3>5
  <2>3. CASE DiscardsIt(r)
    <3>1. /\ OnlyRequest(r) /\ sessions' \subseteq sessions /\ spared \subseteq spared'
          /\ r \in spared' \/ \A s \in sessions' : s.by # r
      BY Zenon, <2>3 DEF DiscardsIt, KeepsItsSession
    <3> QED BY Zenon, <3>1, StillRevoked
  <2>4. CASE GivesUp(r)
    <3>1. /\ OnlyRequest(r) /\ sessions' = sessions /\ spared \subseteq spared'
          /\ r \in spared' \/ requests[r].session = 0
      BY Zenon, <2>4 DEF GivesUp, KeepsItsSession
    <3>2. ASSUME requests[r].session = 0, NEW s \in sessions PROVE s.by # r
      <4>1. s.id # 0
        BY Zenon, <3>2, TypedSessions
      <4>2. s.id = requests[s.by].session
        BY Zenon, <3>2 DEF SessionsAreOwned
      <4> QED BY Zenon, <3>2, <4>1, <4>2
    <3>3. r \in spared' \/ \A s \in sessions' : s.by # r
      BY Zenon, <3>1, <3>2
    <3>4. /\ OnlyRequest(r) /\ sessions' \subseteq sessions /\ spared \subseteq spared'
          /\ r \in spared' \/ \A s \in sessions' : s.by # r
      BY Zenon, <3>1, <3>3
    <3> QED BY Zenon, <3>4, StillRevoked
  <2>5. CASE ListsThem(r)
    <3>1. /\ OnlyRequest(r) /\ sessions' = sessions /\ spared' = spared
          /\ requests'[r].todo = sessionsToSupersede(r)
          /\ requests'[r].step = "revoke" \/ sessionsToSupersede(r) = {}
      BY Zenon, <2>5 DEF ListsThem
    <3>2. ASSUME NEW s \in sessions', NEW t \in sessions', s.key = t.key, t.id > s.id,
                 r = s.by \/ r = t.by
          PROVE  WillRevoke(r, s)'
      <4>1. s \in sessions /\ t \in sessions /\ s.key = requests[r].key /\ t.key = requests[r].key
        BY Zenon, <3>1, <3>2 DEF SessionsAreOwned
      <4>2. s \in sessionsToSupersede(r)
        BY Zenon, <3>2, <4>1 DEF sessionsToSupersede, isNewer
      <4> QED BY Zenon, <3>1, <4>2 DEF WillRevoke
    <3> QED BY Zenon, <3>1, <3>2, StillRevoked
  <2>6. ASSUME NEW u \in Session, RevokesOne(r, u) PROVE EarlierIsRevoked'
    <3>1. /\ OnlyRequest(r) /\ sessions' \subseteq sessions /\ spared \subseteq spared'
          /\ requests'[r].todo = requests[r].todo \ {u} /\ requests[r].step = "revoke"
          /\ requests'[r].step = "revoke" \/ requests[r].todo = {u}
          /\ u.by \in spared' \/ u \notin sessions'
      BY Zenon, <2>6 DEF RevokesOne
    <3>2. ASSUME NEW s \in sessions', s.by \notin spared', WillRevoke(r, s)
          PROVE  WillRevoke(r, s)'
      <4>1. s # u /\ s \in requests[r].todo
        BY Zenon, <3>1, <3>2 DEF WillRevoke
      <4>2. s \in requests'[r].todo /\ requests'[r].step = "revoke"
        BY Zenon, <3>1, <4>1
      <4> QED BY Zenon, <4>2 DEF WillRevoke
    <3> QED BY Zenon, <3>1, <3>2, StillRevoked
  <2> QED BY Zenon, <1>2, <2>1, <2>2, <2>3, <2>4, <2>5, <2>6, CeremonySteps
<1> QED BY Zenon, <1>1, <1>2

\* A step that removes no session and gives no new number or thing to revoke.
LEMMA LaterStillRemains ==
  ASSUME Types, SessionsAreOwned, LaterRemains, NEW r \in Requests, KeepsItsSession(r),
         \A t \in sessions : t \in sessions' \/ t.key \in undone', undone \subseteq undone'
  PROVE  LaterRemains'
<1>1. ASSUME NEW q \in Requests, NEW s \in requests'[q].todo, s.key \notin undone'
      PROVE  \E t \in sessions' : t.key = s.key /\ t.id > s.id
  <2>1. s \in requests[q].todo /\ s.key \notin undone
    BY Zenon, <1>1 DEF KeepsItsSession, OnlyRequest
  <2>2. PICK t \in sessions : t.key = s.key /\ t.id > s.id
    BY Zenon, <2>1 DEF LaterRemains
  <2> QED BY Zenon, <1>1, <2>2
<1>2. ASSUME NEW q \in Requests, requests'[q].session # 0, requests'[q].key \notin undone'
      PROVE  \E t \in sessions' : t.key = requests'[q].key /\ t.id >= requests'[q].session
  <2>1. requests'[q].session = requests[q].session /\ requests'[q].key = requests[q].key
    BY Zenon, <1>2 DEF KeepsItsSession, OnlyRequest
  <2>2. PICK t \in sessions : t.key = requests[q].key /\ t.id >= requests[q].session
    BY Zenon, <1>2, <2>1 DEF LaterRemains
  <2> QED BY Zenon, <1>2, <2>1, <2>2
<1> QED BY Zenon, <1>1, <1>2 DEF LaterRemains

LEMMA LaterStays ==
  ASSUME Types, SessionsAreOwned, LaterRemains, [Next]_vars
  PROVE  LaterRemains'
<1>0. \A s \in sessions : s.key = requests[s.by].key /\ s.by \in Requests
  BY Zenon, TypedSessions DEF SessionsAreOwned
<1>1. CASE ~\E r \in Requests : Ceremony(r)
  <2>1. /\ requests' = requests /\ undone \subseteq undone'
        /\ \A t \in sessions : t \in sessions' \/ t.key \in undone'
    BY Zenon, <1>1, OtherStepsEndThem
  <2>2. ASSUME NEW q \in Requests, NEW s \in requests'[q].todo, s.key \notin undone'
        PROVE  \E t \in sessions' : t.key = s.key /\ t.id > s.id
    <3>1. PICK t \in sessions : t.key = s.key /\ t.id > s.id
      BY Zenon, <2>1, <2>2 DEF LaterRemains
    <3> QED BY Zenon, <2>1, <2>2, <3>1
  <2>3. ASSUME NEW q \in Requests, requests'[q].session # 0, requests'[q].key \notin undone'
        PROVE  \E t \in sessions' : t.key = requests'[q].key /\ t.id >= requests'[q].session
    <3>1. PICK t \in sessions : t.key = requests[q].key /\ t.id >= requests[q].session
      BY Zenon, <2>1, <2>3 DEF LaterRemains
    <3> QED BY Zenon, <2>1, <2>3, <3>1
  <2> QED BY Zenon, <2>2, <2>3 DEF LaterRemains
<1>2. ASSUME NEW r \in Requests, Ceremony(r) PROVE LaterRemains'
  <2>1. CASE GoesOnQuietly(r) \/ GivesUp(r)
    <3>1. KeepsItsSession(r) /\ sessions' = sessions /\ undone' = undone
      BY Zenon, <2>1 DEF GoesOnQuietly, GivesUp
    <3>2. (\A t \in sessions : t \in sessions' \/ t.key \in undone') /\ undone \subseteq undone'
      BY Zenon, <3>1
    <3> QED BY Zenon, <3>1, <3>2, LaterStillRemains
  <2>2. CASE CreatesIt(r)
    <3> DEFINE x == [id |-> requests'[r].session, key |-> requests[r].key, by |-> r]
    <3>1. /\ sessions' = sessions \cup {x} /\ undone' = undone /\ OnlyRequest(r)
          /\ requests'[r].key = requests[r].key /\ requests'[r].todo = requests[r].todo
          /\ x.key = requests'[r].key /\ x.id = requests'[r].session
      BY Zenon, <2>2 DEF CreatesIt
    <3>2. requests'[r].session \in Nat
      BY Zenon, <2>2, NewNumber
    <3>3. x.id >= requests'[r].session
      BY SMTT(60), <3>1, <3>2
    <3> HIDE DEF x
    <3>4. ASSUME NEW q \in Requests, NEW s \in requests'[q].todo, s.key \notin undone'
          PROVE  \E t \in sessions' : t.key = s.key /\ t.id > s.id
      <4>1. s \in requests[q].todo
        BY Zenon, <3>1, <3>4 DEF OnlyRequest
      <4> QED BY Zenon, <3>1, <3>4, <4>1 DEF LaterRemains
    <3>5. ASSUME NEW q \in Requests, requests'[q].session # 0, requests'[q].key \notin undone'
          PROVE  \E t \in sessions' : t.key = requests'[q].key /\ t.id >= requests'[q].session
      <4>1. CASE q = r
        BY Zenon, <3>1, <3>3, <4>1
      <4>2. CASE q # r
        <5>1. requests'[q] = requests[q]
          BY Zenon, <3>1, <4>2 DEF OnlyRequest
        <5> QED BY Zenon, <3>1, <3>5, <5>1 DEF LaterRemains
      <4> QED BY Zenon, <4>1, <4>2
    <3> QED BY Zenon, <3>4, <3>5 DEF LaterRemains
  <2>3. CASE DiscardsIt(r)
    <3>1. /\ KeepsItsSession(r) /\ undone \subseteq undone'
          /\ \A t \in sessions : t \in sessions' \/ (t.by = r /\ requests[r].key \in undone')
      BY Zenon, <2>3 DEF DiscardsIt
    <3>2. \A t \in sessions : t \in sessions' \/ t.key \in undone'
      BY Zenon, <1>0, <3>1
    <3> QED BY Zenon, <3>1, <3>2, LaterStillRemains
  <2>4. CASE ListsThem(r)
    <3>1. /\ OnlyRequest(r) /\ KeepsItsInput(r) /\ requests'[r].session = requests[r].session
          /\ UNCHANGED <<sessions, undone>> /\ requests'[r].todo = sessionsToSupersede(r)
      BY Zenon, <2>4 DEF ListsThem
    <3>2. \A s \in sessionsToSupersede(r) : \E t \in sessions : t.key = s.key /\ t.id > s.id
      BY Zenon DEF sessionsToSupersede, isNewer
    <3>3. ASSUME NEW q \in Requests, NEW s \in requests'[q].todo, s.key \notin undone'
          PROVE  \E t \in sessions' : t.key = s.key /\ t.id > s.id
      <4>1. CASE q = r
        BY Zenon, <3>1, <3>2, <3>3, <4>1
      <4>2. CASE q # r
        <5>1. requests'[q] = requests[q]
          BY Zenon, <3>1, <4>2 DEF OnlyRequest
        <5> QED BY Zenon, <3>1, <3>3, <5>1 DEF LaterRemains
      <4> QED BY Zenon, <4>1, <4>2
    <3>4. ASSUME NEW q \in Requests, requests'[q].session # 0, requests'[q].key \notin undone'
          PROVE  \E t \in sessions' : t.key = requests'[q].key /\ t.id >= requests'[q].session
      <4>1. requests'[q].session = requests[q].session /\ requests'[q].key = requests[q].key
        BY Zenon, <3>1 DEF OnlyRequest, KeepsItsInput
      <4> QED BY Zenon, <3>1, <3>4, <4>1 DEF LaterRemains
    <3> QED BY Zenon, <3>3, <3>4 DEF LaterRemains
  <2>5. ASSUME NEW u \in Session, RevokesOne(r, u) PROVE LaterRemains'
    <3>1. /\ OnlyRequest(r) /\ KeepsItsInput(r) /\ requests'[r].session = requests[r].session
          /\ requests'[r].todo \subseteq requests[r].todo /\ u \in requests[r].todo
          /\ undone' = undone /\ \A t \in sessions : t = u \/ t \in sessions'
      BY Zenon, <2>5 DEF RevokesOne
    <3>2. KeepsItsSession(r)
      BY Zenon, <3>1 DEF KeepsItsSession, KeepsItsInput
    <3>3. u.key \notin undone => \E t \in sessions' : t.key = u.key /\ t.id > u.id
      <4> SUFFICES ASSUME u.key \notin undone
                   PROVE  \E t \in sessions' : t.key = u.key /\ t.id > u.id
        BY Zenon
      <4>1. PICK t \in sessions : t.key = u.key /\ t.id > u.id
        BY Zenon, <3>1 DEF LaterRemains
      <4>2. t # u
        BY SMTT(60), <4>1, TypedSessions
      <4> QED BY Zenon, <3>1, <4>1, <4>2
    <3>4. ASSUME NEW t \in sessions, t.key \notin undone
          PROVE  \E v \in sessions' : v.key = t.key /\ v.id >= t.id
      <4>1. CASE t \in sessions'
        <5>1. t.id >= t.id
          BY SMTT(60), <3>4, TypedSessions
        <5> QED BY Zenon, <4>1, <5>1
      <4>2. CASE t = u
        <5>1. PICK v \in sessions' : v.key = u.key /\ v.id > u.id
          BY Zenon, <3>3, <3>4, <4>2
        <5>2. v \in sessions
          BY Zenon, <2>5 DEF RevokesOne
        <5>3. v.id >= u.id
          BY SMTT(60), <5>1, <5>2, TypedSessions
        <5> QED BY Zenon, <4>2, <5>1, <5>3
      <4> QED BY Zenon, <3>1, <4>1, <4>2
    <3>5. sessions' \subseteq sessions
      BY Zenon, <2>5 DEF RevokesOne
    <3>6. ASSUME NEW q \in Requests, NEW s \in requests'[q].todo, s.key \notin undone'
          PROVE  \E t \in sessions' : t.key = s.key /\ t.id > s.id
      <4>1. s \in requests[q].todo /\ s.key \notin undone
        BY Zenon, <3>1, <3>2, <3>6 DEF KeepsItsSession, OnlyRequest
      <4>2. PICK t \in sessions : t.key = s.key /\ t.id > s.id
        BY Zenon, <4>1 DEF LaterRemains
      <4>3. PICK v \in sessions' : v.key = t.key /\ v.id >= t.id
        BY Zenon, <3>4, <4>1, <4>2
      <4>4. s.id \in Nat /\ t.id \in Nat /\ v.id \in Nat
        BY Zenon, <3>5, <4>1, <4>2, <4>3, TypedSessions
      <4>5. v.id > s.id
        BY SMTT(60), <4>2, <4>3, <4>4
      <4> QED BY Zenon, <4>2, <4>3, <4>5
    <3>7. ASSUME NEW q \in Requests, requests'[q].session # 0, requests'[q].key \notin undone'
          PROVE  \E t \in sessions' : t.key = requests'[q].key /\ t.id >= requests'[q].session
      <4>1. requests'[q].session = requests[q].session /\ requests'[q].key = requests[q].key
        BY Zenon, <3>2, <3>7 DEF KeepsItsSession, OnlyRequest
      <4>2. PICK t \in sessions : t.key = requests[q].key /\ t.id >= requests[q].session
        BY Zenon, <3>1, <3>7, <4>1 DEF LaterRemains
      <4>3. PICK v \in sessions' : v.key = t.key /\ v.id >= t.id
        BY Zenon, <3>1, <3>4, <3>7, <4>1, <4>2
      <4>4. requests[q].session \in Nat /\ t.id \in Nat /\ v.id \in Nat
        BY Zenon, <3>5, <4>2, <4>3, TypedSessions
      <4>5. v.id >= requests[q].session
        BY SMTT(60), <4>2, <4>3, <4>4
      <4> QED BY Zenon, <4>1, <4>2, <4>3, <4>5
    <3> QED BY Zenon, <3>6, <3>7 DEF LaterRemains
  <2> QED BY Zenon, <1>2, <2>1, <2>2, <2>3, <2>4, <2>5, CeremonySteps
<1> QED BY Zenon, <1>1, <1>2

\* The invariant holds before any phone has signed in and every step keeps it.
LEMMA PhoneInvariant == Spec => []PhoneInv
<1>1. Init => PhoneInv
  <2> SUFFICES ASSUME Init PROVE PhoneInv
    BY Zenon
  <2>1. Unissued \in Challenge /\ NoRequest \in Request
    BY Zenon, Empty
  <2>2. Types
    BY Zenon, <2>1 DEF Init, Types
  <2>3. /\ sessions = {}
        /\ \A r \in Requests : /\ requests[r].step = "idle" /\ requests[r].session = 0
                               /\ requests[r].todo = {}
    BY Zenon DEF Init, NoRequest
  <2>4. SessionsAreOwned
    BY Zenon, <2>3 DEF SessionsAreOwned, InHand
  <2>5. EarlierIsRevoked /\ LaterRemains
    BY Zenon, <2>3 DEF EarlierIsRevoked, LaterRemains
  <2> QED BY Zenon, <2>2, <2>4, <2>5 DEF PhoneInv
<1>2. PhoneInv /\ [Next]_vars => PhoneInv'
  <2> SUFFICES ASSUME PhoneInv, [Next]_vars PROVE PhoneInv'
    BY Zenon
  <2>1. Types /\ Types'
    BY Zenon, TypesPreserved DEF PhoneInv
  <2> QED BY Zenon, <2>1, OwnedStays, EarlierStays, LaterStays DEF PhoneInv
<1> QED BY <1>1, <1>2, PTL DEF Spec

\* When no ceremony of a phone is under way no session of it is left to revoke, and it has one if a
\* ceremony ended well.
LEMMA QuietPhones ==
  ASSUME PhoneInv, NEW p \in Phones,
         \A r \in Requests : requests[r].key = p => requests[r].step \in Ended
  PROVE  /\ \A s, t \in {u \in sessions : u.key = p /\ u.by \notin spared} : s = t
         /\ (\E r \in Requests : requests[r].key = p /\ requests[r].step = "done") /\ p \notin undone
              => \E s \in sessions : s.key = p
<1>0. Types /\ SessionsAreOwned
  BY Zenon DEF PhoneInv
<1>1. ASSUME NEW s \in sessions, NEW t \in sessions, s.key = p, t.key = p, s.by \notin spared,
             t.by \notin spared, t.id > s.id
      PROVE  FALSE
  <2>1. WillRevoke(s.by, s) \/ WillRevoke(t.by, s)
    BY Zenon, <1>1 DEF PhoneInv, EarlierIsRevoked
  <2>2. /\ s.by \in Requests /\ requests[s.by].key = p
        /\ t.by \in Requests /\ requests[t.by].key = p
    BY Zenon, <1>0, <1>1, TypedSessions DEF SessionsAreOwned
  <2>3. requests[s.by].step \in Ended /\ requests[t.by].step \in Ended
    BY Zenon, <2>2
  <2> QED BY Zenon, <2>1, <2>3 DEF WillRevoke, Ended
<1>2. ASSUME NEW s \in sessions, NEW t \in sessions, s.id = t.id PROVE s = t
  <2>1. s.by = t.by
    <3>1. s.by \in Requests /\ t.by \in Requests /\ s.id # 0
      BY Zenon, <1>0, <1>2, TypedSessions
    <3>2. requests[s.by].session = s.id /\ requests[t.by].session = s.id
      BY Zenon, <1>0, <1>2 DEF SessionsAreOwned
    <3> QED BY Zenon, <1>0, <3>1, <3>2 DEF SessionsAreOwned
  <2>2. s.key = t.key
    BY Zenon, <1>0, <1>2, <2>1 DEF SessionsAreOwned
  <2>3. s \in Session /\ t \in Session
    BY Zenon, <1>0, <1>2, TypedSessions
  <2> QED BY SMTT(60), <1>2, <2>1, <2>2, <2>3 DEF Session
<1>3. ASSUME NEW s \in sessions, NEW t \in sessions, s.key = p, t.key = p, s.by \notin spared,
             t.by \notin spared
      PROVE  s = t
  <2>1. s.id \in Nat /\ t.id \in Nat
    BY Zenon, <1>0, <1>3, TypedSessions
  <2>2. s.id > t.id \/ t.id > s.id \/ s.id = t.id
    BY SMTT(60), <2>1
  <2> QED BY Zenon, <1>1, <1>2, <1>3, <2>2
<1>4. ASSUME NEW r \in Requests, requests[r].key = p, requests[r].step = "done", p \notin undone
      PROVE  \E s \in sessions : s.key = p
  <2>1. requests[r].session # 0
    BY Zenon, <1>0, <1>4 DEF SessionsAreOwned
  <2> QED BY Zenon, <1>4, <2>1 DEF PhoneInv, LaterRemains
<1> QED BY Zenon, <1>3, <1>4

INSTANCE FiniteSetTheorems

\* When no ceremony of a phone is under way it has at most one session but for those that a crash
\* or a failed delete left, and a phone whose ceremony succeeded is signed in unless its session
\* was ended otherwise: overlapping ceremonies that supersede sessions, in whatever order their
\* clocks put them, never leave two and never revoke each other's.
THEOREM PhonesHaveOneSession == Spec => []OneSessionPerPhone
<1>1. \A S : (\A s, t \in S : s = t) => Cardinality(S) <= 1
  <2> SUFFICES ASSUME NEW S, \A s, t \in S : s = t PROVE Cardinality(S) <= 1
    BY Zenon
  <2>1. CASE S = {}
    <3>1. Cardinality(S) = 0
      BY Zenon, <2>1, FS_EmptySet
    <3> QED BY SMTT(60), <3>1
  <2>2. CASE S # {}
    <3>0. PICK x \in S : TRUE
      BY Zenon, <2>2
    <3>1. S = {x}
      BY Zenon
    <3>2. Cardinality(S) = 1
      BY Zenon, <3>1, FS_Singleton
    <3> QED BY SMTT(60), <3>2
  <2> QED BY Zenon, <2>1, <2>2
<1>2. PhoneInv => OneSessionPerPhone
  BY Zenon, <1>1, QuietPhones DEF OneSessionPerPhone
<1> QED BY <1>2, PhoneInvariant, PTL
=============================================================================
