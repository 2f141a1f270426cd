----------------------------- MODULE StaffProofs -----------------------------
(***************************************************************************)
(* For any number of people, requests, sessions and keys: an invitation    *)
(* grants one role if it was accepted and none otherwise, the bootstrap    *)
(* makes no second administrator beside an active one, the counter of a    *)
(* credential never goes back, and a recovery leaves no credential.        *)
(*                                                                         *)
(* The keys.  KeyInv says what a ceremony that has read a challenge or a   *)
(* credential may still do with it after a recovery has taken them.        *)
(*                                                                         *)
(* The roles.  StaffInv says what an acceptance whose transaction is open  *)
(* still knows about the invitation it claimed, and that the rows the      *)
(* bootstrap has locked stay as it counted them.                           *)
(***************************************************************************)
EXTENDS StaffAccess, FiniteSetTheorems, TLAPS

-----------------------------------------------------------------------------
(* The keys of staff.                                                      *)

Purposes == {"none", "registration", "authentication"}
KeyChallenge == [state : {"unissued", "open", "used", "gone"},
                 session : StaffSessions \cup {NoOne}, purpose : Purposes]
KeyCall == [step : {"idle", "challenge", "read", "complete"},
            session : StaffSessions \cup {NoOne}, purpose : Purposes,
            challenge : StaffChallenges \cup {NoOne}, key : Keys \cup {NoOne},
            expected : Int, new : Nat]

KeyTypes ==
  /\ wChallenges \in [StaffChallenges -> KeyChallenge]
  /\ credentials \in [Keys -> Int] /\ authenticator \in [Keys -> Nat]
  /\ wCalls \in [StaffCalls -> KeyCall]

\* An answer is about a challenge that was issued, and not one that is open once a recovery
\* has taken the credentials; a verified one has a counter past the one it has read.
CallIsRight(call) ==
  /\ call.step \in {"read", "complete"} =>
       /\ call.challenge \in StaffChallenges /\ call.key \in Keys
       /\ wChallenges[call.challenge].state # "unissued"
       /\ emptied => wChallenges[call.challenge].state # "open"
  /\ call.step = "complete" /\ call.purpose = "authentication" =>
       call.expected # W!Absent /\ call.new >= call.expected

Emptied == emptied => wRecoveryRequired /\ \A k \in Keys : credentials[k] = W!Absent

KeyInv ==
  /\ KeyTypes /\ Emptied
  /\ \A f \in StaffCalls : CallIsRight(wCalls[f])

\* A challenge that was issued is never open again.
ChallengesAge ==
  \A c \in StaffChallenges : wChallenges[c].state # "unissued" =>
    /\ wChallenges'[c].state # "unissued"
    /\ wChallenges'[c].state = "open" => wChallenges[c].state = "open"

LEMMA KeyCallIdle ==
  /\ W!Idle \in KeyCall /\ W!Idle.step = "idle"
  /\ CallIsRight(W!Idle) /\ CallIsRight(W!Idle)'
<1>1. W!Idle \in KeyCall /\ W!Idle.step = "idle"
  BY SMT DEF W!Idle, KeyCall, Purposes
<1>2. W!Idle.step \notin {"read", "complete"} /\ W!Idle.step # "complete"
  BY SMT, <1>1
<1> QED
  BY Zenon, <1>1, <1>2 DEF CallIsRight

LEMMA KeysStart == W!Init => KeyInv
<1> SUFFICES ASSUME W!Init PROVE KeyInv
  BY Zenon
<1>1. W!Unissued \in KeyChallenge
  BY SMT DEF W!Unissued, KeyChallenge, Purposes
<1>2. W!Absent \in Int /\ 0 \in Nat
  BY SMT DEF W!Absent
<1>3. KeyTypes
  BY Zenon, <1>1, <1>2, KeyCallIdle DEF W!Init, KeyTypes
<1>4. Emptied
  BY Zenon DEF W!Init, Emptied
<1>5. \A f \in StaffCalls : CallIsRight(wCalls[f])
  BY Zenon, KeyCallIdle DEF W!Init
<1> QED
  BY Zenon, <1>3, <1>4, <1>5 DEF KeyInv

\* The others' answers stay right when one call goes on.
LEMMA KeyCallGoes ==
  ASSUME KeyInv, NEW f \in StaffCalls, NEW call \in KeyCall, W!Goes(f, call), CallIsRight(call)',
         wChallenges' \in [StaffChallenges -> KeyChallenge], ChallengesAge,
         credentials' \in [Keys -> Int], authenticator' \in [Keys -> Nat],
         emptied' => emptied, Emptied'
  PROVE  KeyInv'
<1>1. wCalls \in [StaffCalls -> KeyCall]
  BY Zenon DEF KeyInv, KeyTypes
<1>2. KeyTypes'
  BY Zenon, <1>1 DEF KeyTypes, W!Goes
<1>3. ASSUME NEW g \in StaffCalls PROVE CallIsRight(wCalls[g])'
  <2>1. wCalls'[g] = IF g = f THEN call ELSE wCalls[g]
    BY Zenon, <1>1 DEF W!Goes
  <2>2. CASE g = f
    BY Zenon, <2>1, <2>2 DEF CallIsRight
  <2>3. CASE g # f
    <3>1. CallIsRight(wCalls[g]) /\ wCalls'[g] = wCalls[g]
      BY Zenon, <2>1, <2>3 DEF KeyInv
    <3> QED
      BY Zenon, <3>1 DEF CallIsRight, ChallengesAge
  <2> QED
    BY Zenon, <2>2, <2>3
<1> QED
  BY Zenon, <1>2, <1>3 DEF KeyInv

\* No call goes on.
LEMMA KeyCallsRest ==
  ASSUME KeyInv, UNCHANGED <<wCalls, credentials, authenticator>>,
         wChallenges' \in [StaffChallenges -> KeyChallenge], ChallengesAge,
         emptied' => emptied, Emptied'
  PROVE  KeyInv'
<1>1. KeyTypes'
  BY Zenon DEF KeyTypes, KeyInv
<1>2. ASSUME NEW g \in StaffCalls PROVE CallIsRight(wCalls[g])'
  <2>1. CallIsRight(wCalls[g])
    BY Zenon DEF KeyInv
  <2> QED
    BY Zenon, <2>1 DEF CallIsRight, ChallengesAge
<1> QED
  BY Zenon, <1>1, <1>2 DEF KeyInv

\* The challenges of the sessions that are deleted are gone.
LEMMA DeletedChallenges ==
  ASSUME KeyInv, NEW gone, W!DeleteSessions(gone)
  PROVE  wChallenges' \in [StaffChallenges -> KeyChallenge] /\ ChallengesAge
<1>1. wChallenges \in [StaffChallenges -> KeyChallenge]
  BY Zenon DEF KeyInv, KeyTypes
<1>2. ASSUME NEW c \in StaffChallenges
      PROVE  /\ wChallenges'[c] \in KeyChallenge
             /\ wChallenges'[c] = wChallenges[c] \/ wChallenges'[c].state = "gone"
  <2>1. wChallenges[c] \in KeyChallenge
    BY Zenon, <1>1
  <2>2. \/ wChallenges'[c] = wChallenges[c]
        \/ wChallenges'[c] = [wChallenges[c] EXCEPT !.state = "gone"]
    BY Zenon DEF W!DeleteSessions
  <2> QED
    BY SMT, <2>1, <2>2 DEF KeyChallenge
<1>3. wChallenges' \in [StaffChallenges -> KeyChallenge]
  BY Zenon, <1>2 DEF W!DeleteSessions
<1> QED
  BY SMT, <1>2, <1>3 DEF ChallengesAge

LEMMA UsedChallenge ==
  ASSUME KeyInv, NEW c \in StaffChallenges,
         wChallenges' = [wChallenges EXCEPT ![c] = [wChallenges[c] EXCEPT !.state = "used"]]
  PROVE  wChallenges' \in [StaffChallenges -> KeyChallenge] /\ ChallengesAge
<1> DEFINE new == [wChallenges[c] EXCEPT !.state = "used"]
<1>1. wChallenges \in [StaffChallenges -> KeyChallenge]
  BY Zenon DEF KeyInv, KeyTypes
<1>2. wChallenges[c] \in KeyChallenge
  BY Zenon, <1>1
<1>3. new \in KeyChallenge /\ new.state = "used"
  BY SMT, <1>2 DEF KeyChallenge
<1> HIDE DEF new
<1>4. /\ wChallenges' \in [StaffChallenges -> KeyChallenge] /\ wChallenges'[c] = new
      /\ \A d \in StaffChallenges : d # c => wChallenges'[d] = wChallenges[d]
  BY Zenon, <1>1, <1>3 DEF new
<1> QED
  BY SMT, <1>3, <1>4 DEF ChallengesAge

LEMMA SameChallenges ==
  ASSUME KeyInv, UNCHANGED wChallenges
  PROVE  wChallenges' \in [StaffChallenges -> KeyChallenge] /\ ChallengesAge
BY Zenon DEF KeyInv, KeyTypes, ChallengesAge

LEMMA StillEmptied ==
  ASSUME Emptied, UNCHANGED <<wRecoveryRequired, emptied, credentials>>
  PROVE  Emptied'
BY Zenon DEF Emptied

\* A ceremony starts: a challenge is asked for, and stored.
LEMMA StartingIsRight ==
  ASSUME KeyInv, NEW f \in StaffCalls, NEW s \in StaffSessions,
         W!startRegistration(f, s) \/ W!startAuthentication(f, s)
  PROVE  KeyInv' /\ UNCHANGED credentials
<1>1. PICK purpose \in {"registration", "authentication"} : W!startCeremony(f, s, purpose)
  BY Zenon DEF W!startRegistration, W!startAuthentication
<1> DEFINE call == [W!Idle EXCEPT !.step = "challenge", !.session = s, !.purpose = purpose]
<1>2. W!Goes(f, call) /\ UNCHANGED <<wRecoveryRequired, emptied, wChallenges, credentials, authenticator>>
  BY Zenon, <1>1 DEF W!startCeremony, W!RowsKept
<1>3. call \in KeyCall /\ call.step = "challenge"
  BY Zenon, <1>1, KeyCallIdle DEF KeyCall, Purposes
<1> HIDE DEF call
<1>4. call.step \notin {"read", "complete"} /\ call.step # "complete"
  BY SMT, <1>3
<1>5. CallIsRight(call)'
  BY Zenon, <1>4 DEF CallIsRight
<1>6. Emptied' /\ credentials' \in [Keys -> Int] /\ authenticator' \in [Keys -> Nat]
  BY Zenon, <1>2, StillEmptied DEF KeyInv, KeyTypes
<1> QED
  BY Zenon, <1>2, <1>3, <1>5, <1>6, SameChallenges, KeyCallGoes

LEMMA FreshIsUnissued ==
  \A c \in W!Fresh : c \in StaffChallenges /\ wChallenges[c].state = "unissued"
<1> DEFINE unissued == {c \in StaffChallenges : wChallenges[c].state = "unissued"}
<1>1. \A c \in W!Fresh : unissued # {} /\ c = CHOOSE d \in unissued : TRUE
  BY Zenon DEF W!Fresh
<1>2. unissued # {} => (CHOOSE d \in unissued : TRUE) \in unissued
  BY Zenon
<1> QED
  BY Zenon, <1>1, <1>2

LEMMA ReplacingIsRight ==
  ASSUME KeyInv, NEW f \in StaffCalls, W!replaceChallenge(f)
  PROVE  KeyInv' /\ UNCHANGED credentials
<1> DEFINE call == wCalls[f]
<1>1. /\ W!Goes(f, W!Idle)
      /\ UNCHANGED <<wRecoveryRequired, emptied, credentials, authenticator>>
  BY Zenon DEF W!replaceChallenge, W!RowsKept
<1>2. wChallenges \in [StaffChallenges -> KeyChallenge] /\ call \in KeyCall
  BY Zenon DEF KeyInv, KeyTypes
<1>3. wChallenges' \in [StaffChallenges -> KeyChallenge] /\ ChallengesAge
  <2>1. CASE UNCHANGED wChallenges
    BY Zenon, <2>1, SameChallenges
  <2>2. CASE call.session \in live
    <3> DEFINE new == [state |-> "open", session |-> call.session, purpose |-> call.purpose]
               used(d) == [wChallenges[d] EXCEPT !.state = "used"]
    <3>1. PICK c \in W!Fresh :
            wChallenges' = [d \in StaffChallenges |->
               IF d = c THEN new
               ELSE IF /\ wChallenges[d].state = "open"
                       /\ wChallenges[d].session = call.session
                       /\ wChallenges[d].purpose = call.purpose
                    THEN used(d) ELSE wChallenges[d]]
      BY Zenon, <2>2 DEF W!replaceChallenge
    <3>2. new \in KeyChallenge
      BY SMT, <1>2 DEF KeyCall, KeyChallenge
    <3>3. ASSUME NEW d \in StaffChallenges PROVE used(d) \in KeyChallenge /\ used(d).state = "used"
      <4>1. wChallenges[d] \in KeyChallenge
        BY Zenon, <1>2
      <4> QED
        BY SMT, <4>1 DEF KeyChallenge
    <3> HIDE DEF new, used
    <3>4. ASSUME NEW d \in StaffChallenges
          PROVE  /\ wChallenges'[d] \in KeyChallenge
                 /\ d # c => wChallenges'[d] = wChallenges[d] \/ wChallenges'[d].state = "used"
      BY Zenon, <1>2, <3>1, <3>2, <3>3
    <3>5. wChallenges' \in [StaffChallenges -> KeyChallenge]
      BY Zenon, <3>1, <3>4
    <3>6. wChallenges[c].state = "unissued"
      BY Zenon, FreshIsUnissued
    <3>7. ChallengesAge
      BY SMT, <3>4, <3>6 DEF ChallengesAge
    <3> QED
      BY Zenon, <3>5, <3>7
  <2> QED
    BY Zenon, <2>1, <2>2 DEF W!replaceChallenge
<1>4. Emptied' /\ credentials' \in [Keys -> Int] /\ authenticator' \in [Keys -> Nat]
  BY Zenon, <1>1, StillEmptied DEF KeyInv, KeyTypes
<1> QED
  BY Zenon, <1>1, <1>3, <1>4, KeyCallIdle, KeyCallGoes

\* The authenticator answers a challenge.
LEMMA FinishingIsRight ==
  ASSUME KeyInv, NEW f \in StaffCalls, NEW c \in StaffChallenges, NEW k \in Keys,
         W!finishCeremony(f, c, k)
  PROVE  KeyInv' /\ UNCHANGED credentials
<1>0. PICK next : next = IF k \in Counterless THEN 0 ELSE authenticator[k] + 1
  BY Zenon
<1> PICK call : call = [W!Idle EXCEPT !.step = "read", !.session = wChallenges[c].session,
                          !.purpose = wChallenges[c].purpose, !.challenge = c, !.key = k,
                          !.new = next]
  BY Zenon
<1>1. wChallenges[c] \in KeyChallenge /\ authenticator \in [Keys -> Nat]
  BY Zenon DEF KeyInv, KeyTypes
<1>2. /\ W!Goes(f, call) /\ authenticator' = [authenticator EXCEPT ![k] = next]
      /\ wChallenges[c].state \in {"open", "used"} /\ ~wRecoveryRequired
      /\ UNCHANGED <<wRecoveryRequired, emptied, wChallenges, credentials>>
  BY Zenon, <1>0 DEF W!finishCeremony, W!Authenticated, W!RowsKept
<1>3. next \in Nat
  BY SMT, <1>0, <1>1
<1>3a. wChallenges[c].session \in StaffSessions \cup {NoOne} /\ wChallenges[c].purpose \in Purposes
  BY Zenon, <1>1 DEF KeyChallenge
<1>4. /\ call \in KeyCall /\ call.step = "read" /\ call.challenge = c /\ call.key = k
  BY Zenon, <1>3, <1>3a, KeyCallIdle DEF KeyCall
<1>5. wChallenges[c].state # "unissued" /\ call.step # "complete"
  BY SMT, <1>2, <1>4
<1>6. ~emptied
  BY Zenon, <1>2 DEF KeyInv, Emptied
<1>7. CallIsRight(call)'
  BY Zenon, <1>2, <1>4, <1>5, <1>6 DEF CallIsRight
<1>8. Emptied' /\ credentials' \in [Keys -> Int] /\ authenticator' \in [Keys -> Nat]
  BY Zenon, <1>1, <1>2, <1>3, StillEmptied DEF KeyInv, KeyTypes
<1> QED
  BY Zenon, <1>2, <1>4, <1>7, <1>8, SameChallenges, KeyCallGoes

LEMMA ReadingIsRight ==
  ASSUME KeyInv, NEW f \in StaffCalls, W!readCeremony(f)
  PROVE  KeyInv' /\ UNCHANGED credentials
<1>0. PICK call : call = wCalls[f]
  BY Zenon
<1>t. PICK to : to = [call EXCEPT !.step = "complete", !.expected = credentials[call.key]]
  BY Zenon
<1>1. call \in KeyCall /\ CallIsRight(call) /\ credentials \in [Keys -> Int]
  BY Zenon, <1>0 DEF KeyInv, KeyTypes
<1>2. call.step = "read" /\ UNCHANGED <<wRecoveryRequired, emptied, credentials, authenticator>>
  BY Zenon, <1>0 DEF W!readCeremony, W!RowsKept
<1>3. /\ call.challenge \in StaffChallenges /\ call.key \in Keys
      /\ wChallenges[call.challenge].state # "unissued"
      /\ emptied => wChallenges[call.challenge].state # "open"
  BY Zenon, <1>1, <1>2 DEF CallIsRight
<1>4. Emptied' /\ credentials' \in [Keys -> Int] /\ authenticator' \in [Keys -> Nat]
  BY Zenon, <1>2, StillEmptied DEF KeyInv, KeyTypes
<1>5. CASE W!Goes(f, to) /\ W!Verified(call) /\ UNCHANGED wChallenges
  <2>1. /\ to \in KeyCall /\ to.step = "complete" /\ to.challenge = call.challenge
        /\ to.key = call.key /\ to.purpose = call.purpose /\ to.new = call.new
        /\ to.expected = credentials[call.key]
    BY Zenon, <1>t, <1>1, <1>3 DEF KeyCall
  <2>1a. to.new \in Nat /\ to.expected \in Int
    BY Zenon, <2>1 DEF KeyCall
  <2>2. to.purpose = "authentication" => to.expected # W!Absent /\ to.new >= to.expected
    BY SMT, <1>5, <2>1, <2>1a DEF W!Verified, W!verifyAuthentication
  <2>3. CallIsRight(to)'
    BY Zenon, <1>2, <1>3, <1>5, <2>1, <2>2 DEF CallIsRight
  <2> QED
    BY Zenon, <1>2, <1>4, <1>5, <2>1, <2>3, SameChallenges, KeyCallGoes
<1>6. CASE W!Goes(f, W!Idle) /\ W!failChallenge(f)
  <2>1. wChallenges' \in [StaffChallenges -> KeyChallenge] /\ ChallengesAge
    BY Zenon, <1>0, <1>3, <1>6, UsedChallenge DEF W!failChallenge
  <2> QED
    BY Zenon, <1>2, <1>4, <1>6, <2>1, KeyCallIdle, KeyCallGoes
<1>7. CASE W!Goes(f, W!Idle) /\ UNCHANGED wChallenges
  BY Zenon, <1>2, <1>4, <1>7, SameChallenges, KeyCallIdle, KeyCallGoes
<1> QED
  BY Zenon, <1>0, <1>t, <1>5, <1>6, <1>7 DEF W!readCeremony

\* No registered counter goes back.
CountersKept ==
  \A k \in Keys : credentials[k] # W!Absent /\ credentials'[k] # W!Absent
                    => credentials'[k] >= credentials[k]

LEMMA SameCounters == ASSUME KeyInv, UNCHANGED credentials PROVE CountersKept
<1>1. \A k \in Keys : credentials[k] \in Int
  BY SMT DEF KeyInv, KeyTypes
<1>2. \A k \in Keys : credentials[k] >= credentials[k]
  BY SMT, <1>1
<1> QED
  BY Zenon, <1>2 DEF CountersKept

\* A ceremony completes with the credential it has read, or is refused.
LEMMA CompletingIsRight ==
  ASSUME KeyInv, NEW f \in StaffCalls, W!completeRegistration(f) \/ W!completeAuthentication(f)
  PROVE  KeyInv' /\ CountersKept
<1> DEFINE call == wCalls[f]
           k == call.key
<1>1. call \in KeyCall /\ CallIsRight(call) /\ credentials \in [Keys -> Int]
  BY Zenon DEF KeyInv, KeyTypes
<1>2. /\ call.step = "complete" /\ W!Goes(f, W!Idle)
      /\ UNCHANGED <<wRecoveryRequired, emptied, authenticator>>
  BY Zenon DEF W!completeRegistration, W!completeAuthentication, W!RowsKept
<1>3. /\ call.challenge \in StaffChallenges /\ k \in Keys
      /\ emptied => wChallenges[call.challenge].state # "open"
      /\ call.purpose = "authentication" => call.expected # W!Absent /\ call.new >= call.expected
  BY Zenon, <1>1, <1>2 DEF CallIsRight
<1>4. authenticator' \in [Keys -> Nat]
  BY Zenon, <1>2 DEF KeyInv, KeyTypes
<1>5. CASE UNCHANGED <<wChallenges, credentials>>
  <2>1. Emptied' /\ credentials' \in [Keys -> Int]
    BY Zenon, <1>1, <1>2, <1>5, StillEmptied DEF KeyInv
  <2> QED
    BY Zenon, <1>2, <1>4, <1>5, <2>1, SameChallenges, SameCounters, KeyCallIdle, KeyCallGoes
<1>6. CASE /\ W!Complete(f) /\ W!Open(f)
           /\ credentials[k] # W!Absent =>
                call.purpose = "authentication" /\ credentials[k] = call.expected
  <2>1. ~emptied /\ ~emptied'
    BY Zenon, <1>2, <1>3, <1>6 DEF W!Open
  <2>2. credentials' = [credentials EXCEPT ![k] = call.new]
    BY Zenon, <1>6 DEF W!Complete
  <2>3. call.new \in Nat /\ call.new \in Int
    BY SMT, <1>1 DEF KeyCall
  <2>4. /\ credentials' \in [Keys -> Int] /\ credentials'[k] = call.new
        /\ \A j \in Keys : j # k => credentials'[j] = credentials[j]
    BY Zenon, <1>1, <1>3, <2>2, <2>3
  <2>5. wChallenges' \in [StaffChallenges -> KeyChallenge] /\ ChallengesAge
    BY Zenon, <1>3, <1>6, UsedChallenge DEF W!Complete
  <2>6. CountersKept
    <3>1. ASSUME NEW j \in Keys, j # k PROVE credentials'[j] >= credentials[j]
      BY SMT, <1>1, <2>4, <3>1
    <3>2. credentials[k] # W!Absent => credentials'[k] >= credentials[k]
      BY Zenon, <1>3, <1>6, <2>4
    <3> QED
      BY Zenon, <3>1, <3>2 DEF CountersKept
  <2>7. Emptied'
    BY Zenon, <2>1 DEF Emptied
  <2> QED
    BY Zenon, <1>2, <1>4, <2>1, <2>4, <2>5, <2>6, <2>7, KeyCallIdle, KeyCallGoes
<1> QED
  BY Zenon, <1>5, <1>6 DEF W!completeRegistration, W!completeAuthentication, W!CeremonyRefused

\* A session begins or ends.
LEMMA SigningInIsRight ==
  ASSUME KeyInv, NEW s \in StaffSessions, W!SignIn(s) \/ W!createSession(s) \/ W!SignOut(s)
  PROVE  KeyInv' /\ UNCHANGED credentials
<1>1. UNCHANGED <<wRecoveryRequired, emptied, credentials, authenticator, wCalls>>
  BY Zenon DEF W!SignIn, W!createSession, W!SignOut
<1>2. wChallenges' \in [StaffChallenges -> KeyChallenge] /\ ChallengesAge
  BY Zenon, SameChallenges, DeletedChallenges DEF W!SignIn, W!createSession, W!SignOut
<1>3. Emptied'
  BY Zenon, <1>1, StillEmptied DEF KeyInv
<1> QED
  BY Zenon, <1>1, <1>2, <1>3, KeyCallsRest

\* A recovery flags the user, deletes the sessions and takes the credentials.
LEMMA RecoveringIsRight ==
  ASSUME KeyInv, NEW v \in Recoveries, W!Recovers(v)
  PROVE  KeyInv' /\ CountersKept
<1>1. CASE \/ W!RecoverStaffAccountService(v) \/ W!deleteUserSessions(v)
           \/ W!sendRecoveryEmail(v) \/ W!RecoveryCrashes(v)
  <2>1. /\ UNCHANGED <<emptied, credentials, authenticator, wCalls>>
        /\ wRecoveryRequired => wRecoveryRequired'
    <3>1. CASE W!RecoverStaffAccountService(v)
      BY Zenon, <3>1 DEF W!RecoverStaffAccountService
    <3>2. CASE W!deleteUserSessions(v) \/ W!sendRecoveryEmail(v) \/ W!RecoveryCrashes(v)
      BY SMT, <3>2 DEF W!deleteUserSessions, W!sendRecoveryEmail, W!RecoveryCrashes
    <3> QED
      BY Zenon, <1>1, <3>1, <3>2
  <2>2. wChallenges' \in [StaffChallenges -> KeyChallenge] /\ ChallengesAge
    BY Zenon, <1>1, SameChallenges, DeletedChallenges
    DEF W!RecoverStaffAccountService, W!deleteUserSessions, W!sendRecoveryEmail, W!RecoveryCrashes
  <2>3. Emptied'
    BY Zenon, <2>1 DEF KeyInv, Emptied
  <2> QED
    BY Zenon, <2>1, <2>2, <2>3, SameCounters, KeyCallsRest
<1>2. CASE W!prepareRecovery(v)
  <2>1. /\ wChallenges' = [c \in StaffChallenges |->
             IF wChallenges[c].state = "unissued" THEN wChallenges[c]
             ELSE [wChallenges[c] EXCEPT !.state = "gone"]]
        /\ credentials' = [k \in Keys |-> W!Absent] /\ emptied' = wRecoveryRequired
        /\ UNCHANGED <<wRecoveryRequired, authenticator, wCalls>>
    BY Zenon, <1>2 DEF W!prepareRecovery
  <2>2. ASSUME NEW c \in StaffChallenges
        PROVE  /\ wChallenges'[c] \in KeyChallenge
               /\ wChallenges[c].state # "unissued" => wChallenges'[c].state = "gone"
    <3>1. wChallenges[c] \in KeyChallenge
      BY Zenon DEF KeyInv, KeyTypes
    <3>2. wChallenges'[c] = IF wChallenges[c].state = "unissued" THEN wChallenges[c]
                            ELSE [wChallenges[c] EXCEPT !.state = "gone"]
      BY Zenon, <2>1
    <3> QED
      BY SMT, <3>1, <3>2 DEF KeyChallenge
  <2>3. W!Absent \in Int
    BY SMT DEF W!Absent
  <2>4. KeyTypes'
    BY Zenon, <2>1, <2>2, <2>3 DEF KeyInv, KeyTypes
  <2>5. \A k \in Keys : credentials'[k] = W!Absent
    BY Zenon, <2>1
  <2>6. Emptied' /\ CountersKept
    BY Zenon, <2>1, <2>5 DEF Emptied, CountersKept, W!Absent
  <2>7. ASSUME NEW f \in StaffCalls PROVE CallIsRight(wCalls[f])'
    <3>1. CallIsRight(wCalls[f]) /\ wCalls'[f] = wCalls[f]
      BY Zenon, <2>1 DEF KeyInv
    <3>2. "gone" # "open" /\ "gone" # "unissued"
      BY SMT
    <3> QED
      BY Zenon, <2>2, <3>1, <3>2 DEF CallIsRight
  <2> QED
    BY Zenon, <2>4, <2>6, <2>7 DEF KeyInv
<1> QED
  BY Zenon, <1>1, <1>2 DEF W!Recovers

LEMMA KeyStepKeeps == ASSUME KeyInv, W!Next PROVE KeyInv' /\ CountersKept
<1>1. CASE W!consumePasskeyBootstrap
  <2>1. ~emptied' /\ UNCHANGED <<credentials, authenticator, wCalls, wChallenges>>
    BY Zenon, <1>1 DEF W!consumePasskeyBootstrap
  <2>2. Emptied'
    BY Zenon, <2>1 DEF Emptied
  <2> QED
    BY Zenon, <2>1, <2>2, SameChallenges, SameCounters, KeyCallsRest
<1>2. ASSUME NEW f \in StaffCalls, W!Ceremonies(f) PROVE KeyInv' /\ CountersKept
  BY Zenon, <1>2, StartingIsRight, FinishingIsRight, ReplacingIsRight, ReadingIsRight,
     CompletingIsRight, SameCounters DEF W!Ceremonies
<1> QED
  BY Zenon, <1>1, <1>2, SigningInIsRight, RecoveringIsRight, SameCounters DEF W!Next

LEMMA KeysAreKept ==
  ASSUME KeyInv, [W!Next]_(W!vars)
  PROVE  KeyInv' /\ [W!CounterAdvances]_keyVars
<1>1. CASE UNCHANGED W!vars
  BY Zenon, <1>1 DEF W!vars, keyVars, KeyInv, KeyTypes, Emptied, CallIsRight
<1>2. CASE W!Next
  <2>1. KeyInv' /\ CountersKept
    BY Zenon, <1>2, KeyStepKeeps
  <2> QED
    BY Zenon, <2>1 DEF KeyInv, Emptied, CountersKept, W!CounterAdvances
<1> QED
  BY Zenon, <1>1, <1>2

\* A counter never goes back while its credential is registered (completeAuthentication), and
\* once a recovery has taken the credentials of a flagged user none is registered before the
\* flag is cleared, for any number of keys, sessions, overlapping ceremonies and recoveries.
THEOREM KeysAdvance == W!Spec => CredentialsAdvance
<1>1. W!Init => KeyInv
  BY Zenon, KeysStart
<1>2. KeyInv /\ [W!Next]_(W!vars) => KeyInv' /\ [W!CounterAdvances]_keyVars
  BY Zenon, KeysAreKept
<1> QED
  BY <1>1, <1>2, PTL DEF W!Spec, CredentialsAdvance

-----------------------------------------------------------------------------
(* Invitations of staff.                                                   *)

Invitation == [email : People, role : F!Roles, via : {"staff", "cli_bootstrap"},
               state : {"pending", "accepted", "revoked"}, expired : BOOLEAN,
               claim : StaffCalls \cup {NoOne}, stale : BOOLEAN]
StaffRole == [account : People, role : F!Roles, by : Nat, active : BOOLEAN]
Accepting == [step : {"idle", "identity", "read", "update", "commit", "release"}, of : Nat]
Cli == [step : {"idle", "lock", "count", "issue"}, email : People \cup {NoOne}, live : SUBSET Nat]
Acting == [step : {"idle", "invite", "grant", "offboard"}, person : People \cup {NoOne}]
Holders == StaffCalls \cup {NoOne, "cli"}

StaffTypes ==
  /\ invitations \in Seq(Invitation) /\ locks \in Seq(Holders)
  /\ DOMAIN locks = DOMAIN invitations
  /\ roles \in Seq(StaffRole)
  /\ accepting \in [StaffCalls -> Accepting] /\ cli \in Cli /\ acting \in Acting
  /\ cli.step # "idle" => cli.email \in People
  /\ acting.step # "idle" => acting.person \in People

\* An acceptance is of an invitation there is; one about to commit holds the row, which is
\* still pending.
AcceptsRightly(a) ==
  /\ accepting[a].step # "idle" => accepting[a].of \in DOMAIN invitations
  /\ accepting[a].step = "commit" =>
       locks[accepting[a].of] = a /\ invitations[accepting[a].of].state = "pending"

\* What the bootstrap tool has invited and is still pending, and whom it has made an
\* administrator.
FirstPending(i) == invitations[i].state = "pending" /\ invitations[i].via = "cli_bootstrap"
FirstAdmin(n) ==
  /\ roles[n].active /\ roles[n].account \notin suspended
  /\ roles[n].by # 0 /\ invitations[roles[n].by].via = "cli_bootstrap"

\* A role that was granted by an invitation is the one of that invitation, and its only one.
RolesAreGranted ==
  /\ \A n \in DOMAIN roles : roles[n].by # 0 =>
       /\ roles[n].by \in DOMAIN invitations
       /\ invitations[roles[n].by].state = "accepted"
       /\ roles[n].role = invitations[roles[n].by].role
  /\ \A m, n \in DOMAIN roles : roles[m].by = roles[n].by /\ roles[m].by # 0 => m = n
  /\ \A i \in DOMAIN invitations : invitations[i].state = "accepted" =>
       \E n \in DOMAIN roles : roles[n].by = i
  /\ \A i \in DOMAIN invitations :
       invitations[i].via = "cli_bootstrap" => invitations[i].role = "admin_operations"

\* There is one first administrator, or one pending invitation of one, or neither.
OneFirst ==
  /\ \A m, n \in DOMAIN roles : FirstAdmin(m) /\ FirstAdmin(n) => m = n
  /\ \A i, j \in DOMAIN invitations : FirstPending(i) /\ FirstPending(j) => i = j
  /\ \A n \in DOMAIN roles, i \in DOMAIN invitations : ~(FirstAdmin(n) /\ FirstPending(i))

\* Once the tool has the rows, nobody can accept what it means to replace; and when it has
\* counted, it has no administrator.
ToolHolds ==
  /\ cli.step \in {"count", "issue"} =>
       /\ \A i \in cli.live : i \in DOMAIN invitations /\ locks[i] = "cli"
       /\ \A i \in DOMAIN invitations : FirstPending(i) => i \in cli.live
  /\ cli.step = "issue" => \A n \in DOMAIN roles : ~FirstAdmin(n)

StaffInv ==
  /\ StaffTypes /\ RolesAreGranted /\ OneFirst /\ ToolHolds
  /\ \A a \in StaffCalls : AcceptsRightly(a)

LEMMA StaffStarts == F!Init => StaffInv
<1> SUFFICES ASSUME F!Init PROVE StaffInv
  BY Zenon
<1>1. invitations = <<>> /\ locks = <<>> /\ roles = <<>> /\ cli = F!CliIdle /\ acting = F!NotActing
      /\ accepting = [a \in StaffCalls |-> F!Idle]
  BY Zenon DEF F!Init
<1>2. /\ DOMAIN invitations = {} /\ DOMAIN locks = {} /\ DOMAIN roles = {}
      /\ invitations \in Seq(Invitation) /\ locks \in Seq(Holders) /\ roles \in Seq(StaffRole)
  BY SMT, <1>1
<1>3. cli \in Cli /\ cli.step = "idle" /\ acting \in Acting /\ acting.step = "idle"
  BY SMT, <1>1 DEF F!CliIdle, F!NotActing, Cli, Acting
<1>4. F!Idle \in Accepting /\ F!Idle.step = "idle"
  BY SMT DEF F!Idle, Accepting
<1>5. StaffTypes
  BY Zenon, <1>1, <1>2, <1>3, <1>4 DEF StaffTypes
<1>6. RolesAreGranted /\ OneFirst
  BY Zenon, <1>2 DEF RolesAreGranted, OneFirst
<1>7. ToolHolds
  BY SMT, <1>3 DEF ToolHolds
<1>8. ASSUME NEW a \in StaffCalls PROVE AcceptsRightly(a)
  <2>1. accepting[a].step = "idle"
    BY Zenon, <1>1, <1>4
  <2> QED
    BY SMT, <2>1 DEF AcceptsRightly
<1> QED
  BY Zenon, <1>5, <1>6, <1>7, <1>8 DEF StaffInv

\* Invitations are added, and what is written about one leaves its address, its role, who
\* invited, and whether it was accepted.
InvitationsMove ==
  /\ DOMAIN invitations \subseteq DOMAIN invitations'
  /\ \A i \in DOMAIN invitations :
       /\ invitations'[i].via = invitations[i].via /\ invitations'[i].role = invitations[i].role
       /\ invitations'[i].state = "accepted" <=> invitations[i].state = "accepted"
       /\ invitations'[i].state = "pending" => invitations[i].state = "pending"
  /\ \A i \in DOMAIN invitations' : i \notin DOMAIN invitations =>
       /\ invitations'[i].state = "pending"
       /\ invitations'[i].via = "cli_bootstrap" => invitations'[i].role = "admin_operations"

LEMMA GrantsStay ==
  ASSUME StaffInv, InvitationsMove, UNCHANGED <<roles, suspended>>
  PROVE  /\ RolesAreGranted'
         /\ \A n \in DOMAIN roles : FirstAdmin(n)' <=> FirstAdmin(n)
<1>1. RolesAreGranted
  BY Zenon DEF StaffInv
<1>2. ASSUME NEW n \in DOMAIN roles, roles[n].by # 0
      PROVE  /\ roles[n].by \in DOMAIN invitations /\ roles[n].by \in DOMAIN invitations'
             /\ invitations'[roles[n].by].state = "accepted"
             /\ roles[n].role = invitations'[roles[n].by].role
             /\ invitations'[roles[n].by].via = invitations[roles[n].by].via
  BY Zenon, <1>1, <1>2 DEF RolesAreGranted, InvitationsMove
<1>3. "pending" # "accepted"
  BY SMT
<1>4. ASSUME NEW i \in DOMAIN invitations'
      PROVE  /\ invitations'[i].state = "accepted" => \E n \in DOMAIN roles : roles[n].by = i
             /\ invitations'[i].via = "cli_bootstrap" => invitations'[i].role = "admin_operations"
  BY SMT, <1>1, <1>3 DEF RolesAreGranted, InvitationsMove
<1>5. RolesAreGranted'
  BY Zenon, <1>1, <1>2, <1>4 DEF RolesAreGranted
<1>6. ASSUME NEW n \in DOMAIN roles PROVE FirstAdmin(n)' <=> FirstAdmin(n)
  BY Zenon, <1>2 DEF FirstAdmin
<1> QED
  BY Zenon, <1>5, <1>6

\* The tool has issued nothing.
NoNewFirst == \A i \in DOMAIN invitations' : FirstPending(i)' => i \in DOMAIN invitations

LEMMA NothingNewIsPending ==
  ASSUME StaffInv, InvitationsMove, NoNewFirst, UNCHANGED <<roles, suspended>>
  PROVE  /\ RolesAreGranted' /\ OneFirst'
         /\ \A i \in DOMAIN invitations' : FirstPending(i)' => i \in DOMAIN invitations /\ FirstPending(i)
<1>1. \A i \in DOMAIN invitations' : FirstPending(i)' => i \in DOMAIN invitations /\ FirstPending(i)
  BY Zenon DEF FirstPending, InvitationsMove, NoNewFirst
<1>2. RolesAreGranted' /\ \A n \in DOMAIN roles : FirstAdmin(n)' <=> FirstAdmin(n)
  BY Zenon, GrantsStay
<1>3. OneFirst'
  BY Zenon, <1>1, <1>2 DEF StaffInv, OneFirst
<1> QED
  BY Zenon, <1>1, <1>2, <1>3

\* The tool stays where it is, or lets the rows go.
LEMMA ToolStays ==
  ASSUME StaffInv, InvitationsMove, NoNewFirst, UNCHANGED <<roles, suspended, cli>>,
         \A i \in DOMAIN invitations : locks[i] = "cli" => locks'[i] = "cli"
  PROVE  ToolHolds'
<1>1. /\ \A i \in DOMAIN invitations' : FirstPending(i)' => i \in DOMAIN invitations /\ FirstPending(i)
      /\ \A n \in DOMAIN roles : FirstAdmin(n)' <=> FirstAdmin(n)
  BY Zenon, NothingNewIsPending, GrantsStay
<1> QED
  BY Zenon, <1>1 DEF StaffInv, ToolHolds, InvitationsMove

LEMMA SameInvitations == ASSUME UNCHANGED invitations PROVE InvitationsMove /\ NoNewFirst
BY Zenon DEF InvitationsMove, NoNewFirst

\* Nothing is granted, and each acceptance keeps what it has.
LEMMA StaffRests ==
  ASSUME StaffInv, InvitationsMove, NoNewFirst, UNCHANGED <<roles, suspended, cli>>,
         \A i \in DOMAIN invitations : locks[i] = "cli" => locks'[i] = "cli",
         StaffTypes', \A a \in StaffCalls : AcceptsRightly(a)'
  PROVE  StaffInv'
BY Zenon, NothingNewIsPending, ToolStays DEF StaffInv

\* One acceptance goes on and does not commit, whoever is about to commit keeps the row.
LEMMA AcceptanceGoes ==
  ASSUME StaffInv, NEW a \in StaffCalls, NEW d \in Accepting, accepting' = [accepting EXCEPT ![a] = d],
         d.step # "idle" => d.of \in DOMAIN invitations',
         d.step = "commit" => locks'[d.of] = a /\ invitations'[d.of].state = "pending",
         DOMAIN invitations \subseteq DOMAIN invitations',
         \A b \in StaffCalls, i \in DOMAIN invitations :
           b # a /\ locks[i] = b /\ invitations[i].state = "pending" =>
             locks'[i] = b /\ invitations'[i].state = "pending"
  PROVE  accepting' \in [StaffCalls -> Accepting] /\ \A b \in StaffCalls : AcceptsRightly(b)'
<1>1. accepting \in [StaffCalls -> Accepting]
  BY Zenon DEF StaffInv, StaffTypes
<1>2. accepting' \in [StaffCalls -> Accepting]
  BY Zenon, <1>1
<1>3. ASSUME NEW b \in StaffCalls PROVE AcceptsRightly(b)'
  <2>1. accepting'[b] = IF b = a THEN d ELSE accepting[b]
    BY Zenon, <1>1
  <2>2. CASE b = a
    BY Zenon, <2>1, <2>2 DEF AcceptsRightly
  <2>3. CASE b # a
    <3>1. AcceptsRightly(b) /\ accepting'[b] = accepting[b]
      BY Zenon, <2>1, <2>3 DEF StaffInv
    <3>2. "commit" # "idle"
      BY SMT
    <3> QED
      BY Zenon, <2>3, <3>1, <3>2 DEF AcceptsRightly
  <2> QED
    BY Zenon, <2>2, <2>3
<1> QED
  BY Zenon, <1>2, <1>3

LEMMA AcceptancesRest ==
  ASSUME StaffInv, UNCHANGED accepting, DOMAIN invitations \subseteq DOMAIN invitations',
         \A b \in StaffCalls, i \in DOMAIN invitations :
           locks[i] = b /\ invitations[i].state = "pending" =>
             locks'[i] = b /\ invitations'[i].state = "pending"
  PROVE  \A b \in StaffCalls : AcceptsRightly(b)'
<1>1. ASSUME NEW b \in StaffCalls PROVE AcceptsRightly(b)'
  <2>1. AcceptsRightly(b)
    BY Zenon DEF StaffInv
  <2>2. "commit" # "idle"
    BY SMT
  <2> QED
    BY Zenon, <2>1, <2>2 DEF AcceptsRightly
<1> QED
  BY Zenon, <1>1

\* An administrator looks.
LEMMA LookingIsRight ==
  ASSUME StaffInv, NEW d \in Acting, acting' = d, d.step # "idle" => d.person \in People,
         UNCHANGED <<invitations, locks, suspended, roles, accepting, cli>>
  PROVE  StaffInv'
<1>1. StaffTypes'
  BY Zenon DEF StaffInv, StaffTypes
<1>2. \A a \in StaffCalls : AcceptsRightly(a)'
  BY Zenon, AcceptancesRest
<1> QED
  BY Zenon, <1>1, <1>2, SameInvitations, StaffRests

\* A sequence that grows by one element.
LEMMA Grows ==
  ASSUME NEW Elements, NEW s \in Seq(Elements), NEW e \in Elements
  PROVE  /\ Append(s, e) \in Seq(Elements) /\ DOMAIN Append(s, e) = DOMAIN s \cup {Len(s) + 1}
         /\ Len(s) + 1 \notin DOMAIN s /\ Append(s, e)[Len(s) + 1] = e /\ Len(s) + 1 # 0
         /\ \A i \in DOMAIN s : Append(s, e)[i] = s[i]
BY SMT

\* A sequence of which one element, or some, are written.
LEMMA Rewrites ==
  ASSUME NEW Elements, NEW s \in Seq(Elements), NEW i \in DOMAIN s, NEW e \in Elements
  PROVE  /\ [s EXCEPT ![i] = e] \in Seq(Elements) /\ DOMAIN [s EXCEPT ![i] = e] = DOMAIN s
         /\ \A j \in DOMAIN s : [s EXCEPT ![i] = e][j] = IF j = i THEN e ELSE s[j]
BY SMT

LEMMA Maps ==
  ASSUME NEW Elements, NEW Values, NEW s \in Seq(Elements), NEW f, DOMAIN f = DOMAIN s, f = [i \in DOMAIN s |-> f[i]],
         \A i \in DOMAIN s : f[i] \in Values
  PROVE  f \in Seq(Values) /\ Len(f) = Len(s)
BY SMT

LEMMA PositionsArePositive ==
  ASSUME NEW Elements, NEW s \in Seq(Elements), NEW i \in DOMAIN s PROVE i \in Nat /\ i # 0
BY SMT

\* One invitation is written.
LEMMA RowWritten ==
  ASSUME StaffInv, NEW i \in DOMAIN invitations, NEW v \in Invitation,
         invitations' = [invitations EXCEPT ![i] = v]
  PROVE  /\ invitations' \in Seq(Invitation) /\ DOMAIN invitations' = DOMAIN invitations
         /\ invitations'[i] = v /\ \A j \in DOMAIN invitations : j # i => invitations'[j] = invitations[j]
<1>1. invitations \in Seq(Invitation)
  BY Zenon DEF StaffInv, StaffTypes
<1> QED
  BY Zenon, <1>1, Rewrites

\* Nothing but the expiry or the claim of an invitation is written.
LEMMA RowNoted ==
  ASSUME StaffInv, NEW i \in DOMAIN invitations, NEW v \in Invitation,
         invitations' = [invitations EXCEPT ![i] = v],
         v.via = invitations[i].via, v.role = invitations[i].role, v.state = invitations[i].state
  PROVE  /\ invitations' \in Seq(Invitation) /\ DOMAIN invitations' = DOMAIN invitations
         /\ InvitationsMove /\ NoNewFirst
         /\ \A j \in DOMAIN invitations : invitations'[j].state = invitations[j].state
<1>1. /\ invitations' \in Seq(Invitation) /\ DOMAIN invitations' = DOMAIN invitations
      /\ invitations'[i] = v /\ \A j \in DOMAIN invitations : j # i => invitations'[j] = invitations[j]
  BY Zenon, RowWritten
<1> QED
  BY Zenon, <1>1 DEF InvitationsMove, NoNewFirst

\* Pending invitations are revoked.
LEMMA RevokedRows ==
  ASSUME StaffInv, NEW gone \in SUBSET DOMAIN invitations, NEW r, r = F!Revoked(gone),
         \A i \in gone : invitations[i].state = "pending"
  PROVE  /\ r \in Seq(Invitation) /\ DOMAIN r = DOMAIN invitations /\ Len(r) = Len(invitations)
         /\ \A i \in DOMAIN invitations :
              /\ r[i].via = invitations[i].via /\ r[i].role = invitations[i].role
              /\ r[i].state = IF i \in gone THEN "revoked" ELSE invitations[i].state
              /\ r[i].state = "accepted" <=> invitations[i].state = "accepted"
              /\ r[i].state = "pending" => invitations[i].state = "pending"
<1>1. invitations \in Seq(Invitation)
  BY Zenon DEF StaffInv, StaffTypes
<1>2. DOMAIN r = DOMAIN invitations
      /\ \A i \in DOMAIN invitations :
           r[i] = IF i \in gone THEN [invitations[i] EXCEPT !.state = "revoked"] ELSE invitations[i]
  BY Zenon DEF F!Revoked
<1>3. \A i \in DOMAIN invitations : invitations[i] \in Invitation
  BY SMT, <1>1
<1>4. ASSUME NEW v \in Invitation
      PROVE  /\ [v EXCEPT !.state = "revoked"] \in Invitation
             /\ [v EXCEPT !.state = "revoked"].via = v.via /\ [v EXCEPT !.state = "revoked"].role = v.role
             /\ [v EXCEPT !.state = "revoked"].state = "revoked"
  BY SMT DEF Invitation
<1>5. ASSUME NEW i \in DOMAIN invitations
      PROVE  /\ r[i] \in Invitation
             /\ r[i].via = invitations[i].via /\ r[i].role = invitations[i].role
             /\ r[i].state = IF i \in gone THEN "revoked" ELSE invitations[i].state
  BY Zenon, <1>2, <1>3, <1>4
<1>6. r = [i \in DOMAIN invitations |-> r[i]]
  BY Zenon DEF F!Revoked
<1>7. r \in Seq(Invitation) /\ Len(r) = Len(invitations)
  BY SMT, <1>1, <1>2, <1>5, <1>6, Maps
<1>8. "revoked" # "accepted" /\ "revoked" # "pending" /\ "pending" # "accepted"
  BY SMT
<1> QED
  BY Zenon, <1>2, <1>5, <1>7, <1>8

\* Only invitations, and who accepts them, change: a row that a request or the tool has is not
\* touched by another.
LEMMA RowsMove ==
  ASSUME StaffInv, InvitationsMove, NoNewFirst, invitations' \in Seq(Invitation),
         locks' \in Seq(Holders), DOMAIN locks' = DOMAIN invitations', acting' \in Acting,
         acting'.step # "idle" => acting'.person \in People, UNCHANGED <<suspended, roles, accepting, cli>>,
         \A i \in DOMAIN invitations : locks'[i] = locks[i],
         \A i \in DOMAIN invitations : locks[i] # NoOne => invitations'[i].state = invitations[i].state
  PROVE  StaffInv'
<1>1. StaffTypes'
  BY Zenon DEF StaffInv, StaffTypes
<1>2. ASSUME NEW b \in StaffCalls, NEW i \in DOMAIN invitations,
             locks[i] = b, invitations[i].state = "pending"
      PROVE  locks'[i] = b /\ invitations'[i].state = "pending"
  BY Zenon, <1>2, StaffNamesAssumption
<1>3. UNCHANGED accepting /\ DOMAIN invitations \subseteq DOMAIN invitations'
  BY Zenon DEF InvitationsMove
<1>4. \A a \in StaffCalls : AcceptsRightly(a)'
  BY Zenon, <1>2, <1>3, AcceptancesRest
<1> QED
  BY Zenon, <1>1, <1>4, StaffRests

LEMMA CreateInvitationIsRight ==
  ASSUME StaffInv, NEW role \in F!Roles, F!createInvitation(role) PROVE StaffInv'
<1> DEFINE replaced == {i \in DOMAIN invitations : F!Pending(i) /\ invitations[i].email = acting.person}
<1> DEFINE r == F!Revoked(replaced)
<1> DEFINE e == F!Issued(acting.person, role, "staff")
<1>1. /\ acting.step = "invite" /\ \A i \in replaced : locks[i] = NoOne
      /\ invitations' = Append(r, e) /\ locks' = Append(locks, NoOne) /\ acting' = F!NotActing
      /\ UNCHANGED <<suspended, roles, accepting, cli>>
  BY Zenon DEF F!createInvitation, F!Unlocked
<1>2. /\ acting.person \in People \/ acting.step = "idle"
      /\ locks \in Seq(Holders) /\ DOMAIN locks = DOMAIN invitations /\ invitations \in Seq(Invitation)
  BY Zenon DEF StaffInv, StaffTypes
<1>3. "invite" # "idle" /\ "staff" # "cli_bootstrap" /\ "pending" # "accepted"
  BY SMT
<1>4. acting.person \in People
  BY Zenon, <1>1, <1>2, <1>3
<1>5. e \in Invitation /\ e.state = "pending" /\ e.via = "staff"
  BY SMT, <1>4 DEF F!Issued, Invitation
<1>6. replaced \in SUBSET DOMAIN invitations /\ \A i \in replaced : invitations[i].state = "pending"
  BY Zenon DEF F!Pending
<1>7. /\ r \in Seq(Invitation) /\ DOMAIN r = DOMAIN invitations /\ Len(r) = Len(invitations)
      /\ \A i \in DOMAIN invitations :
           /\ r[i].via = invitations[i].via /\ r[i].role = invitations[i].role
           /\ r[i].state = IF i \in replaced THEN "revoked" ELSE invitations[i].state
           /\ r[i].state = "accepted" <=> invitations[i].state = "accepted"
           /\ r[i].state = "pending" => invitations[i].state = "pending"
  <2> HIDE DEF replaced
  <2> QED
    BY SMT, <1>6, RevokedRows
<1>8. NoOne \in Holders /\ Len(locks) = Len(invitations)
  BY SMT, <1>2 DEF Holders
<1> HIDE DEF replaced, r, e
<1>9. /\ invitations' \in Seq(Invitation) /\ DOMAIN invitations' = DOMAIN invitations \cup {Len(invitations) + 1}
      /\ invitations'[Len(invitations) + 1] = e /\ \A i \in DOMAIN invitations : invitations'[i] = r[i]
  BY SMT, <1>1, <1>5, <1>7, Grows
<1>10. /\ locks' \in Seq(Holders) /\ DOMAIN locks' = DOMAIN invitations'
       /\ \A i \in DOMAIN invitations : locks'[i] = locks[i]
  BY SMT, <1>1, <1>2, <1>8, <1>9, Grows
<1>11. /\ DOMAIN invitations \subseteq DOMAIN invitations'
       /\ \A i \in DOMAIN invitations' : i \notin DOMAIN invitations => invitations'[i] = e
  BY Zenon, <1>9
<1>12. InvitationsMove /\ NoNewFirst
  BY Zenon, <1>3, <1>5, <1>7, <1>9, <1>11 DEF InvitationsMove, NoNewFirst, FirstPending
<1>13. F!NotActing \in Acting /\ F!NotActing.step = "idle"
  BY SMT DEF F!NotActing, Acting
<1>14. \A i \in DOMAIN invitations : locks[i] # NoOne => invitations'[i].state = invitations[i].state
  BY Zenon, <1>1, <1>7, <1>9
<1> QED
  BY Zenon, <1>1, <1>9, <1>10, <1>12, <1>13, <1>14, RowsMove

LEMMA RevokeInvitationIsRight ==
  ASSUME StaffInv, NEW i \in DOMAIN invitations, F!revokeInvitation(i) PROVE StaffInv'
<1>1. /\ invitations[i].state = "pending" /\ locks[i] = NoOne /\ invitations' = F!Revoked({i})
      /\ UNCHANGED <<locks, suspended, roles, accepting, cli, acting>>
  BY Zenon DEF F!revokeInvitation, F!Unlocked, F!Pending
<1>2. /\ invitations' \in Seq(Invitation) /\ DOMAIN invitations' = DOMAIN invitations
      /\ \A j \in DOMAIN invitations :
           /\ invitations'[j].via = invitations[j].via /\ invitations'[j].role = invitations[j].role
           /\ invitations'[j].state = IF j \in {i} THEN "revoked" ELSE invitations[j].state
           /\ invitations'[j].state = "accepted" <=> invitations[j].state = "accepted"
           /\ invitations'[j].state = "pending" => invitations[j].state = "pending"
  BY SMT, <1>1, RevokedRows
<1>3. InvitationsMove /\ NoNewFirst
  BY Zenon, <1>2 DEF InvitationsMove, NoNewFirst
<1>4. \A j \in DOMAIN invitations : locks[j] # NoOne => invitations'[j].state = invitations[j].state
  BY Zenon, <1>1, <1>2
<1> QED
  BY Zenon, <1>1, <1>2, <1>3, <1>4, RowsMove DEF StaffInv, StaffTypes

LEMMA TimeIsRight ==
  ASSUME StaffInv, NEW i \in DOMAIN invitations, F!Expires(i) \/ F!ClaimGoesStale(i) PROVE StaffInv'
<1>1. invitations[i] \in Invitation
  BY SMT DEF StaffInv, StaffTypes
<1>2. PICK v \in Invitation :
        /\ invitations' = [invitations EXCEPT ![i] = v]
        /\ v.via = invitations[i].via /\ v.role = invitations[i].role /\ v.state = invitations[i].state
  <2>1. /\ [invitations[i] EXCEPT !.expired = TRUE] \in Invitation
        /\ [invitations[i] EXCEPT !.expired = TRUE].via = invitations[i].via
        /\ [invitations[i] EXCEPT !.expired = TRUE].role = invitations[i].role
        /\ [invitations[i] EXCEPT !.expired = TRUE].state = invitations[i].state
        /\ [invitations[i] EXCEPT !.stale = TRUE] \in Invitation
        /\ [invitations[i] EXCEPT !.stale = TRUE].via = invitations[i].via
        /\ [invitations[i] EXCEPT !.stale = TRUE].role = invitations[i].role
        /\ [invitations[i] EXCEPT !.stale = TRUE].state = invitations[i].state
    BY Zenon, <1>1 DEF Invitation
  <2> QED
    BY Zenon, <2>1 DEF F!Expires, F!ClaimGoesStale
<1>3. UNCHANGED <<locks, suspended, roles, accepting, cli, acting>>
  BY Zenon DEF F!Expires, F!ClaimGoesStale
<1>4. /\ invitations' \in Seq(Invitation) /\ DOMAIN invitations' = DOMAIN invitations
      /\ InvitationsMove /\ NoNewFirst
      /\ \A j \in DOMAIN invitations : invitations'[j].state = invitations[j].state
  BY Zenon, <1>2, RowNoted
<1> QED
  BY Zenon, <1>3, <1>4, RowsMove DEF StaffInv, StaffTypes

\* An acceptance goes on: it neither takes the row nor commits.
LEMMA AcceptanceMoves ==
  ASSUME StaffInv, NEW a \in StaffCalls, NEW d \in Accepting, accepting' = [accepting EXCEPT ![a] = d],
         d.step # "idle" => d.of \in DOMAIN invitations, d.step # "commit",
         invitations' \in Seq(Invitation), DOMAIN invitations' = DOMAIN invitations,
         InvitationsMove, NoNewFirst,
         \A i \in DOMAIN invitations : invitations'[i].state = invitations[i].state,
         UNCHANGED <<locks, suspended, roles, cli, acting>>
  PROVE  StaffInv'
<1>1. accepting' \in [StaffCalls -> Accepting] /\ \A b \in StaffCalls : AcceptsRightly(b)'
  BY Zenon, AcceptanceGoes
<1>2. StaffTypes'
  BY Zenon, <1>1 DEF StaffInv, StaffTypes
<1> QED
  BY Zenon, <1>1, <1>2, StaffRests

LEMMA AcceptanceMovesAlone ==
  ASSUME StaffInv, NEW a \in StaffCalls, NEW d \in Accepting, accepting' = [accepting EXCEPT ![a] = d],
         d.step # "idle" => d.of \in DOMAIN invitations, d.step # "commit",
         UNCHANGED <<invitations, locks, suspended, roles, cli, acting>>
  PROVE  StaffInv'
<1>1. invitations' \in Seq(Invitation) /\ DOMAIN invitations' = DOMAIN invitations
      /\ \A i \in DOMAIN invitations : invitations'[i].state = invitations[i].state
  BY Zenon DEF StaffInv, StaffTypes
<1> QED
  BY Zenon, <1>1, SameInvitations, AcceptanceMoves

LEMMA AcceptanceIs ==
  ASSUME StaffInv, NEW a \in StaffCalls
  PROVE  /\ accepting[a] \in Accepting /\ accepting[a].of \in Nat
         /\ accepting[a].step # "idle" => accepting[a].of \in DOMAIN invitations
         /\ F!Idle \in Accepting /\ F!Idle.step = "idle" /\ "idle" # "commit"
<1>1. accepting[a] \in Accepting
  BY Zenon DEF StaffInv, StaffTypes
<1>2. accepting[a].of \in Nat /\ F!Idle \in Accepting /\ F!Idle.step = "idle" /\ "idle" # "commit"
  BY SMT, <1>1 DEF F!Idle, Accepting
<1> QED
  BY Zenon, <1>1, <1>2 DEF StaffInv, AcceptsRightly

LEMMA ClaimIsRight ==
  ASSUME StaffInv, NEW a \in StaffCalls, NEW i \in DOMAIN invitations, F!claimInvitation(a, i)
  PROVE  StaffInv'
<1> DEFINE v == [invitations[i] EXCEPT !.claim = a, !.stale = FALSE]
<1> DEFINE d == [step |-> "identity", of |-> i]
<1>1. /\ invitations' = [invitations EXCEPT ![i] = v] /\ accepting' = [accepting EXCEPT ![a] = d]
      /\ UNCHANGED <<locks, suspended, roles, cli, acting>>
  BY Zenon DEF F!claimInvitation
<1>2. invitations[i] \in Invitation /\ i \in Nat
  BY SMT DEF StaffInv, StaffTypes
<1>3. v \in Invitation /\ v.via = invitations[i].via /\ v.role = invitations[i].role
      /\ v.state = invitations[i].state
  BY Zenon, <1>2 DEF Invitation
<1>4. d \in Accepting /\ d.of = i /\ d.step # "commit"
  BY SMT, <1>2 DEF Accepting
<1> HIDE DEF v, d
<1>5. /\ invitations' \in Seq(Invitation) /\ DOMAIN invitations' = DOMAIN invitations
      /\ InvitationsMove /\ NoNewFirst
      /\ \A j \in DOMAIN invitations : invitations'[j].state = invitations[j].state
  BY Zenon, <1>1, <1>3, RowNoted
<1> QED
  BY Zenon, <1>1, <1>4, <1>5, AcceptanceMoves

LEMMA AcceptanceReadsRightly ==
  ASSUME StaffInv, NEW a \in StaffCalls,
         F!createOrResolveInvitedStaff(a) \/ F!createOrResolveFails(a) \/ F!completeAcceptance(a)
  PROVE  StaffInv'
<1>1. PICK s \in {"read", "release", "update"} : accepting' = [accepting EXCEPT ![a] = [@ EXCEPT !.step = s]]
  BY Zenon DEF F!createOrResolveInvitedStaff, F!createOrResolveFails, F!completeAcceptance
<1>2. accepting[a].step \in {"identity", "read"} /\ UNCHANGED <<invitations, locks, suspended, roles, cli, acting>>
  BY Zenon DEF F!createOrResolveInvitedStaff, F!createOrResolveFails, F!completeAcceptance
<1> DEFINE d == [accepting[a] EXCEPT !.step = s]
<1>3. accepting[a] \in Accepting /\ (accepting[a].step # "idle" => accepting[a].of \in DOMAIN invitations)
  BY Zenon, AcceptanceIs
<1>4. d \in Accepting /\ d.of = accepting[a].of /\ d.step # "commit" /\ accepting[a].step # "idle"
  BY SMT, <1>2, <1>3 DEF Accepting
<1>5. accepting' = [accepting EXCEPT ![a] = d]
  BY Zenon, <1>1, <1>3 DEF StaffInv, StaffTypes
<1> HIDE DEF d
<1> QED
  BY Zenon, <1>2, <1>3, <1>4, <1>5, AcceptanceMovesAlone

LEMMA AcceptanceUpdatesRightly ==
  ASSUME StaffInv, NEW a \in StaffCalls, F!AcceptanceUpdates(a) PROVE StaffInv'
<1> DEFINE i == accepting[a].of
<1> DEFINE d(s) == [accepting[a] EXCEPT !.step = s]
<1>1. /\ accepting[a].step = "update" /\ locks[i] = NoOne
      /\ \/ /\ invitations[i].state = "pending" /\ locks' = [locks EXCEPT ![i] = a]
            /\ accepting' = [accepting EXCEPT ![a] = d("commit")]
         \/ accepting' = [accepting EXCEPT ![a] = d("release")] /\ UNCHANGED locks
      /\ UNCHANGED <<invitations, suspended, roles, cli, acting>>
  BY Zenon DEF F!AcceptanceUpdates, F!Unlocked, F!Acceptable, F!Pending
<1>2. accepting[a] \in Accepting /\ (accepting[a].step # "idle" => accepting[a].of \in DOMAIN invitations)
  BY Zenon, AcceptanceIs
<1>3. /\ \A s \in {"commit", "release"} : d(s) \in Accepting /\ d(s).of = i /\ d(s).step = s
      /\ accepting[a].step # "idle" /\ "release" # "commit"
  BY SMT, <1>1, <1>2 DEF Accepting
<1>4. i \in DOMAIN invitations
  BY Zenon, <1>2, <1>3
<1> HIDE DEF d, i
<1>5. CASE accepting' = [accepting EXCEPT ![a] = d("release")] /\ UNCHANGED locks
  BY Zenon, <1>1, <1>3, <1>4, <1>5, AcceptanceMovesAlone
<1>6. CASE /\ invitations[i].state = "pending" /\ locks' = [locks EXCEPT ![i] = a]
           /\ accepting' = [accepting EXCEPT ![a] = d("commit")]
  <2>1. locks \in Seq(Holders) /\ DOMAIN locks = DOMAIN invitations /\ a \in Holders
    BY Zenon DEF StaffInv, StaffTypes, Holders
  <2>2. /\ locks' \in Seq(Holders) /\ DOMAIN locks' = DOMAIN invitations
        /\ \A j \in DOMAIN invitations : locks'[j] = IF j = i THEN a ELSE locks[j]
    BY Zenon, <1>4, <1>6, <2>1, Rewrites
  <2>3. \A b \in StaffCalls \cup {"cli"} : b # NoOne
    BY Zenon, StaffNamesAssumption
  <2>4. /\ \A j \in DOMAIN invitations : locks[j] = "cli" => locks'[j] = "cli"
        /\ \A b \in StaffCalls, j \in DOMAIN invitations : locks[j] = b => locks'[j] = b
        /\ locks'[i] = a
    BY Zenon, <1>1, <1>4, <2>2, <2>3 DEF i
  <2>5. accepting' \in [StaffCalls -> Accepting] /\ \A b \in StaffCalls : AcceptsRightly(b)'
    <3>1. PICK e \in Accepting : /\ e = d("commit") /\ e.of = i
                                 /\ accepting' = [accepting EXCEPT ![a] = e]
      BY Zenon, <1>3, <1>6
    <3>2. e.of \in DOMAIN invitations' /\ locks'[e.of] = a /\ invitations'[e.of].state = "pending"
      BY Zenon, <1>1, <1>4, <1>6, <2>4, <3>1
    <3>3. /\ DOMAIN invitations \subseteq DOMAIN invitations'
          /\ \A b \in StaffCalls, j \in DOMAIN invitations :
               b # a /\ locks[j] = b /\ invitations[j].state = "pending" =>
                 locks'[j] = b /\ invitations'[j].state = "pending"
      BY Zenon, <1>1, <2>4
    <3> QED
      BY Zenon, <3>1, <3>2, <3>3, AcceptanceGoes
  <2>6. StaffTypes'
    BY Zenon, <1>1, <2>2, <2>5 DEF StaffInv, StaffTypes
  <2> QED
    BY Zenon, <1>1, <2>4, <2>5, <2>6, SameInvitations, StaffRests
<1> QED
  BY Zenon, <1>1, <1>5, <1>6

LEMMA ReleaseIsRight ==
  ASSUME StaffInv, NEW a \in StaffCalls, F!releaseClaim(a) PROVE StaffInv'
<1> DEFINE i == accepting[a].of
<1> DEFINE v == [invitations[i] EXCEPT !.claim = NoOne, !.stale = FALSE]
<1>1. /\ accepting[a].step = "release" /\ accepting' = [accepting EXCEPT ![a] = F!Idle]
      /\ invitations' = [invitations EXCEPT ![i] = v] \/ UNCHANGED invitations
      /\ UNCHANGED <<locks, suspended, roles, cli, acting>>
  BY Zenon DEF F!releaseClaim
<1>2. /\ accepting[a].step # "idle" => i \in DOMAIN invitations
      /\ F!Idle \in Accepting /\ F!Idle.step = "idle" /\ "idle" # "commit"
  BY Zenon, AcceptanceIs
<1>3. "release" # "idle"
  BY SMT
<1>4. i \in DOMAIN invitations
  BY Zenon, <1>1, <1>2, <1>3
<1>5. CASE invitations' = [invitations EXCEPT ![i] = v]
  <2>1. invitations[i] \in Invitation
    BY SMT, <1>4 DEF StaffInv, StaffTypes
  <2>2. v \in Invitation /\ v.via = invitations[i].via /\ v.role = invitations[i].role
        /\ v.state = invitations[i].state
    BY Zenon, <2>1 DEF Invitation
  <2> HIDE DEF v, i
  <2>3. /\ invitations' \in Seq(Invitation) /\ DOMAIN invitations' = DOMAIN invitations
        /\ InvitationsMove /\ NoNewFirst
        /\ \A j \in DOMAIN invitations : invitations'[j].state = invitations[j].state
    BY Zenon, <1>4, <1>5, <2>2, RowNoted
  <2> QED
    BY Zenon, <1>1, <1>2, <2>3, AcceptanceMoves
<1>6. CASE UNCHANGED invitations
  BY Zenon, <1>1, <1>2, <1>6, AcceptanceMovesAlone
<1> QED
  BY Zenon, <1>1, <1>5, <1>6

LEMMA CrashIsRight ==
  ASSUME StaffInv, NEW a \in StaffCalls, F!AcceptanceCrashes(a) PROVE StaffInv'
<1>1. /\ locks' = [i \in DOMAIN locks |-> IF locks[i] = a THEN NoOne ELSE locks[i]]
      /\ accepting' = [accepting EXCEPT ![a] = F!Idle]
      /\ UNCHANGED <<invitations, suspended, roles, cli, acting>>
  BY Zenon DEF F!AcceptanceCrashes
<1>2. locks \in Seq(Holders) /\ DOMAIN locks = DOMAIN invitations
  BY Zenon DEF StaffInv, StaffTypes
<1>3. F!Idle \in Accepting /\ F!Idle.step = "idle" /\ "idle" # "commit"
  BY Zenon, AcceptanceIs
<1>4. /\ DOMAIN locks' = DOMAIN locks /\ locks' = [i \in DOMAIN locks |-> locks'[i]]
      /\ \A i \in DOMAIN locks : locks'[i] = IF locks[i] = a THEN NoOne ELSE locks[i]
  BY Zenon, <1>1
<1>5. \A i \in DOMAIN locks : locks[i] \in Holders
  BY SMT, <1>2
<1>6. \A i \in DOMAIN locks : locks'[i] \in Holders
  BY Zenon, <1>4, <1>5 DEF Holders
<1>7. locks' \in Seq(Holders)
  BY Zenon, <1>2, <1>4, <1>6, Maps
<1>8. "cli" # a
  BY Zenon, StaffNamesAssumption
<1>9. /\ \A j \in DOMAIN invitations : locks[j] = "cli" => locks'[j] = "cli"
      /\ \A b \in StaffCalls, j \in DOMAIN invitations : b # a /\ locks[j] = b => locks'[j] = b
  BY Zenon, <1>2, <1>4, <1>8
<1>10. accepting' \in [StaffCalls -> Accepting] /\ \A b \in StaffCalls : AcceptsRightly(b)'
  BY Zenon, <1>1, <1>3, <1>9, AcceptanceGoes
<1>11. StaffTypes'
  BY Zenon, <1>1, <1>2, <1>4, <1>7, <1>10 DEF StaffInv, StaffTypes
<1> QED
  BY Zenon, <1>1, <1>9, <1>10, <1>11, SameInvitations, StaffRests

\* The acceptance commits: the invitation is accepted, and grants its role.
LEMMA CommitIsRight ==
  ASSUME StaffInv, NEW a \in StaffCalls, F!AcceptanceCommits(a) PROVE StaffInv'
<1> DEFINE i == accepting[a].of
<1> DEFINE v == [invitations[i] EXCEPT !.state = "accepted", !.claim = NoOne, !.stale = FALSE]
<1> DEFINE e == [account |-> invitations[i].email, role |-> invitations[i].role, by |-> i, active |-> TRUE]
<1>0. PICK m : m = Len(roles) + 1
  BY Zenon
<1>1. /\ accepting[a].step = "commit" /\ invitations' = [invitations EXCEPT ![i] = v]
      /\ roles' = Append(roles, e) /\ locks' = [locks EXCEPT ![i] = NoOne]
      /\ accepting' = [accepting EXCEPT ![a] = F!Idle] /\ UNCHANGED <<suspended, cli, acting>>
  BY Zenon DEF F!AcceptanceCommits
<1>2. /\ i \in DOMAIN invitations /\ locks[i] = a /\ invitations[i].state = "pending"
      /\ F!Idle \in Accepting /\ F!Idle.step = "idle" /\ "idle" # "commit" /\ i \in Nat
  BY Zenon, <1>1, AcceptanceIs DEF StaffInv, AcceptsRightly
<1>3. /\ invitations \in Seq(Invitation) /\ locks \in Seq(Holders) /\ roles \in Seq(StaffRole)
      /\ DOMAIN locks = DOMAIN invitations
  BY Zenon DEF StaffInv, StaffTypes
<1>4. invitations[i] \in Invitation /\ i # 0 /\ "pending" # "accepted"
  BY SMT, <1>2, <1>3
<1>5. /\ v \in Invitation /\ v.via = invitations[i].via /\ v.role = invitations[i].role
      /\ v.state = "accepted"
  BY Zenon, <1>4 DEF Invitation
<1>6. e \in StaffRole /\ e.by = i /\ e.role = invitations[i].role
  BY SMT, <1>2, <1>4 DEF Invitation, StaffRole
<1>7. NoOne \in Holders /\ \A b \in StaffCalls : b # NoOne /\ b # "cli"
  BY Zenon, StaffNamesAssumption DEF Holders
<1> HIDE DEF v, e, i
<1>8. /\ invitations' \in Seq(Invitation) /\ DOMAIN invitations' = DOMAIN invitations
      /\ invitations'[i] = v /\ \A j \in DOMAIN invitations : j # i => invitations'[j] = invitations[j]
  BY Zenon, <1>1, <1>2, <1>5, RowWritten
<1>9. /\ locks' \in Seq(Holders) /\ DOMAIN locks' = DOMAIN invitations
      /\ \A j \in DOMAIN invitations : j # i => locks'[j] = locks[j]
  BY Zenon, <1>1, <1>2, <1>3, <1>7, Rewrites
<1>10. /\ roles' \in Seq(StaffRole) /\ DOMAIN roles' = DOMAIN roles \cup {m} /\ m \notin DOMAIN roles
       /\ roles'[m] = e /\ \A n \in DOMAIN roles : roles'[n] = roles[n]
  BY SMT, <1>0, <1>1, <1>3, <1>6, Grows
<1>11. accepting' \in [StaffCalls -> Accepting] /\ \A b \in StaffCalls : AcceptsRightly(b)'
  <2>1. \A b \in StaffCalls, j \in DOMAIN invitations :
          b # a /\ locks[j] = b /\ invitations[j].state = "pending" =>
            locks'[j] = b /\ invitations'[j].state = "pending"
    BY Zenon, <1>2, <1>8, <1>9 DEF i
  <2> QED
    BY Zenon, <1>1, <1>2, <1>8, <2>1, AcceptanceGoes
<1>12. StaffTypes'
  BY Zenon, <1>1, <1>8, <1>9, <1>10, <1>11 DEF StaffInv, StaffTypes
<1>13. \A n \in DOMAIN roles : roles[n].by # i
  BY Zenon, <1>2, <1>4 DEF StaffInv, RolesAreGranted, i
<1>14. RolesAreGranted'
  <2>1. RolesAreGranted
    BY Zenon DEF StaffInv
  <2>2. ASSUME NEW n \in DOMAIN roles', roles'[n].by # 0
        PROVE  /\ roles'[n].by \in DOMAIN invitations' /\ invitations'[roles'[n].by].state = "accepted"
               /\ roles'[n].role = invitations'[roles'[n].by].role
    <3>1. CASE n = m
      BY Zenon, <1>2, <1>5, <1>6, <1>8, <1>10, <3>1 DEF i
    <3>2. CASE n \in DOMAIN roles
      BY SMT, <1>8, <1>10, <1>13, <2>1, <2>2, <3>2 DEF RolesAreGranted
    <3> QED
      BY Zenon, <1>10, <3>1, <3>2
  <2>3. ASSUME NEW k \in DOMAIN roles', NEW n \in DOMAIN roles', roles'[k].by = roles'[n].by, roles'[k].by # 0
        PROVE  k = n
    BY SMT, <1>6, <1>10, <1>13, <2>1, <2>3 DEF RolesAreGranted
  <2>4. ASSUME NEW j \in DOMAIN invitations', invitations'[j].state = "accepted"
        PROVE  \E n \in DOMAIN roles' : roles'[n].by = j
    <3>1. CASE j = i
      BY Zenon, <1>6, <1>10, <3>1
    <3>2. CASE j # i
      BY Zenon, <1>8, <1>10, <2>1, <2>4, <3>2 DEF RolesAreGranted
    <3> QED
      BY Zenon, <3>1, <3>2
  <2>5. ASSUME NEW j \in DOMAIN invitations', invitations'[j].via = "cli_bootstrap"
        PROVE  invitations'[j].role = "admin_operations"
    BY SMT, <1>2, <1>5, <1>8, <2>1, <2>5 DEF RolesAreGranted, i
  <2> QED
    BY Zenon, <2>2, <2>3, <2>4, <2>5 DEF RolesAreGranted
<1>15. \A j \in DOMAIN invitations : FirstPending(j)' => j # i /\ FirstPending(j)
  BY Zenon, <1>4, <1>5, <1>8 DEF FirstPending
<1>16. \A n \in DOMAIN roles : FirstAdmin(n)' => FirstAdmin(n)
  BY SMT, <1>1, <1>8, <1>10, <1>13 DEF FirstAdmin, StaffInv, RolesAreGranted
<1>17. FirstAdmin(m)' => FirstPending(i)
  <2>1. roles'[m].by = i /\ invitations'[i].via = invitations[i].via
    BY Zenon, <1>2, <1>5, <1>6, <1>8, <1>10 DEF i
  <2>2. invitations[i].state = "pending"
    BY Zenon, <1>2 DEF i
  <2> QED
    BY Zenon, <2>1, <2>2 DEF FirstAdmin, FirstPending
<1>18. OneFirst'
  <2>1. OneFirst /\ i \in DOMAIN invitations
    BY Zenon, <1>2 DEF StaffInv, i
  <2>2. \A n \in DOMAIN roles : FirstAdmin(m)' => ~FirstAdmin(n)
    BY Zenon, <1>17, <2>1 DEF OneFirst
  <2>3. \A j \in DOMAIN invitations : FirstAdmin(m)' => ~FirstPending(j)'
    BY Zenon, <1>15, <1>17, <2>1 DEF OneFirst
  <2>4. \A k, n \in DOMAIN roles' : FirstAdmin(k)' /\ FirstAdmin(n)' => k = n
    BY Zenon, <1>10, <1>16, <2>1, <2>2 DEF OneFirst
  <2>5. \A j, k \in DOMAIN invitations' : FirstPending(j)' /\ FirstPending(k)' => j = k
    BY Zenon, <1>8, <1>15, <2>1 DEF OneFirst
  <2>6. \A n \in DOMAIN roles', j \in DOMAIN invitations' : ~(FirstAdmin(n)' /\ FirstPending(j)')
    BY Zenon, <1>8, <1>10, <1>15, <1>16, <2>1, <2>3 DEF OneFirst
  <2> QED
    BY Zenon, <2>4, <2>5, <2>6 DEF OneFirst
<1>19. ToolHolds'
  <2>1. ToolHolds /\ cli' = cli /\ locks[i] # "cli" /\ "issue" \in {"count", "issue"}
    BY Zenon, <1>1, <1>2, <1>7 DEF StaffInv, i
  <2>2. cli.step \in {"count", "issue"} => ~FirstPending(i) /\ i \notin cli.live
    BY Zenon, <1>2, <2>1 DEF ToolHolds, i
  <2>3. cli.step \in {"count", "issue"} =>
          /\ \A j \in cli.live : j \in DOMAIN invitations' /\ locks'[j] = "cli"
          /\ \A j \in DOMAIN invitations' : FirstPending(j)' => j \in cli.live
    BY Zenon, <1>8, <1>9, <1>15, <2>1, <2>2 DEF ToolHolds
  <2>4. cli.step = "issue" => \A n \in DOMAIN roles' : ~FirstAdmin(n)'
    BY Zenon, <1>10, <1>16, <1>17, <2>1, <2>2 DEF ToolHolds
  <2> QED
    BY Zenon, <2>1, <2>3, <2>4 DEF ToolHolds
<1> QED
  BY Zenon, <1>11, <1>12, <1>14, <1>18, <1>19 DEF StaffInv

\* The tool takes rows nobody has, or lets its own go.
LEMMA ToolMoves ==
  ASSUME StaffInv, UNCHANGED <<invitations, roles, suspended, accepting, acting>>,
         cli' \in Cli, cli'.step # "idle" => cli'.email \in People, ToolHolds',
         locks' \in Seq(Holders), DOMAIN locks' = DOMAIN locks,
         \A b \in StaffCalls, i \in DOMAIN invitations : locks[i] = b => locks'[i] = b
  PROVE  StaffInv'
<1>1. StaffTypes'
  BY Zenon DEF StaffInv, StaffTypes
<1>2. \A a \in StaffCalls : AcceptsRightly(a)'
  BY Zenon, AcceptancesRest
<1>3. RolesAreGranted' /\ OneFirst'
  BY Zenon, SameInvitations, NothingNewIsPending
<1> QED
  BY Zenon, <1>1, <1>2, <1>3 DEF StaffInv

LEMMA ToolUnlocks ==
  ASSUME StaffInv, NEW u, u = F!CliUnlocks
  PROVE  /\ u \in Seq(Holders) /\ DOMAIN u = DOMAIN locks /\ Len(u) = Len(locks)
         /\ \A b \in StaffCalls, i \in DOMAIN invitations : locks[i] = b => u[i] = b
         /\ F!CliIdle \in Cli /\ F!CliIdle.step = "idle"
<1>1. locks \in Seq(Holders) /\ DOMAIN locks = DOMAIN invitations
  BY Zenon DEF StaffInv, StaffTypes
<1>2. /\ DOMAIN u = DOMAIN locks /\ u = [i \in DOMAIN locks |-> u[i]]
      /\ \A i \in DOMAIN locks : u[i] = IF locks[i] = "cli" THEN NoOne ELSE locks[i]
  BY Zenon DEF F!CliUnlocks
<1>3. \A i \in DOMAIN locks : locks[i] \in Holders
  BY SMT, <1>1
<1>4. \A i \in DOMAIN locks : u[i] \in Holders
  BY Zenon, <1>2, <1>3 DEF Holders
<1>5. u \in Seq(Holders) /\ Len(u) = Len(locks)
  BY SMT, <1>1, <1>2, <1>4, Maps
<1>6. F!CliIdle \in Cli /\ F!CliIdle.step = "idle"
  BY SMT DEF F!CliIdle, Cli
<1>7. \A b \in StaffCalls : b # "cli"
  BY Zenon, StaffNamesAssumption
<1> QED
  BY Zenon, <1>1, <1>2, <1>5, <1>6, <1>7

LEMMA ToolStops ==
  ASSUME StaffInv, UNCHANGED <<invitations, roles, suspended, accepting, acting>>,
         cli' = F!CliIdle, locks' = F!CliUnlocks
  PROVE  StaffInv'
<1>1. /\ locks' \in Seq(Holders) /\ DOMAIN locks' = DOMAIN locks
      /\ \A b \in StaffCalls, i \in DOMAIN invitations : locks[i] = b => locks'[i] = b
      /\ cli' \in Cli /\ cli'.step = "idle"
  BY Zenon, ToolUnlocks
<1>2. ToolHolds'
  BY SMT, <1>1 DEF ToolHolds
<1> QED
  BY Zenon, <1>1, <1>2, ToolMoves

LEMMA ToolStartsRightly ==
  ASSUME StaffInv, NEW p \in People, F!BootstrapFirstAdminService(p) PROVE StaffInv'
<1>1. cli' = [step |-> "lock", email |-> p, live |-> {}]
      /\ UNCHANGED <<invitations, locks, suspended, roles, accepting, acting>>
  BY Zenon DEF F!BootstrapFirstAdminService
<1>2. cli' \in Cli /\ cli'.step = "lock" /\ cli'.email \in People
  BY SMT, <1>1 DEF Cli
<1>3. ToolHolds'
  BY SMT, <1>2 DEF ToolHolds
<1>4. locks' \in Seq(Holders) /\ DOMAIN locks' = DOMAIN locks
  BY Zenon, <1>1 DEF StaffInv, StaffTypes
<1> QED
  BY Zenon, <1>1, <1>2, <1>3, <1>4, ToolMoves

LEMMA LockLiveIsRight == ASSUME StaffInv, F!LockLive PROVE StaffInv'
<1> DEFINE rows == F!LiveFor(cli.email)
<1>1. /\ cli.step = "lock" /\ \A i \in rows : locks[i] = NoOne
      /\ locks' = [i \in DOMAIN locks |-> IF i \in rows THEN "cli" ELSE locks[i]]
      /\ cli' = [cli EXCEPT !.step = "count", !.live = rows]
      /\ UNCHANGED <<invitations, suspended, roles, accepting, acting>>
  BY Zenon DEF F!LockLive, F!Unlocked
<1>2. /\ invitations \in Seq(Invitation) /\ locks \in Seq(Holders) /\ DOMAIN locks = DOMAIN invitations
      /\ cli \in Cli /\ (cli.step # "idle" => cli.email \in People)
  BY Zenon DEF StaffInv, StaffTypes
<1>3. rows \subseteq DOMAIN invitations /\ \A i \in DOMAIN invitations : FirstPending(i) => i \in rows
  BY Zenon DEF F!LiveFor, F!Pending, FirstPending
<1> HIDE DEF rows
<1>4. rows \subseteq Nat
  BY SMT, <1>2, <1>3
<1>5. cli' \in Cli /\ cli'.step = "count" /\ cli'.live = rows /\ cli'.email = cli.email /\ cli.step # "idle"
  BY Zenon, <1>1, <1>2, <1>4 DEF Cli
<1>6. /\ DOMAIN locks' = DOMAIN locks /\ locks' = [i \in DOMAIN locks |-> locks'[i]]
      /\ \A i \in DOMAIN locks : locks'[i] = IF i \in rows THEN "cli" ELSE locks[i]
  BY Zenon, <1>1
<1>7. \A i \in DOMAIN locks : locks[i] \in Holders
  BY SMT, <1>2
<1>8. \A i \in DOMAIN locks : locks'[i] \in Holders
  BY Zenon, <1>6, <1>7 DEF Holders
<1>9. locks' \in Seq(Holders)
  BY Zenon, <1>2, <1>6, <1>8, Maps
<1>10. \A b \in StaffCalls, i \in DOMAIN invitations : locks[i] = b => locks'[i] = b
  BY Zenon, <1>1, <1>2, <1>6, StaffNamesAssumption
<1>11. \A i \in rows : locks'[i] = "cli"
  BY Zenon, <1>2, <1>3, <1>6
<1>12. "count" # "issue"
  BY SMT
<1>13. ToolHolds'
  BY Zenon, <1>1, <1>3, <1>5, <1>11, <1>12 DEF ToolHolds, FirstPending
<1> QED
  BY Zenon, <1>1, <1>2, <1>5, <1>6, <1>9, <1>10, <1>13, ToolMoves

LEMMA CountAdminsIsRight == ASSUME StaffInv, F!CountAdmins PROVE StaffInv'
<1>1. /\ cli.step = "count"
      /\ \/ F!activeAdmins = {} /\ cli' = [cli EXCEPT !.step = "issue"] /\ UNCHANGED locks
         \/ cli' = F!CliIdle /\ locks' = F!CliUnlocks
      /\ UNCHANGED <<invitations, suspended, roles, accepting, acting>>
  BY Zenon DEF F!CountAdmins
<1>2. CASE cli' = F!CliIdle /\ locks' = F!CliUnlocks
  BY Zenon, <1>1, <1>2, ToolStops
<1>3. CASE F!activeAdmins = {} /\ cli' = [cli EXCEPT !.step = "issue"] /\ UNCHANGED locks
  <2>1. cli \in Cli /\ (cli.step # "idle" => cli.email \in People) /\ roles \in Seq(StaffRole)
        /\ locks' \in Seq(Holders)
    BY Zenon, <1>3 DEF StaffInv, StaffTypes
  <2>2. /\ cli' \in Cli /\ cli'.step = "issue" /\ cli'.live = cli.live /\ cli'.email = cli.email
        /\ cli.step # "idle" /\ cli.step \in {"count", "issue"}
    BY SMT, <1>1, <1>3, <2>1 DEF Cli
  <2>3. \A n \in DOMAIN roles : roles[n].account \in People
    <3>1. \A n \in DOMAIN roles : roles[n] \in StaffRole
      BY SMT, <2>1
    <3> QED
      BY Zenon, <3>1 DEF StaffRole
  <2>4. \A n \in DOMAIN roles : ~FirstAdmin(n)
    BY SMT, <1>3, <2>3 DEF StaffInv, RolesAreGranted, FirstAdmin, F!activeAdmins, F!HasRole
  <2>5. ToolHolds
    BY Zenon DEF StaffInv
  <2>6. ToolHolds'
    BY Zenon, <1>1, <1>3, <2>2, <2>4, <2>5 DEF ToolHolds, FirstPending, FirstAdmin
  <2> QED
    BY Zenon, <1>1, <1>3, <2>1, <2>2, <2>6, ToolMoves
<1> QED
  BY Zenon, <1>1, <1>2, <1>3

\* The tool replaces the invitations it has locked: its own is the only pending one.
LEMMA IssueIsRight == ASSUME StaffInv, F!issueBootstrapInvitation PROVE StaffInv'
<1> DEFINE gone == {i \in cli.live : F!Pending(i)}
<1> DEFINE r == F!Revoked(gone)
<1> DEFINE e == F!Issued(cli.email, "admin_operations", "cli_bootstrap")
<1>1. /\ cli.step = "issue" /\ cli' = F!CliIdle
      /\ \/ invitations' = Append(r, e) /\ locks' = Append(F!CliUnlocks, NoOne)
         \/ locks' = F!CliUnlocks /\ UNCHANGED invitations
      /\ UNCHANGED <<suspended, roles, accepting, acting>>
  BY Zenon DEF F!issueBootstrapInvitation
<1>2. CASE locks' = F!CliUnlocks /\ UNCHANGED invitations
  BY Zenon, <1>1, <1>2, ToolStops
<1>3. CASE invitations' = Append(r, e) /\ locks' = Append(F!CliUnlocks, NoOne)
  <2>1. /\ invitations \in Seq(Invitation) /\ locks \in Seq(Holders) /\ DOMAIN locks = DOMAIN invitations
        /\ (cli.step # "idle" => cli.email \in People)
    BY Zenon DEF StaffInv, StaffTypes
  <2>2. /\ cli.step # "idle" /\ cli.step \in {"count", "issue"} /\ "pending" # "accepted"
        /\ "revoked" # "pending"
    BY SMT, <1>1
  <2>3. e \in Invitation /\ e.state = "pending" /\ e.role = "admin_operations"
    BY SMT, <2>1, <2>2 DEF F!Issued, Invitation, F!Roles
  <2>4. /\ \A i \in cli.live : i \in DOMAIN invitations /\ locks[i] = "cli"
        /\ \A i \in DOMAIN invitations : FirstPending(i) => i \in cli.live
        /\ \A n \in DOMAIN roles : ~FirstAdmin(n)
    BY Zenon, <1>1, <2>2 DEF StaffInv, ToolHolds
  <2>5. /\ gone \in SUBSET DOMAIN invitations /\ \A i \in gone : invitations[i].state = "pending"
        /\ \A i \in gone : locks[i] = "cli"
        /\ \A i \in DOMAIN invitations : FirstPending(i) => i \in gone
    BY Zenon, <2>4 DEF F!Pending, FirstPending
  <2> HIDE DEF gone
  <2>6. /\ r \in Seq(Invitation) /\ DOMAIN r = DOMAIN invitations /\ Len(r) = Len(invitations)
        /\ \A i \in DOMAIN invitations :
             /\ r[i].via = invitations[i].via /\ r[i].role = invitations[i].role
             /\ r[i].state = IF i \in gone THEN "revoked" ELSE invitations[i].state
             /\ r[i].state = "accepted" <=> invitations[i].state = "accepted"
             /\ r[i].state = "pending" => invitations[i].state = "pending"
    BY Zenon, <2>5, RevokedRows
  <2>7. /\ F!CliUnlocks \in Seq(Holders) /\ DOMAIN F!CliUnlocks = DOMAIN locks
        /\ Len(F!CliUnlocks) = Len(locks) /\ F!CliIdle \in Cli /\ F!CliIdle.step = "idle"
        /\ \A b \in StaffCalls, i \in DOMAIN invitations : locks[i] = b => F!CliUnlocks[i] = b
    BY Zenon, ToolUnlocks
  <2>8. NoOne \in Holders /\ Len(locks) = Len(invitations)
    BY SMT, <2>1 DEF Holders
  <2> HIDE DEF r, e
  <2>9. /\ invitations' \in Seq(Invitation) /\ DOMAIN invitations' = DOMAIN invitations \cup {Len(invitations) + 1}
        /\ invitations'[Len(invitations) + 1] = e /\ \A i \in DOMAIN invitations : invitations'[i] = r[i]
    BY SMT, <1>3, <2>3, <2>6, Grows
  <2>10. /\ locks' \in Seq(Holders) /\ DOMAIN locks' = DOMAIN invitations'
         /\ \A i \in DOMAIN invitations : locks'[i] = F!CliUnlocks[i]
    BY SMT, <1>3, <2>1, <2>7, <2>8, <2>9, Grows
  <2>11. /\ DOMAIN invitations \subseteq DOMAIN invitations'
         /\ \A i \in DOMAIN invitations' :
              i \notin DOMAIN invitations => invitations'[i] = e /\ i = Len(invitations) + 1
    BY Zenon, <2>9
  <2>12. InvitationsMove
    BY Zenon, <2>3, <2>6, <2>9, <2>11 DEF InvitationsMove
  <2>13. RolesAreGranted' /\ \A n \in DOMAIN roles : ~FirstAdmin(n)'
    BY Zenon, <1>1, <2>4, <2>12, GrantsStay
  <2>14. \A i \in DOMAIN invitations : ~FirstPending(i)'
    BY SMT, <2>2, <2>5, <2>6, <2>9 DEF FirstPending
  <2>15. OneFirst'
    BY Zenon, <1>1, <2>11, <2>13, <2>14 DEF OneFirst
  <2>16. ToolHolds'
    <3>1. cli'.step = "idle"
      BY Zenon, <1>1, <2>7
    <3> QED
      BY SMT, <3>1 DEF ToolHolds
  <2>17. StaffTypes'
    BY Zenon, <1>1, <2>7, <2>9, <2>10 DEF StaffInv, StaffTypes
  <2>18. \A b \in StaffCalls, i \in DOMAIN invitations :
           locks[i] = b /\ invitations[i].state = "pending" =>
             locks'[i] = b /\ invitations'[i].state = "pending"
    BY SMT, <2>5, <2>6, <2>7, <2>9, <2>10, StaffNamesAssumption
  <2>19. \A a \in StaffCalls : AcceptsRightly(a)'
    BY Zenon, <1>1, <2>11, <2>18, AcceptancesRest
  <2> QED
    BY Zenon, <2>13, <2>15, <2>16, <2>17, <2>19 DEF StaffInv
<1> QED
  BY Zenon, <1>1, <1>2, <1>3

\* Administrators change roles: what an invitation granted stays its own.
LEMMA RolesMove ==
  ASSUME StaffInv, UNCHANGED <<invitations, locks, accepting, cli>>, roles' \in Seq(StaffRole),
         acting' \in Acting, acting'.step = "idle" \/ acting' = acting, suspended \subseteq suspended',
         DOMAIN roles \subseteq DOMAIN roles',
         \A n \in DOMAIN roles : /\ roles'[n].by = roles[n].by /\ roles'[n].account = roles[n].account
                                /\ roles'[n].role = roles[n].role /\ (roles'[n].active => roles[n].active),
         \A n \in DOMAIN roles' : n \notin DOMAIN roles => roles'[n].by = 0
  PROVE  StaffInv'
<1>1. StaffTypes'
  BY Zenon DEF StaffInv, StaffTypes
<1>2. \A a \in StaffCalls : AcceptsRightly(a)'
  BY Zenon, AcceptancesRest
<1>3. \A n \in DOMAIN roles' : FirstAdmin(n)' => n \in DOMAIN roles /\ FirstAdmin(n)
  BY Zenon DEF FirstAdmin
<1>4. \A i \in DOMAIN invitations : FirstPending(i)' <=> FirstPending(i)
  BY Zenon DEF FirstPending
<1>5. OneFirst'
  BY Zenon, <1>3, <1>4 DEF StaffInv, OneFirst
<1>6. ToolHolds'
  BY Zenon, <1>3, <1>4 DEF StaffInv, ToolHolds
<1>7. ASSUME NEW n \in DOMAIN roles', roles'[n].by # 0
      PROVE  /\ n \in DOMAIN roles /\ roles[n].by # 0 /\ roles'[n].by \in DOMAIN invitations'
             /\ invitations'[roles'[n].by].state = "accepted"
             /\ roles'[n].role = invitations'[roles'[n].by].role
  BY SMT, <1>7 DEF StaffInv, RolesAreGranted
<1>8. ASSUME NEW m \in DOMAIN roles', NEW n \in DOMAIN roles', roles'[m].by = roles'[n].by, roles'[m].by # 0
      PROVE  m = n
  BY SMT, <1>7, <1>8 DEF StaffInv, RolesAreGranted
<1>9. \A i \in DOMAIN invitations' : invitations'[i].state = "accepted" =>
        \E n \in DOMAIN roles' : roles'[n].by = i
  BY SMT DEF StaffInv, RolesAreGranted
<1>10. RolesAreGranted'
  BY Zenon, <1>7, <1>8, <1>9 DEF StaffInv, RolesAreGranted
<1> QED
  BY Zenon, <1>1, <1>2, <1>5, <1>6, <1>10 DEF StaffInv

LEMMA GrantIsRight == ASSUME StaffInv, F!grantRole PROVE StaffInv'
<1> DEFINE e == [account |-> acting.person, role |-> "admin_operations", by |-> 0, active |-> TRUE]
<1>1. /\ acting.step = "grant" /\ roles' = Append(roles, e) /\ acting' = F!NotActing
      /\ UNCHANGED <<invitations, locks, suspended, accepting, cli>>
  BY Zenon DEF F!grantRole
<1>2. (acting.step # "idle" => acting.person \in People) /\ roles \in Seq(StaffRole)
  BY Zenon DEF StaffInv, StaffTypes
<1>3. e \in StaffRole /\ e.by = 0
  BY SMT, <1>1, <1>2 DEF StaffRole, F!Roles
<1>4. F!NotActing \in Acting /\ F!NotActing.step = "idle"
  BY SMT DEF F!NotActing, Acting
<1> HIDE DEF e
<1>5. /\ roles' \in Seq(StaffRole) /\ DOMAIN roles' = DOMAIN roles \cup {Len(roles) + 1}
      /\ roles'[Len(roles) + 1] = e /\ \A n \in DOMAIN roles : roles'[n] = roles[n]
  BY SMT, <1>1, <1>2, <1>3, Grows
<1>6. DOMAIN roles \subseteq DOMAIN roles' /\ \A n \in DOMAIN roles' : n \notin DOMAIN roles => roles'[n].by = 0
  BY Zenon, <1>3, <1>5
<1> QED
  BY Zenon, <1>1, <1>4, <1>5, <1>6, RolesMove

LEMMA RevokeIsRight == ASSUME StaffInv, NEW n \in DOMAIN roles, F!RevokeStaffRoleService(n) PROVE StaffInv'
<1> DEFINE e == [roles[n] EXCEPT !.active = FALSE]
<1>1. roles' = [roles EXCEPT ![n] = e] /\ UNCHANGED <<invitations, locks, suspended, accepting, cli, acting>>
  BY Zenon DEF F!RevokeStaffRoleService, F!revokeRole
<1>2. roles \in Seq(StaffRole) /\ acting \in Acting
  BY Zenon DEF StaffInv, StaffTypes
<1>3. roles[n] \in StaffRole
  BY SMT, <1>2
<1>4. /\ e \in StaffRole /\ e.by = roles[n].by /\ e.account = roles[n].account /\ e.role = roles[n].role
      /\ e.active = FALSE
  BY Zenon, <1>3 DEF StaffRole
<1> HIDE DEF e
<1>5. /\ roles' \in Seq(StaffRole) /\ DOMAIN roles' = DOMAIN roles
      /\ \A m \in DOMAIN roles : roles'[m] = IF m = n THEN e ELSE roles[m]
  BY Zenon, <1>1, <1>2, <1>4, Rewrites
<1>6. \A m \in DOMAIN roles : /\ roles'[m].by = roles[m].by /\ roles'[m].account = roles[m].account
                             /\ roles'[m].role = roles[m].role /\ (roles'[m].active => roles[m].active)
  BY Zenon, <1>4, <1>5
<1> QED
  BY Zenon, <1>1, <1>2, <1>5, <1>6, RolesMove

LEMMA OffboardingIsRight == ASSUME StaffInv, F!completeOffboarding PROVE StaffInv'
<1>1. /\ roles' = [n \in DOMAIN roles |-> IF roles[n].account = acting.person
                                        THEN [roles[n] EXCEPT !.active = FALSE] ELSE roles[n]]
      /\ suspended \subseteq suspended' /\ acting' = F!NotActing
      /\ UNCHANGED <<invitations, locks, accepting, cli>>
  BY Zenon DEF F!completeOffboarding
<1>2. roles \in Seq(StaffRole)
  BY Zenon DEF StaffInv, StaffTypes
<1>3. \A n \in DOMAIN roles : roles[n] \in StaffRole
  BY SMT, <1>2
<1>4. ASSUME NEW v \in StaffRole
      PROVE  /\ [v EXCEPT !.active = FALSE] \in StaffRole /\ [v EXCEPT !.active = FALSE].by = v.by
             /\ [v EXCEPT !.active = FALSE].account = v.account /\ [v EXCEPT !.active = FALSE].role = v.role
             /\ [v EXCEPT !.active = FALSE].active = FALSE
  BY Zenon DEF StaffRole
<1>5. /\ DOMAIN roles' = DOMAIN roles /\ roles' = [n \in DOMAIN roles |-> roles'[n]]
      /\ \A n \in DOMAIN roles : roles'[n] = IF roles[n].account = acting.person
                                           THEN [roles[n] EXCEPT !.active = FALSE] ELSE roles[n]
  BY Zenon, <1>1
<1>6. ASSUME NEW n \in DOMAIN roles
      PROVE  /\ roles'[n] \in StaffRole /\ roles'[n].by = roles[n].by /\ roles'[n].account = roles[n].account
             /\ roles'[n].role = roles[n].role /\ (roles'[n].active => roles[n].active)
  BY Zenon, <1>3, <1>4, <1>5
<1>7. roles' \in Seq(StaffRole)
  BY SMT, <1>2, <1>5, <1>6, Maps
<1>8. F!NotActing \in Acting /\ F!NotActing.step = "idle"
  BY SMT DEF F!NotActing, Acting
<1> QED
  BY Zenon, <1>1, <1>5, <1>6, <1>7, <1>8, RolesMove

LEMMA AdministratorLooks ==
  ASSUME StaffInv, F!ActingFails \/ \E p \in People : \/ F!IssueStaffInvitationService(p)
                                                     \/ F!GrantStaffRoleService(p)
                                                     \/ F!OffboardStaffAccountService(p)
  PROVE  StaffInv'
<1>1. CASE F!ActingFails
  <2>1. F!NotActing \in Acting /\ F!NotActing.step = "idle"
    BY SMT DEF F!NotActing, Acting
  <2> QED
    BY Zenon, <1>1, <2>1, LookingIsRight DEF F!ActingFails
<1>2. ASSUME NEW p \in People, \/ F!IssueStaffInvitationService(p) \/ F!GrantStaffRoleService(p)
                               \/ F!OffboardStaffAccountService(p)
      PROVE  StaffInv'
  <2>1. PICK s \in {"invite", "grant", "offboard"} : acting' = [step |-> s, person |-> p]
    BY Zenon, <1>2 DEF F!IssueStaffInvitationService, F!GrantStaffRoleService, F!OffboardStaffAccountService
  <2>2. UNCHANGED <<invitations, locks, suspended, roles, accepting, cli>>
    BY Zenon, <1>2 DEF F!IssueStaffInvitationService, F!GrantStaffRoleService, F!OffboardStaffAccountService
  <2>3. acting' \in Acting /\ acting'.person \in People
    BY SMT, <2>1 DEF Acting
  <2> QED
    BY Zenon, <2>2, <2>3, LookingIsRight
<1> QED
  BY Zenon, <1>1, <1>2

LEMMA AcceptanceStepKeeps ==
  ASSUME StaffInv, NEW a \in StaffCalls, F!AcceptanceSteps(a) PROVE StaffInv'
BY Zenon, ClaimIsRight, AcceptanceReadsRightly, AcceptanceUpdatesRightly, CommitIsRight,
   ReleaseIsRight, CrashIsRight DEF F!AcceptanceSteps

LEMMA StaffStepKeeps == ASSUME StaffInv, F!Next PROVE StaffInv'
<1>1. ASSUME F!BootstrapFails PROVE StaffInv'
  BY Zenon, <1>1, ToolStops DEF F!BootstrapFails
<1>2. ASSUME NEW i \in DOMAIN invitations, F!revokeInvitation(i) \/ F!Expires(i) \/ F!ClaimGoesStale(i)
      PROVE  StaffInv'
  BY Zenon, <1>2, RevokeInvitationIsRight, TimeIsRight
<1>3. ASSUME NEW p \in People, F!IssueStaffInvitationService(p) \/ F!GrantStaffRoleService(p)
                                \/ F!OffboardStaffAccountService(p)
      PROVE  StaffInv'
  BY Zenon, <1>3, AdministratorLooks
<1>4. ASSUME F!ActingFails PROVE StaffInv'
  BY Zenon, <1>4, AdministratorLooks
<1> QED
  BY Zenon, <1>1, <1>2, <1>3, <1>4, CreateInvitationIsRight, AcceptanceStepKeeps, ToolStartsRightly,
     LockLiveIsRight, CountAdminsIsRight, IssueIsRight, GrantIsRight, OffboardingIsRight, RevokeIsRight
  DEF F!Next

LEMMA StaffIsKept == ASSUME StaffInv, [F!Next]_(F!vars) PROVE StaffInv'
<1>1. CASE UNCHANGED F!vars
  <2>1. UNCHANGED <<invitations, locks, suspended, roles, accepting, cli, acting>>
    BY Zenon, <1>1 DEF F!vars
  <2>2. acting \in Acting /\ (acting.step # "idle" => acting.person \in People)
    BY Zenon DEF StaffInv, StaffTypes
  <2> QED
    BY Zenon, <2>1, <2>2, LookingIsRight
<1> QED
  BY Zenon, <1>1, StaffStepKeeps

\* The inductive invariant of staff invitations: a role that was granted by an invitation is its
\* only one, a commit has its row, and the tool's rows stay what they were when it locked them.
THEOREM StaffInvariant == F!Spec => []StaffInv
<1>1. F!Init => StaffInv
  BY Zenon, StaffStarts
<1>2. StaffInv /\ [F!Next]_(F!vars) => StaffInv'
  BY Zenon, StaffIsKept
<1> QED
  BY <1>1, <1>2, PTL DEF F!Spec

LEMMA SameNumber == \A X : F!Cardinality(X) = Cardinality(X)
BY Zenon DEF Cardinality, F!Cardinality

LEMMA AtMostOne ==
  ASSUME NEW X, \A x, y \in X : x = y
  PROVE  Cardinality(X) \in {0, 1} /\ (X # {} => Cardinality(X) = 1) /\ (X = {} => Cardinality(X) = 0)
<1>1. CASE X = {}
  BY Zenon, <1>1, FS_EmptySet
<1>2. CASE X # {}
  <2>1. PICK x \in X : TRUE
    BY Zenon, <1>2
  <2>2. X = {x}
    BY Zenon, <2>1
  <2> QED
    BY Zenon, <1>2, <2>2, FS_Singleton
<1> QED
  BY Zenon, <1>1, <1>2

LEMMA RightStaffGrantsOnce == StaffInv => F!InvitationsGrantOnce
<1> SUFFICES ASSUME StaffInv PROVE F!InvitationsGrantOnce
  BY Zenon
<1>1. ASSUME NEW i \in DOMAIN invitations
      PROVE  Cardinality({n \in DOMAIN roles : roles[n].by = i})
               = IF invitations[i].state = "accepted" THEN 1 ELSE 0
  <2> DEFINE X == {n \in DOMAIN roles : roles[n].by = i}
  <2>1. i # 0
    BY Zenon, PositionsArePositive DEF StaffInv, StaffTypes
  <2>2. \A x, y \in X : x = y
    BY Zenon, <2>1 DEF StaffInv, RolesAreGranted
  <2>3. X # {} <=> invitations[i].state = "accepted"
    BY SMT, <2>1 DEF StaffInv, RolesAreGranted
  <2> HIDE DEF X
  <2>4. Cardinality(X) = IF invitations[i].state = "accepted" THEN 1 ELSE 0
    BY Zenon, <2>2, <2>3, AtMostOne
  <2> QED
    BY Zenon, <2>4 DEF X
<1> DEFINE Firsts == {n \in DOMAIN roles :
       /\ roles[n].active /\ roles[n].account \notin suspended
       /\ roles[n].by # 0 /\ invitations[roles[n].by].via = "cli_bootstrap"}
<1>2. \A x, y \in Firsts : x = y
  BY Zenon DEF StaffInv, OneFirst, FirstAdmin
<1>3. Cardinality(Firsts) \in {0, 1}
  <2> HIDE DEF Firsts
  <2> QED
    BY Zenon, <1>2, AtMostOne
<1>4. Cardinality(Firsts) <= 1
  <2> HIDE DEF Firsts
  <2> QED
    BY SMT, <1>3
<1> QED
  BY Zenon, <1>1, <1>4, SameNumber DEF F!InvitationsGrantOnce

\* An accepted invitation has granted one role and any other none, and at most one active
\* administrator was made by the bootstrap tool, for any number of people, of overlapping
\* acceptances and of runs of the tool.
THEOREM InvitationsAreSpentOnce == F!Spec => []InvitationsGrantOnce
<1>1. StaffInv => InvitationsGrantOnce
  BY Zenon, RightStaffGrantsOnce DEF InvitationsGrantOnce
<1> QED
  BY <1>1, StaffInvariant, PTL
=============================================================================
