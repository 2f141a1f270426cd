---------------------------- MODULE CustomerProofs ----------------------------
(***************************************************************************)
(* For any number of requests, sessions, codes and members of staff: a     *)
(* replacement code replaces at most one phone, a session ends on time and *)
(* for good, and the status of an account changes only by a decision taken *)
(* in the same transaction.                                                *)
(*                                                                         *)
(* The codes.  CodeInv says that a replacement has spent the code it was   *)
(* made with.                                                              *)
(*                                                                         *)
(* The sessions.  SessionInv says that what a request or a hook holds was  *)
(* true of a row that has since only moved on, and that the copy customers *)
(* see never reaches past its row.                                         *)
(*                                                                         *)
(* The account.  AccountInv says that an operation under way is about a    *)
(* case or a closure on record, and that an approved case was verified and *)
(* reviewed by two different people.                                       *)
(***************************************************************************)
EXTENDS CustomerAccess, FiniteSetTheorems, TLAPS

-----------------------------------------------------------------------------
(* The codes that replace a phone.                                         *)

CodeRow == [session : CustomerSessions, createdAt : Nat, expiresAt : Nat, consumedAt : Int,
            attempts : Nat]

CodeCall == [step : {"idle", "withdraw", "create", "spend", "miss"},
             session : CustomerSessions \cup {0}, code : Nat, at : Nat]

CodeTypes ==
  /\ rNow \in Nat /\ phones \in Nat
  /\ codes \in Seq(CodeRow)
  /\ rCalls \in [CustomerCalls -> CodeCall]
  /\ replacements \in Seq([code : Nat, phone : Nat])

\* A verification has found the code it is about; a replacement has spent its code, and no
\* other replacement has it.
CodeInv ==
  /\ CodeTypes
  /\ \A c \in CustomerCalls :
       /\ rCalls[c].step # "idle" => rCalls[c].session \in CustomerSessions
       /\ rCalls[c].step \in {"spend", "miss"} => rCalls[c].code \in DOMAIN codes
  /\ \A n \in DOMAIN replacements :
       /\ replacements[n].code \in DOMAIN codes
       /\ codes[replacements[n].code].consumedAt # R!Never
  /\ R!CodesReplaceOnce

LEMMA CodesStart == R!Init => CodeInv
<1> SUFFICES ASSUME R!Init PROVE CodeInv
  BY Zenon
<1>1. CodeTypes
  BY SMT DEF R!Init, R!Idle, CodeTypes, CodeCall
<1>2. \A c \in CustomerCalls : rCalls[c].step = "idle"
  BY SMT DEF R!Init, R!Idle
<1>3. DOMAIN replacements = {}
  BY SMT DEF R!Init
<1> QED
  BY SMT, <1>1, <1>2, <1>3 DEF CodeInv, R!CodesReplaceOnce

\* A call moves, and no code that was spent is open again.
LEMMA CallMoves ==
  ASSUME CodeInv, NEW c \in CustomerCalls, NEW call \in CodeCall,
         rCalls' = [rCalls EXCEPT ![c] = call],
         call.step # "idle" => call.session \in CustomerSessions,
         call.step \in {"spend", "miss"} => call.code \in DOMAIN codes,
         codes' \in Seq(CodeRow), DOMAIN codes \subseteq DOMAIN codes',
         \A i \in DOMAIN codes : codes[i].consumedAt # R!Never => codes'[i].consumedAt # R!Never,
         UNCHANGED <<rNow, replacements>>, phones' \in Nat
  PROVE  CodeInv'
<1>1. CodeTypes'
  BY SMT DEF CodeInv, CodeTypes
<1>2. ASSUME NEW d \in CustomerCalls
      PROVE  /\ rCalls'[d].step # "idle" => rCalls'[d].session \in CustomerSessions
             /\ rCalls'[d].step \in {"spend", "miss"} => rCalls'[d].code \in DOMAIN codes'
  <2>1. rCalls'[d] = IF d = c THEN call ELSE rCalls[d]
    BY Zenon DEF CodeInv, CodeTypes
  <2> QED
    BY SMT, <2>1 DEF CodeInv
<1>3. ASSUME NEW n \in DOMAIN replacements'
      PROVE  /\ replacements'[n].code \in DOMAIN codes'
             /\ codes'[replacements'[n].code].consumedAt # R!Never
  BY Zenon DEF CodeInv
<1>4. R!CodesReplaceOnce'
  BY Zenon DEF CodeInv, R!CodesReplaceOnce
<1> QED
  BY Zenon, <1>1, <1>2, <1>3, <1>4 DEF CodeInv, R!Never

LEMMA CodeStepKeeps == ASSUME CodeInv, R!Next PROVE CodeInv'
<1> USE DEF R!Never
<1>1. CodeTypes /\ codes \in Seq(CodeRow) /\ rCalls \in [CustomerCalls -> CodeCall] /\ phones \in Nat
  BY Zenon DEF CodeInv, CodeTypes
<1>2. R!Idle \in CodeCall /\ R!Idle.step = "idle"
  BY SMT DEF R!Idle, CodeCall
<1>3. ASSUME NEW c \in CustomerCalls, NEW x \in CustomerSessions, R!RequestDeviceReplacementService(c, x)
      PROVE  CodeInv'
  <2> DEFINE call == [step |-> "withdraw", session |-> x, code |-> 0, at |-> rNow]
  <2>1. call \in CodeCall /\ call.step = "withdraw" /\ call.session = x
    BY SMT, <1>1 DEF CodeCall, CodeTypes
  <2>2. rCalls' = [rCalls EXCEPT ![c] = call] /\ UNCHANGED <<rNow, codes, phones, replacements>>
    BY Zenon, <1>3 DEF R!RequestDeviceReplacementService
  <2> HIDE DEF call
  <2> QED
    BY Zenon, CallMoves, <1>1, <2>1, <2>2
<1>4. ASSUME NEW c \in CustomerCalls, NEW x \in CustomerSessions, R!VerifyDeviceReplacementService(c, x)
      PROVE  CodeInv'
  <2>1. PICK i \in R!findPendingForAccount, step \in {"spend", "miss"} :
          rCalls' = [rCalls EXCEPT ![c] = [step |-> step, session |-> x, code |-> i, at |-> rNow]]
    BY Zenon, <1>4 DEF R!VerifyDeviceReplacementService
  <2>2. i \in DOMAIN codes /\ i \in Nat
    BY SMT, <1>1 DEF R!findPendingForAccount
  <2> DEFINE call == [step |-> step, session |-> x, code |-> i, at |-> rNow]
  <2>3. call \in CodeCall /\ call.code = i /\ call.session = x
    BY SMT, <1>1, <2>2 DEF CodeCall, CodeTypes
  <2>4. rCalls' = [rCalls EXCEPT ![c] = call] /\ UNCHANGED <<rNow, codes, phones, replacements>>
    BY Zenon, <1>4, <2>1 DEF R!VerifyDeviceReplacementService
  <2> HIDE DEF call
  <2> QED
    BY Zenon, CallMoves, <1>1, <2>2, <2>3, <2>4
<1>5. ASSUME NEW c \in CustomerCalls, R!revokePendingForAccount(c) PROVE CodeInv'
  <2> DEFINE call == [rCalls[c] EXCEPT !.step = "create"]
  <2>1. call \in CodeCall /\ call.step = "create" /\ rCalls[c].at \in Nat
        /\ call.session \in CustomerSessions
    BY SMT, <1>1, <1>5 DEF CodeCall, CodeInv, R!revokePendingForAccount
  <2>2. rCalls' = [rCalls EXCEPT ![c] = call] /\ UNCHANGED <<rNow, phones, replacements>>
    BY Zenon, <1>1, <1>5 DEF R!revokePendingForAccount, R!Goes
  <2>3. codes' = [i \in DOMAIN codes |->
                    IF codes[i].consumedAt = R!Never
                    THEN [codes[i] EXCEPT !.consumedAt = rCalls[c].at] ELSE codes[i]]
    BY Zenon, <1>5 DEF R!revokePendingForAccount
  <2>4. DOMAIN codes' = 1..Len(codes) /\ Len(codes) \in Nat /\ DOMAIN codes = DOMAIN codes'
    BY SMT, <1>1, <2>3
  <2>5. ASSUME NEW i \in DOMAIN codes
        PROVE  codes'[i] \in CodeRow /\ (codes[i].consumedAt # R!Never => codes'[i] = codes[i])
    <3>1. codes[i] \in CodeRow
      BY SMT, <1>1
    <3>2. [codes[i] EXCEPT !.consumedAt = rCalls[c].at] \in CodeRow
      BY SMT, <3>1, <2>1 DEF CodeRow
    <3> QED
      BY Zenon, <2>3, <3>1, <3>2
  <2>6. codes' \in Seq(CodeRow)
    <3>1. codes' \in [1..Len(codes) -> CodeRow]
      BY Zenon, <2>3, <2>4, <2>5
    <3> QED
      BY SMT, <3>1, <2>4
  <2> HIDE DEF call
  <2> QED
    BY Zenon, CallMoves, <1>1, <2>1, <2>2, <2>4, <2>5, <2>6
<1>6. ASSUME NEW c \in CustomerCalls, R!create(c) PROVE CodeInv'
  <2> DEFINE new == [session |-> rCalls[c].session, createdAt |-> rNow,
                     expiresAt |-> rCalls[c].at + CodeTtl, consumedAt |-> R!Never,
                     attempts |-> 0]
  <2>1. codes' = Append(codes, new) /\ rCalls' = [rCalls EXCEPT ![c] = R!Idle]
        /\ UNCHANGED <<rNow, phones, replacements>> /\ rCalls[c].step = "create"
    BY Zenon, <1>6 DEF R!create, R!Ends
  <2>2. new \in CodeRow
    BY SMT, <1>1, <2>1, LimitsAssumption DEF CodeRow, CodeCall, CodeTypes, CodeInv
  <2> HIDE DEF new
  <2>3. codes' \in Seq(CodeRow) /\ DOMAIN codes \subseteq DOMAIN codes'
        /\ \A i \in DOMAIN codes : codes'[i] = codes[i]
    BY SMT, <1>1, <2>1, <2>2
  <2> QED
    BY Zenon, CallMoves, <1>1, <1>2, <2>1, <2>3
<1>7. ASSUME NEW c \in CustomerCalls, R!incrementAttempts(c) PROVE CodeInv'
  <2> DEFINE i == rCalls[c].code
  <2>1. i \in DOMAIN codes /\ codes[i] \in CodeRow
    BY SMT, <1>1, <1>7 DEF CodeInv, R!incrementAttempts
  <2>2. [codes[i] EXCEPT !.attempts = codes[i].attempts + 1] \in CodeRow
    BY SMT, <2>1 DEF CodeRow
  <2>3. codes' = codes \/ codes' = [codes EXCEPT ![i] = [codes[i] EXCEPT !.attempts = codes[i].attempts + 1]]
    BY Zenon, <1>7 DEF R!incrementAttempts
  <2>0. [codes[i] EXCEPT !.attempts = codes[i].attempts + 1].consumedAt = codes[i].consumedAt
    BY Zenon, <2>1 DEF CodeRow
  <2>4. codes' \in Seq(CodeRow) /\ DOMAIN codes \subseteq DOMAIN codes'
    BY SMT, <1>1, <2>1, <2>2, <2>3
  <2>5. ASSUME NEW j \in DOMAIN codes PROVE codes'[j].consumedAt = codes[j].consumedAt
    BY Zenon, <2>0, <2>3
  <2>6. rCalls' = [rCalls EXCEPT ![c] = R!Idle] /\ UNCHANGED <<rNow, phones, replacements>>
    BY Zenon, <1>7 DEF R!incrementAttempts, R!Ends
  <2> QED
    BY Zenon, CallMoves, <1>1, <1>2, <2>4, <2>5, <2>6
<1>8. ASSUME NEW c \in CustomerCalls, R!consumeAndReplace(c) PROVE CodeInv'
  <2> DEFINE i == rCalls[c].code
  <2>1. i \in DOMAIN codes /\ codes[i] \in CodeRow /\ rCalls[c].at \in Nat /\ i \in Nat
        /\ rCalls[c].at \in Int
    BY SMT, <1>1, <1>8 DEF CodeInv, CodeCall, R!consumeAndReplace
  <2>2. rCalls' = [rCalls EXCEPT ![c] = R!Idle] /\ UNCHANGED <<rNow, phones>>
    BY Zenon, <1>8 DEF R!consumeAndReplace, R!Ends
  <2>3. CASE UNCHANGED <<codes, rEnrolled, replacements>>
    BY Zenon, CallMoves, <1>1, <1>2, <2>2, <2>3
  <2>4. CASE /\ codes[i].consumedAt = R!Never
             /\ codes' = [codes EXCEPT ![i].consumedAt = rCalls[c].at]
             /\ replacements' = Append(replacements, [code |-> i, phone |-> phones])
    <3> DEFINE new == [codes[i] EXCEPT !.consumedAt = rCalls[c].at]
    <3>1. new \in CodeRow /\ new.consumedAt = rCalls[c].at
      BY Zenon, <2>1 DEF CodeRow
    <3>2. codes' = [codes EXCEPT ![i] = new]
      BY Zenon, <2>4
    <3> HIDE DEF new
    <3>3. codes' \in Seq(CodeRow) /\ DOMAIN codes' = DOMAIN codes
          /\ codes'[i] = new /\ \A j \in DOMAIN codes : j # i => codes'[j] = codes[j]
      BY SMT, <1>1, <2>1, <3>1, <3>2
    <3> DEFINE r == [code |-> i, phone |-> phones]
               N == Len(replacements)
    <3>4. r \in [code : Nat, phone : Nat] /\ r.code = i
      BY SMT, <1>1, <2>1
    <3>5. replacements \in Seq([code : Nat, phone : Nat])
      BY Zenon, <1>1 DEF CodeTypes
    <3>6. replacements' = Append(replacements, r)
      BY Zenon, <2>4
    <3> HIDE DEF r, i
    <3>7. /\ replacements' \in Seq([code : Nat, phone : Nat]) /\ N \in Nat
          /\ DOMAIN replacements = 1..N /\ DOMAIN replacements' = 1..(N + 1)
          /\ replacements'[N + 1] = r
          /\ \A n \in 1..N : replacements'[n] = replacements[n]
      BY SMT, <3>4, <3>5, <3>6
    <3> HIDE DEF N
    <3>8. CodeTypes'
      <4>1. rCalls' \in [CustomerCalls -> CodeCall]
        BY Zenon, <1>1, <1>2, <2>2
      <4> QED
        BY Zenon, <1>1, <2>2, <3>3, <3>7, <4>1 DEF CodeTypes
    <3>9. ASSUME NEW d \in CustomerCalls
          PROVE  /\ rCalls'[d].step # "idle" => rCalls'[d].session \in CustomerSessions
                 /\ rCalls'[d].step \in {"spend", "miss"} => rCalls'[d].code \in DOMAIN codes'
      <4>1. rCalls'[d] = IF d = c THEN R!Idle ELSE rCalls[d]
        BY Zenon, <1>1, <2>2
      <4> QED
        BY Zenon, <1>2, <3>3, <4>1 DEF CodeInv
    <3>10. ASSUME NEW n \in 1..N
           PROVE  /\ replacements'[n].code \in DOMAIN codes /\ replacements'[n].code # i
                  /\ codes'[replacements'[n].code].consumedAt # R!Never
      <4>1. n \in DOMAIN replacements /\ replacements'[n] = replacements[n]
        BY Zenon, <3>7
      <4>2. /\ replacements[n].code \in DOMAIN codes
            /\ codes[replacements[n].code].consumedAt # R!Never
        BY Zenon, <4>1 DEF CodeInv
      <4> QED
        BY Zenon, <2>4, <3>3, <4>1, <4>2
    <3>11. ASSUME NEW n \in DOMAIN replacements'
           PROVE  /\ replacements'[n].code \in DOMAIN codes'
                  /\ codes'[replacements'[n].code].consumedAt # R!Never
      <4>1. n \in 1..N \/ n = N + 1
        BY SMT, <3>7
      <4>2. rCalls[c].at # R!Never
        BY SMT, <2>1 DEF R!Never
      <4> QED
        BY Zenon, <2>1, <3>1, <3>3, <3>4, <3>7, <3>10, <4>1, <4>2
    <3>12. R!CodesReplaceOnce'
      <4> SUFFICES ASSUME NEW m \in DOMAIN replacements', NEW n \in DOMAIN replacements',
                          replacements'[m].code = replacements'[n].code
                   PROVE  m = n
        BY Zenon DEF R!CodesReplaceOnce
      <4>1. CASE m \in 1..N /\ n \in 1..N
        BY SMT, <3>7, <4>1 DEF CodeInv, R!CodesReplaceOnce
      <4> QED
        BY SMT, <3>4, <3>7, <3>10, <4>1
    <3> QED
      BY Zenon, <3>8, <3>9, <3>11, <3>12 DEF CodeInv
  <2> QED
    BY Zenon, <1>8, <2>3, <2>4 DEF R!consumeAndReplace, R!Live
<1>9. ASSUME NEW c \in CustomerCalls, R!Crash(c) PROVE CodeInv'
  <2>1. rCalls' = [rCalls EXCEPT ![c] = R!Idle] /\ UNCHANGED <<rNow, codes, phones, replacements>>
    BY Zenon, <1>9 DEF R!Crash, R!Ends
  <2> QED
    BY Zenon, CallMoves, <1>1, <1>2, <2>1
<1>10. ASSUME R!Enrol \/ R!Tick PROVE CodeInv'
  <2>1. rNow' \in Nat /\ phones' \in Nat /\ UNCHANGED <<codes, rCalls, replacements>>
    BY SMT, <1>1, <1>10 DEF CodeTypes, R!Enrol, R!Tick
  <2> QED
    BY Zenon, <2>1 DEF CodeInv, CodeTypes, R!CodesReplaceOnce
<1> QED
  BY Zenon, <1>3, <1>4, <1>5, <1>6, <1>7, <1>8, <1>9, <1>10 DEF R!Next

LEMMA CodesAreKept == ASSUME CodeInv, [R!Next]_(R!vars) PROVE CodeInv'
<1>1. CASE UNCHANGED R!vars
  BY Zenon, <1>1 DEF R!vars, CodeInv, CodeTypes, R!CodesReplaceOnce
<1> QED
  BY Zenon, <1>1, CodeStepKeeps

\* The invariant of the replacement codes.
THEOREM CodeInvariant == R!Spec => []CodeInv
<1>1. R!Init => CodeInv
  BY Zenon, CodesStart
<1>2. CodeInv /\ [R!Next]_(R!vars) => CodeInv'
  BY Zenon, CodesAreKept
<1> QED
  BY <1>1, <1>2, PTL DEF R!Spec

\* A replacement code replaces at most one phone (consumeAndReplace), for any number of
\* requests, of sessions and of attempts.
THEOREM CodesAreSpentOnce == R!Spec => []CodesReplaceOnce
<1>1. CodeInv => CodesReplaceOnce
  BY Zenon DEF CodeInv, CodesReplaceOnce
<1> QED
  BY <1>1, CodeInvariant, PTL

-----------------------------------------------------------------------------
(* The lifetime of a session.                                              *)

SessionRow == [status : {"none", "live", "gone"}, created : Nat, activity : Nat]
SessionCopy == [status : {"none", "active", "revoked"}, idleExpiresAt : Nat]
SessionRequest ==
  [pc : {"idle", "found", "resolved", "counted", "copy", "served"},
   session : CustomerSessions \cup {NoSession}, created : Nat, activity : Nat, at : Nat]

SessionTypes ==
  /\ sNow \in Nat
  /\ row \in [CustomerSessions -> SessionRow]
  /\ mirror \in [CustomerSessions -> SessionCopy]
  /\ sRequest \in [CustomerCalls -> SessionRequest]
  /\ accepted \in [CustomerSessions -> SUBSET Nat]
  /\ ended \subseteq CustomerSessions

\* Before a session is created nothing is known of it; then its last activity counts as one,
\* and its copy promises no more than that.
RowIsRight(s) ==
  /\ row[s].status = "none" =>
       mirror[s].status = "none" /\ s \notin ended /\ <<"created", s>> \notin hooks
  /\ row[s].status # "none" =>
       /\ row[s].created <= row[s].activity /\ row[s].activity <= sNow
       /\ row[s].activity \in accepted[s]
  /\ s \in ended => row[s].status = "gone"
  /\ mirror[s].status # "none" =>
       /\ mirror[s].idleExpiresAt <= row[s].activity + IdleTimeout
       /\ mirror[s].idleExpiresAt <= row[s].created + Lifetime

\* What a request has read of its session was so and still counts, and the time it took is
\* one of the session's activity once every check has passed.
RequestIsRight(q) ==
  q.pc # "idle" =>
    /\ q.session \in CustomerSessions /\ row[q.session].status # "none"
    /\ q.created = row[q.session].created /\ q.created <= q.activity
    /\ q.activity \in accepted[q.session] /\ q.at <= sNow
    /\ q.pc \in {"found", "resolved"} => q.activity <= q.at
    /\ q.pc = "resolved" => q.at < q.created + Lifetime /\ q.at < q.activity + IdleTimeout
    /\ q.pc \in {"counted", "copy"} => q.at \in accepted[q.session]
    /\ q.pc = "copy" => q.at <= row[q.session].activity

SessionInv ==
  /\ SessionTypes
  /\ \A s \in CustomerSessions : RowIsRight(s)
  /\ \A r \in CustomerCalls : RequestIsRight(sRequest[r])

LEMMA Larger ==
  ASSUME NEW a \in Nat, NEW b \in Nat
  PROVE  /\ S!Max({a, b}) \in {a, b}
         /\ S!Max({a, b}) >= a /\ S!Max({a, b}) >= b
<1>1. \E x \in {a, b} : \A y \in {a, b} : x >= y
  BY SMT
<1>2. S!Max({a, b}) \in {a, b} /\ \A y \in {a, b} : S!Max({a, b}) >= y
  BY Zenon, <1>1 DEF S!Max
<1> QED
  BY Zenon, <1>2

LEMMA Smaller ==
  ASSUME NEW a \in Nat, NEW b \in Nat
  PROVE  /\ S!Min({a, b}) \in {a, b}
         /\ S!Min({a, b}) <= a /\ S!Min({a, b}) <= b
<1>1. \E x \in {a, b} : \A y \in {a, b} : x <= y
  BY SMT
<1>2. S!Min({a, b}) \in {a, b} /\ \A y \in {a, b} : S!Min({a, b}) <= y
  BY Zenon, <1>1 DEF S!Min
<1> QED
  BY Zenon, <1>2

LEMMA SessionsStart == S!Init => SessionInv
<1> SUFFICES ASSUME S!Init PROVE SessionInv
  BY Zenon
<1>1. SessionTypes
  BY SMT DEF S!Init, S!NoRow, S!NoCopy, S!Idle, SessionTypes, SessionRow, SessionCopy,
             SessionRequest
<1>2. ASSUME NEW s \in CustomerSessions PROVE RowIsRight(s)
  BY SMT DEF S!Init, S!NoRow, S!NoCopy, RowIsRight
<1>3. ASSUME NEW r \in CustomerCalls PROVE RequestIsRight(sRequest[r])
  BY SMT DEF S!Init, S!Idle, RequestIsRight
<1> QED
  BY Zenon, <1>1, <1>2, <1>3 DEF SessionInv

\* What a session has is kept: when it was created, and every time that counts.
SessionsGrow ==
  /\ sNow <= sNow'
  /\ \A s \in CustomerSessions : row[s].status # "none" =>
       /\ row'[s].status # "none" /\ row'[s].created = row[s].created
       /\ row[s].activity <= row'[s].activity /\ accepted[s] \subseteq accepted'[s]

LEMMA RequestStays ==
  ASSUME SessionTypes, SessionTypes', SessionsGrow, NEW q \in SessionRequest, RequestIsRight(q)
  PROVE  RequestIsRight(q)'
<1> SUFFICES ASSUME q.pc # "idle" PROVE RequestIsRight(q)'
  BY Zenon DEF RequestIsRight
<1> DEFINE s == q.session
<1>1. s \in CustomerSessions /\ row[s].status # "none"
  BY Zenon DEF RequestIsRight
<1>2. /\ row[s].activity \in Nat /\ row'[s].activity \in Nat /\ q.at \in Nat
      /\ sNow \in Nat /\ sNow' \in Nat
  BY SMT, <1>1 DEF SessionTypes, SessionRow, SessionRequest
<1>3. /\ row'[s].status # "none" /\ row'[s].created = row[s].created
      /\ row[s].activity <= row'[s].activity /\ accepted[s] \subseteq accepted'[s]
      /\ sNow <= sNow'
  BY Zenon, <1>1 DEF SessionsGrow
<1> QED
  BY SMT, <1>1, <1>2, <1>3 DEF RequestIsRight

\* One request goes on, the others stay right.
LEMMA RequestGoes ==
  ASSUME SessionInv, SessionTypes', SessionsGrow, NEW r \in CustomerCalls, NEW q \in SessionRequest,
         S!Goes(r, q), RequestIsRight(q)',
         \A s \in CustomerSessions : RowIsRight(s)'
  PROVE  SessionInv'
<1>1. ASSUME NEW o \in CustomerCalls PROVE RequestIsRight(sRequest[o])'
  <2>1. sRequest'[o] = IF o = r THEN q ELSE sRequest[o]
    BY Zenon DEF S!Goes, SessionInv, SessionTypes
  <2>2. CASE o = r
    BY Zenon, <2>1, <2>2 DEF RequestIsRight
  <2>3. CASE o # r
    <3>1. sRequest[o] \in SessionRequest /\ RequestIsRight(sRequest[o])
      BY Zenon DEF SessionInv, SessionTypes
    <3>2. \A p \in SessionRequest : RequestIsRight(p) => RequestIsRight(p)'
      BY Zenon, RequestStays DEF SessionInv
    <3> QED
      BY Zenon, <2>1, <2>3, <3>1, <3>2 DEF RequestIsRight
  <2> QED
    BY Zenon, <2>2, <2>3
<1> QED
  BY Zenon, <1>1 DEF SessionInv

\* No request moves.
LEMMA RequestsRest ==
  ASSUME SessionInv, SessionTypes', SessionsGrow, UNCHANGED sRequest,
         \A s \in CustomerSessions : RowIsRight(s)'
  PROVE  SessionInv'
<1>1. ASSUME NEW o \in CustomerCalls PROVE RequestIsRight(sRequest[o])'
  <2>1. sRequest[o] \in SessionRequest /\ RequestIsRight(sRequest[o])
    BY Zenon DEF SessionInv, SessionTypes
  <2>2. \A p \in SessionRequest : RequestIsRight(p) => RequestIsRight(p)'
    BY Zenon, RequestStays DEF SessionInv
  <2> QED
    BY Zenon, <2>1, <2>2 DEF RequestIsRight
<1> QED
  BY Zenon, <1>1 DEF SessionInv

\* A session that a step leaves alone stays right.
LEMMA RowStays ==
  ASSUME SessionTypes, SessionTypes', NEW s \in CustomerSessions, RowIsRight(s),
         row'[s] = row[s], mirror'[s] = mirror[s], s \in ended' => s \in ended,
         <<"created", s>> \in hooks' => <<"created", s>> \in hooks,
         accepted[s] \subseteq accepted'[s], sNow <= sNow'
  PROVE  RowIsRight(s)'
<1>1. row[s].activity \in Nat /\ sNow \in Nat /\ sNow' \in Nat
  BY SMT DEF SessionTypes, SessionRow
<1> QED
  BY SMT, <1>1 DEF RowIsRight

\* Deleting sessions ends the live ones, and nothing else changes.
LEMMA Deleted ==
  ASSUME SessionInv, NEW doomed \in SUBSET CustomerSessions, S!deleteSessions(doomed),
         UNCHANGED <<sNow, mirror, accepted>>, sRequest' \in [CustomerCalls -> SessionRequest],
         ended \subseteq ended', ended' \subseteq CustomerSessions,
         \A s \in ended' : s \in ended \/ (s \in doomed /\ row[s].status # "none")
  PROVE  SessionTypes' /\ SessionsGrow /\ \A s \in CustomerSessions : RowIsRight(s)'
<1>1. SessionTypes /\ sNow \in Nat
  BY Zenon DEF SessionInv, SessionTypes
<1>2. ASSUME NEW s \in CustomerSessions
      PROVE  /\ row'[s] \in SessionRow
             /\ row'[s].created = row[s].created /\ row'[s].activity = row[s].activity
             /\ row'[s].status = IF s \in doomed /\ row[s].status = "live" THEN "gone"
                                ELSE row[s].status
  <2>1. row[s] \in SessionRow
    BY Zenon, <1>1 DEF SessionTypes
  <2>2. row'[s] = IF s \in doomed /\ row[s].status = "live" THEN [row[s] EXCEPT !.status = "gone"]
                  ELSE row[s]
    BY Zenon DEF S!deleteSessions
  <2> QED
    BY SMT, <2>1, <2>2 DEF SessionRow
<1>3. row' \in [CustomerSessions -> SessionRow]
  BY Zenon, <1>2 DEF S!deleteSessions
<1>4. SessionTypes'
  BY Zenon, <1>1, <1>3 DEF SessionTypes
<1>5. ASSUME NEW s \in CustomerSessions
      PROVE  row[s].activity \in Nat /\ row[s].status \in {"none", "live", "gone"}
  BY SMT, <1>1 DEF SessionTypes, SessionRow
<1>6. SessionsGrow
  BY SMT, <1>1, <1>2, <1>5 DEF SessionsGrow
<1>7. ASSUME NEW s \in CustomerSessions PROVE RowIsRight(s)'
  <2>1. RowIsRight(s)
    BY Zenon DEF SessionInv
  <2>2. <<"created", s>> \in hooks' => <<"created", s>> \in hooks
    BY SMT DEF S!deleteSessions
  <2> QED
    BY SMT, <1>2, <1>5, <2>1, <2>2 DEF RowIsRight
<1> QED
  BY Zenon, <1>4, <1>6, <1>7

\* A session is created, and copied.
LEMMA CreatedIsRight ==
  ASSUME SessionInv, NEW s \in CustomerSessions, S!CreateSession(s)
  PROVE  SessionInv'
<1> DEFINE new == [status |-> "live", created |-> sNow, activity |-> sNow]
<1>1. SessionTypes /\ sNow \in Nat /\ row \in [CustomerSessions -> SessionRow]
      /\ accepted \in [CustomerSessions -> SUBSET Nat]
  BY Zenon DEF SessionInv, SessionTypes
<1>2. new \in SessionRow /\ new.status = "live" /\ new.created = sNow /\ new.activity = sNow
  BY SMT, <1>1 DEF SessionRow
<1>3. /\ row' = [row EXCEPT ![s] = new] /\ accepted' = [accepted EXCEPT ![s] = {sNow}]
      /\ hooks' = hooks \cup {<<"created", s>>} /\ row[s].status = "none"
      /\ UNCHANGED <<sNow, mirror, sRequest, ended>>
  BY Zenon DEF S!CreateSession
<1> HIDE DEF new
<1>4. /\ row'[s] = new /\ accepted'[s] = {sNow}
      /\ \A o \in CustomerSessions : o # s => row'[o] = row[o] /\ accepted'[o] = accepted[o]
  BY Zenon, <1>1, <1>3
<1>5. row' \in [CustomerSessions -> SessionRow] /\ accepted' \in [CustomerSessions -> SUBSET Nat]
  BY SMT, <1>1, <1>2, <1>3
<1>6. SessionTypes'
  BY Zenon, <1>1, <1>3, <1>5 DEF SessionTypes
<1>7. ASSUME NEW o \in CustomerSessions PROVE row[o].activity \in Nat
  BY SMT, <1>1 DEF SessionRow
<1>8. SessionsGrow
  BY SMT, <1>1, <1>3, <1>4, <1>7 DEF SessionsGrow
<1>9. ASSUME NEW o \in CustomerSessions PROVE RowIsRight(o)'
  <2>1. RowIsRight(o)
    BY Zenon DEF SessionInv
  <2>2. CASE o # s
    <3>1. <<"created", o>> \in hooks' => <<"created", o>> \in hooks
      BY Zenon, <1>3, <2>2
    <3>2. sNow <= sNow' /\ accepted[o] \subseteq accepted'[o]
      BY SMT, <1>1, <1>3, <1>4, <2>2
    <3> QED
      BY Zenon, <1>1, <1>3, <1>4, <1>6, <2>1, <2>2, <3>1, <3>2, RowStays
  <2>3. CASE o = s
    <3>1. s \notin ended /\ mirror[s].status = "none"
      BY Zenon, <1>3, <2>1, <2>3 DEF RowIsRight
    <3> QED
      BY SMT, <1>1, <1>2, <1>3, <1>4, <2>3, <3>1 DEF RowIsRight
  <2> QED
    BY Zenon, <2>2, <2>3
<1> QED
  BY Zenon, <1>3, <1>6, <1>8, <1>9, RequestsRest

\* The copy of a session changes, and promises no more than the row keeps.
LEMMA CopyMoves ==
  ASSUME SessionInv, NEW s \in CustomerSessions, NEW new \in SessionCopy,
         mirror' = [mirror EXCEPT ![s] = new],
         row[s].status = "none" => new.status = "none",
         new.status # "none" =>
           /\ new.idleExpiresAt <= row[s].activity + IdleTimeout
           /\ new.idleExpiresAt <= row[s].created + Lifetime,
         hooks' \subseteq hooks, UNCHANGED <<sNow, row, accepted, ended>>,
         sRequest' \in [CustomerCalls -> SessionRequest]
  PROVE  SessionTypes' /\ SessionsGrow /\ \A o \in CustomerSessions : RowIsRight(o)'
<1>1. SessionTypes /\ sNow \in Nat /\ mirror \in [CustomerSessions -> SessionCopy]
  BY Zenon DEF SessionInv, SessionTypes
<1>2. mirror'[s] = new /\ \A o \in CustomerSessions : o # s => mirror'[o] = mirror[o]
  BY Zenon, <1>1
<1>3. mirror' \in [CustomerSessions -> SessionCopy]
  BY Zenon, <1>1
<1>4. SessionTypes'
  BY Zenon, <1>1, <1>3 DEF SessionTypes
<1>5. ASSUME NEW o \in CustomerSessions PROVE row[o].activity \in Nat
  BY SMT, <1>1 DEF SessionTypes, SessionRow
<1>6. SessionsGrow
  BY SMT, <1>1, <1>5 DEF SessionsGrow
<1>7. ASSUME NEW o \in CustomerSessions PROVE RowIsRight(o)'
  <2>1. RowIsRight(o)
    BY Zenon DEF SessionInv
  <2>2. CASE o = s
    BY Zenon, <1>2, <2>1, <2>2 DEF RowIsRight
  <2>3. CASE o # s
    BY Zenon, <1>2, <2>1, <2>3 DEF RowIsRight
  <2> QED
    BY Zenon, <2>2, <2>3
<1> QED
  BY Zenon, <1>4, <1>6, <1>7

LEMMA CopiedIsRight ==
  ASSUME SessionInv, NEW s \in CustomerSessions, S!recordCreated(s) \/ S!recordRevoked(s)
  PROVE  SessionInv'
<1>1. SessionTypes /\ RowIsRight(s) /\ mirror[s] \in SessionCopy /\ row[s] \in SessionRow
      /\ sRequest \in [CustomerCalls -> SessionRequest]
  BY Zenon DEF SessionInv, SessionTypes
<1>2. /\ mirror[s].status \in {"none", "active", "revoked"} /\ mirror[s].idleExpiresAt \in Nat
      /\ row[s].created \in Nat /\ row[s].activity \in Nat
  BY SMT, <1>1 DEF SessionCopy, SessionRow
<1>3. hooks' \subseteq hooks /\ UNCHANGED <<sNow, row, sRequest, accepted, ended>>
  BY Zenon DEF S!recordCreated, S!recordRevoked
<1>4. CASE S!recordCreated(s)
  <2> DEFINE new == [status |-> "active", idleExpiresAt |-> row[s].created + IdleTimeout]
  <2>1. mirror' = [mirror EXCEPT ![s] = new] /\ row[s].status # "none"
    BY Zenon, <1>1, <1>4 DEF S!recordCreated, RowIsRight
  <2>2. row[s].created <= row[s].activity
    BY Zenon, <1>1, <2>1 DEF RowIsRight
  <2>3. /\ new \in SessionCopy
        /\ new.idleExpiresAt <= row[s].activity + IdleTimeout
        /\ new.idleExpiresAt <= row[s].created + Lifetime
    BY SMT, <1>2, <2>2, LimitsAssumption DEF SessionCopy
  <2> HIDE DEF new
  <2> QED
    BY Zenon, <1>1, <1>3, <2>1, <2>3, CopyMoves, RequestsRest
<1>5. CASE S!recordRevoked(s)
  <2> DEFINE new == [mirror[s] EXCEPT !.status = IF mirror[s].status = "active" THEN "revoked"
                                                 ELSE mirror[s].status]
  <2>1. mirror' = [mirror EXCEPT ![s] = new]
    BY Zenon, <1>5 DEF S!recordRevoked
  <2>2. /\ new \in SessionCopy /\ new.idleExpiresAt = mirror[s].idleExpiresAt
        /\ new.status = "none" <=> mirror[s].status = "none"
    BY SMT, <1>1, <1>2 DEF SessionCopy
  <2> HIDE DEF new
  <2>3. /\ row[s].status = "none" => new.status = "none"
        /\ new.status # "none" =>
             /\ new.idleExpiresAt <= row[s].activity + IdleTimeout
             /\ new.idleExpiresAt <= row[s].created + Lifetime
    BY Zenon, <1>1, <2>2 DEF RowIsRight
  <2> QED
    BY Zenon, <1>1, <1>3, <2>1, <2>2, <2>3, CopyMoves, RequestsRest
<1> QED
  BY Zenon, <1>4, <1>5

\* A hook fails, or time passes.
LEMMA RestIsRight ==
  ASSUME SessionInv, S!Tick \/ \E hook \in hooks : S!HookFails(hook)
  PROVE  SessionInv'
<1>1. SessionTypes /\ sNow \in Nat
  BY Zenon DEF SessionInv, SessionTypes
<1>2. hooks' \subseteq hooks /\ UNCHANGED <<row, mirror, sRequest, accepted, ended>>
  BY Zenon DEF S!Tick, S!HookFails
<1>3. sNow' \in Nat /\ sNow <= sNow'
  BY SMT, <1>1 DEF S!Tick, S!HookFails
<1>4. SessionTypes'
  BY Zenon, <1>1, <1>2, <1>3 DEF SessionTypes
<1>5. ASSUME NEW s \in CustomerSessions PROVE row[s].activity <= row[s].activity
  BY SMT, <1>1 DEF SessionTypes, SessionRow
<1>6. SessionsGrow
  BY Zenon, <1>2, <1>3, <1>5 DEF SessionsGrow
<1>7. ASSUME NEW s \in CustomerSessions PROVE RowIsRight(s)'
  BY Zenon, <1>1, <1>2, <1>3, <1>4, RowStays DEF SessionInv
<1> QED
  BY Zenon, <1>2, <1>4, <1>6, <1>7, RequestsRest

\* A request moves and the sessions stay, or one gains an activity.
LEMMA OnlyRequestMoves ==
  ASSUME SessionInv, NEW r \in CustomerCalls, NEW q \in SessionRequest, S!Goes(r, q),
         RequestIsRight(q)',
         UNCHANGED <<sNow, row, mirror, hooks, ended>>,
         accepted' \in [CustomerSessions -> SUBSET Nat],
         \A s \in CustomerSessions : accepted[s] \subseteq accepted'[s]
  PROVE  SessionInv'
<1>1. SessionTypes /\ sNow \in Nat /\ sRequest' \in [CustomerCalls -> SessionRequest]
  BY Zenon DEF SessionInv, SessionTypes, S!Goes
<1>2. sNow <= sNow'
  BY SMT, <1>1
<1>3. SessionTypes'
  BY Zenon, <1>1 DEF SessionTypes
<1>4. ASSUME NEW s \in CustomerSessions PROVE row[s].activity <= row[s].activity
  BY SMT, <1>1 DEF SessionTypes, SessionRow
<1>5. SessionsGrow
  BY Zenon, <1>2, <1>4 DEF SessionsGrow
<1>6. ASSUME NEW s \in CustomerSessions PROVE RowIsRight(s)'
  BY Zenon, <1>1, <1>2, <1>3, RowStays DEF SessionInv
<1> QED
  BY Zenon, <1>3, <1>5, <1>6, RequestGoes

LEMMA IdleRequest == S!Idle \in SessionRequest /\ S!Idle.pc = "idle"
BY SMT DEF S!Idle, SessionRequest

LEMMA FoundIsRight ==
  ASSUME SessionInv, NEW r \in CustomerCalls, NEW s \in CustomerSessions, S!findSession(r, s)
  PROVE  SessionInv'
<1>0. PICK q : q = [pc |-> "found", session |-> s, created |-> row[s].created,
                    activity |-> row[s].activity, at |-> sNow]
  BY Zenon
<1>1. SessionTypes /\ RowIsRight(s) /\ sNow \in Nat /\ row[s] \in SessionRow
      /\ accepted \in [CustomerSessions -> SUBSET Nat]
  BY Zenon DEF SessionInv, SessionTypes
<1>2. /\ S!Goes(r, q) /\ row[s].status # "none"
      /\ UNCHANGED <<sNow, row, mirror, hooks, accepted, ended>>
  BY Zenon, <1>0 DEF S!findSession
<1>3. /\ q \in SessionRequest /\ q.pc = "found" /\ q.session = s /\ q.created = row[s].created
      /\ q.activity = row[s].activity /\ q.at = sNow
  BY SMT, <1>0, <1>1 DEF SessionRow, SessionRequest
<1>4. /\ row[s].created <= row[s].activity /\ row[s].activity <= sNow
      /\ row[s].activity \in accepted[s] /\ sNow <= sNow
  BY SMT, <1>1, <1>2 DEF RowIsRight
<1>5. RequestIsRight(q)'
  BY Zenon, <1>2, <1>3, <1>4 DEF RequestIsRight
<1> QED
  BY Zenon, <1>1, <1>2, <1>3, <1>5, OnlyRequestMoves

LEMMA ResolvedIsRight ==
  ASSUME SessionInv, NEW r \in CustomerCalls, S!resolve(r)
  PROVE  SessionInv'
<1>0. PICK q, to : q = sRequest[r] /\ to = [q EXCEPT !.pc = "resolved"]
  BY Zenon
<1>1. RequestIsRight(q) /\ q \in SessionRequest /\ accepted \in [CustomerSessions -> SUBSET Nat]
  BY Zenon, <1>0 DEF SessionInv, SessionTypes
<1>2. /\ S!Goes(r, to) /\ q.pc = "found" /\ S!WithinLimits(q)
      /\ UNCHANGED <<sNow, row, mirror, hooks, accepted, ended>>
  BY Zenon, <1>0 DEF S!resolve
<1>3. q.created \in Nat /\ q.activity \in Nat /\ q.at \in Nat
  BY SMT, <1>1 DEF SessionRequest
<1>4. q.created <= q.activity
  BY Zenon, <1>1, <1>2 DEF RequestIsRight
<1>5. q.at < q.created + Lifetime /\ q.at < S!Max({q.created, q.activity}) + IdleTimeout
  BY Zenon, <1>2 DEF S!WithinLimits, S!evaluateDeviceSessionLifetime
<1>6. S!Max({q.created, q.activity}) = q.activity
  BY SMT, <1>3, <1>4, Larger
<1>7. /\ to \in SessionRequest /\ to.pc = "resolved" /\ to.session = q.session
      /\ to.created = q.created /\ to.activity = q.activity /\ to.at = q.at
  BY Zenon, <1>0, <1>1 DEF SessionRequest
<1>8. RequestIsRight(to)'
  BY Zenon, <1>1, <1>2, <1>5, <1>6, <1>7 DEF RequestIsRight
<1> QED
  BY Zenon, <1>1, <1>2, <1>7, <1>8, OnlyRequestMoves

\* A request goes idle, or goes on without its activity.
LEMMA LeavingIsRight ==
  ASSUME SessionInv, NEW r \in CustomerCalls, S!RequestEnds(r) \/ S!ActivityIsLost(r)
  PROVE  SessionInv'
<1>0. PICK q, to : q = sRequest[r] /\ to = [q EXCEPT !.pc = "served"]
  BY Zenon
<1>1. RequestIsRight(q) /\ q \in SessionRequest /\ accepted \in [CustomerSessions -> SUBSET Nat]
  BY Zenon, <1>0 DEF SessionInv, SessionTypes
<1>2. UNCHANGED <<sNow, row, mirror, hooks, accepted, ended>>
  BY Zenon DEF S!RequestEnds, S!ActivityIsLost
<1>3. CASE S!RequestEnds(r)
  <2>1. RequestIsRight(S!Idle)'
    BY Zenon, IdleRequest DEF RequestIsRight
  <2>2. S!Goes(r, S!Idle)
    BY Zenon, <1>3 DEF S!RequestEnds
  <2> QED
    BY Zenon, <1>1, <1>2, <2>1, <2>2, IdleRequest, OnlyRequestMoves
<1>4. CASE S!ActivityIsLost(r)
  <2>1. /\ to \in SessionRequest /\ to.pc = "served" /\ to.session = q.session
        /\ to.created = q.created /\ to.activity = q.activity /\ to.at = q.at
    BY Zenon, <1>0, <1>1 DEF SessionRequest
  <2>2. S!Goes(r, to) /\ q.pc \in {"counted", "copy"}
    BY Zenon, <1>0, <1>4 DEF S!ActivityIsLost
  <2>3. RequestIsRight(to)'
    BY Zenon, <1>1, <1>2, <2>1, <2>2 DEF RequestIsRight
  <2> QED
    BY Zenon, <1>1, <1>2, <2>1, <2>2, <2>3, OnlyRequestMoves
<1> QED
  BY Zenon, <1>3, <1>4

\* A request has passed every check: its time counts.
LEMMA CountedIsRight ==
  ASSUME SessionInv, NEW r \in CustomerCalls, S!createRequireAuthentication(r)
  PROVE  SessionInv'
<1>0. PICK q, s, to : /\ q = sRequest[r] /\ s = q.session
                      /\ to = [q EXCEPT !.pc = "counted", !.at = sNow]
  BY Zenon
<1>1. /\ RequestIsRight(q) /\ q \in SessionRequest /\ sNow \in Nat
      /\ accepted \in [CustomerSessions -> SUBSET Nat]
  BY Zenon, <1>0 DEF SessionInv, SessionTypes
<1>2. /\ S!Goes(r, to) /\ q.pc = "resolved"
      /\ accepted' = [accepted EXCEPT ![s] = accepted[s] \cup {sNow}]
      /\ UNCHANGED <<sNow, row, mirror, hooks, ended>>
  BY Zenon, <1>0 DEF S!createRequireAuthentication
<1>3. s \in CustomerSessions
  BY Zenon, <1>0, <1>1, <1>2 DEF RequestIsRight
<1>4. /\ to \in SessionRequest /\ to.pc = "counted" /\ to.session = s
      /\ to.created = q.created /\ to.activity = q.activity /\ to.at = sNow
  BY Zenon, <1>0, <1>1 DEF SessionRequest
<1>5. /\ accepted' \in [CustomerSessions -> SUBSET Nat]
      /\ accepted'[s] = accepted[s] \cup {sNow}
      /\ \A o \in CustomerSessions : accepted[o] \subseteq accepted'[o]
  BY SMT, <1>1, <1>2, <1>3
<1>6. sNow <= sNow
  BY SMT, <1>1
<1>7. RequestIsRight(to)'
  <2>1. /\ s = q.session /\ row[s].status # "none" /\ q.created = row[s].created
        /\ q.created <= q.activity /\ q.activity \in accepted[s] /\ q.at <= sNow
    BY Zenon, <1>0, <1>1, <1>2 DEF RequestIsRight
  <2> QED
    BY Zenon, <1>2, <1>3, <1>4, <1>5, <1>6, <2>1 DEF RequestIsRight
<1> QED
  BY Zenon, <1>2, <1>4, <1>5, <1>7, OnlyRequestMoves

\* The row takes the later of the two times.
LEMMA ActivityIsRight ==
  ASSUME SessionInv, NEW r \in CustomerCalls, S!recordActivity(r)
  PROVE  SessionInv'
<1>0. PICK q, s, to, m, new :
        /\ q = sRequest[r] /\ s = q.session /\ to = [q EXCEPT !.pc = "copy"]
        /\ m = S!Max({row[s].activity, q.at}) /\ new = [row[s] EXCEPT !.activity = m]
  BY Zenon
<1>1. /\ SessionTypes /\ RequestIsRight(q) /\ q \in SessionRequest /\ sNow \in Nat
      /\ row \in [CustomerSessions -> SessionRow]
  BY Zenon, <1>0 DEF SessionInv, SessionTypes
<1>2. /\ S!Goes(r, to) /\ q.pc = "counted" /\ row' = [row EXCEPT ![s] = new]
      /\ row[s].status = "live"
      /\ UNCHANGED <<sNow, mirror, hooks, accepted, ended>>
  BY Zenon, <1>0 DEF S!recordActivity
<1>3. s \in CustomerSessions /\ q.at \in accepted[s] /\ q.at <= sNow
      /\ q.created = row[s].created
  BY Zenon, <1>0, <1>1, <1>2 DEF RequestIsRight
<1>4. /\ row[s].activity \in Nat /\ row[s].created \in Nat /\ q.at \in Nat
      /\ row[s] \in SessionRow
  BY SMT, <1>1, <1>3 DEF SessionRow, SessionRequest
<1>5. /\ m \in Nat /\ m \in {row[s].activity, q.at} /\ row[s].activity <= m /\ q.at <= m
  <2>1. m \in {row[s].activity, q.at} /\ m >= row[s].activity /\ m >= q.at
    BY Zenon, <1>0, <1>4, Larger
  <2> QED
    BY SMT, <1>4, <2>1
<1>6. /\ new \in SessionRow /\ new.status = "live" /\ new.created = row[s].created
      /\ new.activity = m
  BY Zenon, <1>0, <1>2, <1>4, <1>5 DEF SessionRow
<1>7. /\ to \in SessionRequest /\ to.pc = "copy" /\ to.session = s
      /\ to.created = q.created /\ to.activity = q.activity /\ to.at = q.at
  BY Zenon, <1>0, <1>1 DEF SessionRequest
<1>8. /\ row' \in [CustomerSessions -> SessionRow] /\ row'[s] = new
      /\ \A o \in CustomerSessions : o # s => row'[o] = row[o]
  BY Zenon, <1>1, <1>2, <1>3, <1>6
<1>9. SessionTypes'
  BY Zenon, <1>1, <1>2, <1>7, <1>8 DEF SessionTypes, S!Goes
<1>10. ASSUME NEW o \in CustomerSessions PROVE row[o].activity \in Nat
  BY SMT, <1>1 DEF SessionRow
<1>11. SessionsGrow
  BY SMT, <1>1, <1>2, <1>5, <1>6, <1>8, <1>10 DEF SessionsGrow
<1>12. ASSUME NEW o \in CustomerSessions PROVE RowIsRight(o)'
  <2>1. RowIsRight(o)
    BY Zenon DEF SessionInv
  <2>2. CASE o # s
    <3>1. sNow <= sNow'
      BY SMT, <1>1, <1>2
    <3> QED
      BY Zenon, <1>1, <1>2, <1>8, <1>9, <2>1, <2>2, <3>1, RowStays
  <2>3. CASE o = s
    <3>1. /\ row[s].created <= row[s].activity /\ row[s].activity <= sNow
          /\ row[s].activity \in accepted[s] /\ s \notin ended
          /\ mirror[s].status # "none" =>
               /\ mirror[s].idleExpiresAt <= row[s].activity + IdleTimeout
               /\ mirror[s].idleExpiresAt <= row[s].created + Lifetime
      BY Zenon, <1>2, <2>1, <2>3 DEF RowIsRight
    <3>2. mirror[s].idleExpiresAt \in Nat
      BY SMT, <1>1, <1>3 DEF SessionTypes, SessionCopy
    <3>3. /\ row[s].created <= m /\ m <= sNow /\ m \in accepted[s]
          /\ mirror[s].status # "none" => mirror[s].idleExpiresAt <= m + IdleTimeout
      BY SMT, <1>1, <1>3, <1>4, <1>5, <3>1, <3>2, LimitsAssumption
    <3> QED
      BY Zenon, <1>2, <1>6, <1>8, <2>3, <3>1, <3>3 DEF RowIsRight
  <2> QED
    BY Zenon, <2>2, <2>3
<1>13. RequestIsRight(to)'
  <2>1. /\ s = q.session /\ row[s].status # "none" /\ q.created = row[s].created
        /\ q.created <= q.activity /\ q.activity \in accepted[s] /\ q.at <= sNow /\ q.at \in accepted[s]
    BY Zenon, <1>0, <1>1, <1>2 DEF RequestIsRight
  <2>2. row'[s].status # "none" /\ row'[s].created = q.created /\ q.at <= row'[s].activity
    BY Zenon, <1>3, <1>5, <1>6, <1>8
  <2> QED
    BY Zenon, <1>2, <1>3, <1>7, <2>1, <2>2 DEF RequestIsRight
<1> QED
  BY Zenon, <1>2, <1>7, <1>9, <1>11, <1>12, <1>13, RequestGoes

\* The copy follows the row.
LEMMA MirroredIsRight ==
  ASSUME SessionInv, NEW r \in CustomerCalls, S!mirrorActivity(r)
  PROVE  SessionInv'
<1>0. PICK q, s, to, x, e, new :
        /\ q = sRequest[r] /\ s = q.session /\ to = [q EXCEPT !.pc = "served"]
        /\ x = S!idleExpiresAt(q.created, q.at)
        /\ e = IF mirror[s].status = "active" THEN x ELSE mirror[s].idleExpiresAt
        /\ new = [mirror[s] EXCEPT !.idleExpiresAt = e]
  BY Zenon
<1>1. /\ SessionTypes /\ RequestIsRight(q) /\ q \in SessionRequest /\ sNow \in Nat
      /\ sRequest \in [CustomerCalls -> SessionRequest]
  BY Zenon, <1>0 DEF SessionInv, SessionTypes
<1>2. /\ S!Goes(r, to) /\ q.pc = "copy" /\ mirror' = [mirror EXCEPT ![s] = new]
      /\ UNCHANGED <<sNow, row, hooks, accepted, ended>>
  BY Zenon, <1>0 DEF S!mirrorActivity
<1>3. s \in CustomerSessions /\ q.at <= row[s].activity /\ q.created = row[s].created
  BY Zenon, <1>0, <1>1, <1>2 DEF RequestIsRight
<1>4. /\ row[s].activity \in Nat /\ row[s].created \in Nat /\ q.at \in Nat
      /\ mirror[s] \in SessionCopy /\ mirror[s].idleExpiresAt \in Nat
  BY SMT, <1>1, <1>3 DEF SessionTypes, SessionRow, SessionRequest, SessionCopy
<1>5. RowIsRight(s)
  BY Zenon, <1>3 DEF SessionInv
<1>6. x \in Nat /\ x <= q.at + IdleTimeout /\ x <= row[s].created + Lifetime
  <2>1. x = S!Min({q.at + IdleTimeout, q.created + Lifetime})
    BY Zenon, <1>0 DEF S!idleExpiresAt
  <2>2. q.at + IdleTimeout \in Nat /\ q.created + Lifetime \in Nat
    BY SMT, <1>3, <1>4, LimitsAssumption
  <2>3. /\ x \in {q.at + IdleTimeout, q.created + Lifetime}
        /\ x <= q.at + IdleTimeout /\ x <= q.created + Lifetime
    BY Zenon, <2>1, <2>2, Smaller
  <2> QED
    BY Zenon, <1>3, <2>2, <2>3
<1>7. /\ e \in Nat
      /\ mirror[s].status # "none" =>
           e <= row[s].activity + IdleTimeout /\ e <= row[s].created + Lifetime
  <2>1. e = x \/ e = mirror[s].idleExpiresAt
    BY Zenon, <1>0
  <2>2. mirror[s].status # "none" =>
          /\ mirror[s].idleExpiresAt <= row[s].activity + IdleTimeout
          /\ mirror[s].idleExpiresAt <= row[s].created + Lifetime
    BY Zenon, <1>5 DEF RowIsRight
  <2> QED
    BY SMT, <1>3, <1>4, <1>6, <2>1, <2>2, LimitsAssumption
<1>8. new \in SessionCopy /\ new.status = mirror[s].status /\ new.idleExpiresAt = e
  BY Zenon, <1>0, <1>4, <1>7 DEF SessionCopy
<1>9. /\ to \in SessionRequest /\ to.pc = "served" /\ to.session = s
      /\ to.created = q.created /\ to.activity = q.activity /\ to.at = q.at
  BY Zenon, <1>0, <1>1 DEF SessionRequest
<1>10. row[s].status = "none" => new.status = "none"
  BY Zenon, <1>5, <1>8 DEF RowIsRight
<1>11. sRequest' \in [CustomerCalls -> SessionRequest]
  BY Zenon, <1>1, <1>2, <1>9 DEF S!Goes
<1>12. SessionTypes' /\ SessionsGrow /\ \A o \in CustomerSessions : RowIsRight(o)'
  BY Zenon, <1>2, <1>3, <1>7, <1>8, <1>10, <1>11, CopyMoves
<1>13. RequestIsRight(to)'
  <2>1. /\ s = q.session /\ row[s].status # "none" /\ q.created = row[s].created
        /\ q.created <= q.activity /\ q.activity \in accepted[s] /\ q.at <= sNow
    BY Zenon, <1>0, <1>1, <1>2 DEF RequestIsRight
  <2> QED
    BY Zenon, <1>2, <1>3, <1>9, <2>1 DEF RequestIsRight
<1> QED
  BY Zenon, <1>2, <1>9, <1>12, <1>13, RequestGoes

\* A session past its limits ends, or the customer ends some.
LEMMA EndedIsRight ==
  ASSUME SessionInv, NEW r \in CustomerCalls, NEW doomed \in SUBSET CustomerSessions,
         S!applyDeviceSessionLimits(r) \/ S!Revokes(r, doomed)
  PROVE  SessionInv'
<1> DEFINE q == sRequest[r]
           s == q.session
<1>1. SessionTypes /\ RequestIsRight(q) /\ sRequest \in [CustomerCalls -> SessionRequest]
      /\ ended \subseteq CustomerSessions
  BY Zenon DEF SessionInv, SessionTypes
<1>2. S!Goes(r, S!Idle) /\ UNCHANGED <<sNow, mirror, accepted>>
  BY Zenon DEF S!applyDeviceSessionLimits, S!Revokes
<1>3. sRequest' \in [CustomerCalls -> SessionRequest]
  BY Zenon, <1>1, <1>2, IdleRequest DEF S!Goes
<1>4. SessionTypes' /\ SessionsGrow /\ \A o \in CustomerSessions : RowIsRight(o)'
  <2>1. CASE S!applyDeviceSessionLimits(r)
    <3>1. S!deleteSessions({s}) /\ ended' = ended \cup {s} /\ q.pc # "idle"
      BY Zenon, <2>1 DEF S!applyDeviceSessionLimits
    <3>2. s \in CustomerSessions /\ row[s].status # "none"
      BY Zenon, <1>1, <3>1 DEF RequestIsRight
    <3>3. {s} \in SUBSET CustomerSessions
      BY Zenon, <3>2
    <3> QED
      BY Zenon, <1>1, <1>2, <1>3, <3>1, <3>2, <3>3, Deleted
  <2>2. CASE S!Revokes(r, doomed)
    BY Zenon, <1>1, <1>2, <1>3, <2>2, Deleted DEF S!Revokes
  <2> QED
    BY Zenon, <2>1, <2>2
<1>5. RequestIsRight(S!Idle)'
  BY Zenon, IdleRequest DEF RequestIsRight
<1> QED
  BY Zenon, <1>2, <1>4, <1>5, IdleRequest, RequestGoes

LEMMA SessionStepKeeps == ASSUME SessionInv, S!Next PROVE SessionInv'
<1>1. ASSUME NEW r \in CustomerCalls, S!Serve(r) PROVE SessionInv'
  <2>1. CASE S!RevokeAllOwnSessionsService(r)
    BY Zenon, <2>1, EndedIsRight DEF S!RevokeAllOwnSessionsService
  <2>2. ASSUME NEW s \in CustomerSessions, S!RevokeOwnSessionService(r, s) PROVE SessionInv'
    BY Zenon, <2>2, EndedIsRight DEF S!RevokeOwnSessionService
  <2>3. CASE S!applyDeviceSessionLimits(r)
    BY Zenon, <2>3, EndedIsRight
  <2> QED
    BY Zenon, <1>1, <2>1, <2>2, <2>3, FoundIsRight, ResolvedIsRight, LeavingIsRight,
       CountedIsRight, ActivityIsRight, MirroredIsRight DEF S!Serve
<1> QED
  BY Zenon, <1>1, CreatedIsRight, CopiedIsRight, RestIsRight DEF S!Next

LEMMA SessionsAreKept == ASSUME SessionInv, [S!Next]_(S!vars) PROVE SessionInv'
<1>1. CASE UNCHANGED S!vars
  BY Zenon, <1>1 DEF S!vars, SessionInv, SessionTypes, RowIsRight, RequestIsRight
<1> QED
  BY Zenon, <1>1, SessionStepKeeps

\* The invariant of the sessions.
THEOREM SessionInvariant == S!Spec => []SessionInv
<1>1. S!Init => SessionInv
  BY Zenon, SessionsStart
<1>2. SessionInv /\ [S!Next]_(S!vars) => SessionInv'
  BY Zenon, SessionsAreKept
<1> QED
  BY <1>1, <1>2, PTL DEF S!Spec

LEMMA RightSessionsEnd == SessionInv => S!SessionsEndOnTime
<1> SUFFICES ASSUME SessionInv PROVE S!SessionsEndOnTime
  BY Zenon
<1>1. SessionTypes
  BY Zenon DEF SessionInv
<1>2. ASSUME NEW r \in CustomerCalls, sRequest[r].pc = "resolved"
      PROVE  LET q == sRequest[r] IN
               /\ q.at < q.created + Lifetime
               /\ \E t \in accepted[q.session] : t <= q.at /\ q.at < t + IdleTimeout
  BY Zenon, <1>2 DEF SessionInv, RequestIsRight
<1>3. \A s \in ended : row[s].status = "gone"
  BY Zenon, <1>1 DEF SessionInv, SessionTypes, RowIsRight
<1>4. ASSUME NEW s \in CustomerSessions, mirror[s].status # "none"
      PROVE  mirror[s].idleExpiresAt <= S!idleExpiresAt(row[s].created, row[s].activity)
  <2>1. row[s].created \in Nat /\ row[s].activity \in Nat
    BY SMT, <1>1 DEF SessionTypes, SessionRow
  <2>2. S!idleExpiresAt(row[s].created, row[s].activity)
          \in {row[s].activity + IdleTimeout, row[s].created + Lifetime}
    BY SMT, <2>1, LimitsAssumption, Smaller DEF S!idleExpiresAt
  <2> QED
    BY Zenon, <1>4, <2>2 DEF SessionInv, RowIsRight
<1> QED
  BY Zenon, <1>2, <1>3, <1>4 DEF S!SessionsEndOnTime

\* A session ends on time and for good, however lookups, activity updates and revocations
\* overlap (evaluateDeviceSessionLifetime, recordActivity, the copy of prisma-session-mirror),
\* for any number of sessions and requests and any limits.
THEOREM SessionsAreLimited == S!Spec => []SessionsEndOnTime
<1>1. SessionInv => SessionsEndOnTime
  BY Zenon, RightSessionsEnd DEF SessionsEndOnTime
<1> QED
  BY <1>1, SessionInvariant, PTL

-----------------------------------------------------------------------------
(* The status of an account.                                               *)

Reviewers == Staff \cup {"none"}
Actors == Staff \cup {Customer}

CaseRecord == [status : {"open", "approved", "rejected", "completed"}, verified : BOOLEAN,
               primary : Reviewers, secondary : Reviewers]
ClosureStates == {"pending", "approved", "rejected", "cancelled"}
CaseSteps == {"didit_record", "decide", "revoke_devices", "revoke_sessions", "clear", "complete"}
ClosureSteps == {"cancel", "close_revoke", "close_approve", "close_reject"}
Doing == [step : {"idle", "open_revoke", "open_record", "request"} \cup CaseSteps \cup ClosureSteps,
          of : Nat]

AccountTypes ==
  /\ cases \in Seq(CaseRecord) /\ closures \in Seq(ClosureStates)
  /\ doing \in [Actors -> Doing]

\* An operation works on a case or a request there is.
DoingIsRight(d) ==
  /\ d.step \in CaseSteps => d.of \in DOMAIN cases
  /\ d.step \in ClosureSteps => d.of \in DOMAIN closures

\* A reviewed case has an identity verification, an approved one two different reviewers.
CaseIsRight(c) ==
  /\ c.primary # "none" => c.verified
  /\ c.status = "approved" =>
       c.primary # "none" /\ c.secondary # "none" /\ c.primary # c.secondary

AccountInv ==
  /\ AccountTypes
  /\ \A a \in Actors : DoingIsRight(doing[a])
  /\ \A i \in DOMAIN cases : CaseIsRight(cases[i])

LEMMA AccountStarts == A!Init => AccountInv
<1> SUFFICES ASSUME A!Init PROVE AccountInv
  BY Zenon
<1>1. cases = <<>> /\ closures = <<>> /\ doing = [a \in Actors |-> A!Idle]
  BY Zenon DEF A!Init, Actors
<1>2. A!Idle \in Doing /\ A!Idle.step = "idle"
  BY SMT DEF A!Idle, Doing
<1>3. DoingIsRight(A!Idle)
  BY SMT, <1>2 DEF DoingIsRight, CaseSteps, ClosureSteps
<1>4. \A a \in Actors : doing[a] = A!Idle
  BY Zenon, <1>1
<1>5. cases \in Seq(CaseRecord) /\ closures \in Seq(ClosureStates) /\ DOMAIN cases = {}
  BY SMT, <1>1
<1>6. doing \in [Actors -> Doing]
  BY Zenon, <1>1, <1>2
<1> QED
  BY Zenon, <1>3, <1>4, <1>5, <1>6 DEF AccountInv, AccountTypes

\* One actor goes on, and cases and requests are only added or changed.
LEMMA ActorGoes ==
  ASSUME AccountInv, NEW a \in Actors, NEW d \in Doing, doing' = [doing EXCEPT ![a] = d],
         DoingIsRight(d)',
         cases' \in Seq(CaseRecord), DOMAIN cases \subseteq DOMAIN cases',
         closures' \in Seq(ClosureStates), DOMAIN closures \subseteq DOMAIN closures',
         \A i \in DOMAIN cases' : CaseIsRight(cases'[i])
  PROVE  AccountInv'
<1>1. doing \in [Actors -> Doing]
  BY Zenon DEF AccountInv, AccountTypes
<1>2. AccountTypes'
  BY Zenon, <1>1 DEF AccountTypes
<1>3. ASSUME NEW b \in Actors PROVE DoingIsRight(doing[b])'
  <2>1. doing'[b] = IF b = a THEN d ELSE doing[b]
    BY Zenon, <1>1
  <2> QED
    BY Zenon, <2>1 DEF AccountInv, DoingIsRight
<1> QED
  BY Zenon, <1>2, <1>3 DEF AccountInv, CaseIsRight

LEMMA ActorDoes ==
  ASSUME NEW step \in {"idle", "open_revoke", "open_record", "request"} \cup CaseSteps \cup ClosureSteps,
         NEW n \in Nat,
         step \in CaseSteps => n \in DOMAIN cases, step \in ClosureSteps => n \in DOMAIN closures
  PROVE  LET d == [step |-> step, of |-> n] IN d \in Doing /\ DoingIsRight(d)
<1> DEFINE d == [step |-> step, of |-> n]
<1>1. d \in Doing /\ d.step = step /\ d.of = n
  BY SMT DEF Doing
<1> HIDE DEF d
<1>2. DoingIsRight(d)
  BY Zenon, <1>1 DEF DoingIsRight
<1> QED
  BY Zenon, <1>1, <1>2 DEF d

\* An actor goes on, and nothing that was decided changes.
LEMMA QuietlyGoes ==
  ASSUME AccountInv, NEW a \in Actors, NEW d \in Doing, DoingIsRight(d),
         doing' = [doing EXCEPT ![a] = d], UNCHANGED <<cases, closures>>
  PROVE  AccountInv'
<1>1. DoingIsRight(d)' /\ \A i \in DOMAIN cases' : CaseIsRight(cases'[i])
  BY Zenon DEF AccountInv, DoingIsRight
<1>2. cases' \in Seq(CaseRecord) /\ closures' \in Seq(ClosureStates)
  BY Zenon DEF AccountInv, AccountTypes
<1> QED
  BY Zenon, <1>1, <1>2, ActorGoes

LEMMA FinishesQuietly ==
  /\ A!Idle \in Doing /\ DoingIsRight(A!Idle) /\ DoingIsRight(A!Idle)'
  /\ \A a : A!Finishes(a) => doing' = [doing EXCEPT ![a] = A!Idle]
<1>1. A!Idle \in Doing /\ A!Idle.step = "idle"
  BY SMT DEF A!Idle, Doing
<1>2. A!Idle.step \notin CaseSteps /\ A!Idle.step \notin ClosureSteps
  BY SMT, <1>1 DEF CaseSteps, ClosureSteps
<1> QED
  BY Zenon, <1>1, <1>2 DEF DoingIsRight, A!Finishes

\* The steps that only look, or change what is not decided about.
LEMMA QuietAccountSteps ==
  ASSUME AccountInv, NEW s \in Actors,
         \/ A!OpenAccountRecoveryCaseService(s) \/ A!OpenRevokes(s)
         \/ \E i \in DOMAIN cases :
              \/ A!CreateRecoveryDiditSessionService(s, i) \/ A!DecideAccountRecoveryCaseService(s, i)
              \/ A!CompleteAccountRecoveryService(s, i)
         \/ A!revokeDevicesForRecovery(s) \/ A!revokeSessionsForRecoveryCompletion(s)
         \/ A!clearRecoveryRequired(s) \/ A!CloseRevokes(s) \/ A!Fails(s)
         \/ \E i \in DOMAIN closures, decision \in {"approved", "rejected"} :
              A!DecideAccountClosureRequestService(s, i, decision)
  PROVE  AccountInv' /\ UNCHANGED status
<1>1. UNCHANGED <<status, cases, closures>>
  BY Zenon DEF A!OpenAccountRecoveryCaseService, A!OpenRevokes,
    A!CreateRecoveryDiditSessionService, A!DecideAccountRecoveryCaseService,
    A!CompleteAccountRecoveryService, A!revokeDevicesForRecovery,
    A!revokeSessionsForRecoveryCompletion, A!clearRecoveryRequired, A!CloseRevokes, A!Fails,
    A!DecideAccountClosureRequestService
<1>2. /\ DOMAIN cases \subseteq Nat /\ DOMAIN closures \subseteq Nat
      /\ doing[s].of \in Nat /\ DoingIsRight(doing[s])
  BY SMT DEF AccountInv, AccountTypes, Doing
<1>3. ASSUME NEW step \in CaseSteps, NEW i \in DOMAIN cases, A!Does(s, step, i)
      PROVE  AccountInv'
  <2>1. step \notin ClosureSteps
    BY SMT DEF CaseSteps, ClosureSteps
  <2>2. LET d == [step |-> step, of |-> i] IN d \in Doing /\ DoingIsRight(d)
    BY Zenon, <1>2, <1>3, <2>1, ActorDoes
  <2> QED
    BY Zenon, <1>1, <1>3, <2>2, QuietlyGoes DEF A!Does
<1>4. ASSUME NEW step \in ClosureSteps, NEW i \in DOMAIN closures, A!Does(s, step, i)
      PROVE  AccountInv'
  <2>1. step \notin CaseSteps
    BY SMT DEF CaseSteps, ClosureSteps
  <2>2. LET d == [step |-> step, of |-> i] IN d \in Doing /\ DoingIsRight(d)
    BY Zenon, <1>2, <1>4, <2>1, ActorDoes
  <2> QED
    BY Zenon, <1>1, <1>4, <2>2, QuietlyGoes DEF A!Does
<1>5. ASSUME NEW step \in {"open_revoke", "open_record"}, A!Does(s, step, 0) PROVE AccountInv'
  <2>1. step \notin CaseSteps /\ step \notin ClosureSteps /\ 0 \in Nat
    BY SMT DEF CaseSteps, ClosureSteps
  <2>2. LET d == [step |-> step, of |-> 0] IN d \in Doing /\ DoingIsRight(d)
    BY Zenon, <1>5, <2>1, ActorDoes
  <2> QED
    BY Zenon, <1>1, <1>5, <2>2, QuietlyGoes DEF A!Does
<1>6. CASE A!OpenAccountRecoveryCaseService(s) \/ A!OpenRevokes(s)
  BY Zenon, <1>1, <1>5, <1>6 DEF A!OpenAccountRecoveryCaseService, A!OpenRevokes
<1>7. CASE \E i \in DOMAIN cases :
             \/ A!CreateRecoveryDiditSessionService(s, i) \/ A!DecideAccountRecoveryCaseService(s, i)
             \/ A!CompleteAccountRecoveryService(s, i)
  BY Zenon, <1>1, <1>3, <1>7 DEF A!CreateRecoveryDiditSessionService,
    A!DecideAccountRecoveryCaseService, A!CompleteAccountRecoveryService, CaseSteps
<1>8. CASE A!revokeDevicesForRecovery(s) \/ A!revokeSessionsForRecoveryCompletion(s)
           \/ A!clearRecoveryRequired(s)
  <2>1. doing[s].step \in CaseSteps
    BY Zenon, <1>8 DEF A!revokeDevicesForRecovery, A!revokeSessionsForRecoveryCompletion,
      A!clearRecoveryRequired, A!At, CaseSteps
  <2>2. doing[s].of \in DOMAIN cases
    BY Zenon, <1>2, <2>1 DEF DoingIsRight
  <2> QED
    BY Zenon, <1>1, <1>3, <1>8, <2>2 DEF A!revokeDevicesForRecovery,
      A!revokeSessionsForRecoveryCompletion, A!clearRecoveryRequired, CaseSteps
<1>9. CASE A!CloseRevokes(s)
  <2>1. doing[s].step \in ClosureSteps
    BY Zenon, <1>9 DEF A!CloseRevokes, A!At, ClosureSteps
  <2>2. doing[s].of \in DOMAIN closures
    BY Zenon, <1>2, <2>1 DEF DoingIsRight
  <2> QED
    BY Zenon, <1>1, <1>4, <1>9, <2>2 DEF A!CloseRevokes, ClosureSteps
<1>10. CASE A!Fails(s)
  BY Zenon, <1>1, <1>10, FinishesQuietly, QuietlyGoes DEF A!Fails
<1>11. CASE \E i \in DOMAIN closures, decision \in {"approved", "rejected"} :
              A!DecideAccountClosureRequestService(s, i, decision)
  <2>1. PICK i \in DOMAIN closures, decision \in {"approved", "rejected"} :
          A!DecideAccountClosureRequestService(s, i, decision)
    BY Zenon, <1>11
  <2>2. PICK step \in {"close_revoke", "close_reject"} : A!Does(s, step, i)
    BY Zenon, <2>1 DEF A!DecideAccountClosureRequestService
  <2> QED
    BY Zenon, <1>1, <1>4, <2>2 DEF ClosureSteps
<1> QED
  BY Zenon, <1>1, <1>6, <1>7, <1>8, <1>9, <1>10, <1>11

\* A case changes and stays right.
LEMMA CaseChanges ==
  ASSUME AccountInv, NEW i \in DOMAIN cases, NEW new \in CaseRecord, CaseIsRight(new),
         cases' = [cases EXCEPT ![i] = new]
  PROVE  /\ cases' \in Seq(CaseRecord) /\ DOMAIN cases' = DOMAIN cases /\ cases'[i] = new
         /\ \A j \in DOMAIN cases' : CaseIsRight(cases'[j])
<1>1. cases \in Seq(CaseRecord) /\ \A j \in DOMAIN cases : CaseIsRight(cases[j])
  BY Zenon DEF AccountInv, AccountTypes
<1>2. /\ cases' \in Seq(CaseRecord) /\ DOMAIN cases' = DOMAIN cases /\ cases'[i] = new
      /\ \A j \in DOMAIN cases : j # i => cases'[j] = cases[j]
  BY SMT, <1>1
<1> QED
  BY Zenon, <1>1, <1>2

LEMMA CaseFields ==
  ASSUME AccountInv, NEW i \in DOMAIN cases
  PROVE  /\ cases[i] \in CaseRecord /\ CaseIsRight(cases[i])
         /\ closures \in Seq(ClosureStates)
<1>1. cases \in Seq(CaseRecord)
  BY Zenon DEF AccountInv, AccountTypes
<1>2. cases[i] \in CaseRecord
  BY SMT, <1>1
<1> QED
  BY Zenon, <1>2 DEF AccountInv, AccountTypes

\* What staff record about a case.
LEMMA CasesAreReviewed ==
  ASSUME AccountInv, NEW s \in Staff,
         \/ A!recordDiditSession(s) \/ \E i \in DOMAIN cases : A!recordPrimaryReview(s, i)
         \/ \E decision \in {"approved", "rejected"} : A!decideCase(s, decision)
  PROVE  AccountInv' /\ UNCHANGED status
<1>1. s \in Actors /\ s \in Reviewers /\ s # "none" /\ DoingIsRight(doing[s])
  BY Zenon, ReviewersAssumption DEF Actors, Reviewers, AccountInv
<1>2. UNCHANGED <<status, closures>> /\ closures' \in Seq(ClosureStates)
  BY Zenon DEF A!recordDiditSession, A!recordPrimaryReview, A!decideCase, AccountInv, AccountTypes
<1>3. CASE A!recordDiditSession(s)
  <2> DEFINE i == doing[s].of
             new == [cases[i] EXCEPT !.verified = TRUE]
  <2>1. i \in DOMAIN cases
    BY Zenon, <1>1, <1>3 DEF A!recordDiditSession, A!At, DoingIsRight, CaseSteps
  <2>2. cases[i] \in CaseRecord /\ CaseIsRight(cases[i])
    BY Zenon, <2>1, CaseFields
  <2>3. /\ new \in CaseRecord /\ new.verified /\ new.status = cases[i].status
        /\ new.primary = cases[i].primary /\ new.secondary = cases[i].secondary
    BY Zenon, <2>2 DEF CaseRecord
  <2>4. cases' = cases \/ cases' = [cases EXCEPT ![i] = new]
    BY Zenon, <1>3 DEF A!recordDiditSession
  <2> HIDE DEF new
  <2>5. CaseIsRight(new)
    BY Zenon, <2>2, <2>3 DEF CaseIsRight
  <2>6. /\ cases' \in Seq(CaseRecord) /\ DOMAIN cases' = DOMAIN cases
        /\ \A j \in DOMAIN cases' : CaseIsRight(cases'[j])
    BY Zenon, <2>1, <2>3, <2>4, <2>5, CaseChanges DEF AccountInv, AccountTypes
  <2>7. A!Finishes(s)
    BY Zenon, <1>3 DEF A!recordDiditSession
  <2> QED
    BY Zenon, <1>1, <1>2, <2>6, <2>7, FinishesQuietly, ActorGoes
<1>4. CASE \E i \in DOMAIN cases : A!recordPrimaryReview(s, i)
  <2>1. PICK i \in DOMAIN cases : A!recordPrimaryReview(s, i)
    BY Zenon, <1>4
  <2> DEFINE new == [cases[i] EXCEPT !.primary = s]
  <2>2. cases[i] \in CaseRecord /\ cases[i].verified /\ cases[i].status = "open"
    BY Zenon, <2>1, CaseFields DEF A!recordPrimaryReview
  <2>3. new \in CaseRecord /\ new.verified /\ new.status = "open"
    BY SMT, <1>1, <2>2 DEF CaseRecord
  <2>4. cases' = [cases EXCEPT ![i] = new] /\ UNCHANGED <<closures, doing>>
    BY Zenon, <2>1 DEF A!recordPrimaryReview
  <2> HIDE DEF new
  <2>5. CaseIsRight(new)
    BY SMT, <2>3 DEF CaseIsRight
  <2>6. /\ cases' \in Seq(CaseRecord) /\ DOMAIN cases' = DOMAIN cases
        /\ \A j \in DOMAIN cases' : CaseIsRight(cases'[j])
    BY Zenon, <2>3, <2>4, <2>5, CaseChanges
  <2> QED
    BY Zenon, <1>2, <2>4, <2>6 DEF AccountInv, AccountTypes, DoingIsRight, CaseIsRight
<1>5. CASE \E decision \in {"approved", "rejected"} : A!decideCase(s, decision)
  <2>1. PICK decision \in {"approved", "rejected"} : A!decideCase(s, decision)
    BY Zenon, <1>5
  <2> DEFINE i == doing[s].of
             new == [cases[i] EXCEPT !.status = decision, !.secondary = s]
  <2>2. i \in DOMAIN cases /\ A!Finishes(s)
    BY Zenon, <1>1, <2>1 DEF A!decideCase, A!At, DoingIsRight, CaseSteps
  <2>3. cases[i] \in CaseRecord /\ CaseIsRight(cases[i])
    BY Zenon, <2>2, CaseFields
  <2>4. /\ new \in CaseRecord /\ new.verified = cases[i].verified
        /\ new.primary = cases[i].primary /\ new.secondary = s
    BY Zenon, <1>1, <2>1, <2>3 DEF CaseRecord
  <2>5. \/ cases' = cases
        \/ cases' = [cases EXCEPT ![i] = new] /\ cases[i].primary \notin {"none", s}
    BY Zenon, <2>1 DEF A!decideCase, A!NoReviewer
  <2> HIDE DEF new
  <2>6. cases[i].primary \notin {"none", s} => CaseIsRight(new)
    BY Zenon, <1>1, <2>3, <2>4 DEF CaseIsRight
  <2>7. /\ cases' \in Seq(CaseRecord) /\ DOMAIN cases' = DOMAIN cases
        /\ \A j \in DOMAIN cases' : CaseIsRight(cases'[j])
    BY Zenon, <2>2, <2>4, <2>5, <2>6, CaseChanges DEF AccountInv, AccountTypes
  <2> QED
    BY Zenon, <1>1, <1>2, <2>2, <2>7, FinishesQuietly, ActorGoes
<1> QED
  BY Zenon, <1>2, <1>3, <1>4, <1>5

\* A case opens, and the account is in review.
LEMMA CasesOpen ==
  ASSUME AccountInv, NEW s \in Staff, A!openCase(s)
  PROVE  AccountInv' /\ A!StatusChanges
<1> DEFINE new == [status |-> "open", verified |-> FALSE, primary |-> A!NoReviewer,
                   secondary |-> A!NoReviewer]
<1>1. /\ cases' = Append(cases, new) /\ status' = "recovery_review" /\ A!Finishes(s)
      /\ UNCHANGED closures
  BY Zenon DEF A!openCase
<1>2. new \in CaseRecord /\ new.primary = "none" /\ new.status = "open"
  BY SMT DEF CaseRecord, Reviewers, A!NoReviewer
<1> HIDE DEF new
<1>3. CaseIsRight(new)
  BY SMT, <1>2 DEF CaseIsRight
<1>4. cases \in Seq(CaseRecord) /\ closures' \in Seq(ClosureStates) /\ s \in Actors
      /\ \A i \in DOMAIN cases : CaseIsRight(cases[i])
  BY Zenon, <1>1 DEF AccountInv, AccountTypes, Actors
<1>5. /\ cases' \in Seq(CaseRecord) /\ Len(cases') > Len(cases)
      /\ DOMAIN cases \subseteq DOMAIN cases'
      /\ \A i \in DOMAIN cases' : (i \in DOMAIN cases /\ cases'[i] = cases[i]) \/ cases'[i] = new
  BY SMT, <1>1, <1>2, <1>4
<1>6. \A i \in DOMAIN cases' : CaseIsRight(cases'[i])
  BY Zenon, <1>3, <1>4, <1>5
<1>7. AccountInv'
  BY Zenon, <1>1, <1>4, <1>5, <1>6, FinishesQuietly, ActorGoes
<1>8. A!StatusChanges
  BY SMT, <1>1, <1>5 DEF A!StatusChanges
<1> QED
  BY Zenon, <1>7, <1>8

\* An approved case is completed, and the account is active again.
LEMMA CasesAreCompleted ==
  ASSUME AccountInv, NEW s \in Staff, A!completeCase(s)
  PROVE  AccountInv' /\ A!StatusChanges
<1> DEFINE i == doing[s].of
           new == [cases[i] EXCEPT !.status = "completed"]
<1>1. s \in Actors /\ DoingIsRight(doing[s]) /\ A!Finishes(s) /\ UNCHANGED closures
  BY Zenon DEF Actors, AccountInv, A!completeCase
<1>2. i \in DOMAIN cases
  BY Zenon, <1>1 DEF A!completeCase, A!At, DoingIsRight, CaseSteps
<1>3. cases[i] \in CaseRecord /\ CaseIsRight(cases[i]) /\ closures' \in Seq(ClosureStates)
  BY Zenon, <1>1, <1>2, CaseFields
<1>4. /\ new \in CaseRecord /\ new.status = "completed" /\ new.verified = cases[i].verified
      /\ new.primary = cases[i].primary
  BY SMT, <1>3 DEF CaseRecord
<1>5. \/ UNCHANGED <<cases, status>>
      \/ /\ cases' = [cases EXCEPT ![i] = new] /\ status' = "active"
         /\ cases[i].status = "approved"
  BY Zenon DEF A!completeCase
<1> HIDE DEF new
<1>6. CaseIsRight(new)
  BY SMT, <1>3, <1>4 DEF CaseIsRight
<1>7. /\ cases' \in Seq(CaseRecord) /\ DOMAIN cases' = DOMAIN cases
      /\ \A j \in DOMAIN cases' : CaseIsRight(cases'[j])
  BY Zenon, <1>2, <1>4, <1>5, <1>6, CaseChanges DEF AccountInv, AccountTypes
<1>8. AccountInv'
  BY Zenon, <1>1, <1>3, <1>7, FinishesQuietly, ActorGoes
<1>9. CASE UNCHANGED status
  BY Zenon, <1>8, <1>9 DEF A!StatusChanges
<1>10. CASE cases' = [cases EXCEPT ![i] = new] /\ status' = "active" /\ cases[i].status = "approved"
  <2>1. cases'[i].status = "completed"
    BY Zenon, <1>2, <1>4, <1>6, <1>10, CaseChanges
  <2>2. /\ cases[i].verified /\ A!NoReviewer \notin {cases[i].primary, cases[i].secondary}
        /\ cases[i].primary # cases[i].secondary
    BY Zenon, <1>3, <1>10 DEF CaseIsRight, A!NoReviewer
  <2>3. status' # "recovery_review" /\ status' # "suspended_restricted"
    BY SMT, <1>10
  <2> QED
    BY Zenon, <1>2, <1>8, <1>10, <2>1, <2>2, <2>3 DEF A!StatusChanges
<1> QED
  BY Zenon, <1>5, <1>9, <1>10

\* A closure request is made, withdrawn or decided.
LEMMA ClosuresMove ==
  ASSUME AccountInv, NEW a \in Actors, A!Finishes(a), UNCHANGED cases,
         closures' \in Seq(ClosureStates), DOMAIN closures \subseteq DOMAIN closures'
  PROVE  AccountInv'
<1>1. cases' \in Seq(CaseRecord) /\ \A i \in DOMAIN cases' : CaseIsRight(cases'[i])
  BY Zenon DEF AccountInv, AccountTypes
<1> QED
  BY Zenon, <1>1, FinishesQuietly, ActorGoes

LEMMA ClosureChanges ==
  ASSUME AccountInv, NEW i \in DOMAIN closures, NEW state \in ClosureStates,
         closures' = [closures EXCEPT ![i] = state]
  PROVE  /\ closures' \in Seq(ClosureStates) /\ DOMAIN closures \subseteq DOMAIN closures'
         /\ closures'[i] = state
<1>1. closures \in Seq(ClosureStates)
  BY Zenon DEF AccountInv, AccountTypes
<1> QED
  BY SMT, <1>1

LEMMA CustomerDecides ==
  ASSUME AccountInv, A!CustomerSteps
  PROVE  AccountInv' /\ UNCHANGED status
<1>1. Customer \in Actors /\ DoingIsRight(doing[Customer]) /\ closures \in Seq(ClosureStates)
      /\ DOMAIN closures \subseteq Nat
  BY SMT DEF Actors, AccountInv, AccountTypes
<1>2. UNCHANGED <<status, cases>>
  BY Zenon DEF A!CustomerSteps, A!SignIn, A!Enrol, A!RequestAccountClosureService,
    A!createClosureRequest, A!CancelAccountClosureService, A!cancelClosureRequest
<1>3. CASE A!SignIn \/ A!Enrol
  BY Zenon, <1>2, <1>3 DEF A!SignIn, A!Enrol, AccountInv, AccountTypes, DoingIsRight
<1>4. CASE A!RequestAccountClosureService
  <2>1. "request" \notin CaseSteps /\ "request" \notin ClosureSteps /\ 0 \in Nat
    BY SMT DEF CaseSteps, ClosureSteps
  <2>2. LET d == [step |-> "request", of |-> 0] IN d \in Doing /\ DoingIsRight(d)
    BY Zenon, <2>1, ActorDoes
  <2> QED
    BY Zenon, <1>1, <1>2, <1>4, <2>2, QuietlyGoes DEF A!RequestAccountClosureService, A!Does
<1>5. CASE A!createClosureRequest
  <2>1. A!Finishes(Customer) /\ closures' = Append(closures, "pending")
    BY Zenon, <1>5 DEF A!createClosureRequest
  <2>2. "pending" \in ClosureStates
    BY Zenon DEF ClosureStates
  <2>3. closures' \in Seq(ClosureStates) /\ DOMAIN closures \subseteq DOMAIN closures'
    BY SMT, <1>1, <2>1, <2>2
  <2> QED
    BY Zenon, <1>1, <1>2, <2>1, <2>3, ClosuresMove
<1>6. CASE \E i \in DOMAIN closures : A!CancelAccountClosureService(i)
  <2>1. PICK i \in DOMAIN closures : A!CancelAccountClosureService(i)
    BY Zenon, <1>6
  <2>2. "cancel" \notin CaseSteps /\ "cancel" \in ClosureSteps
    BY SMT DEF CaseSteps, ClosureSteps
  <2>3. LET d == [step |-> "cancel", of |-> i] IN d \in Doing /\ DoingIsRight(d)
    BY Zenon, <1>1, <2>2, ActorDoes
  <2> QED
    BY Zenon, <1>1, <1>2, <2>1, <2>3, QuietlyGoes DEF A!CancelAccountClosureService, A!Does
<1>7. CASE A!cancelClosureRequest
  <2> DEFINE i == doing[Customer].of
  <2>1. i \in DOMAIN closures /\ A!Finishes(Customer)
    BY Zenon, <1>1, <1>7 DEF A!cancelClosureRequest, A!At, DoingIsRight, ClosureSteps
  <2>2. closures' = closures \/ closures' = [closures EXCEPT ![i] = "cancelled"]
    BY Zenon, <1>7 DEF A!cancelClosureRequest
  <2>3. "cancelled" \in ClosureStates
    BY Zenon DEF ClosureStates
  <2>4. closures' \in Seq(ClosureStates) /\ DOMAIN closures \subseteq DOMAIN closures'
    BY Zenon, <1>1, <2>1, <2>2, <2>3, ClosureChanges
  <2> QED
    BY Zenon, <1>1, <1>2, <2>1, <2>4, ClosuresMove
<1> QED
  BY Zenon, <1>2, <1>3, <1>4, <1>5, <1>6, <1>7 DEF A!CustomerSteps

LEMMA ClosuresAreDecided ==
  ASSUME AccountInv, NEW s \in Staff, A!decideClosureRequest(s)
  PROVE  AccountInv' /\ A!StatusChanges
<1> DEFINE i == doing[s].of
<1>1. s \in Actors /\ DoingIsRight(doing[s]) /\ A!Finishes(s) /\ UNCHANGED cases
      /\ closures \in Seq(ClosureStates)
  BY Zenon DEF Actors, AccountInv, AccountTypes, A!decideClosureRequest
<1>2. i \in DOMAIN closures
  BY Zenon, <1>1 DEF A!decideClosureRequest, DoingIsRight, ClosureSteps
<1>3. "approved" \in ClosureStates /\ "rejected" \in ClosureStates
  BY Zenon DEF ClosureStates
<1>4. CASE UNCHANGED status /\ (UNCHANGED closures \/ closures' = [closures EXCEPT ![i] = "rejected"])
  <2>1. closures' \in Seq(ClosureStates) /\ DOMAIN closures \subseteq DOMAIN closures'
    BY Zenon, <1>1, <1>2, <1>3, <1>4, ClosureChanges
  <2> QED
    BY Zenon, <1>1, <1>4, <2>1, ClosuresMove DEF A!StatusChanges
<1>5. CASE /\ closures[i] = "pending" /\ closures' = [closures EXCEPT ![i] = "approved"]
           /\ status' = "suspended_restricted"
  <2>1. closures' \in Seq(ClosureStates) /\ DOMAIN closures \subseteq DOMAIN closures'
        /\ closures'[i] = "approved"
    BY Zenon, <1>2, <1>3, <1>5, ClosureChanges
  <2>2. status' # "recovery_review" /\ status' # "active"
    BY SMT, <1>5
  <2>3. A!StatusChanges
    BY Zenon, <1>2, <1>5, <2>1, <2>2 DEF A!StatusChanges
  <2> QED
    BY Zenon, <1>1, <2>1, <2>3, ClosuresMove
<1> QED
  BY Zenon, <1>4, <1>5 DEF A!decideClosureRequest

LEMMA AccountStepKeeps == ASSUME AccountInv, A!Next PROVE AccountInv' /\ A!StatusChanges
<1>1. UNCHANGED status => A!StatusChanges
  BY Zenon DEF A!StatusChanges
<1>2. CASE A!CustomerSteps
  BY Zenon, <1>1, <1>2, CustomerDecides
<1>3. ASSUME NEW a \in Staff \cup {Customer}, A!Fails(a) PROVE AccountInv' /\ A!StatusChanges
  BY Zenon, <1>1, <1>3, QuietAccountSteps DEF Actors
<1>4. ASSUME NEW s \in Staff, A!RecoverySteps(s) PROVE AccountInv' /\ A!StatusChanges
  <2>1. s \in Actors
    BY Zenon DEF Actors
  <2> QED
    BY Zenon, <1>1, <1>4, <2>1, QuietAccountSteps, CasesAreReviewed, CasesOpen, CasesAreCompleted
    DEF A!RecoverySteps, A!RecordPrimaryRecoveryReviewService
<1>5. ASSUME NEW s \in Staff, A!ClosureSteps(s) PROVE AccountInv' /\ A!StatusChanges
  <2>1. s \in Actors
    BY Zenon DEF Actors
  <2> QED
    BY Zenon, <1>1, <1>5, <2>1, QuietAccountSteps, ClosuresAreDecided DEF A!ClosureSteps
<1> QED
  BY Zenon, <1>2, <1>3, <1>4, <1>5 DEF A!Next

LEMMA AccountsAreKept ==
  ASSUME AccountInv, [A!Next]_(A!vars)
  PROVE  AccountInv' /\ [A!StatusChanges]_accountVars
<1>1. CASE UNCHANGED A!vars
  BY Zenon, <1>1 DEF A!vars, accountVars, AccountInv, AccountTypes, DoingIsRight, CaseIsRight
<1>2. CASE A!Next
  BY Zenon, <1>2, AccountStepKeeps
<1> QED
  BY Zenon, <1>1, <1>2

\* The status of an account changes only by a decision taken in the same transaction (openCase,
\* decideClosureRequest, completeCase), whatever staff and the customer do at the same time and
\* wherever an operation fails, for any number of staff, cases and requests.
THEOREM StatusIsDecided == A!Spec => StatusChangesAreDecided
<1>1. A!Init => AccountInv
  BY Zenon, AccountStarts
<1>2. AccountInv /\ [A!Next]_(A!vars) => AccountInv' /\ [A!StatusChanges]_accountVars
  BY Zenon, AccountsAreKept
<1> QED
  BY <1>1, <1>2, PTL DEF A!Spec, StatusChangesAreDecided

=============================================================================
