-------------------------- MODULE DeviceReplacement --------------------------
(***************************************************************************)
(* A signed-in customer replaces the phone of their account with a code    *)
(* sent by email.                                                          *)
(*                                                                         *)
(* codes is auth.device_replacement_codes for the account, oldest first.   *)
(* phones counts the phones enrolled so far; enrolled is whether the last  *)
(* of them is still active.  calls are the requests under way: asking for  *)
(* a code checks the limits, withdraws what is pending and stores the new  *)
(* code in separate statements; verifying one reads the pending code and   *)
(* spends it in a later transaction.  replacements records, in order, the  *)
(* code and the phone of every completed replacement.                      *)
(***************************************************************************)
EXTENDS Integers, Sequences, FiniteSets

CONSTANTS
  Calls,          \* requests, verifications and retries of either
  Sessions,       \* the customer's sessions
  CodeTtl,        \* codeTtlMs
  Cooldown,       \* cooldownMs
  RequestWindow,  \* requestWindowMs
  MaxRequests,    \* maxRequestsPerWindow
  MaxAttempts,    \* maxAttempts
  MaxCodes,       \* bound: codes stored
  MaxMisses,      \* bound: wrong codes submitted for one code
  MaxPhones,      \* bound: phones enrolled
  MaxTime         \* bound: the last value of the clock

VARIABLES now, codes, phones, enrolled, calls, replacements

vars == <<now, codes, phones, enrolled, calls, replacements>>

Never == -1

Idle == [step |-> "idle", session |-> 0, code |-> 0, at |-> 0]

Init ==
  /\ now = 0 /\ codes = <<>> /\ phones = 1 /\ enrolled = TRUE
  /\ calls = [c \in Calls |-> Idle] /\ replacements = <<>>

Goes(c, step) == calls' = [calls EXCEPT ![c].step = step]

Ends(c) == calls' = [calls EXCEPT ![c] = Idle]

-----------------------------------------------------------------------------
(* Asking for a code.                                                      *)

findLastConsumedAt ==
  {codes[i].consumedAt : i \in {j \in DOMAIN codes : codes[j].consumedAt # Never}}

InCooldown == \E t \in findLastConsumedAt : now - t < Cooldown

countCreatedSince(t) == Cardinality({i \in DOMAIN codes : codes[i].createdAt >= t})

RequestDeviceReplacementService(c, x) ==
  /\ calls[c].step = "idle"
  /\ ~InCooldown
  /\ countCreatedSince(now - RequestWindow) < MaxRequests
  /\ calls' = [calls EXCEPT ![c] = [step |-> "withdraw", session |-> x, code |-> 0, at |-> now]]
  /\ UNCHANGED <<now, codes, phones, enrolled, replacements>>

revokePendingForAccount(c) ==
  /\ calls[c].step = "withdraw"
  /\ codes' = [i \in DOMAIN codes |->
                 IF codes[i].consumedAt = Never
                 THEN [codes[i] EXCEPT !.consumedAt = calls[c].at] ELSE codes[i]]
  /\ Goes(c, "create")
  /\ UNCHANGED <<now, phones, enrolled, replacements>>

create(c) ==
  /\ calls[c].step = "create" /\ Len(codes) < MaxCodes
  /\ codes' = Append(codes, [session |-> calls[c].session, createdAt |-> now,
                             expiresAt |-> calls[c].at + CodeTtl, consumedAt |-> Never,
                             attempts |-> 0])
  /\ Ends(c)
  /\ UNCHANGED <<now, phones, enrolled, replacements>>

-----------------------------------------------------------------------------
(* Verifying one.                                                          *)

Live(i, t) == codes[i].consumedAt = Never /\ codes[i].expiresAt > t

(* The newest live code.                                                   *)
findPendingForAccount ==
  {i \in DOMAIN codes : Live(i, now) /\ \A j \in DOMAIN codes : Live(j, now) => j <= i}

(* The submitted code is the pending one or another.                       *)
VerifyDeviceReplacementService(c, x) ==
  /\ calls[c].step = "idle"
  /\ \E i \in findPendingForAccount, step \in {"spend", "miss"} :
       /\ codes[i].session = x
       /\ step = "miss" => codes[i].attempts < MaxMisses
       /\ calls' = [calls EXCEPT ![c] = [step |-> step, session |-> x, code |-> i, at |-> now]]
  /\ UNCHANGED <<now, codes, phones, enrolled, replacements>>

incrementAttempts(c) ==
  LET i == calls[c].code IN
  /\ calls[c].step = "miss"
  /\ codes' = IF Live(i, calls[c].at) THEN [codes EXCEPT ![i].attempts = @ + 1] ELSE codes
  /\ Ends(c)
  /\ UNCHANGED <<now, phones, enrolled, replacements>>

\* Mutant: the code is spent whether or not it was spent before.
SpendAgain(c) ==
  LET i == calls[c].code IN
  /\ calls[c].step = "spend"
  /\ IF codes[i].expiresAt > calls[c].at /\ codes[i].attempts < MaxAttempts
     THEN /\ codes' = [codes EXCEPT ![i].consumedAt = calls[c].at]
          /\ enrolled' = FALSE
          /\ replacements' = Append(replacements, [code |-> i, phone |-> phones])
     ELSE UNCHANGED <<codes, enrolled, replacements>>
  /\ Ends(c)
  /\ UNCHANGED <<now, phones>>

consumeAndReplace(c) ==
  LET i == calls[c].code IN
  /\ calls[c].step = "spend"
  /\ IF Live(i, calls[c].at) /\ codes[i].attempts < MaxAttempts
     THEN /\ codes' = [codes EXCEPT ![i].consumedAt = calls[c].at]
          /\ enrolled' = FALSE
          /\ replacements' = Append(replacements, [code |-> i, phone |-> phones])
     ELSE UNCHANGED <<codes, enrolled, replacements>>
  /\ Ends(c)
  /\ UNCHANGED <<now, phones>>

(* A call dies between two of its statements.                              *)
Crash(c) ==
  /\ calls[c].step # "idle"
  /\ Ends(c)
  /\ UNCHANGED <<now, codes, phones, enrolled, replacements>>

(* The customer enrols another phone: Devices.                             *)
Enrol ==
  /\ ~enrolled /\ phones < MaxPhones
  /\ phones' = phones + 1 /\ enrolled' = TRUE
  /\ UNCHANGED <<now, codes, calls, replacements>>

Tick ==
  /\ now < MaxTime
  /\ now' = now + 1
  /\ UNCHANGED <<codes, phones, enrolled, calls, replacements>>

-----------------------------------------------------------------------------
Next ==
  \/ \E c \in Calls :
       \/ \E x \in Sessions : \/ RequestDeviceReplacementService(c, x)
                              \/ VerifyDeviceReplacementService(c, x)
       \/ revokePendingForAccount(c) \/ create(c)
       \/ incrementAttempts(c) \/ consumeAndReplace(c) \/ Crash(c)
  \/ Enrol \/ Tick

Spec == Init /\ [][Next]_vars

-----------------------------------------------------------------------------
(* The variables keep their types.                                         *)
TypeOK ==
  /\ now \in 0..MaxTime /\ phones \in 1..MaxPhones /\ enrolled \in BOOLEAN
  /\ Len(codes) <= MaxCodes
  /\ \A i \in DOMAIN codes :
       /\ codes[i].session \in Sessions /\ codes[i].createdAt \in 0..now
       /\ codes[i].consumedAt \in {Never} \cup 0..now
       /\ codes[i].attempts \in Nat
  /\ \A c \in Calls : calls[c].code \in 0..Len(codes) /\ calls[c].at \in 0..now

(* A code replaces at most one phone: a verification that is submitted     *)
(* twice, or retried after its answer was lost, never revokes the phone    *)
(* the customer has enrolled meanwhile.                                    *)
CodesReplaceOnce ==
  \A i, j \in DOMAIN replacements : replacements[i].code = replacements[j].code => i = j

=============================================================================
