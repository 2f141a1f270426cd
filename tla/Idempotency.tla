----------------------------- MODULE Idempotency -----------------------------
(***************************************************************************)
(* The middleware in front of the high-risk writes, for one key of one     *)
(* endpoint: look the key up, run the handler, save its answer, send it.   *)
(* The handler is one like the publication of the final terms, which takes *)
(* effect once and reports a conflict from then on. An error's answer goes *)
(* out through the same call as any other, and is saved like any other.    *)
(***************************************************************************)
EXTENDS Naturals, FiniteSets

CONSTANTS
  Requests,         \* requests with the key that are served at a time
  Bodies,           \* hashes of request bodies
  None              \* no row, no request, no body

VARIABLES
  effect,           \* whether the operation has taken effect
  stored,           \* the row of idempotency_keys
  request,          \* how far each request is
  sent              \* ghost: the answers sent, with their bodies and whether save returned

vars == <<effect, stored, request, sent>>

Answers == {"done", "conflict", "error"}
Outcome == [body : Bodies, answer : Answers]
Sent(outcome, saved) == [body |-> outcome.body, answer |-> outcome.answer, saved |-> saved]
Idle == [pc |-> "idle", body |-> None, answer |-> "error"]

Init ==
  /\ effect = FALSE
  /\ stored = None
  /\ request = [r \in Requests |-> Idle]
  /\ sent = {}

Goes(r, pc, body, answer) ==
  request' = [request EXCEPT ![r] = [pc |-> pc, body |-> body, answer |-> answer]]

\* A lookup that fails answers 503, and a stored row with another body 409: neither runs the
\* handler nor changes anything.
find(r, body) ==
  /\ request[r] = Idle /\ stored = None
  /\ Goes(r, "handler", body, "error")
  /\ UNCHANGED <<effect, stored, sent>>

replay(r, body) ==
  /\ request[r] = Idle /\ stored # None /\ stored.body = body
  /\ sent' = sent \cup {Sent([body |-> body, answer |-> stored.answer], TRUE)}
  /\ UNCHANGED <<effect, stored, request>>

publishFinalOfferingTerms(r) ==
  LET body == request[r].body IN
  /\ request[r].pc = "handler"
  /\ \E answer \in {"error", IF effect THEN "conflict" ELSE "done"} :
       /\ effect' = (effect \/ answer = "done")
       /\ Goes(r, "save", body, answer)
  /\ UNCHANGED <<stored, sent>>

\* The first row stays.
save(r) ==
  LET mine == [body |-> request[r].body, answer |-> request[r].answer] IN
  /\ request[r].pc = "save"
  /\ stored' = IF stored = None THEN mine ELSE stored
  /\ Goes(r, "saved", mine.body, mine.answer)
  /\ UNCHANGED <<effect, sent>>

SaveFails(r) ==
  /\ request[r].pc = "save"
  /\ Goes(r, "unsaved", request[r].body, request[r].answer)
  /\ UNCHANGED <<effect, stored, sent>>

\* A save that failed is logged. What one that did not returned is not looked at: the request
\* sends what its own handler answered.
interceptResponse(r) ==
  /\ request[r].pc \in {"saved", "unsaved"}
  /\ sent' = sent \cup {Sent(request[r], request[r].pc = "saved")}
  /\ request' = [request EXCEPT ![r] = Idle]
  /\ UNCHANGED <<effect, stored>>

\* The process stops, or the client goes away.
RequestStops(r) ==
  /\ request[r] # Idle
  /\ request' = [request EXCEPT ![r] = Idle]
  /\ UNCHANGED <<effect, stored, sent>>

Next ==
  \E r \in Requests :
    \/ \E body \in Bodies : find(r, body) \/ replay(r, body)
    \/ publishFinalOfferingTerms(r) \/ save(r) \/ SaveFails(r)
    \/ interceptResponse(r) \/ RequestStops(r)

Spec == Init /\ [][Next]_vars

-----------------------------------------------------------------------------
(* Properties.                                                             *)

\* The state stays within the values the columns hold.
TypeOK ==
  /\ effect \in BOOLEAN
  /\ stored \in Outcome \cup {None}
  /\ request \in [Requests -> [pc : {"idle", "handler", "save", "saved", "unsaved"},
                               body : Bodies \cup {None}, answer : Answers]]
  /\ sent \in SUBSET [body : Bodies, answer : Answers, saved : BOOLEAN]

\* "A concurrent request for the same key raced past find() and saved first -- that row, not
\* this one, is the one every caller must agree on": no caller with the row's body is sent
\* another answer, save for one whose own save failed.
EveryCallerAgrees ==
  \A outcome \in sent :
    outcome.saved /\ outcome.body = stored.body => outcome.answer = stored.answer
=============================================================================
