----------------------------- MODULE Allotment ------------------------------
(***************************************************************************)
(* What an offering promises of its capacity, without payments, windows or *)
(* jobs: a key is allotted at most once, an allotment is made only if all  *)
(* the allotments still fit the target, one that is given up never comes   *)
(* back, and the offering is closed once, issuing some of the allotments   *)
(* and giving up others in the same step.                                  *)
(***************************************************************************)
EXTENDS Integers, FiniteSets

CONSTANTS Keys, Amounts, Target

VARIABLES
  allotment, \* free, held, given_up or issued
  amount,    \* what was allotted
  closed     \* the allotments have been issued

allotmentVars == <<allotment, amount, closed>>

In(state) == {k \in Keys : allotment[k] = state}
Allotted == {unit \in (In("held") \cup In("issued")) \X (1..Target) : unit[2] <= amount[unit[1]]}

Start ==
  /\ allotment = [k \in Keys |-> "free"]
  /\ amount = [k \in Keys |-> 0]
  /\ closed = FALSE

Hold(k, a) ==
  /\ ~closed /\ allotment[k] = "free"
  /\ Cardinality(Allotted) + a <= Target
  /\ allotment' = [allotment EXCEPT ![k] = "held"]
  /\ amount' = [amount EXCEPT ![k] = a]
  /\ UNCHANGED closed

GiveUp(K) ==
  /\ K \subseteq In("held")
  /\ allotment' = [k \in Keys |-> IF k \in K THEN "given_up" ELSE allotment[k]]
  /\ UNCHANGED <<amount, closed>>

Close(K, L) ==
  /\ ~closed
  /\ K \subseteq In("held") /\ L \subseteq In("held") \ K
  /\ closed' = TRUE
  /\ allotment' = [k \in Keys |-> IF k \in K THEN "issued"
                                  ELSE IF k \in L THEN "given_up" ELSE allotment[k]]
  /\ UNCHANGED amount

Step ==
  \/ \E k \in Keys, a \in Amounts : Hold(k, a)
  \/ \E K \in SUBSET Keys : GiveUp(K)
  \/ \E K, L \in SUBSET Keys : Close(K, L)

AllotmentSpec == Start /\ [][Step]_allotmentVars
=============================================================================
