--------------------------- MODULE OfferingProofs ---------------------------
(***************************************************************************)
(* Proofs about Offering, for every finite set of reservations, every set  *)
(* of requests and every target.                                           *)
(***************************************************************************)
EXTENDS Offering, TLAPS

USE DEF vars, offeringVars, reservationVars, moneyVars, coinbaseVars, requestVars, pollVars

-----------------------------------------------------------------------------
(* What the handlers work on.                                              *)

\* A purchase that settles leaves a list of purchases.
LEMMA SettledListType ==
  ASSUME NEW s \in Seq(PurchaseStatuses), NEW i \in 1..Len(s), NEW x \in PurchaseStatuses
  PROVE  [s EXCEPT ![i] = x] \in Seq(PurchaseStatuses)
OBVIOUS

\* What a handler that is under way works on.
LEMMA AskedType ==
  ASSUME TypeOK, NEW q \in Requests, pc[q] \in {"checked", "created", "replaying"}
  PROVE  /\ asked[q] \in Ask
         /\ asked[q].key \in Keys
         /\ asked[q].amount \in Amounts
<1>1. asked[q] \in Ask
  BY Zenon DEF TypeOK
<1> QED
  BY <1>1 DEF Ask

-----------------------------------------------------------------------------
(* The stages.  StageMove lists every move a step can make and what holds  *)
(* when it makes it; the properties of the stages follow from the list.    *)

StageMove(k) ==
  LET from == reservationStage[k]
      to == reservationStage'[k]
  IN \/ to = from /\ reconfirmedAt'[k] = reconfirmedAt[k]
     \/ from = "none" /\ to = "initiated"
     \/ from = "initiated" /\ to \in {"awaiting_reconfirmation", "cancelled"} /\ status' = "pre_offering"
     \/ from = "initiated" /\ to = "lapsed" /\ k \in sweepList
     \/ from = "awaiting_reconfirmation" /\ to = "reconfirmed" /\ reconfirmedAt'[k] # "none"
     \/ from = "reconfirmed" /\ to = "awaiting_reconfirmation" /\ status' = "pre_offering"
     \/ from = "awaiting_reconfirmation" /\ to = "lapsed" /\ ~windowOpen
     \/ /\ from = "reconfirmed" /\ to = "finalized" /\ reconfirmedAt'[k] = reconfirmedAt[k]
        /\ status = "pre_offering" /\ status' = "final_offering"

\* The list is complete.
LEMMA StageMoves ==
  ASSUME TypeOK, [Next]_vars, NEW k \in Keys
  PROVE  StageMove(k)
<1> USE DEF StageMove, TypeOK
<1>1. ASSUME NEW q \in Requests, Request(q) PROVE StageMove(k)
  <2>1. CASE InsertReservation(q)
    BY SMTT(60), <2>1 DEF InsertReservation
  <2>2. CASE ~InsertReservation(q)
    BY ZenonT(60), <1>1, <2>2 DEF Request, CheckBlockers, RefuseBlocked, ReplayReservation,
       RefuseConflict,
         RecordPurchasePending, RecordSessionFailed, RequestDies
  <2> QED
    BY ZenonT(60), <2>1, <2>2
<1>2. ASSUME NEW j \in Keys, Investor(j) \/ HoldElapses(j) PROVE StageMove(k)
  <2>1. CASE reconfirmReservation(j)
    BY SMTT(60), <2>1 DEF reconfirmReservation
  <2>2. CASE ~reconfirmReservation(j)
    BY SMTT(60), <1>2, <2>2 DEF Investor, StartPurchase, SettlePurchase, ReconfirmArrives,
       HoldElapses
  <2> QED
    BY ZenonT(60), <2>1, <2>2
<1>3. CASE Poll
  BY ZenonT(60), <1>3 DEF Poll, PollStarts, PollReads, PollRecords, PollAborts
<1>4. CASE Sweep
  BY SMTT(60), <1>4 DEF Sweep, SweepStarts, expireReservation, SweepAborts
<1>5. CASE publishFinalOfferingTerms
  BY SMTT(60), <1>5 DEF publishFinalOfferingTerms, OpenReconfirmationWindow,
     canPublishFinalOfferingTerms
<1>6. ASSUME NEW classification \in Classifications, classifyMateriality(classification)
      PROVE  StageMove(k)
  BY SMTT(60), <1>6 DEF classifyMateriality
<1>7. CASE commitOfferingFinalization
  BY SMTT(60), <1>7 DEF commitOfferingFinalization, listOfferingsPendingFinalizationCommit
<1>8. CASE \/ WindowCloses \/ reopenPreOffering
           \/ \E documents \in {"partial", "complete"} : publishDisclosurePack(documents)
  BY ZenonT(60), <1>8 DEF WindowCloses, reopenPreOffering, publishDisclosurePack
<1>9. CASE UNCHANGED vars
  BY <1>9
<1> QED
  BY ZenonT(60), <1>1, <1>2, <1>3, <1>4, <1>5, <1>6, <1>7, <1>8, <1>9 DEF Next, Staff,
     PublishDisclosurePackService, ClassifyMaterialityService

\* What the sweep listed had elapsed, and a hold that has elapsed stays so.
ElapsedInv == \A k \in sweepList : holdElapsed[k]

LEMMA ElapsedStep ==
  ASSUME TypeOK, ElapsedInv, [Next]_vars, NEW k \in sweepList'
  PROVE  holdElapsed'[k]
<1> USE DEF ElapsedInv, TypeOK
<1>1. CASE Sweep
  BY SMTT(60), <1>1 DEF Sweep, SweepStarts, expireReservation, SweepAborts
<1>2. ASSUME NEW j \in Keys, HoldElapses(j) PROVE holdElapsed'[k]
  BY SMTT(60), <1>2 DEF HoldElapses
<1>3. CASE UNCHANGED <<sweepList, holdElapsed>>
  BY SMTT(60), <1>3
<1>4. CASE Next /\ ~Sweep /\ ~\E j \in Keys : HoldElapses(j)
  <2>1. UNCHANGED <<sweepList, holdElapsed>>
    BY ZenonT(60), <1>4 DEF Next, Request, CheckBlockers, RefuseBlocked, InsertReservation,
         ReplayReservation, RefuseConflict, RecordPurchasePending, RecordSessionFailed,
         RequestDies, Investor, StartPurchase, SettlePurchase, ReconfirmArrives,
         reconfirmReservation, WindowCloses, Poll, PollStarts, PollReads, PollRecords,
         PollAborts, Staff, PublishDisclosurePackService, ClassifyMaterialityService,
         publishDisclosurePack, publishFinalOfferingTerms, OpenReconfirmationWindow,
         classifyMateriality, reopenPreOffering, commitOfferingFinalization,
         listOfferingsPendingFinalizationCommit
  <2> QED
    BY SMTT(60), <1>3, <2>1
<1> QED
  BY SMTT(60), <1>1, <1>2, <1>3, <1>4

\* No other step finalizes the offering or creates a position.
LEMMA OnlyCommitFinalizes ==
  ASSUME [Next]_vars, ~commitOfferingFinalization
  PROVE  /\ positions' = positions
         /\ status' = status \/ (reopenPreOffering /\ status' = "closed")
BY ZenonT(60) DEF Next, Request, CheckBlockers, RefuseBlocked, InsertReservation,
   ReplayReservation,
       RefuseConflict, RecordPurchasePending, RecordSessionFailed, RequestDies, Investor,
       StartPurchase, SettlePurchase, ReconfirmArrives, reconfirmReservation, HoldElapses,
       WindowCloses, Poll, PollStarts, PollReads, PollRecords, PollAborts, Sweep, SweepStarts,
       expireReservation, SweepAborts, Staff, PublishDisclosurePackService,
       ClassifyMaterialityService, publishDisclosurePack, publishFinalOfferingTerms,
       OpenReconfirmationWindow,
       classifyMateriality, reopenPreOffering

FinalInv ==
  /\ FinalizationIsComplete
  /\ \A k \in Keys : reservationStage[k] \in {"reconfirmed", "finalized"} => reconfirmedAt[k] # "none"

\* Whoever the batch finalizes has reconfirmed, and no other step touches what it left.
LEMMA FinalStep ==
  ASSUME TypeOK, FinalInv, [Next]_vars
  PROVE  FinalInv'
<1> USE DEF FinalInv, FinalizationIsComplete
<1>0. \A k \in Keys : StageMove(k)
  BY SMTT(60), StageMoves
<1>1. CASE commitOfferingFinalization
  BY SMTT(60), <1>0, <1>1 DEF commitOfferingFinalization,
     listOfferingsPendingFinalizationCommit, TypeOK
<1>2. CASE ~commitOfferingFinalization
  <2>1. (status' = status \/ status' = "closed") /\ positions' = positions
    BY SMTT(60), <1>2, OnlyCommitFinalizes
  <2>2. \A k \in Keys : reservationStage'[k] = "finalized" <=> reservationStage[k] = "finalized"
    BY <1>0, <2>1 DEF StageMove
  <2> QED
    BY SMTT(60), <1>0, <2>1, <2>2 DEF StageMove
<1> QED
  BY ZenonT(60), <1>1, <1>2

-----------------------------------------------------------------------------
(* Payment.  The poll decides on what Coinbase lists and records it later, *)
(* so the argument carries the decision: what is about to be recorded,     *)
(* what is recorded as funded and what was moved into the window are all   *)
(* covered by a purchase, and a purchase that succeeded stays so.          *)

PaidInv ==
  /\ \A d \in polled : d.capitalState = "eurc_reserved" => Covered(d.key)
  /\ \A k \in Keys : isReservationFunded(k) => Covered(k)
  /\ FinalOfferingIsPaid

\* Coinbase never takes a successful purchase back.
LEMMA CoveredStays ==
  ASSUME TypeOK, [Next]_vars, NEW k \in Keys, Covered(k)
  PROVE  Covered(k)'
<1>1. PICK i \in DOMAIN purchases[k] : purchases[k][i] = "covering"
  BY SMTT(60) DEF Covered
<1>2. purchases[k] \in Seq(PurchaseStatuses) /\ i \in 1..Len(purchases[k])
  BY SMTT(60), <1>1 DEF TypeOK
<1>3. CASE purchases' = purchases
  BY SMTT(60), <1>3 DEF Covered
<1>4. ASSUME NEW j \in Keys, StartPurchase(j) PROVE Covered(k)'
  <2>1. CASE j # k
    <3>1. purchases'[k] = purchases[k]
      BY ZenonT(60), <1>4, <2>1 DEF StartPurchase, TypeOK
    <3> QED
      BY <3>1 DEF Covered
  <2>2. CASE purchases' = [purchases EXCEPT ![j] = Append(purchases[j], "in_progress")]
    BY <1>1, <1>2, <2>1, <2>2 DEF Covered, TypeOK
  <2>3. CASE purchases' = [purchases EXCEPT ![j] = <<"in_progress">> \o purchases[j]] /\ j = k
    <3> DEFINE list == <<"in_progress">> \o purchases[k]
    <3>1. purchases'[k] = list
      BY SMTT(60), <2>3 DEF TypeOK
    <3>2. i + 1 \in DOMAIN list /\ list[i + 1] = "covering"
      BY <1>1, <1>2
    <3> QED
      BY <3>1, <3>2 DEF Covered
  <2> QED
    BY ZenonT(60), <1>4, <2>1, <2>2, <2>3 DEF StartPurchase
<1>5. ASSUME NEW j \in Keys, SettlePurchase(j) PROVE Covered(k)'
  <2>1. PICK m \in 1..Len(purchases[j]), outcome \in PurchaseStatuses :
          /\ purchases[j][m] = "in_progress"
          /\ purchases' = [purchases EXCEPT ![j] = [purchases[j] EXCEPT ![m] = outcome]]
    BY Zenon, <1>5 DEF SettlePurchase
  <2>2. i \in DOMAIN purchases'[k] /\ purchases'[k][i] = "covering"
    BY <1>1, <1>2, <2>1 DEF TypeOK
  <2> QED
    BY SMTT(60), <2>2 DEF Covered
<1>6. CASE Next /\ ~\E j \in Keys : StartPurchase(j) \/ SettlePurchase(j)
  <2>1. purchases' = purchases
    BY ZenonT(60), <1>6 DEF Next, Request, CheckBlockers, RefuseBlocked, InsertReservation,
       ReplayReservation,
         RefuseConflict, RecordPurchasePending, RecordSessionFailed, RequestDies,
         Investor, ReconfirmArrives, reconfirmReservation, HoldElapses, WindowCloses,
         Poll, PollStarts, PollReads, PollRecords, PollAborts,
         Sweep, SweepStarts, expireReservation, SweepAborts,
         Staff, PublishDisclosurePackService, ClassifyMaterialityService, publishDisclosurePack,
         publishFinalOfferingTerms, OpenReconfirmationWindow, classifyMateriality,
         reopenPreOffering, commitOfferingFinalization
  <2> QED
    BY <1>3, <2>1
<1>7. CASE UNCHANGED vars
  BY <1>3, <1>7
<1> QED
  BY SMTT(60), <1>4, <1>5, <1>6, <1>7

\* The poll decides for a funded reservation only when a listed purchase covers it.
LEMMA ReservedIsCovered ==
  ASSUME NEW k \in Keys, resolveOutcome(purchases[k]) = "eurc_reserved"
  PROVE  Covered(k)
BY SMTT(60) DEF resolveOutcome, Covered

\* Every step keeps PaidInv.
LEMMA PaidStep ==
  ASSUME TypeOK, PaidInv, [Next]_vars
  PROVE  PaidInv'
<1> USE DEF PaidInv, FinalOfferingIsPaid, isReservationFunded, FUNDED_CAPITAL_STATES
<1>0. \A k \in Keys : Covered(k) => Covered(k)'
  BY SMTT(60), CoveredStays
<1>1. ASSUME NEW q \in Requests, Request(q) PROVE PaidInv'
  <2>1. polled' = polled /\ polled \subseteq Decision
    BY ZenonT(60), <1>1 DEF Request, CheckBlockers, RefuseBlocked, InsertReservation,
       ReplayReservation,
         RefuseConflict, RecordPurchasePending, RecordSessionFailed, RequestDies, TypeOK
  <2>2. \A k \in Keys : \/ capitalState'[k] = capitalState[k]
                        \/ capitalState'[k] \notin FUNDED_CAPITAL_STATES
    BY ZenonT(60), <1>1 DEF Request, CheckBlockers, RefuseBlocked, InsertReservation,
       ReplayReservation,
         RefuseConflict, RecordPurchasePending, RecordSessionFailed, RequestDies, TypeOK,
         recordMoneyEvent
  <2>3. \A k \in Keys : \/ reservationStage'[k] = reservationStage[k]
                        \/ reservationStage'[k] = "initiated"
    BY ZenonT(60), <1>1 DEF Request, CheckBlockers, RefuseBlocked, InsertReservation,
       ReplayReservation,
         RefuseConflict, RecordPurchasePending, RecordSessionFailed, RequestDies, TypeOK
  <2> QED
    BY SMTT(60), <1>0, <2>1, <2>2, <2>3 DEF Decision
<1>2. ASSUME NEW k \in Keys, Investor(k) \/ HoldElapses(k) PROVE PaidInv'
  <2>1. polled' = polled /\ polled \subseteq Decision /\ capitalState' = capitalState
    BY SMTT(60), <1>2 DEF Investor, StartPurchase, SettlePurchase, ReconfirmArrives,
       reconfirmReservation,
         HoldElapses, TypeOK
  <2>2. \A j \in Keys : \/ reservationStage'[j] = reservationStage[j]
                        \/ reservationStage[j] = "awaiting_reconfirmation"
    BY ZenonT(60), <1>2 DEF Investor, StartPurchase, SettlePurchase, ReconfirmArrives,
       reconfirmReservation,
         HoldElapses, TypeOK
  <2> QED
    BY SMTT(60), <1>0, <2>1, <2>2 DEF Decision
<1>3. CASE Poll
  <2>0. reservationStage' = reservationStage /\ purchases' = purchases
    BY SMTT(60), <1>3 DEF Poll, PollStarts, PollReads, PollRecords, PollAborts
  <2>1. CASE PollStarts \/ PollAborts
    BY SMTT(60), <1>0, <2>1 DEF PollStarts, PollAborts, TypeOK, Decision
  <2>2. ASSUME NEW k \in Keys, PollReads(k) PROVE PaidInv'
    <3>1. \A d \in polled' : d.key = k /\ d.capitalState = resolveOutcome(purchases[k])
      BY SMTT(60), <2>2 DEF PollReads
    <3>2. \A d \in polled' : d.capitalState = "eurc_reserved" => Covered(d.key)
      BY SMTT(60), <3>1, ReservedIsCovered
    <3> QED
      BY ZenonT(60), <1>0, <2>0, <2>2, <3>1, <3>2 DEF PollReads
  <2>3. CASE PollRecords
    <3>1. PICK d \in polled : capitalState' = [capitalState EXCEPT ![d.key] = d.capitalState]
      BY ZenonT(60), <2>3 DEF PollRecords, recordMoneyEvent
    <3>2. d.key \in Keys /\ d.capitalState \in {"eurc_reserved", "purchase_failed"}
      BY <3>1 DEF TypeOK, Decision
    <3>3. polled' = {}
      BY Zenon, <2>3 DEF PollRecords
    <3>4. \A k \in Keys : isReservationFunded(k)' => Covered(k)
      BY SMTT(60), <3>1, <3>2 DEF TypeOK
    <3> QED
      BY SMTT(60), <1>0, <2>0, <3>3, <3>4
  <2> QED
    BY ZenonT(60), <1>3, <2>1, <2>2, <2>3 DEF Poll
<1>4. CASE Sweep
  <2>1. polled' = polled /\ polled \subseteq Decision /\ capitalState' = capitalState
    BY SMTT(60), <1>4 DEF Sweep, SweepStarts, expireReservation, SweepAborts, TypeOK
  <2>2. \A j \in Keys : \/ reservationStage'[j] = reservationStage[j]
                        \/ reservationStage'[j] = "lapsed"
    BY SMTT(60), <1>4 DEF Sweep, SweepStarts, expireReservation, SweepAborts, TypeOK
  <2> QED
    BY SMTT(60), <1>0, <2>1, <2>2 DEF Decision
<1>5. CASE Staff \/ WindowCloses \/ commitOfferingFinalization
  <2>1. polled' = polled /\ polled \subseteq Decision
    BY ZenonT(60), <1>5 DEF Staff, PublishDisclosurePackService, ClassifyMaterialityService,
       WindowCloses, commitOfferingFinalization, publishDisclosurePack,
         publishFinalOfferingTerms, OpenReconfirmationWindow, classifyMateriality,
         reopenPreOffering, TypeOK
  <2>2. CASE \/ WindowCloses \/ reopenPreOffering
             \/ \E documents \in {"partial", "complete"} : publishDisclosurePack(documents)
    BY ZenonT(60), <1>0, <2>1, <2>2 DEF WindowCloses, reopenPreOffering, publishDisclosurePack,
       Decision
  <2>3. CASE publishFinalOfferingTerms
    BY SMTT(60), <1>0, <2>1, <2>3 DEF publishFinalOfferingTerms, OpenReconfirmationWindow,
       Decision
  <2>4. ASSUME NEW classification \in Classifications, classifyMateriality(classification)
        PROVE  PaidInv'
    <3>1. capitalState' = capitalState
      BY SMTT(60), <2>4 DEF classifyMateriality
    <3>2. \A j \in Keys : \/ reservationStage'[j] = reservationStage[j]
                          \/ reservationStage[j] = "reconfirmed"
      BY SMTT(60), <2>4 DEF classifyMateriality
    <3> QED
      BY SMTT(60), <1>0, <2>1, <3>1, <3>2 DEF Decision
  <2>5. CASE commitOfferingFinalization
    BY SMTT(60), <1>0, <2>1, <2>5 DEF commitOfferingFinalization,
       listOfferingsPendingFinalizationCommit, Decision
  <2> QED
    BY ZenonT(60), <1>5, <2>2, <2>3, <2>4, <2>5 DEF Staff, PublishDisclosurePackService,
       ClassifyMaterialityService
<1>6. CASE UNCHANGED vars
  BY <1>0, <1>6 DEF TypeOK, Decision
<1> QED
  BY SMTT(60), <1>1, <1>2, <1>3, <1>4, <1>5, <1>6 DEF Next

-----------------------------------------------------------------------------
(* The correction.  Every reservation begins with a request that saw a     *)
(* disclosure pack, and a pack is never taken back: without one, nobody    *)
(* has come in.                                                            *)

EmptyInv ==
  /\ pack = "none" =>
       /\ \A k \in Keys : reservationStage[k] = "none" /\ capitalState[k] = "none"
       /\ onrampOpen = {} /\ sweepList = {} /\ pollList = {} /\ polled = {}
       /\ \A q \in Requests : pc[q] \in {"idle", "done"}
  /\ status = "closed" => pack = "none"

\* A step of a handler happens only where there is a pack, or refuses a request.
LEMMA EmptyRequests ==
  ASSUME TypeOK, EmptyInv, NEW q \in Requests, Request(q)
  PROVE  EmptyInv'
<1>1. status' = status /\ pack' = pack
  BY ZenonT(60) DEF Request, CheckBlockers, RefuseBlocked, InsertReservation, ReplayReservation,
         RefuseConflict, RecordPurchasePending, RecordSessionFailed, RequestDies
<1>2. CASE pack # "none"
  BY SMTT(60), <1>1, <1>2 DEF EmptyInv
<1>3. CASE pack = "none"
  <2>1. RefuseBlocked(q)
    BY ZenonT(60), <1>3 DEF EmptyInv, Request, CheckBlockers, offeringBlocked, InsertReservation,
         ReplayReservation, RefuseConflict, RecordPurchasePending, RecordSessionFailed,
         RequestDies
  <2> QED
    BY SMTT(60), <1>1, <1>3, <2>1 DEF EmptyInv, RefuseBlocked, Finish, TypeOK
<1> QED
  BY SMTT(60), <1>2, <1>3

\* Every step keeps an offering without a pack empty.
LEMMA EmptyStep ==
  ASSUME TypeOK, EmptyInv, [Next]_vars
  PROVE  EmptyInv'
<1>0. ASSUME pack' # "none", status' # "closed" PROVE EmptyInv'
  BY <1>0 DEF EmptyInv
<1>1. ASSUME NEW q \in Requests, Request(q) PROVE EmptyInv'
  BY SMTT(60), <1>1, EmptyRequests
<1>2. ASSUME NEW k \in Keys, Investor(k) \/ HoldElapses(k) PROVE EmptyInv'
  BY SMTT(60), <1>2 DEF EmptyInv, Investor, StartPurchase, SettlePurchase, ReconfirmArrives,
       reconfirmReservation, HoldElapses
<1>3. CASE Poll
  BY ZenonT(60), <1>3 DEF EmptyInv, Poll, PollStarts, PollReads, PollRecords, PollAborts,
       listPendingPurchaseReservationsForTimers
<1>4. CASE Sweep
  <2>1. pack' = pack /\ status' = status
    BY Zenon, <1>4 DEF Sweep, SweepStarts, expireReservation, SweepAborts
  <2>2. CASE pack # "none"
    <3>1. status # "closed"
      BY Zenon, <2>2 DEF EmptyInv
    <3> QED
      BY <1>0, <2>1, <2>2, <3>1
  <2>3. CASE pack = "none"
    <3>1. SweepStarts \/ SweepAborts
      BY Zenon, <1>4, <2>3 DEF Sweep, expireReservation, EmptyInv
    <3> QED
      BY SMTT(60), <2>3, <3>1 DEF EmptyInv, SweepStarts, SweepAborts
  <2> QED
    BY <2>2, <2>3
<1>5. CASE reopenPreOffering
  BY ZenonT(60), <1>5 DEF EmptyInv, reopenPreOffering
<1>6. ASSUME NEW documents \in {"partial", "complete"}, publishDisclosurePack(documents)
      PROVE  EmptyInv'
  <2>1. pack' # "none" /\ status' # "closed"
    BY <1>6 DEF publishDisclosurePack
  <2> QED
    BY <1>0, <2>1
<1>7. CASE publishFinalOfferingTerms
  BY SMTT(60), <1>7 DEF EmptyInv, publishFinalOfferingTerms, OpenReconfirmationWindow,
     isCompleteDisclosurePack
<1>8. ASSUME NEW classification \in Classifications, classifyMateriality(classification)
      PROVE  EmptyInv'
  BY SMTT(60), <1>8 DEF EmptyInv, classifyMateriality
<1>9. CASE WindowCloses \/ UNCHANGED vars
  BY SMTT(60), <1>9 DEF EmptyInv, WindowCloses
<1>10. CASE commitOfferingFinalization
  BY SMTT(60), <1>10 DEF EmptyInv, commitOfferingFinalization
<1> QED
  BY SMTT(60), <1>1, <1>2, <1>3, <1>4, <1>5, <1>6, <1>7, <1>8, <1>9, <1>10 DEF Next, Staff,
     PublishDisclosurePackService, ClassifyMaterialityService

\* What the proofs carry holds when the offering opens, and what the properties ask of a
\* step follows from it.
LEMMA InitInvariants == Init => PaidInv /\ ElapsedInv /\ FinalInv /\ EmptyInv
<1> SUFFICES ASSUME Init PROVE PaidInv /\ ElapsedInv /\ FinalInv /\ EmptyInv
  OBVIOUS
<1>1. PaidInv
  BY DEF Init, PaidInv, FinalOfferingIsPaid, isReservationFunded, FUNDED_CAPITAL_STATES
<1>2. ElapsedInv
  BY DEF Init, ElapsedInv
<1>3. FinalInv
  BY DEF Init, FinalInv, FinalizationIsComplete
<1>4. EmptyInv
  BY DEF Init, EmptyInv
<1> QED
  BY <1>1, <1>2, <1>3, <1>4

LEMMA LapsesElapsed ==
  ASSUME TypeOK, ElapsedInv, [Next]_vars, NEW k \in Keys,
         reservationStage[k] # "lapsed", reservationStage'[k] = "lapsed"
  PROVE  \/ reservationStage[k] = "initiated" /\ holdElapsed[k]
         \/ reservationStage[k] = "awaiting_reconfirmation" /\ ~windowOpen
BY StageMoves DEF StageMove, ElapsedInv

LEMMA TerminalStays ==
  ASSUME TypeOK, [Next]_vars, NEW k \in Keys, reservationStage[k] \in {"finalized", "cancelled", "lapsed"}
  PROVE  reservationStage'[k] = reservationStage[k]
BY Zenon, StageMoves DEF StageMove

LEMMA EmptyWhenClosed == EmptyInv => ClosedOfferingIsEmpty
BY DEF EmptyInv, ClosedOfferingIsEmpty, Holding, isReservationFunded, FUNDED_CAPITAL_STATES

-----------------------------------------------------------------------------
(* Type correctness.                                                       *)

\* The steps of the request handlers keep the types.
LEMMA RequestType ==
  ASSUME TypeOK, remainingCapacityEur \in 0..Target, NEW q \in Requests, Request(q)
  PROVE  TypeOK'
<1> USE TargetAssumption, AmountsAssumption DEF TypeOK, Ask, Stages, CapitalStates,
recordMoneyEvent, Finish
<1>1. ASSUME NEW k \in Keys, NEW amount \in Amounts, CheckBlockers(q, k, amount) PROVE TypeOK'
  BY SMTT(60), <1>1 DEF CheckBlockers
<1>2. CASE RefuseBlocked(q)
  BY <1>2 DEF RefuseBlocked
<1>3. CASE InsertReservation(q)
  <2>1. asked[q] \in Ask /\ asked[q].key \in Keys /\ asked[q].amount \in Amounts
    BY <1>3, AskedType DEF InsertReservation
  <2>2. asked[q].amount \in 0..Target
    <3>1. asked[q].amount <= remainingCapacityEur
      BY <1>3 DEF InsertReservation
    <3>2. asked[q].amount \in Nat
      BY Zenon, <2>1, AmountsAssumption
    <3> HIDE DEF Ask, TypeOK
    <3> QED
      BY <3>1, <3>2, TargetAssumption
  <2> QED
    BY SMTT(60), <1>3, <2>1, <2>2 DEF InsertReservation
<1>4. CASE ReplayReservation(q)
  BY SMTT(60), <1>4 DEF ReplayReservation
<1>5. CASE RefuseConflict(q)
  BY SMTT(60), <1>5 DEF RefuseConflict
<1>6. CASE RecordPurchasePending(q)
  <2>1. asked[q] \in Ask /\ asked[q].key \in Keys
    BY SMTT(60), <1>6, AskedType DEF RecordPurchasePending
  <2> QED
    BY SMTT(60), <1>6, <2>1 DEF RecordPurchasePending
<1>7. CASE RecordSessionFailed(q)
  <2>1. asked[q] \in Ask /\ asked[q].key \in Keys
    BY <1>7, AskedType DEF RecordSessionFailed
  <2>2. capitalState' \in [Keys -> CapitalStates] /\ landed' \subseteq Keys
    <3>1. /\ capitalState \in [Keys -> CapitalStates] /\ "purchase_failed" \in CapitalStates
          /\ landed \subseteq Keys
      BY Zenon
    <3> HIDE DEF TypeOK, CapitalStates
    <3>2. CASE pc[q] = "created"
      BY <1>7, <2>1, <3>1, <3>2 DEF RecordSessionFailed
    <3>3. CASE pc[q] # "created"
      BY Zenon, <1>7, <3>1, <3>3 DEF RecordSessionFailed
    <3> QED
      BY <3>2, <3>3
  <2>3. /\ pc' = [pc EXCEPT ![q] = "done"] /\ asked' = [asked EXCEPT ![q] = NoAsk]
        /\ UNCHANGED <<offeringVars, reservationVars, coinbaseVars, reconfirming, sweepList, pollVars>>
    <3> HIDE DEF TypeOK
    <3> QED
      BY Zenon, <1>7 DEF RecordSessionFailed
  <2> QED
    BY SMTT(60), <2>2, <2>3
<1>8. CASE RequestDies(q)
  BY SMTT(60), <1>8 DEF RequestDies
<1> QED
  BY Zenon, <1>1, <1>2, <1>3, <1>4, <1>5, <1>6, <1>7, <1>8 DEF Request

\* The steps of Coinbase, of the investors and of the clock keep the types.
LEMMA InvestorType ==
  ASSUME TypeOK, NEW k \in Keys, Investor(k) \/ HoldElapses(k)
  PROVE  TypeOK'
<1> USE DEF TypeOK, Stages
<1>1. CASE StartPurchase(k)
  <2>1. Append(purchases[k], "in_progress") \in Seq(PurchaseStatuses)
    BY DEF PurchaseStatuses
  <2>2. <<"in_progress">> \o purchases[k] \in Seq(PurchaseStatuses)
    BY DEF PurchaseStatuses
  <2>3. PICK list \in Seq(PurchaseStatuses) : purchases' = [purchases EXCEPT ![k] = list]
    BY Zenon, <1>1, <2>1, <2>2 DEF StartPurchase
  <2>4. purchases' \in [Keys -> Seq(PurchaseStatuses)]
    BY <2>3
  <2> QED
    BY SMTT(60), <1>1, <2>4 DEF StartPurchase
<1>2. CASE SettlePurchase(k)
  <2>1. PICK i \in 1..Len(purchases[k]), outcome \in PurchaseStatuses :
          purchases' = [purchases EXCEPT ![k] = [purchases[k] EXCEPT ![i] = outcome]]
    BY Zenon, <1>2 DEF SettlePurchase
  <2>2. purchases' \in [Keys -> Seq(PurchaseStatuses)]
    BY <2>1, SettledListType
  <2> QED
    BY SMTT(60), <1>2, <2>2 DEF SettlePurchase
<1>3. CASE ReconfirmArrives(k)
  BY <1>3 DEF ReconfirmArrives
<1>4. CASE reconfirmReservation(k)
  <2>1. /\ reservationStage \in [Keys -> Stages] /\ "reconfirmed" \in Stages
        /\ reconfirmedAt \in [Keys -> {"none", "current", "stale"}]
        /\ reconfirming \in [Keys -> {"none", "current", "late", "stale"}]
    BY Zenon
  <2> HIDE DEF TypeOK, Stages
  <2>2. reservationStage' \in [Keys -> Stages]
    BY <1>4, <2>1 DEF reconfirmReservation
  <2>3. reconfirmedAt' \in [Keys -> {"none", "current", "stale"}]
    BY <1>4, <2>1 DEF reconfirmReservation
  <2>4. reconfirming' \in [Keys -> {"none", "current", "late", "stale"}]
    BY <1>4, <2>1 DEF reconfirmReservation
  <2>5. UNCHANGED <<offeringVars, amountEur, holdElapsed, moneyVars, coinbaseVars, requestVars,
                    sweepList, pollVars>>
    BY <1>4 DEF reconfirmReservation
  <2> QED
    BY Zenon, <2>2, <2>3, <2>4, <2>5 DEF TypeOK
<1>5. CASE HoldElapses(k)
  BY SMTT(60), <1>5 DEF HoldElapses
<1> QED
  BY SMTT(60), <1>1, <1>2, <1>3, <1>4, <1>5 DEF Investor

\* The runs of the poll keep the types.
LEMMA PollType ==
  ASSUME TypeOK, Poll
  PROVE  TypeOK'
<1> USE DEF TypeOK, Decision, CapitalStates
<1>1. CASE PollStarts
  BY SMTT(60), <1>1 DEF PollStarts, listPendingPurchaseReservationsForTimers
<1>2. ASSUME NEW k \in Keys, PollReads(k) PROVE TypeOK'
  BY SMTT(60), <1>2 DEF PollReads
<1>3. CASE PollRecords
  BY SMTT(60), <1>3 DEF PollRecords, recordMoneyEvent
<1>4. CASE PollAborts
  BY SMTT(60), <1>4 DEF PollAborts
<1> QED
  BY ZenonT(60), <1>1, <1>2, <1>3, <1>4 DEF Poll

\* The runs of the sweep keep the types.
LEMMA SweepType ==
  ASSUME TypeOK, Sweep
  PROVE  TypeOK'
<1> USE DEF TypeOK, Stages
<1>1. CASE SweepStarts
  BY SMTT(60), <1>1 DEF SweepStarts
<1>2. ASSUME NEW k \in Keys, expireReservation(k) PROVE TypeOK'
  BY SMTT(60), <1>2 DEF expireReservation
<1>3. CASE SweepAborts
  BY SMTT(60), <1>3 DEF SweepAborts
<1> QED
  BY SMTT(60), <1>1, <1>2, <1>3 DEF Sweep

\* The staff operations, the end of the window and the finalization keep the types.
LEMMA StaffType ==
  ASSUME TypeOK, Staff \/ WindowCloses \/ commitOfferingFinalization
  PROVE  TypeOK'
<1> USE DEF TypeOK, Stages, CapitalStates
<1>1. ASSUME NEW documents \in {"partial", "complete"}, publishDisclosurePack(documents)
      PROVE  TypeOK'
  BY SMTT(60), <1>1 DEF publishDisclosurePack
<1>2. CASE publishFinalOfferingTerms
  BY SMTT(60), <1>2 DEF publishFinalOfferingTerms, OpenReconfirmationWindow
<1>3. ASSUME NEW classification \in Classifications, classifyMateriality(classification)
      PROVE  TypeOK'
  <2>1. changes' \in 0..MaxChanges
    BY SMTT(60), <1>3, BoundsAssumption DEF classifyMateriality
  <2>2. CASE materialityResetTriggered(classification)
    BY SMTT(60), <1>3, <2>1, <2>2 DEF classifyMateriality
  <2>3. CASE ~materialityResetTriggered(classification)
    BY SMTT(60), <1>3, <2>1, <2>3 DEF classifyMateriality
  <2> QED
    BY SMTT(60), <2>2, <2>3
<1>4. CASE WindowCloses
  BY ZenonT(60), <1>4 DEF WindowCloses
<1>5. CASE commitOfferingFinalization
  BY <1>5 DEF commitOfferingFinalization
<1>6. CASE reopenPreOffering
  BY <1>6 DEF reopenPreOffering
<1> QED
  BY ZenonT(60), <1>1, <1>2, <1>3, <1>4, <1>5, <1>6 DEF Staff, PublishDisclosurePackService,
     ClassifyMaterialityService

\* Init establishes the types.
LEMMA InitType == Init => TypeOK
<1>1. << >> \in Seq(PurchaseStatuses)
  OBVIOUS
<1>2. 0 \in 0..Target /\ 0 \in 0..MaxChanges
  BY TargetAssumption, BoundsAssumption
<1> SUFFICES ASSUME Init PROVE TypeOK
  BY SMTT(60)
<1>3. purchases \in [Keys -> Seq(PurchaseStatuses)] /\ amountEur \in [Keys -> 0..Target]
  BY SMTT(60), <1>1, <1>2 DEF Init
<1>4. asked \in [Requests -> Ask \cup {NoAsk}]
  BY SMTT(60) DEF Init
<1>5. /\ pc \in [Requests -> {"idle", "checked", "created", "replaying", "done"}]
      /\ \A q \in Requests : pc[q] \notin {"idle", "done"} => asked[q] \in Ask
  BY SMTT(60) DEF Init
<1> QED
  BY ZenonT(60), <1>2, <1>3, <1>4, <1>5 DEF Init, TypeOK, Stages, CapitalStates

\* Every step keeps the types, given that the remaining capacity is what a column can hold.
LEMMA TypeStep ==
  ASSUME TypeOK, [Next]_vars, remainingCapacityEur \in 0..Target
  PROVE  TypeOK'
<1>1. CASE Next
  BY SMTT(60), <1>1, RequestType, InvestorType, PollType, SweepType, StaffType DEF Next
<1>2. CASE UNCHANGED vars
  BY SMTT(60), <1>2 DEF TypeOK
<1> QED
  BY <1>1, <1>2

-----------------------------------------------------------------------------
(* Capacity.  Only InsertReservation adds a holder, and it re-checks the   *)
(* capacity in the step that adds it; every other step keeps the holders   *)
(* and their amounts or lets some of them go.                              *)

\* The reservation that is inserted adds at most the units of its amount.
LEMMA InsertedUnits ==
  ASSUME TypeOK, NEW q \in Requests, InsertReservation(q)
  PROVE  EurosOf(Holding)' \subseteq EurosOf(Holding) \cup ({asked[q].key} \X (1..asked[q].amount))
<1> DEFINE k == asked[q].key
           a == asked[q].amount
<1>1. k \in Keys /\ a \in Nat
  BY Zenon, AskedType, AmountsAssumption DEF InsertReservation
<1>2. Holding' \subseteq Holding \cup {k}
  <2>1. reservationStage' = [reservationStage EXCEPT ![k] = "initiated"]
    BY DEF InsertReservation
  <2>2. reservationStage \in [Keys -> Stages]
    BY Zenon DEF TypeOK
  <2> HIDE DEF k
  <2> QED
    BY <1>1, <2>1, <2>2 DEF Holding
<1>3. amountEur' = [amountEur EXCEPT ![k] = a]
  BY DEF InsertReservation
<1> SUFFICES ASSUME NEW u \in EurosOf(Holding)' PROVE u \in EurosOf(Holding) \cup ({k} \X (1..a))
  OBVIOUS
<1>5. /\ u \in Holding' \X (1..Target)
      /\ u[2] <= amountEur'[u[1]]
  BY DEF EurosOf
<1>6. CASE u[1] = k
  <2>1. amountEur'[k] = a
    BY SMTT(60), <1>1, <1>3 DEF TypeOK
  <2>2. u[2] \in 1..a
    BY SMTT(60), <1>1, <1>5, <1>6, <2>1, TargetAssumption
  <2> QED
    BY SMTT(60), <1>5, <1>6, <2>2
<1>7. CASE u[1] # k
  <2>1. u[1] \in Holding /\ u[1] \in Keys
    BY SMTT(60), <1>2, <1>5, <1>7 DEF Holding
  <2>2. amountEur'[u[1]] = amountEur[u[1]]
    BY SMTT(60), <1>3, <1>7, <2>1 DEF TypeOK
  <2> QED
    BY SMTT(60), <1>5, <2>1, <2>2 DEF EurosOf
<1> QED
  BY <1>6, <1>7

\* The holders and their amounts after a step other than InsertReservation.
LEMMA OthersKeepHolders ==
  ASSUME TypeOK, [Next]_vars, ~\E q \in Requests : InsertReservation(q)
  PROVE  /\ Holding' \subseteq Holding
         /\ amountEur' = amountEur
<1> USE DEF Holding, TypeOK
<1>1. ASSUME NEW q \in Requests, Request(q)
      PROVE  reservationStage' = reservationStage /\ amountEur' = amountEur
  BY ZenonT(60), <1>1 DEF Request, CheckBlockers, RefuseBlocked, ReplayReservation,
     RefuseConflict,
              RecordPurchasePending, RecordSessionFailed, RequestDies
<1>2. ASSUME NEW k \in Keys, Investor(k) \/ HoldElapses(k)
      PROVE  Holding' \subseteq Holding /\ amountEur' = amountEur
  BY <1>2 DEF Investor, StartPurchase, SettlePurchase, ReconfirmArrives, reconfirmReservation,
              HoldElapses
<1>3. CASE Poll
  BY <1>3 DEF Poll, PollStarts, PollReads, PollRecords, PollAborts
<1>4. CASE Sweep
  BY ZenonT(60), <1>4 DEF Sweep, SweepStarts, expireReservation, SweepAborts
<1>5. CASE Staff
  <2>1. ASSUME NEW documents \in {"partial", "complete"}, publishDisclosurePack(documents)
        PROVE  Holding' \subseteq Holding /\ amountEur' = amountEur
    BY SMTT(60), <2>1 DEF publishDisclosurePack
  <2>2. CASE publishFinalOfferingTerms
    BY SMTT(60), <2>2 DEF publishFinalOfferingTerms, OpenReconfirmationWindow
  <2>3. ASSUME NEW classification \in Classifications, classifyMateriality(classification)
        PROVE  Holding' \subseteq Holding /\ amountEur' = amountEur
    <3>1. CASE materialityResetTriggered(classification)
      BY SMTT(60), <2>3, <3>1 DEF classifyMateriality
    <3>2. CASE ~materialityResetTriggered(classification)
      BY SMTT(60), <2>3, <3>2 DEF classifyMateriality
    <3> QED
      BY SMTT(60), <3>1, <3>2
  <2>4. CASE reopenPreOffering
    BY SMTT(60), <2>4 DEF reopenPreOffering
  <2> QED
    BY <1>5, <2>1, <2>2, <2>3, <2>4 DEF Staff, PublishDisclosurePackService,
       ClassifyMaterialityService
<1>6. CASE WindowCloses
  BY SMTT(60), <1>6 DEF WindowCloses
<1>8. CASE commitOfferingFinalization
  BY SMTT(60), <1>8 DEF commitOfferingFinalization
<1>7. CASE UNCHANGED vars
  BY <1>7
<1> QED
  BY ZenonT(60), <1>1, <1>2, <1>3, <1>4, <1>5, <1>6, <1>7, <1>8 DEF Next

-----------------------------------------------------------------------------
(* The refinement.  A step is Hold when it inserts a reservation, Close    *)
(* when it commits the finalization, Close of nobody when a correction     *)
(* closes an open offering, and otherwise GiveUp of whatever it cancels or *)
(* lapses, which may be nothing.                                           *)

\* Committing the finalization issues and gives up in one step.
LEMMA CommitIsClose ==
  ASSUME TypeOK, commitOfferingFinalization
  PROVE  \E K, L \in SUBSET Keys : Abstract!Close(K, L)
<1> DEFINE K == {k \in Keys : reservationStage[k] = "reconfirmed"}
           L == {k \in Keys : reservationStage[k] = "awaiting_reconfirmation"}
<1>1. K \subseteq Abstract!In("held") /\ L \subseteq Abstract!In("held") \ K
  BY DEF Abstract!In, AllotmentOf
<1>2. [j \in Keys |-> AllotmentOf(j)]'
        = [j \in Keys |-> IF j \in K THEN "issued" ELSE IF j \in L THEN "given_up"
                          ELSE [i \in Keys |-> AllotmentOf(i)][j]]
  BY SMTT(60) DEF commitOfferingFinalization, AllotmentOf, TypeOK
<1>3. Abstract!Close(K, L)
  BY SMTT(60), <1>1, <1>2 DEF Abstract!Close, commitOfferingFinalization,
     listOfferingsPendingFinalizationCommit
<1> QED
  BY <1>3

\* Closing an open offering that nobody is in closes the allotment.
LEMMA ReopenIsClose ==
  ASSUME reopenPreOffering, status = "pre_offering"
  PROVE  Abstract!Close({}, {})
<1>1. [j \in Keys |-> AllotmentOf(j)]' = [j \in Keys |-> AllotmentOf(j)]
  BY DEF reopenPreOffering, AllotmentOf
<1>2. amountEur' = amountEur /\ status' = "closed"
  BY SMTT(60) DEF reopenPreOffering
<1> QED
  BY <1>1, <1>2 DEF Abstract!Close, Abstract!In

\* The reservation that is inserted was free and is held.
LEMMA InsertedAllotment ==
  ASSUME TypeOK, NEW q \in Requests, InsertReservation(q)
  PROVE  /\ [j \in Keys |-> AllotmentOf(j)]'
              = [[j \in Keys |-> AllotmentOf(j)] EXCEPT ![asked[q].key] = "held"]
         /\ AllotmentOf(asked[q].key) = "free"
<1>1. asked[q].key \in Keys
  BY Zenon, AskedType DEF InsertReservation
<1>2. [j \in Keys |-> AllotmentOf(j)]'
        = [[j \in Keys |-> AllotmentOf(j)] EXCEPT ![asked[q].key] = "held"]
  BY ZenonT(60), <1>1 DEF InsertReservation, AllotmentOf, TypeOK
<1> QED
  BY Zenon, <1>2 DEF InsertReservation, AllotmentOf

\* Every other step gives up what it cancels or lapses and touches nothing else.
LEMMA OtherIsGiveUp ==
  ASSUME TypeOK, [Next]_vars, ~commitOfferingFinalization,
         ~\E q \in Requests : InsertReservation(q),
         reopenPreOffering => status # "pre_offering"
  PROVE  \E K \in SUBSET Keys : Abstract!GiveUp(K)
<1> DEFINE K == {k \in Holding : reservationStage'[k] \in {"cancelled", "lapsed"}}
<1>1. /\ (status' # "pre_offering") = (status # "pre_offering")
      /\ Holding' \subseteq Holding /\ amountEur' = amountEur
  BY SMTT(60), OthersKeepHolders, OnlyCommitFinalizes
<1>2. \A k \in Keys : StageMove(k) /\ (reservationStage[k] = "none" => reservationStage'[k] = "none")
  BY <1>1, StageMoves DEF StageMove, Holding
<1>3. K \subseteq Abstract!In("held")
  BY <1>2 DEF Abstract!In, AllotmentOf, Holding, StageMove
<1>4. \A k \in Keys : AllotmentOf(k)' = IF k \in K THEN "given_up" ELSE AllotmentOf(k)
  BY SMTT(60), <1>1, <1>2 DEF AllotmentOf, Holding, StageMove
<1>5. [j \in Keys |-> AllotmentOf(j)]'
        = [j \in Keys |-> IF j \in K THEN "given_up" ELSE [i \in Keys |-> AllotmentOf(i)][j]]
  BY SMTT(60), <1>4
<1>6. Abstract!GiveUp(K)
  BY <1>1, <1>3, <1>5 DEF Abstract!GiveUp
<1> QED
  BY SMTT(60), <1>6 DEF Holding

-----------------------------------------------------------------------------
(* Counting.  The capacity is the cardinality of a finite set of units.    *)

INSTANCE FiniteSetTheorems

\* The units of any set of reservations are finitely many, so their number is a natural.
LEMMA SumEurType ==
  ASSUME NEW S \in SUBSET Keys
  PROVE  IsFiniteSet(EurosOf(S)) /\ SumEur(S) \in Nat
<1>1. IsFiniteSet(S)
  BY FS_Subset, KeysAssumption
<1>2. IsFiniteSet(1..Target)
  BY FS_Interval, TargetAssumption
<1>3. IsFiniteSet(S \X (1..Target))
  BY Zenon, <1>1, <1>2, FS_Product
<1>4. IsFiniteSet(EurosOf(S))
  BY <1>3, FS_Subset DEF EurosOf
<1> QED
  BY <1>4, FS_CardinalityType DEF SumEur

\* The remaining capacity is never negative and never above the target.
LEMMA RemainingType == remainingCapacityEur \in 0..Target
<1>1. reservedCapacityEur \in Nat
  BY SumEurType DEF reservedCapacityEur, Holding
<1> QED
  BY <1>1, TargetAssumption DEF remainingCapacityEur

\* A reservation has as many units as its amount.
LEMMA UnitsOfOne ==
  ASSUME NEW k, NEW a \in Nat
  PROVE  IsFiniteSet({k} \X (1..a)) /\ Cardinality({k} \X (1..a)) = a
<1>1. IsFiniteSet({k}) /\ Cardinality({k}) = 1
  BY Zenon, FS_Singleton
<1>2. 1 \in Int /\ a \in Int
  OBVIOUS
<1>3. IsFiniteSet(1..a) /\ Cardinality(1..a) = IF 1 > a THEN 0 ELSE a - 1 + 1
  BY Zenon, <1>2, FS_Interval
<1>4. Cardinality(1..a) = a
  BY <1>3
<1>5. IsFiniteSet({k} \X (1..a)) /\ Cardinality({k} \X (1..a)) = Cardinality({k}) * Cardinality(1..a)
  BY Zenon, <1>1, <1>3, FS_Product
<1>6. 1 * a = a
  OBVIOUS
<1> QED
  BY Zenon, <1>1, <1>4, <1>5, <1>6

\* Letting holders go, or keeping them, does not raise the reserved capacity.
LEMMA FewerHolders ==
  ASSUME NoOversell, Holding' \subseteq Holding,
         \A k \in Holding' : amountEur'[k] = amountEur[k]
  PROVE  NoOversell'
<1>1. EurosOf(Holding)' \subseteq EurosOf(Holding)
  BY SMTT(60) DEF EurosOf
<1>2. IsFiniteSet(EurosOf(Holding)) /\ SumEur(Holding) \in Nat
  BY SumEurType DEF Holding
<1>3. /\ IsFiniteSet(EurosOf(Holding)')
      /\ Cardinality(EurosOf(Holding)') <= Cardinality(EurosOf(Holding))
  BY SMTT(60), <1>1, <1>2, FS_Subset
<1>4. Cardinality(EurosOf(Holding)') \in Nat
  BY <1>3, FS_CardinalityType
<1>5. Cardinality(EurosOf(Holding)) <= Target
  BY DEF NoOversell, reservedCapacityEur, SumEur
<1>6. Cardinality(EurosOf(Holding)') <= Target
  BY SMTT(60), <1>2, <1>3, <1>4, <1>5, TargetAssumption DEF SumEur
<1> QED
  BY <1>6 DEF NoOversell, reservedCapacityEur, SumEur

\* The reservation that is inserted adds its amount, which the remaining capacity covers.
LEMMA InsertFits ==
  ASSUME TypeOK, NoOversell, NEW q \in Requests, InsertReservation(q)
  PROVE  NoOversell'
<1> DEFINE k == asked[q].key
           a == asked[q].amount
           old == EurosOf(Holding)
           new == {k} \X (1..a)
<1>1. k \in Keys /\ a \in Nat /\ a <= remainingCapacityEur
  BY ZenonT(60), AskedType, AmountsAssumption DEF InsertReservation
<1>4. EurosOf(Holding)' \subseteq old \cup new
  BY InsertedUnits
<1>5. IsFiniteSet(old) /\ Cardinality(old) \in Nat /\ Cardinality(old) <= Target
  BY SMTT(60), SumEurType DEF Holding, NoOversell, reservedCapacityEur, SumEur
<1>6. IsFiniteSet(new) /\ Cardinality(new) = a
  BY Zenon, <1>1, UnitsOfOne
<1>7. /\ IsFiniteSet(old \cup new)
      /\ Cardinality(old \cup new) = Cardinality(old) + Cardinality(new) - Cardinality(old \cap new)
  BY ZenonT(60), <1>5, <1>6, FS_Union
<1>8. Cardinality(old \cap new) \in Nat
  BY ZenonT(60), <1>5, FS_Intersection, FS_CardinalityType
<1>9. Cardinality(old) + a <= Target
  BY <1>1, <1>5, TargetAssumption DEF remainingCapacityEur, reservedCapacityEur, SumEur
<1>10. Cardinality(EurosOf(Holding)') <= Cardinality(old \cup new)
  BY ZenonT(60), <1>4, <1>7, FS_Subset
<1>11. Cardinality(EurosOf(Holding)') \in Nat
  BY ZenonT(60), <1>4, <1>7, FS_Subset, FS_CardinalityType
<1>12. Cardinality(EurosOf(Holding)') <= Target
  <2> HIDE DEF old, new, a, k
  <2> QED
    BY SMTT(60), <1>1, <1>5, <1>6, <1>7, <1>8, <1>9, <1>10, <1>11, TargetAssumption
<1> QED
  BY SMTT(60), <1>12 DEF NoOversell, reservedCapacityEur, SumEur

\* The two modules count with the same Cardinality.
LEMMA SameCardinality ==
  ASSUME NEW S
  PROVE  Abstract!Cardinality(S) = Cardinality(S)
BY Zenon DEF Abstract!Cardinality, Cardinality

\* Inserting a reservation is a Hold that fits the target.
LEMMA InsertIsHold ==
  ASSUME TypeOK, NoOversell, NEW q \in Requests, InsertReservation(q)
  PROVE  Abstract!Hold(asked[q].key, asked[q].amount)
<1> DEFINE k == asked[q].key
           a == asked[q].amount
<1>1. k \in Keys /\ a \in Nat /\ a <= remainingCapacityEur
  BY Zenon, AskedType, AmountsAssumption DEF InsertReservation
<1>2. Abstract!Allotted = EurosOf(Holding)
  <2>1. Abstract!In("held") \cup Abstract!In("issued") = Holding
    BY SMTT(60) DEF Abstract!In, AllotmentOf, Holding, TypeOK, Stages
  <2> QED
    BY SMTT(60), <2>1 DEF Abstract!Allotted, EurosOf
<1>3. Cardinality(EurosOf(Holding)) + a <= Target
  <2>1. Cardinality(EurosOf(Holding)) \in Nat /\ Cardinality(EurosOf(Holding)) <= Target
    BY SumEurType DEF Holding, NoOversell, reservedCapacityEur, SumEur
  <2> QED
    BY SMTT(60), <1>1, <2>1, TargetAssumption DEF remainingCapacityEur, reservedCapacityEur,
       SumEur
<1>4. [j \in Keys |-> AllotmentOf(j)]' = [[j \in Keys |-> AllotmentOf(j)] EXCEPT ![k] = "held"]
  BY Zenon, InsertedAllotment
<1>5. status = "pre_offering" /\ status' = status /\ amountEur' = [amountEur EXCEPT ![k] = a]
  BY DEF InsertReservation
<1>6. [j \in Keys |-> AllotmentOf(j)][k] = "free"
  BY Zenon, <1>1, InsertedAllotment
<1> HIDE DEF k, a
<1>7. Abstract!Hold(k, a)
  BY SMTT(60), <1>2, <1>3, <1>4, <1>5, <1>6, SameCardinality DEF Abstract!Hold
<1> QED
  BY SMTT(60), <1>7 DEF k, a

\* Every step is a step of Allotment.
LEMMA AllotmentStep ==
  ASSUME TypeOK, NoOversell, [Next]_vars
  PROVE  Abstract!Step
<1>1. CASE \E q \in Requests : InsertReservation(q)
  <2>1. PICK q \in Requests : InsertReservation(q)
    BY SMTT(60), <1>1
  <2>2. asked[q].key \in Keys /\ asked[q].amount \in Amounts
    BY Zenon, <2>1, AskedType DEF InsertReservation
  <2> QED
    BY Zenon, <2>1, <2>2, InsertIsHold DEF Abstract!Step
<1>2. CASE commitOfferingFinalization
  BY SMTT(60), <1>2, CommitIsClose DEF Abstract!Step
<1>3. CASE reopenPreOffering /\ status = "pre_offering"
  BY SMTT(60), <1>3, ReopenIsClose DEF Abstract!Step
<1>4. CASE /\ ~commitOfferingFinalization /\ ~\E q \in Requests : InsertReservation(q)
           /\ ~(reopenPreOffering /\ status = "pre_offering")
  BY Zenon, <1>4, OtherIsGiveUp DEF Abstract!Step
<1> QED
  BY SMTT(60), <1>1, <1>2, <1>3, <1>4

-----------------------------------------------------------------------------
(* The theorems.                                                           *)

\* TypeOK is inductive.
THEOREM TypeCorrect == Spec => []TypeOK
<1>1. TypeOK /\ [Next]_vars => TypeOK'
  BY TypeStep, RemainingType
<1> QED
  BY <1>1, InitType, PTL DEF Spec

\* createReservation never lets the live reservations exceed the target, for any number of
\* clients and retries.
THEOREM CapacityIsKept == Spec => []NoOversell
<1>1. Init => NoOversell
  <2> SUFFICES ASSUME Init PROVE NoOversell
    OBVIOUS
  <2>1. Holding = {}
    BY DEF Init, Holding
  <2>2. EurosOf(Holding) = {}
    BY SMTT(60), <2>1 DEF EurosOf
  <2> QED
    BY SMTT(60), <2>2, FS_EmptySet, TargetAssumption DEF NoOversell, reservedCapacityEur, SumEur
<1>2. TypeOK /\ NoOversell /\ [Next]_vars => NoOversell'
  BY InsertFits, OthersKeepHolders, FewerHolders
<1> QED
  BY <1>1, <1>2, TypeCorrect, PTL DEF Spec

\* Whoever takes part in the final offering has paid for the reservation.
THEOREM FinalOfferingPaid == Spec => []FinalOfferingIsPaid
<1>1. Init => PaidInv
  BY InitInvariants
<1>2. TypeOK /\ PaidInv /\ [Next]_vars => PaidInv'
  BY PaidStep
<1>3. PaidInv => FinalOfferingIsPaid
  BY SMTT(60) DEF PaidInv
<1> QED
  BY <1>1, <1>2, <1>3, TypeCorrect, PTL DEF Spec

\* A retry, a late reconfirmation or a job with an old list never moves a reservation that
\* is finalized, cancelled or lapsed.
THEOREM TerminalStages == Spec => TerminalStagesAreFinal
<1>1. TypeOK /\ [Next]_vars
        => [\A k \in Keys : reservationStage[k] \in {"finalized", "cancelled", "lapsed"}
                              => reservationStage'[k] = reservationStage[k]]_vars
  BY Zenon, TerminalStays
<1> QED
  BY <1>1, TypeCorrect, PTL DEF Spec, TerminalStagesAreFinal

\* A hold is lapsed by the sweep only after its 15 minutes, or by the finalization after
\* the window.
THEOREM SweptElapsed == Spec => SweptOnlyWhenElapsed
<1>1. Init => ElapsedInv
  BY InitInvariants
<1>2. TypeOK /\ ElapsedInv /\ [Next]_vars => ElapsedInv'
  BY ElapsedStep DEF ElapsedInv
<1>3. TypeOK /\ ElapsedInv /\ [Next]_vars
        => [\A k \in Keys : reservationStage[k] # "lapsed" /\ reservationStage'[k] = "lapsed"
              => \/ reservationStage[k] = "initiated" /\ holdElapsed[k]
                 \/ reservationStage[k] = "awaiting_reconfirmation" /\ ~windowOpen]_vars
  BY Zenon, LapsesElapsed
<1> QED
  BY <1>1, <1>2, <1>3, TypeCorrect, PTL DEF Spec, SweptOnlyWhenElapsed

\* The finalization batch leaves nothing behind, creates exactly the positions of the
\* finalized reservations and finalizes nobody who was silent.
THEOREM FinalizationComplete == Spec => []FinalizationIsComplete
<1>1. Init => FinalInv
  BY InitInvariants
<1>2. TypeOK /\ FinalInv /\ [Next]_vars => FinalInv'
  BY FinalStep
<1>3. FinalInv => FinalizationIsComplete
  BY DEF FinalInv
<1> QED
  BY <1>1, <1>2, <1>3, TypeCorrect, PTL DEF Spec

\* An offering closed by a correction has no reservation, no money and no request on the
\* way in.
THEOREM ClosedIsEmpty == Spec => []ClosedOfferingIsEmpty
<1>1. Init => EmptyInv
  BY InitInvariants
<1>2. TypeOK /\ EmptyInv /\ [Next]_vars => EmptyInv'
  BY EmptyStep
<1>3. EmptyInv => ClosedOfferingIsEmpty
  BY EmptyWhenClosed
<1> QED
  BY <1>1, <1>2, <1>3, TypeCorrect, PTL DEF Spec

\* The handlers, the jobs and the staff operations implement Allotment.
THEOREM OfferingImplementsAllotment == Spec => ImplementsAllotment
<1>1. Init => Abstract!Start
  BY DEF Init, Abstract!Start, AllotmentOf
<1>2. TypeOK /\ NoOversell /\ [Next]_vars => [Abstract!Step]_(Abstract!allotmentVars)
  BY AllotmentStep
<1> QED
  BY <1>1, <1>2, TypeCorrect, CapacityIsKept, PTL DEF Spec, ImplementsAllotment,
     Abstract!AllotmentSpec
=============================================================================
