---------------------------- MODULE Distribution ----------------------------
(***************************************************************************)
(* Operating distributions of one property: the monthly sweep turns every  *)
(* recorded rent collection into a distribution with one entry for each    *)
(* active position that has a wallet.                                      *)
(*                                                                         *)
(* Amounts of money and unit counts are whole numbers of millionths        *)
(* ("micros") as in the code, with Micros of them to the unit and Cent of  *)
(* them to the cent: the run takes small values for both, so that the      *)
(* divisions really leave remainders.  Two sweeps may overlap, and the     *)
(* ledger moves between a sweep's reads and its write.                     *)
(***************************************************************************)
EXTENDS Integers, FiniteSetsExt, Functions

CONSTANTS
  Periods,   \* the periods rent is collected for
  Positions, \* rows of position_ledger of the property
  Sweeps,    \* executions of the sweep that may overlap
  Gross,     \* the gross rents a property manager may report, in micros
  Units,     \* the unit counts of positions, in micros
  Micros,    \* MICROS_PER_UNIT
  Cent       \* MICROS_PER_CENT

VARIABLES
  rent,         \* grossRentCollectedEur of a period, or NoRent
  position,     \* the positions: status, unit count, whether a wallet is recorded
  distribution, \* the operating distribution of a period with its entries, or NoDistribution
  sweep         \* where a sweep is and what it has read

ledgerVars == <<rent, position>>
vars == <<ledgerVars, distribution, sweep>>

NoRent == -1
NoDistribution == [gross |-> NoRent]
NoHolders == [h \in {} |-> 0]
Idle == [pc |-> "idle", todo |-> {}, period |-> CHOOSE p \in Periods : TRUE, holders |-> NoHolders]
PositionStatuses == {"pending_internal_settlement", "active", "redeemed"}

Init ==
  /\ rent = [p \in Periods |-> NoRent]
  /\ position \in [Positions -> [status : {"pending_internal_settlement"}, units : Units, wallet : BOOLEAN]]
  /\ distribution = [p \in Periods |-> NoDistribution]
  /\ sweep = [s \in Sweeps |-> Idle]

-----------------------------------------------------------------------------
(* The policy.                                                             *)

Sum(f) == FoldFunction(+, 0, f)

\* The sweep passes no fee, expense or reserve.
computeDistributableNet(gross) ==
  LET net == gross - 0 - 0 - 0 IN ((IF net > 0 THEN net ELSE 0) \div Cent) * Cent

\* Mutant: the amount per unit is rounded up.
RoundUpPerUnit(net, totalUnits) == (net * Micros + totalUnits - 1) \div totalUnits

computeAmountPerUnit(net, totalUnits) == (net * Micros) \div totalUnits

computeEntryAmount(units, amountPerUnit) == (units * amountPerUnit) \div Micros

-----------------------------------------------------------------------------
(* The ledger, moved by others.                                            *)

\* Staff record what a property manager has collected.
recordRentCollection(p) ==
  /\ rent[p] = NoRent
  /\ \E g \in Gross : rent' = [rent EXCEPT ![p] = g]
  /\ UNCHANGED <<position, distribution, sweep>>

\* A position is settled on the chain, and may be redeemed.
PositionMoves(h) ==
  /\ \/ position[h].status = "pending_internal_settlement"
        /\ position' = [position EXCEPT ![h].status = "active"]
     \/ position[h].status = "active"
        /\ position' = [position EXCEPT ![h].status = "redeemed"]
  /\ UNCHANGED <<rent, distribution, sweep>>

-----------------------------------------------------------------------------
(* RunOperatingDistributionSweepService, await by await.                   *)

listRentCollectionsAwaitingDistribution(s) ==
  /\ sweep[s].pc = "idle"
  /\ sweep' = [sweep EXCEPT ![s] = [Idle EXCEPT !.pc = "next",
                 !.todo = {p \in Periods : rent[p] # NoRent /\ distribution[p] = NoDistribution}]]
  /\ UNCHANGED <<ledgerVars, distribution>>

\* CalculateOperatingDistributionService: a period that has its distribution is left as it is.
findDistribution(s, p) ==
  /\ sweep[s].pc = "next" /\ p \in sweep[s].todo
  /\ sweep' = [sweep EXCEPT ![s].todo = @ \ {p},
                            ![s].pc = IF distribution[p] = NoDistribution THEN "holders" ELSE "next",
                            ![s].period = IF distribution[p] = NoDistribution THEN p ELSE @]
  /\ UNCHANGED <<ledgerVars, distribution>>

\* Only active positions share.
listActivePositionHolders(s) ==
  /\ sweep[s].pc = "holders"
  /\ sweep' = [sweep EXCEPT ![s].pc = "create", ![s].holders =
                 [h \in {h \in Positions : position[h].status = "active"} |-> position[h]]]
  /\ UNCHANGED <<ledgerVars, distribution>>

\* All active units count in the amount per unit, those of a position without a wallet too,
\* but such a position gets no entry.
Calculated(gross, holders) ==
  LET net == computeDistributableNet(gross)
      totalUnits == Sum([h \in DOMAIN holders |-> holders[h].units])
      perUnit == IF totalUnits > 0 THEN computeAmountPerUnit(net, totalUnits) ELSE 0
      paid == {h \in DOMAIN holders : totalUnits > 0 /\ holders[h].wallet}
  IN [gross |-> gross, net |-> net,
      entries |-> [h \in paid |-> computeEntryAmount(holders[h].units, perUnit)]]

\* uq_operating_distributions_piv_period: the second of two sweeps fails as a whole.
createOperatingDistribution(s) ==
  LET p == sweep[s].period IN
  /\ sweep[s].pc = "create"
  /\ IF distribution[p] = NoDistribution
       THEN /\ distribution' = [distribution EXCEPT ![p] = Calculated(rent[p], sweep[s].holders)]
            /\ sweep' = [sweep EXCEPT ![s] = [Idle EXCEPT !.pc = "next", !.todo = sweep[s].todo]]
       ELSE /\ sweep' = [sweep EXCEPT ![s] = Idle]
            /\ UNCHANGED distribution
  /\ UNCHANGED ledgerVars

\* The sweep is through, or fails; the next one starts from what is still awaiting.
SweepEnds(s) ==
  /\ sweep[s].pc # "idle"
  /\ sweep' = [sweep EXCEPT ![s] = Idle]
  /\ UNCHANGED <<ledgerVars, distribution>>

-----------------------------------------------------------------------------
Next ==
  \/ \E p \in Periods : recordRentCollection(p)
  \/ \E h \in Positions : PositionMoves(h)
  \/ \E s \in Sweeps :
       \/ listRentCollectionsAwaitingDistribution(s)
       \/ \E p \in Periods : findDistribution(s, p)
       \/ listActivePositionHolders(s)
       \/ createOperatingDistribution(s)
       \/ SweepEnds(s)

Spec == Init /\ [][Next]_vars

-----------------------------------------------------------------------------
(* Properties.                                                             *)

\* The state stays within the values the columns and a sweep hold.
TypeOK ==
  /\ rent \in [Periods -> Gross \cup {NoRent}]
  /\ position \in [Positions -> [status : PositionStatuses, units : Units, wallet : BOOLEAN]]
  /\ \A p \in Periods :
       distribution[p] # NoDistribution =>
         /\ distribution[p].gross \in Gross /\ distribution[p].net \in Nat
         /\ DOMAIN distribution[p].entries \subseteq Positions
         /\ Range(distribution[p].entries) \subseteq Nat
  /\ \A s \in Sweeps :
       /\ sweep[s].pc \in {"idle", "next", "holders", "create"}
       /\ sweep[s].todo \subseteq Periods /\ sweep[s].period \in Periods
       /\ DOMAIN sweep[s].holders \subseteq Positions

\* A period never promises more than was collected for it: all entries of its distribution,
\* over every position that shares in it, come to at most the distributable net, whatever the
\* divisions drop and however the ledger moved while the sweep ran, and the net is at most the
\* rent on record.
NeverOverdistributed ==
  \A p \in Periods :
    distribution[p] # NoDistribution =>
      /\ Sum(distribution[p].entries) <= distribution[p].net
      /\ distribution[p].net <= rent[p]
=============================================================================
