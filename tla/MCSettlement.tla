---------------------------- MODULE MCSettlement ----------------------------
(***************************************************************************)
(* The components between the database and the chain: the wallet watcher,  *)
(* the escrow contract with the jobs around it, the job that mints the     *)
(* positions, and the distribution of rent.  They share no variable, so a  *)
(* behaviour is one of the component in focus; the variables of the others *)
(* hold their initial value, or a dummy one.                               *)
(***************************************************************************)
EXTENDS EscrowMint, Wallets, TLC

CONSTANTS
  Tokens, Investors, Funds, Target, Deadline, Extensions, MaxTime,        \* IpoEscrow
  Periods, Positions, Gross, Units, Micros, Cent                          \* Distribution

ASSUME InstanceAssumption ==
  /\ {Target, Micros, Cent} \subseteq Nat \ {0}
  /\ {Funds, Deadline, MaxTime} \cup Extensions \cup Gross \cup Units \subseteq Nat
  /\ Tokens # {} /\ Periods # {}
  /\ IsFiniteSet(Tokens) /\ IsFiniteSet(Investors) /\ IsFiniteSet(Positions)
  /\ {"escrow", "treasury"} \cap Investors = {}

VARIABLES
  focus,
  campaign, contribution, contributors, paused, eurc, now, job,
  rent, position, distribution, sweep

C == INSTANCE IpoEscrow WITH Wallets <- Investors, Jobs <- Runs

D == INSTANCE Distribution WITH Sweeps <- Runs

escrowVars == <<campaign, contribution, contributors, paused, eurc, now, job>>
rentVars == <<rent, position, distribution, sweep>>
settlementVars == <<focus, vars, walletsVars, escrowVars, rentVars>>

Only(c) ==
  /\ focus = c /\ focus' = focus
  /\ IF c = "mint" THEN TRUE ELSE UNCHANGED vars
  /\ IF c = "wallets" THEN TRUE ELSE UNCHANGED walletsVars
  /\ IF c = "escrow" THEN TRUE ELSE UNCHANGED escrowVars
  /\ IF c = "rent" THEN TRUE ELSE UNCHANGED rentVars

\* One of the mint job's initial states is enough where it does not move.
MintInit ==
  /\ Init
  /\ focus # "mint" => /\ mints = [c \in Contributors |-> << >>]
                      /\ at = [r \in Runs |-> CHOOSE c \in Contributors : TRUE]

EscrowInit ==
  \/ focus = "escrow" /\ C!Init
  \/ /\ focus # "escrow"
     /\ campaign = 0 /\ contribution = 0 /\ contributors = 0 /\ paused = 0 /\ eurc = 0
     /\ now = 0 /\ job = 0

RentInit ==
  \/ focus = "rent" /\ D!Init
  \/ focus # "rent" /\ rent = 0 /\ position = 0 /\ distribution = 0 /\ sweep = 0

SettlementInit ==
  /\ focus \in {"wallets", "mint", "escrow", "rent"}
  /\ MintInit /\ WalletsInit /\ EscrowInit /\ RentInit

SettlementNext ==
  \/ Only("mint") /\ Next
  \/ Only("wallets") /\ WalletsNext
  \/ Only("escrow") /\ C!Next
  \/ Only("rent") /\ D!Next

SettlementSpec == SettlementInit /\ [][SettlementNext]_settlementVars

\* Overlapping executions are interchangeable.
Symmetry == Permutations(Runs) \cup Permutations(Scans)

-----------------------------------------------------------------------------
(* The properties of the components the run does not take from the         *)
(* component's own module.                                                 *)

\* The state of every component stays within its types.
TypesOK ==
  /\ TypeOK /\ WalletsTypeOK
  /\ focus = "escrow" => C!TypeOK
  /\ focus = "rent" => D!TypeOK

\* The escrow holds exactly what its campaigns still owe, and nobody is paid twice.
EveryEuroIsAccounted == focus = "escrow" => C!EveryEuroIsAccounted

\* No period promises more than was collected for it.
NeverOverdistributed == focus = "rent" => D!NeverOverdistributed
=============================================================================
