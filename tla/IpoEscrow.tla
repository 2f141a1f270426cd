----------------------------- MODULE IpoEscrow -----------------------------
(***************************************************************************)
(* The escrow contract VistaBloxIpoEscrow, one contract with one EURC      *)
(* balance for the campaigns of all properties, and the two jobs that      *)
(* drive it: the one that opens a campaign when a property's offering      *)
(* opens, and the one that resolves it after the IPO deadline.             *)
(*                                                                         *)
(* A call of the contract is one step: it reverts, which is no step, or    *)
(* takes its whole effect.  A job reads the chain in one step and its      *)
(* transaction is mined in a later one, when the contract may have moved   *)
(* on; anyone may call the functions that have no role.  The minting that  *)
(* the second job does before it sweeps is module EscrowMint.              *)
(***************************************************************************)
EXTENDS Integers, FiniteSetsExt, Functions

CONSTANTS
  Tokens,     \* the properties, one campaign each
  Wallets,    \* the investors
  Funds,      \* the EURC an investor starts with
  Target,     \* the target amount of a campaign
  Deadline,   \* deadline_unix of the job that opens a campaign
  Extensions, \* the deadlines a founder may extend to
  Jobs,       \* executions of a job that may overlap
  MaxTime     \* bound on the clock

VARIABLES
  campaign,     \* _campaigns
  contribution, \* _contributions
  contributors, \* _contributorsList
  paused,       \* the platform-wide pause
  eurc,         \* the EURC balances: of each investor, the escrow and the treasury
  now,          \* block.timestamp
  job           \* what an execution of a job is about to do, and for which property

contractVars == <<campaign, contribution, contributors, paused>>
chainVars == <<contractVars, eurc>>
vars == <<chainVars, now, job>>

CampaignState == {"NotOpened", "Open", "Successful", "Failed"}
NotOpened == [totalRaised |-> 0, deadline |-> 0, state |-> "NotOpened", swept |-> FALSE]
Idle == [pc |-> "idle", token |-> CHOOSE t \in Tokens : TRUE]
Holders == Wallets \cup {"escrow", "treasury"}

Init ==
  /\ campaign = [t \in Tokens |-> NotOpened]
  /\ contribution = [t \in Tokens |-> [w \in Wallets |-> 0]]
  /\ contributors = [t \in Tokens |-> {}]
  /\ paused = FALSE
  /\ eurc = [h \in Holders |-> IF h \in Wallets THEN Funds ELSE 0]
  /\ now = 0
  /\ job = [j \in Jobs |-> Idle]

Pays(from, to, amount) == eurc' = [eurc EXCEPT ![from] = @ - amount, ![to] = @ + amount]

-----------------------------------------------------------------------------
(* The functions of the contract.                                          *)

openCampaign(t) ==
  /\ campaign[t].state = "NotOpened"
  /\ Deadline > now
  /\ campaign' = [campaign EXCEPT ![t] = [NotOpened EXCEPT !.deadline = Deadline, !.state = "Open"]]
  /\ UNCHANGED <<contribution, contributors, paused, eurc>>

extendDeadline(t, newDeadline) ==
  /\ campaign[t].state = "Open"
  /\ newDeadline > now
  /\ campaign' = [campaign EXCEPT ![t].deadline = newDeadline]
  /\ UNCHANGED <<contribution, contributors, paused, eurc>>

contribute(t, w, amount) ==
  /\ ~paused
  /\ campaign[t].state = "Open"
  /\ now < campaign[t].deadline
  /\ amount > 0 /\ amount <= Target - campaign[t].totalRaised
  /\ amount <= eurc[w]
  /\ campaign' = [campaign EXCEPT ![t].totalRaised = @ + amount]
  /\ contribution' = [contribution EXCEPT ![t][w] = @ + amount]
  /\ contributors' = [contributors EXCEPT ![t] = @ \cup {w}]
  /\ Pays(w, "escrow", amount)
  /\ UNCHANGED paused

finalize(t) ==
  /\ ~paused
  /\ campaign[t].state = "Open"
  /\ now >= campaign[t].deadline
  /\ campaign' = [campaign EXCEPT ![t].state =
                    IF campaign[t].totalRaised >= Target THEN "Successful" ELSE "Failed"]
  /\ UNCHANGED <<contribution, contributors, paused, eurc>>

\* Mutant: the sweep is not remembered.
SweepAgain(t) ==
  /\ ~paused
  /\ campaign[t].state = "Successful" /\ ~campaign[t].swept
  /\ campaign[t].totalRaised <= eurc["escrow"]
  /\ Pays("escrow", "treasury", campaign[t].totalRaised)
  /\ UNCHANGED contractVars

withdrawRaised(t) ==
  /\ ~paused
  /\ campaign[t].state = "Successful" /\ ~campaign[t].swept
  /\ campaign[t].totalRaised <= eurc["escrow"]
  /\ campaign' = [campaign EXCEPT ![t].swept = TRUE]
  /\ Pays("escrow", "treasury", campaign[t].totalRaised)
  /\ UNCHANGED <<contribution, contributors, paused>>

withdraw(t, w) ==
  LET amount == contribution[t][w] IN
  /\ ~paused
  /\ campaign[t].state = "Failed"
  /\ amount > 0 /\ amount <= eurc["escrow"]
  /\ contribution' = [contribution EXCEPT ![t][w] = 0]
  /\ Pays("escrow", w, amount)
  /\ UNCHANGED <<campaign, contributors, paused>>

pause ==
  /\ paused' = ~paused
  /\ UNCHANGED <<campaign, contribution, contributors, eurc>>

-----------------------------------------------------------------------------
(* The jobs.                                                               *)

Goes(j, label) == job' = [job EXCEPT ![j].pc = label]
Ends(j) == job' = [job EXCEPT ![j] = Idle]

\* OpenIpoEscrowCampaignService: a campaign that was opened by an earlier attempt is left.
OpenIpoEscrowCampaignService(j, t) ==
  /\ job[j].pc = "idle"
  /\ campaign[t].state = "NotOpened"
  /\ job' = [job EXCEPT ![j] = [pc |-> "open", token |-> t]]
  /\ UNCHANGED <<chainVars, now>>

\* FinalizeIpoEscrowCampaignsService.processCampaign, for a property whose ipo_end_at, the
\* deadline the campaign was opened with, has passed.
processCampaign(j, t) ==
  /\ job[j].pc = "idle"
  /\ now >= Deadline
  /\ ~campaign[t].swept
  /\ campaign[t].state \in {"Open", "Successful"}
  /\ job' = [job EXCEPT ![j] = [pc |-> IF campaign[t].state = "Open" THEN "finalize" ELSE "mint",
                                token |-> t]]
  /\ UNCHANGED <<chainVars, now>>

\* readCampaign after the finalization: a campaign that failed is left to its contributors.
readCampaign(j) ==
  /\ job[j].pc = "reread"
  /\ IF campaign[job[j].token].state = "Successful" THEN Goes(j, "mint") ELSE Ends(j)
  /\ UNCHANGED <<chainVars, now>>

\* mintForContributor, for each of contributorsOf: none may be without a contribution.
mintForContributors(j) ==
  LET t == job[j].token IN
  /\ job[j].pc = "mint"
  /\ \A w \in contributors[t] : contribution[t][w] > 0
  /\ Goes(j, "sweep")
  /\ UNCHANGED <<chainVars, now>>

\* The transaction of a job is mined.
JobMined(j) ==
  LET t == job[j].token IN
  /\ \/ job[j].pc = "open" /\ openCampaign(t) /\ Ends(j)
     \/ job[j].pc = "finalize" /\ finalize(t) /\ Goes(j, "reread")
     \/ job[j].pc = "sweep" /\ withdrawRaised(t) /\ Ends(j)
  /\ UNCHANGED now

\* The transaction reverts or is lost, or the job stops: a later execution starts again.
JobFails(j) ==
  /\ job[j].pc # "idle"
  /\ Ends(j)
  /\ UNCHANGED <<chainVars, now>>

-----------------------------------------------------------------------------
Tick ==
  /\ now < MaxTime
  /\ now' = now + 1
  /\ UNCHANGED <<chainVars, job>>

\* What the role holders and the public may call.
Call ==
  \/ \E t \in Tokens, d \in Extensions : extendDeadline(t, d)
  \/ \E t \in Tokens, w \in Wallets, amount \in 1 .. Funds : contribute(t, w, amount)
  \/ \E t \in Tokens : finalize(t) \/ withdrawRaised(t)
  \/ \E t \in Tokens, w \in Wallets : withdraw(t, w)
  \/ pause

JobStep(j) ==
  \/ \E t \in Tokens : OpenIpoEscrowCampaignService(j, t) \/ processCampaign(j, t)
  \/ readCampaign(j)
  \/ mintForContributors(j)
  \/ JobMined(j)
  \/ JobFails(j)

Next ==
  \/ Call /\ UNCHANGED <<now, job>>
  \/ \E j \in Jobs : JobStep(j)
  \/ Tick

Spec == Init /\ [][Next]_vars

-----------------------------------------------------------------------------
(* Properties.                                                             *)

\* The state stays within the values the contract and the job hold.
TypeOK ==
  /\ campaign \in [Tokens -> [totalRaised : Nat, deadline : Nat, state : CampaignState, swept : BOOLEAN]]
  /\ contribution \in [Tokens -> [Wallets -> Nat]]
  /\ contributors \in [Tokens -> SUBSET Wallets]
  /\ paused \in BOOLEAN
  /\ eurc \in [Holders -> Nat]
  /\ now \in 0 .. MaxTime
  /\ job \in [Jobs -> [pc : {"idle", "open", "finalize", "reread", "mint", "sweep"}, token : Tokens]]

Sum(f) == FoldFunction(+, 0, f)

\* What the contract still has to pay out for a campaign: to its treasury, or to those of
\* its contributors who have not taken their money back.
Owed(t) == IF campaign[t].swept THEN 0 ELSE Sum(contribution[t])

\* No campaign is paid out of another one's money, and no contribution is paid twice: the
\* shared balance is what is still owed for all campaigns together, what the treasury has is
\* what was raised by the campaigns that reached their target and were swept, and an investor
\* is short of exactly the contributions that are on record.
EveryEuroIsAccounted ==
  /\ eurc["escrow"] = Sum([t \in Tokens |-> Owed(t)])
  /\ eurc["treasury"] = Sum([t \in Tokens |-> IF campaign[t].swept THEN Target ELSE 0])
  /\ \A w \in Wallets : eurc[w] = Funds - Sum([t \in Tokens |-> contribution[t][w]])
=============================================================================
