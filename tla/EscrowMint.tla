----------------------------- MODULE EscrowMint -----------------------------
(***************************************************************************)
(* Minting the shares of a successful escrow campaign: the job of          *)
(* FinalizeIpoEscrowCampaignsService from the moment it finds a campaign   *)
(* Successful and not swept, with the escrow_mint_intents table, the       *)
(* position ledger and the chain.                                          *)
(*                                                                         *)
(* A mint is a chain write followed by a database write, and sending it is *)
(* not idempotent.  Several runs may be at work at once (a job that the    *)
(* queue gave up on and started again, two workers), and each may stop     *)
(* between any two awaits.  A step of a run is what it does from one await *)
(* to the next.                                                            *)
(*                                                                         *)
(* A transaction is named by its place in the list of the mint             *)
(* transactions sent for its contributor, and every one of them mints the  *)
(* contributor's whole contribution, so the balance of a contributor is    *)
(* the number of their mints that succeeded.  Burning and forced transfers *)
(* by the privileged roles of VistaBloxProperty are left out, as the code  *)
(* assumes.                                                                *)
(***************************************************************************)
EXTENDS Integers, FiniteSets, Sequences

CONSTANTS
  Contributors, \* the wallets of contributorsOf, each resolved to its account
  Runs,         \* executions of the job that may overlap
  MaxReservers, \* bound on the contributors who get a position by another way
  MaxFailures   \* bound on stopped runs and on mints that do not succeed

ASSUME FailuresAssumption == MaxFailures \in Nat
ASSUME ReserversAssumption == MaxReservers \in Nat

VARIABLES
  intent,     \* the row of escrow_mint_intents of a contributor
  graceOver,  \* attempted_at is more than ESCROW_MINT_IN_FLIGHT_GRACE_MS ago
  positions,  \* the contributors with a position made from their intent
  otherPositions, \* the contributors with another position for the same property
  mints,      \* the mint transactions sent for a contributor
  authorized, \* the holders authorized on the property contract
  sweptBy,    \* who called withdrawRaised: nobody, the job or someone else
  failures,   \* how often a run stopped or a mint failed
  pc,         \* where a run is
  todo,       \* the contributors a run has still to look at
  at,         \* the contributor a run is working on
  seen        \* the run's copy of the intent, or of what it is about to write

positionVars == <<positions, otherPositions>>
databaseVars == <<intent, graceOver, positionVars>>
chainVars == <<mints, authorized, sweptBy>>
runVars == <<pc, todo, at, seen>>
vars == <<databaseVars, chainVars, failures, runVars>>

Statuses == {"none", "sending", "mint_sent", "recorded"}
TxStates == {"pending", "success", "reverted", "dropped"}
Intent == [status : Statuses, attempt : Nat, mintTxHash : Nat]
NoIntent == [status |-> "none", attempt |-> 0, mintTxHash |-> 0]

\* PositionLedger has one row for the property and the account, of whatever origin.
Held(c) == c \in positions \cup otherPositions

Minted(c) == {i \in DOMAIN mints[c] : mints[c][i] = "success"}
Unsettled(c) == {i \in DOMAIN mints[c] : mints[c][i] = "pending"}

\* A campaign whose contributors were partly minted by the version before intents existed
\* is a start state too: the mint is on the chain and nothing is in the database.
Init ==
  /\ intent = [c \in Contributors |-> NoIntent]
  /\ graceOver = [c \in Contributors |-> FALSE]
  /\ positions = {} /\ otherPositions = {}
  /\ mints \in [Contributors -> {<< >>, <<"success">>}]
  /\ authorized = {c \in Contributors : mints[c] # << >>}
  /\ sweptBy = "nobody"
  /\ failures = 0
  /\ pc = [r \in Runs |-> "idle"]
  /\ todo = [r \in Runs |-> {}]
  /\ at \in [Runs -> Contributors]
  /\ seen = [r \in Runs |-> NoIntent]

Goto(r, label) == pc' = [pc EXCEPT ![r] = label]

\* Any throw: processCampaign ends and the job goes on with the next campaign.
Throw(r) ==
  /\ Goto(r, "idle")
  /\ todo' = [todo EXCEPT ![r] = {}]
  /\ seen' = [seen EXCEPT ![r] = NoIntent]
  /\ UNCHANGED at

-----------------------------------------------------------------------------
(* One run.                                                                *)

\* processCampaign reads a campaign that is Successful and not swept, and its contributors.
StartRun(r) ==
  /\ pc[r] = "idle"
  /\ sweptBy = "nobody"
  /\ Goto(r, "next")
  /\ todo' = [todo EXCEPT ![r] = Contributors]
  /\ UNCHANGED <<databaseVars, chainVars, failures, at, seen>>

\* Mutant: a contributor another run is at work on is skipped as well.
SkipsClaimed(r, c) ==
  /\ pc[r] = "next" /\ c \in todo[r]
  /\ todo' = [todo EXCEPT ![r] = @ \ {c}]
  /\ IF Held(c) \/ intent[c].status # "none"
       THEN UNCHANGED <<pc, at>>
       ELSE Goto(r, "intent") /\ at' = [at EXCEPT ![r] = c]
  /\ UNCHANGED <<databaseVars, chainVars, failures, seen>>

\* mintForContributor: a contributor who has a position for the property is skipped.
hasPosition(r, c) ==
  /\ pc[r] = "next" /\ c \in todo[r]
  /\ todo' = [todo EXCEPT ![r] = @ \ {c}]
  /\ IF Held(c)
       THEN UNCHANGED <<pc, at>>
       ELSE Goto(r, "intent") /\ at' = [at EXCEPT ![r] = c]
  /\ UNCHANGED <<databaseVars, chainVars, failures, seen>>

\* Mutant: a recorded row is read back under a status the service does not know.
ReadsUnknownStatus(r) ==
  /\ pc[r] = "intent"
  /\ seen' = [seen EXCEPT ![r] = IF intent[at[r]].status = "recorded"
                                   THEN [intent[at[r]] EXCEPT !.status = "minted"]
                                   ELSE intent[at[r]]]
  /\ Goto(r, "balance")
  /\ UNCHANGED <<databaseVars, chainVars, failures, todo, at>>

findEscrowMintIntent(r) ==
  /\ pc[r] = "intent"
  /\ seen' = [seen EXCEPT ![r] = intent[at[r]]]
  /\ Goto(r, "balance")
  /\ UNCHANGED <<databaseVars, chainVars, failures, todo, at>>

\* obtainConfirmedMint once the balance is read, up to the next await of the branch it
\* takes.  A mint found on the chain is adopted; an attempt without a hash is given up for
\* lost only after the grace time.
obtainConfirmedMint(r) ==
  LET c == at[r]
      balance == Cardinality(Minted(c))
      Continue(label) == Goto(r, label) /\ UNCHANGED <<todo, at, seen>>
  IN
  /\ pc[r] = "balance"
  /\ CASE seen[r].status = "recorded" -> Continue("recorded")
       [] seen[r].status = "mint_sent" /\ balance = 0 -> Continue("receipt")
       [] seen[r].status = "mint_sent" /\ balance # 0 -> Continue("receipt_minted")
       [] seen[r].status \in {"none", "sending"} /\ balance # 0 ->
            IF balance = 1 THEN Continue("logs") ELSE Throw(r)
       [] seen[r].status = "none" /\ balance = 0 -> Continue("authorize")
       [] seen[r].status = "sending" /\ balance = 0 ->
            IF graceOver[c] THEN Continue("authorize") ELSE Throw(r)
  /\ UNCHANGED <<databaseVars, chainVars, failures>>

\* adoptMintAlreadyOnChain reads the TransferSingle logs: exactly one mint of the amount.
findMintTransactionHash(r) ==
  /\ pc[r] = "logs"
  /\ \/ \E i \in Minted(at[r]) :
          /\ Minted(at[r]) = {i}
          /\ seen' = [seen EXCEPT ![r].mintTxHash = i]
          /\ Goto(r, IF seen[r].status = "none" THEN "create_adopted" ELSE "record_adopted")
          /\ UNCHANGED <<todo, at>>
     \/ (\A i \in Minted(at[r]) : Minted(at[r]) # {i}) /\ Throw(r)
  /\ UNCHANGED <<databaseVars, chainVars, failures>>

\* An intent that is recorded: an overlapping run has made the position, or the run gives up.
recheckRecorded(r) ==
  /\ pc[r] = "recorded"
  /\ IF Held(at[r]) THEN Goto(r, "next") /\ UNCHANGED <<todo, at, seen>> ELSE Throw(r)
  /\ UNCHANGED <<databaseVars, chainVars, failures>>

\* resolveSentMint: the receipt of the recorded hash decides.
resolveSentMint(r) ==
  LET tx == mints[at[r]][seen[r].mintTxHash] IN
  /\ pc[r] \in {"receipt", "receipt_minted"}
  /\ CASE tx = "success" -> Goto(r, "record") /\ UNCHANGED <<todo, at, seen>>
       [] tx = "reverted" /\ pc[r] = "receipt" -> Goto(r, "authorize") /\ UNCHANGED <<todo, at, seen>>
       [] OTHER -> Throw(r)
  /\ UNCHANGED <<databaseVars, chainVars, failures>>

ensureHolderAuthorized(r) ==
  /\ pc[r] = "authorize"
  /\ authorized' = authorized \cup {at[r]}
  /\ Goto(r, IF seen[r].status = "none" THEN "create" ELSE "restart")
  /\ UNCHANGED <<databaseVars, mints, sweptBy, failures, todo, at, seen>>

\* ON CONFLICT DO NOTHING: one of the runs that try to create the intent succeeds.
createEscrowMintIntent(r) ==
  LET c == at[r]
      row == [status |-> "sending", attempt |-> 1, mintTxHash |-> 0]
  IN
  /\ pc[r] \in {"create", "create_adopted"}
  /\ IF intent[c].status = "none"
       THEN /\ intent' = [intent EXCEPT ![c] = row]
            /\ graceOver' = [graceOver EXCEPT ![c] = FALSE]
            /\ seen' = [seen EXCEPT ![r] = [row EXCEPT !.mintTxHash = seen[r].mintTxHash]]
            /\ Goto(r, IF pc[r] = "create" THEN "send" ELSE "record_adopted")
            /\ UNCHANGED <<todo, at>>
       ELSE Throw(r) /\ UNCHANGED <<intent, graceOver>>
  /\ UNCHANGED <<positionVars, chainVars, failures>>

\* Mutants: a restart that does not ask whether the attempt is still the one it has read,
\* and one that takes over only an attempt with a hash.
AnyAttempt(r) == intent[at[r]].status \in {"sending", "mint_sent"}
OnlySentAttempt(r) == intent[at[r]].attempt = seen[r].attempt /\ intent[at[r]].status = "mint_sent"

\* The WHERE and the data of the conditional update.
attemptIsCurrent(r) ==
  intent[at[r]].attempt = seen[r].attempt /\ intent[at[r]].status \in {"sending", "mint_sent"}

restartedRow(r) == [status |-> "sending", attempt |-> seen[r].attempt + 1, mintTxHash |-> 0]

restartEscrowMintAttempt(r) ==
  LET c == at[r] IN
  /\ pc[r] = "restart"
  /\ IF attemptIsCurrent(r)
       THEN /\ intent' = [intent EXCEPT ![c] = restartedRow(r)]
            /\ graceOver' = [graceOver EXCEPT ![c] = FALSE]
            /\ seen' = [seen EXCEPT ![r] = restartedRow(r)]
            /\ Goto(r, "send")
            /\ UNCHANGED <<todo, at>>
       ELSE Throw(r) /\ UNCHANGED <<intent, graceOver>>
  /\ UNCHANGED <<positionVars, chainVars, failures>>

\* The node takes the transaction and returns its hash.
sendMint(r) ==
  LET c == at[r] IN
  /\ pc[r] = "send"
  /\ mints' = [mints EXCEPT ![c] = Append(@, "pending")]
  /\ seen' = [seen EXCEPT ![r].mintTxHash = Len(mints[c]) + 1]
  /\ Goto(r, "record_sent")
  /\ UNCHANGED <<databaseVars, authorized, sweptBy, failures, todo, at>>

\* The node takes the transaction, but the run never learns of it.
SendMintLost(r) ==
  /\ pc[r] = "send"
  /\ failures < MaxFailures
  /\ failures' = failures + 1
  /\ mints' = [mints EXCEPT ![at[r]] = Append(@, "pending")]
  /\ Throw(r)
  /\ UNCHANGED <<databaseVars, authorized, sweptBy>>

\* An update conditional on the attempt; the same hash on the same attempt is no error.
recordEscrowMintSent(r) ==
  LET c == at[r]
      next == IF pc[r] = "record_sent" THEN "wait" ELSE "record"
  IN
  /\ pc[r] \in {"record_sent", "record_adopted"}
  /\ CASE intent[c].attempt = seen[r].attempt /\ intent[c].status = "sending" ->
            /\ intent' = [intent EXCEPT ![c] = [@ EXCEPT !.status = "mint_sent", !.mintTxHash = seen[r].mintTxHash]]
            /\ Goto(r, next) /\ UNCHANGED <<todo, at, seen>>
       [] /\ intent[c].attempt = seen[r].attempt /\ intent[c].status # "sending"
          /\ intent[c].mintTxHash = seen[r].mintTxHash ->
            Goto(r, next) /\ UNCHANGED <<intent, todo, at, seen>>
       [] OTHER -> Throw(r) /\ UNCHANGED intent
  /\ UNCHANGED <<graceOver, positionVars, chainVars, failures>>

\* Mutant: the receipt of the transaction that replaced the mint is taken for the mint's.
TakesAnyReceipt(r) ==
  LET tx == mints[at[r]][seen[r].mintTxHash] IN
  /\ pc[r] = "wait"
  /\ tx # "pending"
  /\ IF tx # "reverted" THEN Goto(r, "record") /\ UNCHANGED <<todo, at, seen>> ELSE Throw(r)
  /\ UNCHANGED <<databaseVars, chainVars, failures>>

\* waitForTransactionReceipt returns: of this mint, or of the transaction that replaced it.
waitForTransactionReceipt(r) ==
  LET tx == mints[at[r]][seen[r].mintTxHash] IN
  /\ pc[r] = "wait"
  /\ tx # "pending"
  /\ IF tx = "success" THEN Goto(r, "record") /\ UNCHANGED <<todo, at, seen>> ELSE Throw(r)
  /\ UNCHANGED <<databaseVars, chainVars, failures>>

\* One transaction: the intent is flipped and the position made, or the position is there.
recordEscrowMintedPosition(r) ==
  LET c == at[r] IN
  /\ pc[r] = "record"
  /\ CASE intent[c].status = "mint_sent" /\ intent[c].mintTxHash = seen[r].mintTxHash ->
            /\ intent' = [intent EXCEPT ![c].status = "recorded"]
            /\ positions' = positions \cup {c}
            /\ Goto(r, "next") /\ UNCHANGED <<todo, at, seen>>
       [] ~(intent[c].status = "mint_sent" /\ intent[c].mintTxHash = seen[r].mintTxHash)
          /\ c \in positions ->
            Goto(r, "next") /\ UNCHANGED <<intent, positions, todo, at, seen>>
       [] OTHER -> Throw(r) /\ UNCHANGED <<intent, positions>>
  /\ UNCHANGED <<graceOver, otherPositions, chainVars, failures>>

\* Every contributor was minted or skipped: sweep the raised balance to the treasury.
withdrawRaised(r) ==
  /\ pc[r] = "next" /\ todo[r] = {}
  /\ sweptBy' = IF sweptBy = "nobody" THEN "job" ELSE sweptBy
  /\ Throw(r)
  /\ UNCHANGED <<databaseVars, mints, authorized, failures>>

\* The process stops, a read throws, a transaction of the run is not accepted.
RunStops(r) ==
  /\ pc[r] # "idle"
  /\ failures < MaxFailures
  /\ failures' = failures + 1
  /\ Throw(r)
  /\ UNCHANGED <<databaseVars, chainVars>>

-----------------------------------------------------------------------------
(* The chain, other callers of the escrow, and the clock.                  *)

\* A pending mint is executed: VistaBloxProperty.mint requires an authorized holder and a
\* contract that is not paused, and otherwise reverts; or the mint is replaced for good.
SettleMint(c) ==
  /\ \E i \in Unsettled(c) :
       \/ /\ c \in authorized
          /\ mints' = [mints EXCEPT ![c][i] = "success"]
          /\ UNCHANGED failures
       \/ /\ failures < MaxFailures
          /\ failures' = failures + 1
          /\ \E outcome \in {"reverted", "dropped"} : mints' = [mints EXCEPT ![c][i] = outcome]
  /\ UNCHANGED <<databaseVars, authorized, sweptBy, runVars>>

\* commitOfferingFinalization of the same property gives a contributor who also had a
\* reservation the position of that reservation.
ReservationFinalized(c) ==
  /\ c \notin otherPositions
  /\ Cardinality(otherPositions) < MaxReservers
  /\ otherPositions' = otherPositions \cup {c}
  /\ UNCHANGED <<intent, graceOver, positions, chainVars, failures, runVars>>

\* withdrawRaised is permissionless.
SweptByOther ==
  /\ sweptBy = "nobody"
  /\ sweptBy' = "other"
  /\ UNCHANGED <<databaseVars, mints, authorized, failures, runVars>>

\* The assumption stated with ESCROW_MINT_IN_FLIGHT_GRACE_MS: 30 minutes after an attempt
\* began its run is no longer about to send, and what it sent is no longer pending.
GraceElapses(c) ==
  /\ intent[c].status = "sending" /\ ~graceOver[c]
  /\ Unsettled(c) = {}
  /\ \A r \in Runs : pc[r] = "send" => at[r] # c
  /\ graceOver' = [graceOver EXCEPT ![c] = TRUE]
  /\ UNCHANGED <<intent, positionVars, chainVars, failures, runVars>>

-----------------------------------------------------------------------------
RunStep(r) ==
  \/ StartRun(r)
  \/ \E c \in Contributors : hasPosition(r, c)
  \/ findEscrowMintIntent(r)
  \/ obtainConfirmedMint(r)
  \/ findMintTransactionHash(r)
  \/ recheckRecorded(r)
  \/ resolveSentMint(r)
  \/ ensureHolderAuthorized(r)
  \/ createEscrowMintIntent(r)
  \/ restartEscrowMintAttempt(r)
  \/ sendMint(r)
  \/ recordEscrowMintSent(r)
  \/ waitForTransactionReceipt(r)
  \/ recordEscrowMintedPosition(r)
  \/ withdrawRaised(r)

Next ==
  \/ \E r \in Runs : RunStep(r) \/ SendMintLost(r) \/ RunStops(r)
  \/ \E c \in Contributors : SettleMint(c) \/ GraceElapses(c) \/ ReservationFinalized(c)
  \/ SweptByOther

Spec == Init /\ [][Next]_vars

-----------------------------------------------------------------------------
(* Safety.                                                                 *)

Labels == {"idle", "next", "intent", "balance", "logs", "recorded", "receipt", "receipt_minted",
           "authorize", "create", "create_adopted", "restart", "send", "record_sent",
           "record_adopted", "wait", "record"}

\* The state stays within the values the rows, the chain and a run hold.
TypeOK ==
  /\ intent \in [Contributors -> Intent]
  /\ graceOver \in [Contributors -> BOOLEAN]
  /\ positions \subseteq Contributors
  /\ otherPositions \subseteq Contributors
  /\ mints \in [Contributors -> Seq(TxStates)]
  /\ authorized \subseteq Contributors
  /\ sweptBy \in {"nobody", "job", "other"}
  /\ failures \in 0..MaxFailures
  /\ pc \in [Runs -> Labels]
  /\ todo \in [Runs -> SUBSET Contributors]
  /\ at \in [Runs -> Contributors]
  /\ seen \in [Runs -> Intent]

\* No contributor is minted twice, however often runs stop, overlap and start again: of
\* the mints sent for a contributor at most one is, or can still become, a success
\* (FinalizeIpoEscrowCampaignsService, "only sends a mint when the chain shows none exists
\* and no earlier attempt can still be in flight").
MintedAtMostOnce ==
  \A c \in Contributors : \A i, j \in Minted(c) \cup Unsettled(c) : i = j

\* A position is made from an intent only for a mint that is on the chain, and the intent of
\* every such position names that mint; no intent is recorded without its position.
PositionsAreMinted ==
  \A c \in Contributors :
    /\ c \in positions <=> intent[c].status = "recorded"
    /\ c \in positions => intent[c].mintTxHash \in Minted(c)

\* The job sweeps the escrow only when every contributor has a position, although a run
\* may skip contributors that another run was working on.
SweptAfterMints == sweptBy = "job" => \A c \in Contributors : Held(c)

\* The attempt of an intent never goes back, and a hash recorded for an attempt is not
\* replaced while the attempt lasts: what a later run finds is what was sent.
HashesAreKept ==
  [][\A c \in Contributors :
       /\ intent'[c].attempt >= intent[c].attempt
       /\ intent[c].mintTxHash # 0 /\ intent'[c].attempt = intent[c].attempt
            => intent'[c].mintTxHash = intent[c].mintTxHash
       /\ intent[c].status = "recorded" => intent'[c] = intent[c]]_vars

\* processCampaign: "This job mints every contributor before it sweeps, so a campaign it
\* swept itself is fully processed."  The code does not keep it.
SweptCampaignIsMinted == sweptBy = "job" => \A c \in Contributors : Minted(c) # {}

-----------------------------------------------------------------------------
(* Liveness: the queue starts the job again every hour, the chain settles  *)
(* what is pending, and time passes.                                       *)

Fairness ==
  /\ \A r \in Runs : WF_vars(RunStep(r))
  /\ \A c \in Contributors : WF_vars(SettleMint(c)) /\ WF_vars(GraceElapses(c))

FairSpec == Spec /\ Fairness

\* The job does not recover by itself when the mint it recorded was replaced ("manual
\* reconciliation required").
Replaced(c) == intent[c].status = "mint_sent" /\ mints[c][intent[c].mintTxHash] = "dropped"

\* After finitely many failures, and unless someone else sweeps the escrow first or a
\* recorded mint was replaced, every contributor gets the position.
EveryoneRecorded ==
  (\A c \in Contributors : Held(c)) \/ sweptBy = "other" \/ \E c \in Contributors : Replaced(c)

=============================================================================
