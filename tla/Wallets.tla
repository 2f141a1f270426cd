------------------------------ MODULE Wallets ------------------------------
(***************************************************************************)
(* Registration of investors' wallets: the wallet_registrations table, the *)
(* WalletRegistered events of VistaBloxWalletRegistry, the watcher that    *)
(* confirms a registration once it has read its event, and the staff path  *)
(* that confirms one from a transaction.                                   *)
(*                                                                         *)
(* The chain is external: its last Depth blocks may still be reorganized,  *)
(* and a node may serve incomplete logs for the last IndexLag of the       *)
(* confirmed ones.  Two runs of the watcher may overlap and each may stop  *)
(* between any two awaits.                                                 *)
(***************************************************************************)
EXTENDS Integers, FiniteSets

CONSTANTS
  Accounts, Addresses, \* who registers, and the wallets they may use
  Scans,                \* executions of the watcher that may overlap
  Depth,               \* WALLET_REGISTRY_CONFIRMATION_DEPTH
  Overlap,             \* WALLET_REGISTRY_RESCAN_OVERLAP_BLOCKS
  MaxRange,            \* MAX_BLOCK_RANGE_PER_RUN
  IndexLag,            \* how many confirmed blocks a node may not have indexed yet
  MaxBlock,            \* bound on the chain
  None                 \* no address, no cursor

ASSUME DepthAssumption == Depth \in Nat \ {0}
ASSUME OverlapAssumption == Overlap \in Nat /\ IndexLag \in Nat /\ IndexLag <= Overlap
ASSUME RangeAssumption == MaxRange \in Nat
ASSUME BlockAssumption == MaxBlock \in Nat
ASSUME NoneAssumption == None \notin Addresses /\ None \notin Int

VARIABLES
  address,    \* wallet_address of the account's row, or None
  registered, \* the accounts whose registered_at is set
  head,       \* the number of the latest block
  events,     \* WalletRegistered: who sent it, whose commitment it carries, its block
  cursor,     \* wallet_registry.last_processed_block, or None
  start,      \* the first block of a scan that found no cursor and set it, or None
  run,        \* what an execution of the watcher has read
  staff       \* the staff path has verified a transaction for the account

registryVars == <<head, events>>
rowVars == <<address, registered>>
walletsVars == <<rowVars, registryVars, cursor, start, run, staff>>

Event == [wallet : Addresses, commitment : Accounts, block : Nat]
NoEvent == [wallet |-> None, commitment |-> None, block |-> 0]
Idle == [pc |-> "idle", latest |-> 0, from |-> 0, to |-> 0, first |-> FALSE, found |-> {},
         at |-> NoEvent]

WalletsInit ==
  /\ address = [a \in Accounts |-> None]
  /\ registered = {}
  /\ head = 0
  /\ events = {}
  /\ cursor = None /\ start = None
  /\ run = [r \in Scans |-> Idle]
  /\ staff = [a \in Accounts |-> FALSE]

-----------------------------------------------------------------------------
(* The customer and the chain.                                             *)

\* One row for an account, one account for an address, and never another address afterwards.
registerWallet(a, w) ==
  /\ address[a] = None
  /\ \A b \in Accounts : address[b] # w
  /\ address' = [address EXCEPT ![a] = w]
  /\ UNCHANGED <<registered, registryVars, cursor, start, run, staff>>

\* The service asks for a current KYC first, which nothing here depends on.
RegisterWalletService(a, w) == registerWallet(a, w)

\* Anyone may call register with a commitment they have seen, from any address.
register(w, a) ==
  /\ address[a] # None
  /\ \A e \in events : e.wallet = w => e.commitment # a
  /\ events' = events \cup {[wallet |-> w, commitment |-> a, block |-> head]}
  /\ UNCHANGED <<rowVars, head, cursor, start, run, staff>>

Mine ==
  /\ head < MaxBlock
  /\ head' = head + 1
  /\ UNCHANGED <<rowVars, events, cursor, start, run, staff>>

\* A block that is not Depth blocks deep may lose a transaction.
Reorganize ==
  /\ \E e \in events : e.block > head - Depth /\ events' = events \ {e}
  /\ UNCHANGED <<rowVars, head, cursor, start, run, staff>>

-----------------------------------------------------------------------------
(* ConfirmWalletRegistrationsService.execute, await by await.              *)

getBlockNumber(r) ==
  /\ run[r].pc = "idle"
  /\ run' = [run EXCEPT ![r] = [Idle EXCEPT !.pc = "cursor", !.latest = head]]
  /\ UNCHANGED <<rowVars, registryVars, cursor, start, staff>>

safeLatestBlock(r) == run[r].latest - Depth

\* Mutant: the next run starts where the last one ended.
FromTheCursor(r) == IF cursor = None THEN safeLatestBlock(r) ELSE cursor + 1

fromBlock(r) ==
  IF cursor = None
    THEN safeLatestBlock(r)
    ELSE IF cursor > Overlap THEN cursor - Overlap + 1 ELSE 0

toBlock(r) ==
  IF safeLatestBlock(r) - fromBlock(r) > MaxRange
    THEN fromBlock(r) + MaxRange
    ELSE safeLatestBlock(r)

getLastProcessedWalletRegistryBlock(r) ==
  /\ run[r].pc = "cursor"
  /\ run' = [run EXCEPT ![r] =
               IF safeLatestBlock(r) < 0 \/ fromBlock(r) > safeLatestBlock(r)
                 THEN Idle
                 ELSE [@ EXCEPT !.pc = "logs", !.latest = 0, !.from = fromBlock(r),
                                  !.to = toBlock(r), !.first = (cursor = None)]]
  /\ UNCHANGED <<rowVars, registryVars, cursor, start, staff>>

\* getEvents: every log of a block the node has indexed, and any of the rest.
getEvents(r) ==
  LET asked == {e \in events : e.block \in run[r].from .. run[r].to}
      indexed == {e \in asked : e.block <= head - Depth - IndexLag}
  IN
  /\ run[r].pc = "logs"
  /\ \E late \in SUBSET (asked \ indexed) :
       run' = [run EXCEPT ![r].pc = "events", ![r].found = indexed \cup late]
  /\ UNCHANGED <<rowVars, registryVars, cursor, start, staff>>

\* An event confirms the pending row of its commitment.  One without such a row is counted,
\* one from another address than the row's is recorded in the audit log, and neither
\* changes a row.
findPendingWalletRegistrationByCommitment(r) ==
  /\ run[r].pc = "events"
  /\ \E e \in run[r].found :
       run' = [run EXCEPT ![r] =
                 IF e.commitment \notin registered /\ address[e.commitment] = e.wallet
                   THEN [@ EXCEPT !.pc = "confirm", !.at = e]
                   ELSE [@ EXCEPT !.found = run[r].found \ {e}]]
  /\ UNCHANGED <<rowVars, registryVars, cursor, start, staff>>

confirmWalletRegistration(r) ==
  /\ run[r].pc = "confirm"
  /\ registered' = registered \cup {run[r].at.commitment}
  /\ run' = [run EXCEPT ![r].pc = "events", ![r].found = @ \ {run[r].at}, ![r].at = NoEvent]
  /\ UNCHANGED <<address, registryVars, cursor, start, staff>>

\* Written last, whatever another run has written since.  A run that found no cursor has
\* not looked at the blocks before its first one.
setLastProcessedWalletRegistryBlock(r) ==
  /\ run[r].pc = "events" /\ run[r].found = {}
  /\ cursor' = run[r].to
  /\ start' = IF run[r].first /\ (start = None \/ start < run[r].from) THEN run[r].from ELSE start
  /\ run' = [run EXCEPT ![r] = Idle]
  /\ UNCHANGED <<rowVars, registryVars, staff>>

\* A run may stop at any await: the worker restarts, the node or the database fails.
WatchStops(r) ==
  /\ run[r].pc # "idle"
  /\ run' = [run EXCEPT ![r] = Idle]
  /\ UNCHANGED <<rowVars, registryVars, cursor, start, staff>>

-----------------------------------------------------------------------------
(* ReconcileWalletRegistrationService.                                     *)

\* ViemWalletRegistrationVerifier.verify: a transaction of the account's own address that
\* carries its commitment and is deep enough.
verify(a) ==
  /\ ~staff[a]
  /\ \E e \in events : e.commitment = a /\ e.wallet = address[a] /\ e.block + Depth <= head
  /\ staff' = [staff EXCEPT ![a] = TRUE]
  /\ UNCHANGED <<rowVars, registryVars, cursor, start, run>>

reconcileWalletRegistration(a) ==
  /\ staff[a]
  /\ registered' = registered \cup {a}
  /\ staff' = [staff EXCEPT ![a] = FALSE]
  /\ UNCHANGED <<address, registryVars, cursor, start, run>>

-----------------------------------------------------------------------------
Watch(r) ==
  \/ getBlockNumber(r)
  \/ getLastProcessedWalletRegistryBlock(r)
  \/ getEvents(r)
  \/ findPendingWalletRegistrationByCommitment(r)
  \/ confirmWalletRegistration(r)
  \/ setLastProcessedWalletRegistryBlock(r)
  \/ WatchStops(r)

WalletsNext ==
  \/ \E a \in Accounts, w \in Addresses : RegisterWalletService(a, w) \/ register(w, a)
  \/ Mine
  \/ Reorganize
  \/ \E r \in Scans : Watch(r)
  \/ \E a \in Accounts : verify(a) \/ reconcileWalletRegistration(a)

WalletsSpec == WalletsInit /\ [][WalletsNext]_walletsVars

-----------------------------------------------------------------------------
(* Properties.                                                             *)

\* The state stays within the values the rows, the chain and a run hold.
WalletsTypeOK ==
  /\ address \in [Accounts -> Addresses \cup {None}]
  /\ registered \subseteq Accounts
  /\ head \in Nat
  /\ events \subseteq Event
  /\ cursor \in Nat \cup {None} /\ start \in Nat \cup {None}
  /\ run \in [Scans -> [pc : {"idle", "cursor", "logs", "events", "confirm"}, latest : Nat,
                       from : Nat, to : Nat, first : BOOLEAN, found : SUBSET Event,
                       at : Event \cup {NoEvent}]]
  /\ staff \in [Accounts -> BOOLEAN]

\* The chain holds the event by which the account's own address answers its
\* own commitment.
OnChain(a) == \E e \in events : e.commitment = a /\ e.wallet = address[a]

\* A registration that was confirmed, by the watcher or by staff, is on the chain and stays
\* there whatever the chain does to its last blocks: confirm-wallet-registrations.service.ts
\* "never finalize[s] a registration from a block that may still be re-organized".
RegisteredMeansOnChain == \A a \in registered : OnChain(a)

\* No registration is lost behind the cursor: once a block is too far back to be read again,
\* every event in it that answers a row has confirmed that row, whatever runs overlapped or
\* stopped on the way and however late the node indexed it.  Blocks before the scan that
\* found no cursor are not covered.
ScannedBlocksAreSettled ==
  cursor # None =>
    \A e \in events :
      /\ start <= e.block /\ e.block <= cursor - Overlap
      /\ address[e.commitment] = e.wallet
      => e.commitment \in registered
=============================================================================
