--------------------------- MODULE SettlementParts ---------------------------
(***************************************************************************)
(* What the proofs about settlement need of its parts, outside of the      *)
(* composition: the wallet watcher, the minting job, and sums over finite  *)
(* sets.                                                                   *)
(*                                                                         *)
(* A wallet registration is confirmed only by an event that the chain      *)
(* keeps, and none is lost behind the cursor of the watcher, for any       *)
(* number of accounts, addresses and overlapping executions, any depth and *)
(* overlap, and a chain of any length.  Neither property is inductive.  A  *)
(* confirmation relies on events that a run read earlier, which must be    *)
(* too deep to be reorganized; a cursor relies on what the run that writes *)
(* it read and confirmed, which was complete up to the blocks the node had *)
(* not indexed and which continues what was settled when the run read the  *)
(* cursor before.                                                          *)
(*                                                                         *)
(* For every set of contributors, every number of overlapping runs of the  *)
(* minting job and every number of failures: no contributor is minted      *)
(* twice, a position stands for a mint on the chain, the job sweeps last,  *)
(* and a recorded hash is kept.  That a mint is not sent twice is a fact   *)
(* about what a run may conclude from reads that are out of date when it   *)
(* acts.  The invariant IInv says of each place a run can be in what its   *)
(* copy of the intent still implies when the attempt it has read is still  *)
(* the attempt of the intent.                                              *)
(*                                                                         *)
(* A sum takes its terms in an arbitrary order, with FoldFunction.  What   *)
(* it does for any number of terms is shown from a smallest set it would   *)
(* not be true for.                                                        *)
(***************************************************************************)
EXTENDS EscrowMint, Wallets, TLAPS

-----------------------------------------------------------------------------
(* The wallet watcher.                                                     *)

Answers(e) == address[e.commitment] = e.wallet

Deep(e) == e.block + Depth <= head

\* A deep event of the account's own address answers its commitment.
DeepOnChain(a) == \E e \in events : e.commitment = a /\ e.wallet = address[a] /\ Deep(e)

Settled(lo, hi) ==
  \A e \in events : lo <= e.block /\ e.block <= hi /\ Answers(e) => e.commitment \in registered

ConfirmationsAreDeep ==
  /\ \A a \in registered : DeepOnChain(a)
  /\ \A a \in Accounts : staff[a] => DeepOnChain(a)

EventsAnswerRows == \A e \in events : address[e.commitment] # None

CursorIsSettled ==
  cursor # None => /\ cursor + Depth <= head
                   /\ start # None
                   /\ Settled(start, cursor - Overlap)

Scanning == {"logs", "events", "confirm"}
Confirming == {"events", "confirm"}

ReadsTheConfirmed(r) ==
  /\ run[r].pc = "cursor" => run[r].latest <= head
  /\ run[r].pc \in Scanning =>
       /\ run[r].from <= run[r].to /\ run[r].to + Depth <= head
       /\ run[r].first \/ (start # None /\ Settled(start, run[r].from - 1))

FindsEverything(r) ==
  run[r].pc \in Confirming =>
    \A e \in events :
      run[r].from <= e.block /\ e.block <= run[r].to - IndexLag /\ Answers(e)
        => e.commitment \in registered \/ e \in run[r].found

FindsTheDeep(r) ==
  /\ \A e \in run[r].found : e \in events /\ Deep(e)
  /\ run[r].pc = "confirm" => run[r].at \in run[r].found /\ Answers(run[r].at)

RunIsSound(r) == ReadsTheConfirmed(r) /\ FindsEverything(r) /\ FindsTheDeep(r)

RunsAreSound == \A r \in Scans : RunIsSound(r)

WalletsInv ==
  WalletsTypeOK /\ ConfirmationsAreDeep /\ EventsAnswerRows /\ CursorIsSettled /\ RunsAreSound

-----------------------------------------------------------------------------
(* Types.                                                                  *)

Run == [pc : {"idle", "cursor", "logs", "events", "confirm"}, latest : Nat,
        from : Nat, to : Nat, first : BOOLEAN, found : SUBSET Event,
        at : Event \cup {NoEvent}]

\* The blocks a run asks for are numbers, and none of them can still be reorganized.
LEMMA RangeIsConfirmed ==
  ASSUME WalletsTypeOK, NEW r \in Scans,
         ~(safeLatestBlock(r) < 0 \/ fromBlock(r) > safeLatestBlock(r))
  PROVE  /\ fromBlock(r) \in Nat /\ toBlock(r) \in Nat
         /\ fromBlock(r) <= toBlock(r) /\ toBlock(r) <= run[r].latest - Depth
<1>1. run[r].latest \in Nat /\ (cursor # None => cursor \in Nat)
  BY Zenon DEF WalletsTypeOK
<1>2. fromBlock(r) \in Nat /\ safeLatestBlock(r) = run[r].latest - Depth
  BY <1>1, DepthAssumption, OverlapAssumption DEF fromBlock, safeLatestBlock
<1> QED
  BY <1>1, <1>2, DepthAssumption, RangeAssumption DEF toBlock

\* Every step keeps the variables within their types.
LEMMA TypePreserved == WalletsTypeOK /\ RunsAreSound /\ [WalletsNext]_walletsVars => WalletsTypeOK'
<1> SUFFICES ASSUME WalletsTypeOK, RunsAreSound, [WalletsNext]_walletsVars PROVE WalletsTypeOK'
  OBVIOUS
<1>0. run \in [Scans -> Run]
  BY Zenon DEF WalletsTypeOK, Run
<1>1. ASSUME NEW a \in Accounts, NEW w \in Addresses, RegisterWalletService(a, w)
      PROVE  WalletsTypeOK'
  BY Zenon, <1>1 DEF WalletsTypeOK, RegisterWalletService, registerWallet, registryVars
<1>2. ASSUME NEW a \in Accounts, NEW w \in Addresses, register(w, a) PROVE WalletsTypeOK'
  BY <1>2 DEF WalletsTypeOK, register, rowVars, Event
<1>3. CASE Mine
  BY <1>3 DEF WalletsTypeOK, Mine, rowVars
<1>4. CASE Reorganize
  BY Zenon, <1>4 DEF WalletsTypeOK, Reorganize, rowVars
<1>5. ASSUME NEW r \in Scans, Watch(r) PROVE WalletsTypeOK'
  <2>0. /\ NoEvent \in Event \cup {NoEvent} /\ Idle \in Run
        /\ run[r] \in Run
        /\ \A x \in Run : [run EXCEPT ![r] = x] \in [Scans -> Run]
    BY Zenon, <1>0 DEF Idle, Run
  <2>1. CASE getBlockNumber(r)
    <3>1. [Idle EXCEPT !.pc = "cursor", !.latest = head] \in Run
      BY Zenon, <2>0 DEF Run, WalletsTypeOK
    <3> QED BY Zenon, <2>0, <2>1, <3>1 DEF getBlockNumber, WalletsTypeOK, Run, rowVars, registryVars
  <2>2. CASE getLastProcessedWalletRegistryBlock(r)
    <3>1. CASE safeLatestBlock(r) < 0 \/ fromBlock(r) > safeLatestBlock(r)
      BY Zenon, <2>0, <2>2, <3>1
      DEF getLastProcessedWalletRegistryBlock, WalletsTypeOK, Run, rowVars, registryVars
    <3>2. CASE ~(safeLatestBlock(r) < 0 \/ fromBlock(r) > safeLatestBlock(r))
      <4> DEFINE x == [run[r] EXCEPT !.pc = "logs", !.latest = 0, !.from = fromBlock(r),
                                     !.to = toBlock(r), !.first = (cursor = None)]
      <4>1. x \in Run
        BY Zenon, <2>0, <3>2, RangeIsConfirmed DEF Run
      <4>2. run' = [run EXCEPT ![r] = x]
        BY Zenon, <2>2, <3>2 DEF getLastProcessedWalletRegistryBlock
      <4> HIDE DEF x
      <4> QED
        BY <2>0, <2>2, <4>1, <4>2
        DEF getLastProcessedWalletRegistryBlock, WalletsTypeOK, Run, rowVars, registryVars
    <3> QED BY Zenon, <3>1, <3>2
  <2>3. CASE getEvents(r)
    <3>1. PICK f \in SUBSET events : run' = [run EXCEPT ![r].pc = "events", ![r].found = f]
      BY Zenon, <2>3 DEF getEvents
    <3>2. [run[r] EXCEPT !.pc = "events", !.found = f] \in Run
      BY Zenon, <2>0, <3>1 DEF Run, WalletsTypeOK
    <3>3. run' = [run EXCEPT ![r] = [run[r] EXCEPT !.pc = "events", !.found = f]]
      BY Zenon, <3>1, <1>0
    <3> QED BY Zenon, <2>0, <2>3, <3>2, <3>3
      DEF getEvents, WalletsTypeOK, Run, rowVars, registryVars
  <2>4. CASE findPendingWalletRegistrationByCommitment(r)
    <3>1. PICK e \in run[r].found :
            run' = [run EXCEPT ![r] =
                     IF e.commitment \notin registered /\ address[e.commitment] = e.wallet
                       THEN [@ EXCEPT !.pc = "confirm", !.at = e]
                       ELSE [@ EXCEPT !.found = run[r].found \ {e}]]
      BY Zenon, <2>4 DEF findPendingWalletRegistrationByCommitment
    <3>2. /\ [run[r] EXCEPT !.pc = "confirm", !.at = e] \in Run
          /\ [run[r] EXCEPT !.found = @ \ {e}] \in Run
      BY Zenon, <2>0, <3>1 DEF Run
    <3>3. \E x \in Run : run' = [run EXCEPT ![r] = x]
      <4>1. CASE e.commitment \notin registered /\ address[e.commitment] = e.wallet
        <5>1. run' = [run EXCEPT ![r] = [run[r] EXCEPT !.pc = "confirm", !.at = e]]
          BY Zenon, <3>1, <4>1
        <5> QED BY <3>2, <5>1, Zenon
      <4>2. CASE ~(e.commitment \notin registered /\ address[e.commitment] = e.wallet)
        <5>1. run' = [run EXCEPT ![r] = [run[r] EXCEPT !.found = @ \ {e}]]
          BY ZenonT(60), <3>1, <4>2
        <5> QED BY <3>2, <5>1, Zenon
      <4> QED BY Zenon, <4>1, <4>2
    <3> QED
      BY <2>0, <2>4, <3>3
      DEF findPendingWalletRegistrationByCommitment, WalletsTypeOK, Run, rowVars, registryVars
  <2>5. CASE confirmWalletRegistration(r)
    <3>1. [run[r] EXCEPT !.pc = "events", !.found = @ \ {run[r].at}, !.at = NoEvent] \in Run
      BY Zenon, <2>0 DEF Run
    <3>2. run[r].at.commitment \in Accounts
      BY Zenon, <2>5
        DEF confirmWalletRegistration, RunsAreSound, RunIsSound, FindsTheDeep, WalletsTypeOK, Event
    <3>3. run' = [run EXCEPT ![r] = [run[r] EXCEPT !.pc = "events", !.found = @ \ {run[r].at},
                                                   !.at = NoEvent]]
      BY Zenon, <2>5, <1>0 DEF confirmWalletRegistration
    <3> QED
      BY <2>0, <2>5, <3>1, <3>2, <3>3
      DEF confirmWalletRegistration, WalletsTypeOK, Run, rowVars, registryVars
  <2>6. CASE setLastProcessedWalletRegistryBlock(r)
    BY Zenon, <2>0, <2>6 DEF setLastProcessedWalletRegistryBlock, WalletsTypeOK, Run, rowVars, registryVars
  <2>7. CASE WatchStops(r)
    BY Zenon, <2>0, <2>7 DEF WatchStops, WalletsTypeOK, Run, rowVars, registryVars
  <2> QED BY Zenon, <1>5, <2>1, <2>2, <2>3, <2>4, <2>5, <2>6, <2>7 DEF Watch
<1>6. ASSUME NEW a \in Accounts, verify(a) \/ reconcileWalletRegistration(a) PROVE WalletsTypeOK'
  BY Zenon, <1>6 DEF WalletsTypeOK, verify, reconcileWalletRegistration, rowVars, registryVars
<1>7. CASE UNCHANGED walletsVars
  BY Zenon, <1>7 DEF WalletsTypeOK, walletsVars, rowVars, registryVars
<1> QED BY Zenon, <1>1, <1>2, <1>3, <1>4, <1>5, <1>6, <1>7 DEF WalletsNext

-----------------------------------------------------------------------------
(* What every step leaves as it is: deep events stay, new ones are in the  *)
(* latest block, rows keep their address, a confirmation stays, and the    *)
(* first block that was looked at only moves on.                           *)

Frame ==
  /\ head \in Nat /\ head' \in Nat /\ head <= head'
  /\ events \subseteq Event /\ events' \subseteq Event
  /\ \A e \in events' : e \in events \/ e.block = head
  /\ \A e \in events : Deep(e) => e \in events'
  /\ \A e \in events : address'[e.commitment] = address[e.commitment]
  /\ registered \subseteq registered'
  /\ start # None => start \in Nat /\ start' \in Nat /\ start <= start'

\* A deep answer stays where it is.
LEMMA DeepStays ==
  ASSUME Frame, NEW a, DeepOnChain(a)
  PROVE  DeepOnChain(a)'
<1>1. PICK e \in events : e.commitment = a /\ e.wallet = address[a] /\ Deep(e)
  BY Zenon DEF DeepOnChain
<1>2. e \in events' /\ e.wallet = address'[a]
  BY Zenon, <1>1 DEF Frame
<1>3. Deep(e)'
  BY <1>1, DepthAssumption DEF Frame, Deep, Event
<1> QED BY Zenon, <1>1, <1>2, <1>3 DEF DeepOnChain

\* Blocks that are settled and deep stay settled.
LEMMA SettledStays ==
  ASSUME Frame, NEW lo \in Int, NEW lo2 \in Int, lo <= lo2, NEW hi \in Int, hi + Depth <= head,
         Settled(lo, hi)
  PROVE  Settled(lo2, hi)'
<1> SUFFICES ASSUME NEW e \in events', lo2 <= e.block, e.block <= hi, Answers(e)'
             PROVE  e.commitment \in registered'
  BY Zenon DEF Settled
<1>1. e.block \in Nat
  BY Zenon DEF Frame, Event
<1>2. e \in events
  BY <1>1, DepthAssumption DEF Frame
<1>3. Answers(e)
  BY Zenon, <1>2 DEF Frame, Answers
<1>4. lo <= e.block
  BY <1>1
<1> QED BY Zenon, <1>2, <1>3, <1>4 DEF Settled, Frame

\* A run that takes no part in a step stays sound.
LEMMA OtherRunIsSound ==
  ASSUME Frame, WalletsTypeOK, NEW r \in Scans, run'[r] = run[r], RunIsSound(r)
  PROVE  RunIsSound(r)'
<1>1. /\ run[r].latest \in Nat /\ run[r].from \in Nat /\ run[r].to \in Nat
      /\ head \in Nat /\ head' \in Nat /\ head <= head'
      /\ run[r].found \subseteq Event
  BY Zenon DEF WalletsTypeOK, Frame
<1>2. ReadsTheConfirmed(r)'
  <2>1. CASE run[r].pc \in Scanning
    <3>1. run[r].to + Depth <= head' /\ run[r].from <= run[r].to /\ run[r].pc # "cursor"
      BY <1>1, <2>1, DepthAssumption DEF RunIsSound, ReadsTheConfirmed, Scanning
    <3>2. ASSUME ~run[r].first PROVE start' # None /\ Settled(start, run[r].from - 1)'
      <4>1. start # None /\ Settled(start, run[r].from - 1)
        BY Zenon, <2>1, <3>2 DEF RunIsSound, ReadsTheConfirmed
      <4>2. start \in Nat /\ start' \in Nat /\ start <= start'
        BY Zenon, <4>1 DEF Frame
      <4>3. run[r].from - 1 \in Int /\ run[r].from - 1 + Depth <= head
        BY <1>1, <2>1, DepthAssumption DEF RunIsSound, ReadsTheConfirmed, Scanning
      <4>4. start' # None
        BY <4>2, NoneAssumption
      <4>5. PICK lo \in Nat, lo2 \in Nat, hi \in Int :
              lo = start /\ lo2 = start' /\ hi = run[r].from - 1
        BY Zenon, <4>2, <4>3
      <4>6. Settled(lo, hi) /\ lo <= lo2 /\ hi + Depth <= head
        BY Zenon, <4>1, <4>2, <4>3, <4>5
      <4>7. Settled(lo2, hi)'
        BY <4>6, SettledStays
      <4> QED BY Zenon, <4>4, <4>5, <4>7 DEF Settled
    <3> QED BY Zenon, <3>1, <3>2 DEF ReadsTheConfirmed
  <2>2. CASE run[r].pc \notin Scanning
    BY <1>1, <2>2 DEF RunIsSound, ReadsTheConfirmed
  <2> QED BY Zenon, <2>1, <2>2
<1>3. FindsEverything(r)'
  <2> SUFFICES ASSUME run[r].pc \in Confirming, NEW e \in events',
                      run[r].from <= e.block, e.block <= run[r].to - IndexLag, Answers(e)'
               PROVE  e.commitment \in registered' \/ e \in run[r].found
    BY Zenon DEF FindsEverything
  <2>1. run[r].to + Depth <= head
    BY Zenon DEF RunIsSound, ReadsTheConfirmed, Scanning, Confirming
  <2>2. e.block \in Nat /\ (e \in events \/ e.block = head)
    BY Zenon DEF Frame, Event
  <2>3. e \in events
    BY <1>1, <2>1, <2>2, DepthAssumption, OverlapAssumption
  <2>4. Answers(e)
    BY Zenon, <2>3 DEF Frame, Answers
  <2> QED BY Zenon, <2>3, <2>4 DEF RunIsSound, FindsEverything, Frame
<1>4. FindsTheDeep(r)'
  <2>1. ASSUME NEW e \in run[r].found PROVE e \in events' /\ Deep(e)'
    <3>1. e \in events /\ Deep(e) /\ e.block \in Nat
      BY Zenon, <1>1, <2>1 DEF RunIsSound, FindsTheDeep, Event
    <3> QED BY <1>1, <3>1, DepthAssumption DEF Frame, Deep
  <2>2. run[r].pc = "confirm" => run[r].at \in run[r].found /\ Answers(run[r].at)'
    BY Zenon DEF RunIsSound, FindsTheDeep, Frame, Answers
  <2> QED BY Zenon, <2>1, <2>2 DEF FindsTheDeep
<1> QED BY Zenon, <1>2, <1>3, <1>4 DEF RunIsSound

\* Every step is within the frame.
LEMMA StepsKeepTheFrame ==
  ASSUME WalletsInv, [WalletsNext]_walletsVars
  PROVE  Frame
<1>0. WalletsTypeOK /\ WalletsTypeOK'
  BY Zenon, TypePreserved DEF WalletsInv
<1>1. /\ head \in Nat /\ head' \in Nat
      /\ events \subseteq Event /\ events' \subseteq Event
      /\ start # None => start \in Nat
      /\ start' # None => start' \in Nat
  BY Zenon, <1>0 DEF WalletsTypeOK
<1>2. CASE UNCHANGED <<head, events, address, start>> /\ registered \subseteq registered'
  BY <1>1, <1>2 DEF Frame
<1>3. ASSUME NEW a \in Accounts, NEW w \in Addresses, RegisterWalletService(a, w) PROVE Frame
  <2>1. \A e \in events : address'[e.commitment] = address[e.commitment]
    BY <1>0, <1>3
      DEF RegisterWalletService, registerWallet, WalletsInv, EventsAnswerRows, WalletsTypeOK
  <2> QED BY <1>1, <1>3, <2>1 DEF Frame, RegisterWalletService, registerWallet, registryVars
<1>4. ASSUME NEW a \in Accounts, NEW w \in Addresses, register(w, a) PROVE Frame
  BY <1>1, <1>4 DEF Frame, register, rowVars
<1>5. CASE Mine
  BY <1>1, <1>5 DEF Frame, Mine, rowVars
<1>6. CASE Reorganize
  <2>1. PICK e \in events : e.block > head - Depth /\ events' = events \ {e}
    BY Zenon, <1>6 DEF Reorganize
  <2>2. ~Deep(e)
    BY <1>1, <2>1, DepthAssumption DEF Deep, Event
  <2> QED BY <1>1, <1>6, <2>1, <2>2 DEF Frame, Reorganize, rowVars
<1>7. ASSUME NEW r \in Scans, Watch(r) PROVE Frame
  <2>1. CASE setLastProcessedWalletRegistryBlock(r)
    <3>1. start # None => start' \in Nat /\ start <= start'
      <4>1. run[r].from \in Nat
        BY Zenon, <1>0 DEF WalletsTypeOK
      <4> QED BY <1>1, <2>1, <4>1 DEF setLastProcessedWalletRegistryBlock
    <3> QED BY <1>1, <2>1, <3>1
      DEF Frame, setLastProcessedWalletRegistryBlock, rowVars, registryVars
  <2>2. CASE ~setLastProcessedWalletRegistryBlock(r)
    BY Zenon, <1>2, <1>7, <2>2
    DEF Watch, getBlockNumber, getLastProcessedWalletRegistryBlock, getEvents,
        findPendingWalletRegistrationByCommitment, confirmWalletRegistration, WatchStops,
        rowVars, registryVars
  <2> QED BY Zenon, <2>1, <2>2
<1>8. ASSUME NEW a \in Accounts, verify(a) \/ reconcileWalletRegistration(a) PROVE Frame
  BY Zenon, <1>2, <1>8 DEF verify, reconcileWalletRegistration, rowVars, registryVars
<1>9. CASE UNCHANGED walletsVars
  BY Zenon, <1>2, <1>9 DEF walletsVars, rowVars, registryVars
<1> QED BY Zenon, <1>3, <1>4, <1>5, <1>6, <1>7, <1>8, <1>9 DEF WalletsNext

-----------------------------------------------------------------------------
(* The steps of the watcher, each for the run that takes it.               *)

\* A run that reads the head and the cursor asks for deep blocks that continue what is settled.
LEMMA StartIsSound ==
  ASSUME WalletsInv, Frame, NEW r \in Scans,
         getBlockNumber(r) \/ getLastProcessedWalletRegistryBlock(r) \/ WatchStops(r)
  PROVE  RunIsSound(r)'
<1>0. run \in [Scans -> Run] /\ WalletsTypeOK /\ RunIsSound(r)
  BY Zenon DEF WalletsInv, WalletsTypeOK, Run, RunsAreSound
<1>1. CASE getBlockNumber(r) \/ WatchStops(r) \/ run'[r] = Idle
  <2>1. run'[r] = Idle \/ run'[r] = [Idle EXCEPT !.pc = "cursor", !.latest = head]
    BY Zenon, <1>0, <1>1 DEF getBlockNumber, WatchStops
  <2>2. run'[r].found = {} /\ run'[r].pc \in {"idle", "cursor"}
        /\ (run'[r].pc = "cursor" => run'[r].latest = head)
    <3>1. CASE run'[r] = Idle
      BY <3>1 DEF Idle
    <3>2. CASE run'[r] = [Idle EXCEPT !.pc = "cursor", !.latest = head]
      BY Zenon, <3>2 DEF Idle
    <3> QED BY Zenon, <2>1, <3>1, <3>2
  <2>3. head' \in Nat /\ head <= head' /\ head \in Nat
    BY Zenon DEF Frame
  <2> QED
    BY Zenon, <2>2, <2>3 DEF RunIsSound, ReadsTheConfirmed, FindsEverything, FindsTheDeep, Scanning,
                      Confirming
<1>2. CASE getLastProcessedWalletRegistryBlock(r) /\ run'[r] # Idle
  <2>1. ~(safeLatestBlock(r) < 0 \/ fromBlock(r) > safeLatestBlock(r))
    BY Zenon, <1>0, <1>2 DEF getLastProcessedWalletRegistryBlock
  <2>2. run'[r] = [run[r] EXCEPT !.pc = "logs", !.latest = 0, !.from = fromBlock(r),
                                 !.to = toBlock(r), !.first = (cursor = None)]
    BY Zenon, <1>0, <1>2, <2>1 DEF getLastProcessedWalletRegistryBlock
  <2>3. /\ run'[r].pc = "logs" /\ run'[r].from = fromBlock(r) /\ run'[r].to = toBlock(r)
        /\ run'[r].first = (cursor = None) /\ run'[r].found = run[r].found
    BY <1>0, <2>2 DEF Run
  <2>4. /\ fromBlock(r) \in Nat /\ toBlock(r) \in Nat /\ fromBlock(r) <= toBlock(r)
        /\ toBlock(r) + Depth <= head /\ head' = head
    <3>1. run[r].latest \in Nat /\ head \in Nat /\ run[r].latest <= head
      BY Zenon, <1>0, <1>2
        DEF getLastProcessedWalletRegistryBlock, RunIsSound, ReadsTheConfirmed, WalletsTypeOK
    <3> QED
      BY <1>0, <1>2, <2>1, <3>1, RangeIsConfirmed, DepthAssumption
      DEF getLastProcessedWalletRegistryBlock, registryVars
  <2>5. ASSUME cursor # None PROVE start' # None /\ Settled(start, run[r].from - 1)'
    <3>1. start # None /\ Settled(start, cursor - Overlap) /\ cursor \in Nat
      BY Zenon, <1>0, <2>5 DEF WalletsInv, CursorIsSettled, WalletsTypeOK
    <3>2. \A e \in events : e.block <= fromBlock(r) - 1 => e.block <= cursor - Overlap
      BY <1>0, <2>5, <3>1, OverlapAssumption DEF fromBlock, WalletsTypeOK, Event
    <3>3. UNCHANGED <<events, registered, address, start>>
      BY Zenon, <1>2 DEF getLastProcessedWalletRegistryBlock, rowVars, registryVars
    <3> QED BY Zenon, <2>3, <3>1, <3>2, <3>3 DEF Settled, Answers
  <2>6. ReadsTheConfirmed(r)'
    BY Zenon, <2>3, <2>4, <2>5 DEF ReadsTheConfirmed, Scanning
  <2>7. FindsTheDeep(r)'
    BY Zenon, <1>0, <1>2, <2>3
    DEF RunIsSound, FindsTheDeep, getLastProcessedWalletRegistryBlock, registryVars, Deep
  <2> QED BY Zenon, <2>3, <2>6, <2>7 DEF RunIsSound, FindsEverything, Confirming
<1> QED BY Zenon, <1>1, <1>2

\* The logs are complete up to the blocks that are not indexed, and every event in them is deep.
LEMMA LogsAreSound ==
  ASSUME WalletsInv, NEW r \in Scans, getEvents(r)
  PROVE  RunIsSound(r)'
<1> DEFINE asked == {e \in events : e.block \in run[r].from .. run[r].to}
           indexed == {e \in asked : e.block <= head - Depth - IndexLag}
<1>0. run \in [Scans -> Run] /\ WalletsTypeOK /\ RunIsSound(r)
  BY Zenon DEF WalletsInv, WalletsTypeOK, Run, RunsAreSound
<1>1. PICK late \in SUBSET (asked \ indexed) :
        run' = [run EXCEPT ![r].pc = "events", ![r].found = indexed \cup late]
  BY Zenon DEF getEvents
<1>2. UNCHANGED <<events, registered, address, start, head>>
  BY Zenon DEF getEvents, rowVars, registryVars
<1>3. /\ run'[r].pc = "events" /\ run'[r].from = run[r].from /\ run'[r].to = run[r].to
      /\ run'[r].first = run[r].first /\ run'[r].found = indexed \cup late
  BY Zenon, <1>0, <1>1 DEF Run
<1>4. /\ run[r].from <= run[r].to /\ run[r].to + Depth <= head
      /\ run[r].first \/ (start # None /\ Settled(start, run[r].from - 1))
  BY Zenon, <1>0 DEF getEvents, RunIsSound, ReadsTheConfirmed, Scanning
<1>5. head \in Nat /\ run[r].from \in Nat /\ run[r].to \in Nat /\ \A e \in events : e.block \in Nat
  BY Zenon, <1>0 DEF WalletsTypeOK, Event
<1>6. ReadsTheConfirmed(r)'
  BY Zenon, <1>2, <1>3, <1>4 DEF ReadsTheConfirmed, Settled, Answers
<1>7. FindsEverything(r)'
  <2>1. \A e \in events : run[r].from <= e.block /\ e.block <= run[r].to - IndexLag => e \in indexed
    BY <1>4, <1>5, DepthAssumption, OverlapAssumption
  <2> HIDE DEF asked, indexed
  <2> QED BY Zenon, <1>2, <1>3, <2>1 DEF FindsEverything
<1>8. FindsTheDeep(r)'
  <2>1. \A e \in asked : e \in events /\ Deep(e)
    BY <1>4, <1>5, DepthAssumption DEF Deep
  <2>2. indexed \cup late \subseteq asked
    BY Zenon, <1>1
  <2> HIDE DEF asked, indexed
  <2> QED BY Zenon, <1>2, <1>3, <2>1, <2>2 DEF FindsTheDeep, Deep
<1> QED BY Zenon, <1>6, <1>7, <1>8 DEF RunIsSound

\* An event that is put aside answers no row that still waits, and one that is kept answers its row.
LEMMA LookupIsSound ==
  ASSUME WalletsInv, NEW r \in Scans, findPendingWalletRegistrationByCommitment(r)
  PROVE  RunIsSound(r)'
<1>0. run \in [Scans -> Run] /\ WalletsTypeOK /\ RunIsSound(r)
  BY Zenon DEF WalletsInv, WalletsTypeOK, Run, RunsAreSound
<1>1. PICK e \in run[r].found :
        run' = [run EXCEPT ![r] =
                 IF e.commitment \notin registered /\ address[e.commitment] = e.wallet
                   THEN [@ EXCEPT !.pc = "confirm", !.at = e]
                   ELSE [@ EXCEPT !.found = run[r].found \ {e}]]
  BY Zenon DEF findPendingWalletRegistrationByCommitment
<1>2. UNCHANGED <<events, registered, address, start, head>> /\ run[r].pc = "events"
  BY Zenon DEF findPendingWalletRegistrationByCommitment, rowVars, registryVars
<1>3. CASE e.commitment \notin registered /\ Answers(e)
  <2>1. run'[r] = [run[r] EXCEPT !.pc = "confirm", !.at = e]
    BY Zenon, <1>0, <1>1, <1>3 DEF Answers
  <2>2. /\ run'[r].pc = "confirm" /\ run'[r].at = e /\ run'[r].from = run[r].from
        /\ run'[r].to = run[r].to /\ run'[r].first = run[r].first /\ run'[r].found = run[r].found
    BY <1>0, <2>1 DEF Run
  <2>3. ReadsTheConfirmed(r)'
    BY Zenon, <1>0, <1>2, <2>2 DEF RunIsSound, ReadsTheConfirmed, Scanning, Settled, Answers
  <2>4. FindsEverything(r)'
    BY Zenon, <1>0, <1>2, <2>2 DEF RunIsSound, FindsEverything, Confirming, Answers
  <2>5. FindsTheDeep(r)'
    BY Zenon, <1>0, <1>1, <1>2, <1>3, <2>2 DEF RunIsSound, FindsTheDeep, Answers, Deep
  <2> QED BY Zenon, <2>3, <2>4, <2>5 DEF RunIsSound
<1>4. CASE ~(e.commitment \notin registered /\ Answers(e))
  <2>1. run'[r] = [run[r] EXCEPT !.found = run[r].found \ {e}]
    BY Zenon, <1>0, <1>1, <1>4 DEF Answers
  <2>2. /\ run'[r].pc = "events" /\ run'[r].from = run[r].from /\ run'[r].to = run[r].to
        /\ run'[r].first = run[r].first /\ run'[r].found = run[r].found \ {e}
    BY Zenon, <1>0, <1>2, <2>1 DEF Run
  <2>3. ReadsTheConfirmed(r)'
    BY Zenon, <1>0, <1>2, <2>2 DEF RunIsSound, ReadsTheConfirmed, Scanning, Settled, Answers
  <2>4. FindsEverything(r)'
    BY Zenon, <1>0, <1>2, <1>4, <2>2 DEF RunIsSound, FindsEverything, Confirming, Answers
  <2>5. FindsTheDeep(r)'
    BY Zenon, <1>0, <1>2, <2>2 DEF RunIsSound, FindsTheDeep, Deep
  <2> QED BY Zenon, <2>3, <2>4, <2>5 DEF RunIsSound
<1> QED BY Zenon, <1>3, <1>4

\* The event a run confirms leaves what it found together with the row that waited for it.
LEMMA ConfirmationIsSound ==
  ASSUME WalletsInv, NEW r \in Scans, confirmWalletRegistration(r)
  PROVE  RunIsSound(r)'
<1>0. run \in [Scans -> Run] /\ WalletsTypeOK /\ RunIsSound(r)
  BY Zenon DEF WalletsInv, WalletsTypeOK, Run, RunsAreSound
<1>1. run' = [run EXCEPT ![r].pc = "events", ![r].found = @ \ {run[r].at}, ![r].at = NoEvent]
  BY Zenon DEF confirmWalletRegistration
<1>2. /\ UNCHANGED <<events, address, start, head>> /\ run[r].pc = "confirm"
      /\ registered' = registered \cup {run[r].at.commitment}
  BY Zenon DEF confirmWalletRegistration, registryVars
<1>3. /\ run'[r].pc = "events" /\ run'[r].from = run[r].from /\ run'[r].to = run[r].to
      /\ run'[r].first = run[r].first /\ run'[r].found = run[r].found \ {run[r].at}
  BY Zenon, <1>0, <1>1 DEF Run
<1>4. ReadsTheConfirmed(r)'
  BY Zenon, <1>0, <1>2, <1>3 DEF RunIsSound, ReadsTheConfirmed, Scanning, Settled, Answers
<1>5. FindsEverything(r)'
  BY Zenon, <1>0, <1>2, <1>3 DEF RunIsSound, FindsEverything, Confirming, Answers
<1>6. FindsTheDeep(r)'
  BY Zenon, <1>0, <1>2, <1>3 DEF RunIsSound, FindsTheDeep, Deep
<1> QED BY Zenon, <1>4, <1>5, <1>6 DEF RunIsSound

-----------------------------------------------------------------------------
(* The invariant.                                                          *)

\* Whatever run a step belongs to, every run stays sound.
LEMMA RunsStaySound ==
  ASSUME WalletsInv, [WalletsNext]_walletsVars
  PROVE  RunsAreSound'
<1>0. Frame /\ WalletsTypeOK /\ run \in [Scans -> Run] /\ RunsAreSound
  BY Zenon, StepsKeepTheFrame DEF WalletsInv, WalletsTypeOK, Run
<1>1. CASE run' = run
  BY Zenon, <1>0, <1>1, OtherRunIsSound DEF RunsAreSound
<1>2. ASSUME NEW r \in Scans, Watch(r) PROVE RunsAreSound'
  <2>1. ASSUME NEW s \in Scans, s # r PROVE run'[s] = run[s]
    BY Zenon, <1>0, <1>2, <2>1
    DEF Watch, getBlockNumber, getLastProcessedWalletRegistryBlock, getEvents,
        findPendingWalletRegistrationByCommitment, confirmWalletRegistration,
        setLastProcessedWalletRegistryBlock, WatchStops
  <2>2. RunIsSound(r)'
    <3>1. CASE setLastProcessedWalletRegistryBlock(r)
      <4>1. run'[r] = Idle
        BY Zenon, <1>0, <3>1 DEF setLastProcessedWalletRegistryBlock
      <4> QED
        BY <4>1 DEF Idle, RunIsSound, ReadsTheConfirmed, FindsEverything, FindsTheDeep, Scanning,
                    Confirming
    <3> QED
      BY Zenon, <1>0, <1>2, <3>1, StartIsSound, LogsAreSound, LookupIsSound, ConfirmationIsSound DEF Watch
  <2> QED BY Zenon, <1>0, <2>1, <2>2, OtherRunIsSound DEF RunsAreSound
<1> QED
  BY Zenon, <1>1, <1>2
  DEF WalletsNext, walletsVars, RegisterWalletService, registerWallet, register, Mine,
      Reorganize, verify,
      reconcileWalletRegistration

\* A confirmation is made of a deep event, found by a run or verified by staff.
LEMMA ConfirmationsStayDeep ==
  ASSUME WalletsInv, [WalletsNext]_walletsVars
  PROVE  ConfirmationsAreDeep'
<1>0. Frame /\ WalletsTypeOK /\ RunsAreSound /\ ConfirmationsAreDeep
  BY Zenon, StepsKeepTheFrame DEF WalletsInv
<1>1. \A a \in Accounts : DeepOnChain(a) => DeepOnChain(a)'
  BY Zenon, <1>0, DeepStays
<1>2. CASE registered' = registered /\ staff' = staff
  BY Zenon, <1>0, <1>1, <1>2 DEF ConfirmationsAreDeep, WalletsTypeOK
<1>3. ASSUME NEW r \in Scans, confirmWalletRegistration(r) PROVE ConfirmationsAreDeep'
  <2>1. run[r].at \in events /\ Deep(run[r].at) /\ Answers(run[r].at)
    BY Zenon, <1>0, <1>3 DEF confirmWalletRegistration, RunsAreSound, RunIsSound, FindsTheDeep
  <2>2. run[r].at.commitment \in Accounts /\ DeepOnChain(run[r].at.commitment)
    BY Zenon, <1>0, <2>1 DEF DeepOnChain, Answers, WalletsTypeOK, Event
  <2> QED BY Zenon, <1>0, <1>1, <1>3, <2>2
    DEF ConfirmationsAreDeep, WalletsTypeOK, confirmWalletRegistration
<1>4. ASSUME NEW a \in Accounts, verify(a) PROVE ConfirmationsAreDeep'
  <2>1. DeepOnChain(a)
    BY Zenon, <1>4 DEF verify, DeepOnChain, Deep
  <2> QED BY Zenon, <1>0, <1>1, <1>4, <2>1 DEF ConfirmationsAreDeep, WalletsTypeOK, verify, rowVars
<1>5. ASSUME NEW a \in Accounts, reconcileWalletRegistration(a) PROVE ConfirmationsAreDeep'
  BY Zenon, <1>0, <1>1, <1>5 DEF ConfirmationsAreDeep, WalletsTypeOK, reconcileWalletRegistration
<1>6. ASSUME NEW r \in Scans, Watch(r) PROVE ConfirmationsAreDeep'
  BY ZenonT(40), <1>2, <1>3, <1>6
  DEF Watch, getBlockNumber, getLastProcessedWalletRegistryBlock, getEvents,
      findPendingWalletRegistrationByCommitment, setLastProcessedWalletRegistryBlock, WatchStops,
      rowVars
<1> QED
  BY Zenon, <1>2, <1>4, <1>5, <1>6
  DEF WalletsNext, walletsVars, RegisterWalletService, registerWallet, register, Mine,
      Reorganize, rowVars

\* What a run writes as the cursor ends what it has settled.
LEMMA CursorStaysSettled ==
  ASSUME WalletsInv, [WalletsNext]_walletsVars
  PROVE  CursorIsSettled'
<1>0. Frame /\ WalletsTypeOK /\ WalletsTypeOK' /\ RunsAreSound /\ CursorIsSettled
  BY Zenon, StepsKeepTheFrame, TypePreserved DEF WalletsInv
<1>1. CASE cursor' = cursor
  <2> SUFFICES ASSUME cursor # None
               PROVE  cursor + Depth <= head' /\ start' # None /\ Settled(start, cursor - Overlap)'
    BY Zenon, <1>1 DEF CursorIsSettled, Settled
  <2>1. /\ cursor \in Nat /\ cursor + Depth <= head /\ start # None
        /\ Settled(start, cursor - Overlap)
    BY Zenon, <1>0 DEF CursorIsSettled, WalletsTypeOK
  <2>2. start \in Nat /\ start' \in Nat /\ start <= start' /\ head \in Nat /\ head' \in Nat
        /\ head <= head'
    BY Zenon, <1>0, <2>1 DEF Frame
  <2>3. PICK lo \in Nat, lo2 \in Nat, hi \in Int :
          lo = start /\ lo2 = start' /\ hi = cursor - Overlap
    BY <2>1, <2>2, OverlapAssumption
  <2>4. Settled(lo, hi) /\ lo <= lo2 /\ hi + Depth <= head
    BY <2>1, <2>2, <2>3, OverlapAssumption, DepthAssumption
  <2>5. Settled(lo2, hi)'
    BY <1>0, <2>3, <2>4, SettledStays
  <2>6. start' # None /\ cursor + Depth <= head'
    BY <2>1, <2>2, NoneAssumption, DepthAssumption
  <2> QED BY Zenon, <1>1, <2>3, <2>5, <2>6 DEF Settled
<1>2. ASSUME NEW r \in Scans, setLastProcessedWalletRegistryBlock(r) PROVE CursorIsSettled'
  <2>1. /\ cursor' = run[r].to /\ run[r].found = {} /\ run[r].pc = "events"
        /\ UNCHANGED <<address, registered, head, events>>
        /\ start' = IF run[r].first /\ (start = None \/ start < run[r].from)
                       THEN run[r].from ELSE start
    BY Zenon, <1>2 DEF setLastProcessedWalletRegistryBlock, rowVars, registryVars
  <2>2. /\ run[r].from \in Nat /\ run[r].to \in Nat /\ head \in Nat
        /\ start # None => start \in Nat
        /\ \A e \in events : e.block \in Nat
    BY Zenon, <1>0 DEF WalletsTypeOK, Event
  <2>3. /\ run[r].to + Depth <= head
        /\ run[r].first \/ (start # None /\ Settled(start, run[r].from - 1))
    BY Zenon, <1>0, <2>1 DEF RunsAreSound, RunIsSound, ReadsTheConfirmed, Scanning
  <2>4. \A e \in events : run[r].from <= e.block /\ e.block <= run[r].to - IndexLag /\ Answers(e)
                           => e.commitment \in registered
    BY Zenon, <1>0, <2>1 DEF RunsAreSound, RunIsSound, FindsEverything, Confirming
  <2>5. start' # None /\ start' \in Nat /\ (run[r].first => run[r].from <= start')
        /\ (~run[r].first => start' = start)
    BY <2>1, <2>2, <2>3, NoneAssumption
  <2>6. ASSUME NEW e \in events, start' <= e.block, e.block <= run[r].to - Overlap, Answers(e)
        PROVE  e.commitment \in registered
    <3>0. e.block \in Nat /\ run[r].to \in Nat /\ e.block <= run[r].to - Overlap
      BY Zenon, <2>2, <2>6
    <3>1. e.block <= run[r].to - IndexLag
      BY <3>0, OverlapAssumption
    <3>2. CASE run[r].from <= e.block
      BY Zenon, <2>4, <2>6, <3>1, <3>2
    <3>3. CASE ~(run[r].from <= e.block)
      <4>1. ~run[r].first /\ start' = start /\ e.block <= run[r].from - 1
        BY <2>2, <2>5, <2>6, <3>3
      <4> QED BY Zenon, <2>3, <2>6, <4>1 DEF Settled
    <3> QED BY Zenon, <3>2, <3>3
  <2> QED BY Zenon, <2>1, <2>3, <2>5, <2>6 DEF CursorIsSettled, Settled, Answers
<1> QED
  BY Zenon, <1>1, <1>2
  DEF WalletsNext, walletsVars, RegisterWalletService, registerWallet, register, Mine,
      Reorganize, verify,
      reconcileWalletRegistration, Watch, getBlockNumber, getLastProcessedWalletRegistryBlock,
      getEvents, findPendingWalletRegistrationByCommitment, confirmWalletRegistration, WatchStops

\* An account's row is there before any event carries its commitment.
LEMMA EventsStayAnswered ==
  ASSUME WalletsInv, [WalletsNext]_walletsVars
  PROVE  EventsAnswerRows'
<1>0. Frame /\ WalletsTypeOK /\ EventsAnswerRows
  BY Zenon, StepsKeepTheFrame DEF WalletsInv
<1>1. CASE events' \subseteq events
  BY Zenon, <1>0, <1>1 DEF Frame, EventsAnswerRows
<1>2. ASSUME NEW a \in Accounts, NEW w \in Addresses, register(w, a) PROVE EventsAnswerRows'
  BY <1>0, <1>2 DEF register, EventsAnswerRows, rowVars
<1> QED
  BY Zenon, <1>1, <1>2
  DEF WalletsNext, walletsVars, RegisterWalletService, registerWallet, Mine, Reorganize, verify,
      reconcileWalletRegistration, Watch, getBlockNumber, getLastProcessedWalletRegistryBlock,
      getEvents, findPendingWalletRegistrationByCommitment, confirmWalletRegistration,
      setLastProcessedWalletRegistryBlock, WatchStops, registryVars

\* The invariant holds at the start and is kept by every step.
LEMMA WalletsInvariant == WalletsSpec => []WalletsInv
<1>1. WalletsInit => WalletsInv
  <2> SUFFICES ASSUME WalletsInit PROVE WalletsInv
    OBVIOUS
  <2>1. WalletsTypeOK
    BY Zenon DEF WalletsInit, WalletsTypeOK, Idle, NoEvent
  <2>2. RunsAreSound
    BY
      DEF WalletsInit, Idle, RunsAreSound, RunIsSound, ReadsTheConfirmed, FindsEverything, FindsTheDeep,
           Scanning, Confirming
  <2> QED
    BY Zenon, <2>1, <2>2
      DEF WalletsInit, WalletsInv, ConfirmationsAreDeep, EventsAnswerRows, CursorIsSettled
<1>2. WalletsInv /\ [WalletsNext]_walletsVars => WalletsInv'
  BY Zenon, TypePreserved, RunsStaySound, ConfirmationsStayDeep, CursorStaysSettled, EventsStayAnswered
  DEF WalletsInv
<1> QED BY <1>1, <1>2, PTL DEF WalletsSpec

-----------------------------------------------------------------------------
\* A registration that was confirmed, by the watcher or by staff, is on the chain and stays
\* there, however the chain reorganizes its last blocks and however runs overlap or stop.
THEOREM RegistrationsAreOnChain == WalletsSpec => []RegisteredMeansOnChain
<1>1. WalletsInv => RegisteredMeansOnChain
  BY Zenon DEF WalletsInv, ConfirmationsAreDeep, DeepOnChain, RegisteredMeansOnChain, OnChain
<1> QED BY <1>1, WalletsInvariant, PTL

\* No registration is lost behind the cursor, whichever executions overlap, stop or read logs that
\* are not complete yet.
THEOREM NothingIsLostBehindTheCursor == WalletsSpec => []ScannedBlocksAreSettled
<1>1. WalletsInv => ScannedBlocksAreSettled
  BY Zenon DEF WalletsInv, CursorIsSettled, Settled, Answers, ScannedBlocksAreSettled
<1> QED BY <1>1, WalletsInvariant, PTL

-----------------------------------------------------------------------------
(* The minting job.                                                        *)


\* The mints of a contributor that are, or can still become, a success.
Live(c) == {i \in DOMAIN mints[c] : mints[c][i] \in {"pending", "success"}}

\* The places in which a run's copy of the intent is of the contributor it works on.
Reading == {"balance", "logs", "recorded", "receipt", "receipt_minted", "authorize",
            "create", "create_adopted", "restart", "send", "record_sent",
            "record_adopted", "wait", "record"}

NobodySends(c) == \A r \in Runs : pc[r] = "send" => at[r] # c

\* What holds of the row of a contributor and the mints sent for them.
RowInv(c) ==
  /\ intent[c].status = "none" =>
       intent[c].attempt = 0 /\ intent[c].mintTxHash = 0 /\ Unsettled(c) = {}
  /\ intent[c].status # "none" => intent[c].attempt >= 1
  /\ intent[c].status = "sending" => intent[c].mintTxHash = 0
  /\ intent[c].status \in {"mint_sent", "recorded"} =>
       intent[c].mintTxHash \in DOMAIN mints[c] /\ Live(c) \subseteq {intent[c].mintTxHash}
  /\ intent[c].status = "recorded" => intent[c].mintTxHash \in Minted(c)
  /\ c \in positions <=> intent[c].status = "recorded"
  /\ graceOver[c] => Unsettled(c) = {} /\ NobodySends(c)
  /\ \A i, j \in Live(c) : i = j

\* What the copy of a run still implies while the attempt it has read lasts.
CopyInv(r) ==
  LET c == at[r]
      current == intent[c].attempt = seen[r].attempt
  IN
  /\ pc[r] \in Reading => seen[r].attempt <= intent[c].attempt
  /\ pc[r] = "balance" /\ seen[r].status = "mint_sent"
       => seen[r].mintTxHash \in DOMAIN mints[c]
  /\ pc[r] \in {"balance", "receipt", "receipt_minted"} /\ seen[r].status = "mint_sent" /\ current
       => intent[c].status \in {"mint_sent", "recorded"} /\ intent[c].mintTxHash = seen[r].mintTxHash
  /\ pc[r] \in {"balance", "logs", "authorize", "create", "create_adopted"} /\ seen[r].status = "none"
       => seen[r].attempt = 0
  /\ pc[r] \in {"balance", "authorize", "restart"} /\ seen[r].status # "none"
       => seen[r].attempt >= 1
  /\ pc[r] \in {"receipt", "receipt_minted"} =>
       seen[r].status = "mint_sent" /\ seen[r].attempt >= 1 /\ seen[r].mintTxHash \in DOMAIN mints[c]
  /\ pc[r] = "create" => seen[r].status = "none"
  /\ pc[r] = "restart" => seen[r].status # "none"
  /\ pc[r] = "create_adopted" => seen[r].status = "none"
  /\ pc[r] \in {"authorize", "create", "restart"} /\ current => Live(c) = {} /\ NobodySends(c)
  /\ pc[r] = "send" =>
       /\ current /\ intent[c].status = "sending" /\ Live(c) = {}
       /\ \A s \in Runs : pc[s] = "send" /\ at[s] = c => s = r
  /\ pc[r] \in {"record_sent", "wait"} => seen[r].mintTxHash \in DOMAIN mints[c]
  /\ pc[r] = "record_sent" => seen[r].attempt >= 1
  /\ pc[r] = "record_sent" /\ current => Live(c) \subseteq {seen[r].mintTxHash} /\ NobodySends(c)
  /\ pc[r] \in {"create_adopted", "record_adopted", "record"} => seen[r].mintTxHash \in Minted(c)

\* What a run has behind it: a contributor it has passed has a position.
WalkInv(r) ==
  pc[r] # "idle" =>
    \A c \in Contributors \ todo[r] : Held(c) \/ (pc[r] # "next" /\ c = at[r])

IInv ==
  /\ TypeOK
  /\ \A c \in Contributors : RowInv(c)
  /\ \A r \in Runs : CopyInv(r)
  /\ \A r \in Runs : WalkInv(r)
  /\ SweptAfterMints

-----------------------------------------------------------------------------
(* The chain.                                                              *)

\* A place of a mint is a natural number.
LEMMA MintPlaces ==
  ASSUME TypeOK, NEW c \in Contributors
  PROVE  /\ DOMAIN mints[c] = 1..Len(mints[c]) /\ Len(mints[c]) \in Nat
         /\ Minted(c) \subseteq Nat
  BY DEF TypeOK, Minted

\* A balance of zero is an empty set of successful mints.  The steps take it as a premise;
\* it follows from the types because the mints are finitely many (ZeroBalance).
BalanceCounts ==
  \A c \in Contributors : Cardinality(Minted(c)) = 0 => Minted(c) = {}

\* The mints of a contributor are those that succeeded and those that are pending.
LEMMA LiveParts ==
  ASSUME NEW c \in Contributors
  PROVE  Live(c) = Minted(c) \cup Unsettled(c)
  BY Zenon DEF Live, Minted, Unsettled

\* A mint that is sent is pending, and no other mint of anyone changes.
LEMMA SentIsPending ==
  ASSUME TypeOK, NEW c \in Contributors, mints' = [mints EXCEPT ![c] = Append(@, "pending")]
  PROVE  /\ Live(c)' = Live(c) \cup {Len(mints[c]) + 1}
         /\ Minted(c)' = Minted(c)
         /\ DOMAIN mints[c] \subseteq DOMAIN mints'[c]
         /\ Len(mints[c]) + 1 \in DOMAIN mints'[c]
         /\ \A d \in Contributors \ {c} : mints'[d] = mints[d]
  <1> DEFINE n == Len(mints[c])
  <1>1. mints[c] \in Seq(TxStates) /\ n \in Nat /\ DOMAIN mints[c] = 1..n
    BY Zenon, MintPlaces DEF TypeOK
  <1>2. mints'[c] = Append(mints[c], "pending")
    BY Zenon DEF TypeOK
  <1>3. /\ DOMAIN mints'[c] = 1..(n + 1)
        /\ \A i \in 1..n : mints'[c][i] = mints[c][i]
        /\ mints'[c][n + 1] = "pending"
    BY <1>1, <1>2
  <1>4. \A d \in Contributors \ {c} : mints'[d] = mints[d]
    BY Zenon DEF TypeOK
  <1> HIDE DEF n
  <1>5. Live(c)' = Live(c) \cup {n + 1}
    BY <1>1, <1>3 DEF Live
  <1>6. Minted(c)' = Minted(c)
    BY <1>1, <1>3 DEF Minted
  <1>7. DOMAIN mints[c] \subseteq DOMAIN mints'[c] /\ n + 1 \in DOMAIN mints'[c]
    BY <1>1, <1>3
  <1> QED
    BY Zenon, <1>4, <1>5, <1>6, <1>7 DEF n

\* Settling a mint makes nothing pending and undoes no success.
LEMMA SettledIsFinal ==
  ASSUME TypeOK, NEW c \in Contributors, SettleMint(c)
  PROVE  \A d \in Contributors :
           /\ DOMAIN mints'[d] = DOMAIN mints[d]
           /\ Live(d)' \subseteq Live(d)
           /\ Unsettled(d)' \subseteq Unsettled(d)
           /\ Minted(d) \subseteq Minted(d)'
  <1>1. PICK i \in Unsettled(c), outcome \in {"success", "reverted", "dropped"} :
          mints' = [mints EXCEPT ![c][i] = outcome]
    BY Zenon DEF SettleMint
  <1>2. mints[c] \in Seq(TxStates) /\ i \in DOMAIN mints[c] /\ mints[c][i] = "pending"
    BY Zenon DEF TypeOK, Unsettled
  <1>3. mints'[c] = [mints[c] EXCEPT ![i] = outcome]
    BY Zenon, <1>1 DEF TypeOK
  <1>4. /\ DOMAIN mints'[c] = DOMAIN mints[c]
        /\ mints'[c][i] = outcome
        /\ \A j \in DOMAIN mints[c] \ {i} : mints'[c][j] = mints[c][j]
    BY Zenon, <1>2, <1>3
  <1>5. \A d \in Contributors \ {c} : mints'[d] = mints[d]
    BY Zenon, <1>1 DEF TypeOK
  <1>6. TAKE d \in Contributors
  <1>7. CASE d # c
    BY Zenon, <1>5, <1>7 DEF Live, Minted, Unsettled
  <1>8. CASE d = c
    BY Zenon, <1>2, <1>4, <1>8 DEF Live, Minted, Unsettled
  <1> QED
    BY Zenon, <1>7, <1>8

-----------------------------------------------------------------------------
(* What a step leaves as it was.                                           *)

\* What a run r changes about itself, without becoming one that is about to send.
OnlyRun(r) ==
  /\ \A s \in Runs \ {r} : pc'[s] = pc[s] /\ at'[s] = at[s] /\ seen'[s] = seen[s]
  /\ pc'[r] # "send"

Knowledge == (\A c \in Contributors : RowInv(c)) /\ (\A r \in Runs : CopyInv(r))

\* While a run is about to send, nothing is recorded and no mint can become a success.
LEMMA SenderKnows ==
  ASSUME Knowledge, NEW c \in Contributors, intent[c].status # "sending" \/ Live(c) # {}
  PROVE  NobodySends(c)
  <1>1. ASSUME NEW s \in Runs, pc[s] = "send", at[s] = c PROVE FALSE
    <2>1. CopyInv(s)
      BY Zenon DEF Knowledge
    <2> QED
      BY Zenon, <1>1, <2>1 DEF CopyInv
  <1> QED
    BY Zenon, <1>1 DEF NobodySends

\* The row of a contributor whom a step does not touch.
LEMMA RowFrame ==
  ASSUME NEW d \in Contributors, RowInv(d), NobodySends(d) => NobodySends(d)',
         intent'[d] = intent[d], graceOver'[d] = graceOver[d], mints'[d] = mints[d],
         d \in positions' <=> d \in positions
  PROVE  RowInv(d)'
  <1>1. Live(d)' = Live(d) /\ Minted(d)' = Minted(d) /\ Unsettled(d)' = Unsettled(d)
    BY Zenon DEF Live, Minted, Unsettled
  <1> QED
    BY Zenon, <1>1 DEF RowInv

\* A run that a step does not touch keeps its copy and its place.
Stays(s) == pc'[s] = pc[s] /\ at'[s] = at[s] /\ seen'[s] = seen[s]

\* Nobody who was not about to send is about to send for a contributor after a step.
NoNewSender(c) == \A q \in Runs : pc'[q] = "send" /\ at'[q] = c => pc[q] = "send" /\ at[q] = c

\* A run that does nothing itself still knows what its copy says as long as the attempt is the
\* same, its mints stay, and whoever knew that nobody sends is not met by a mint.
LEMMA CopyKept ==
  ASSUME NEW s \in Runs, CopyInv(s), NEW c, at[s] = c,
         at'[s] = c, pc'[s] = pc[s], seen'[s] = seen[s],
         intent'[c].attempt = intent[c].attempt,
         intent[c].status \in {"mint_sent", "recorded"} =>
           /\ intent'[c].status \in {"mint_sent", "recorded"}
           /\ intent'[c].mintTxHash = intent[c].mintTxHash,
         pc[s] = "send" =>
           /\ intent'[c].status = "sending" /\ Live(c)' = {}
           /\ \A q \in Runs : pc'[q] = "send" /\ at'[q] = c => q = s,
         DOMAIN mints[c] \subseteq DOMAIN mints'[c], Minted(c) \subseteq Minted(c)',
         NobodySends(c) => NobodySends(c)' /\ Live(c)' \subseteq Live(c)
  PROVE  CopyInv(s)'
  <1>1. /\ pc[s] \in Reading => seen[s].attempt <= intent[c].attempt
        /\ pc[s] = "balance" /\ seen[s].status = "mint_sent"
             => seen[s].mintTxHash \in DOMAIN mints'[c]
        /\ (/\ pc[s] \in {"balance", "receipt", "receipt_minted"} /\ seen[s].status = "mint_sent"
            /\ intent[c].attempt = seen[s].attempt)
             => /\ intent'[c].status \in {"mint_sent", "recorded"}
                /\ intent'[c].mintTxHash = seen[s].mintTxHash
    BY Zenon DEF CopyInv
  <1>2. /\ pc[s] \in {"balance", "logs", "authorize", "create", "create_adopted"}
             /\ seen[s].status = "none" => seen[s].attempt = 0
        /\ pc[s] \in {"balance", "authorize", "restart"} /\ seen[s].status # "none"
             => seen[s].attempt >= 1
        /\ pc[s] \in {"receipt", "receipt_minted"} =>
             /\ seen[s].status = "mint_sent" /\ seen[s].attempt >= 1
             /\ seen[s].mintTxHash \in DOMAIN mints'[c]
        /\ pc[s] = "create" => seen[s].status = "none"
        /\ pc[s] = "restart" => seen[s].status # "none"
        /\ pc[s] = "create_adopted" => seen[s].status = "none"
    BY Zenon DEF CopyInv
  <1>3. /\ pc[s] \in {"authorize", "create", "restart"} /\ intent[c].attempt = seen[s].attempt
             => Live(c)' = {} /\ NobodySends(c)'
        /\ pc[s] = "send" => intent[c].attempt = seen[s].attempt
    BY Zenon DEF CopyInv
  <1>4. /\ pc[s] \in {"record_sent", "wait"} => seen[s].mintTxHash \in DOMAIN mints'[c]
        /\ pc[s] = "record_sent" => seen[s].attempt >= 1
        /\ pc[s] = "record_sent" /\ intent[c].attempt = seen[s].attempt
             => Live(c)' \subseteq {seen[s].mintTxHash} /\ NobodySends(c)'
        /\ pc[s] \in {"create_adopted", "record_adopted", "record"}
             => seen[s].mintTxHash \in Minted(c)'
    BY Zenon DEF CopyInv
  <1> QED
    BY SMT, <1>1, <1>2, <1>3, <1>4 DEF CopyInv

\* What a run knows of a contributor whom a step of another run does not touch.
LEMMA CopyFrame ==
  ASSUME NEW s \in Runs, CopyInv(s), Stays(s), NoNewSender(at[s]),
         intent'[at[s]] = intent[at[s]], mints'[at[s]] = mints[at[s]]
  PROVE  CopyInv(s)'
  <1>c. PICK c : c = at[s]
    OBVIOUS
  <1>1. /\ at[s] = c /\ pc'[s] = pc[s] /\ at'[s] = c /\ seen'[s] = seen[s]
        /\ intent'[c] = intent[c] /\ mints'[c] = mints[c]
    BY Zenon, <1>c DEF Stays
  <1>2. Live(c)' = Live(c) /\ Minted(c)' = Minted(c)
    BY Zenon, <1>1 DEF Live, Minted
  <1>3. /\ NobodySends(c) => NobodySends(c)'
        /\ \A q \in Runs : pc'[q] = "send" /\ at'[q] = c => pc[q] = "send" /\ at[q] = c
    BY Zenon, <1>c DEF NobodySends, NoNewSender
  <1> QED
    <2>1. /\ pc[s] = "send" => intent[c].status = "sending" /\ Live(c) = {}
          /\ \A q \in Runs : pc[s] = "send" /\ pc[q] = "send" /\ at[q] = c => q = s
      BY Zenon, <1>c DEF CopyInv
    <2> QED
      BY Zenon, <1>1, <1>2, <1>3, <2>1, CopyKept

\* What a run knows when another run has begun a new attempt for its contributor.
LEMMA CopyOutdated ==
  ASSUME NEW s \in Runs, CopyInv(s), Stays(s), pc[s] # "send",
         mints'[at[s]] = mints[at[s]],
         seen[s].attempt \in Nat, intent'[at[s]].attempt \in Nat,
         pc[s] \in Reading => seen[s].attempt < intent'[at[s]].attempt
  PROVE  CopyInv(s)'
  <1>c. PICK c : c = at[s]
    OBVIOUS
  <1>1. /\ at[s] = c /\ pc'[s] = pc[s] /\ at'[s] = c /\ seen'[s] = seen[s] /\ mints'[c] = mints[c]
    BY Zenon, <1>c DEF Stays
  <1>2. Live(c)' = Live(c) /\ Minted(c)' = Minted(c)
    BY Zenon, <1>1 DEF Live, Minted
  <1>3. pc[s] \in Reading => /\ seen[s].attempt <= intent'[c].attempt
                            /\ intent'[c].attempt # seen[s].attempt
    BY <1>1, SMTT(60)
  <1> QED
    BY Zenon, <1>1, <1>2, <1>3 DEF CopyInv, Reading

\* What a run knows when another run has moved the same attempt forward.
LEMMA CopyForwarded ==
  ASSUME NEW s \in Runs, CopyInv(s), Stays(s), pc[s] # "send", NoNewSender(at[s]),
         mints'[at[s]] = mints[at[s]], intent'[at[s]].attempt = intent[at[s]].attempt,
         \/ intent[at[s]].status = "sending"
         \/ /\ intent[at[s]].status = "mint_sent" /\ intent'[at[s]].status = "recorded"
            /\ intent'[at[s]].mintTxHash = intent[at[s]].mintTxHash
  PROVE  CopyInv(s)'
  <1>0. CopyInv(s) /\ pc[s] # "send"
    OBVIOUS
  <1>c. PICK c : c = at[s]
    OBVIOUS
  <1>1. /\ at[s] = c /\ pc'[s] = pc[s] /\ at'[s] = c /\ seen'[s] = seen[s] /\ mints'[c] = mints[c]
        /\ intent'[c].attempt = intent[c].attempt
    BY Zenon, <1>c DEF Stays
  <1>2. Live(c)' = Live(c) /\ Minted(c)' = Minted(c)
    BY Zenon, <1>1 DEF Live, Minted
  <1>3. NobodySends(c) => NobodySends(c)'
    BY Zenon, <1>c DEF NobodySends, NoNewSender
  <1>4. intent[c].status \in {"mint_sent", "recorded"} =>
          intent'[c].status \in {"mint_sent", "recorded"} /\ intent'[c].mintTxHash = intent[c].mintTxHash
    BY Zenon, <1>c
  <1> QED
    BY Zenon, <1>0, <1>1, <1>2, <1>3, <1>4, CopyKept

\* The rows, and what the other runs know, survive such a step.
LEMMA QuietStep ==
  ASSUME TypeOK, Knowledge, NEW r \in Runs, OnlyRun(r),
         UNCHANGED <<intent, graceOver, positions, mints>>
  PROVE  (\A c \in Contributors : RowInv(c)') /\ (\A s \in Runs \ {r} : CopyInv(s)')
  <1>1. \A c \in Contributors : NobodySends(c) => NobodySends(c)'
    BY Zenon DEF NobodySends, OnlyRun
  <1>2. ASSUME NEW c \in Contributors PROVE RowInv(c)'
    BY Zenon, <1>1, RowFrame DEF Knowledge
  <1>3. ASSUME NEW s \in Runs \ {r} PROVE CopyInv(s)'
    <2>1. Stays(s) /\ NoNewSender(at[s])
      BY Zenon DEF OnlyRun, Stays, NoNewSender
    <2> QED
      BY Zenon, <2>1, CopyFrame DEF Knowledge
  <1> QED
    BY Zenon, <1>2, <1>3

\* A run that is outside the mint of a contributor knows nothing that could be wrong.
LEMMA OutsideKnowsNothing ==
  ASSUME NEW r \in Runs, pc'[r] \in {"idle", "next", "intent", "recorded"},
         pc'[r] = "recorded" => seen'[r].attempt <= intent'[at'[r]].attempt
  PROVE  CopyInv(r)'
  BY Zenon DEF CopyInv, Reading

\* A run that gives up is outside.
LEMMA ThrowIsOutside ==
  ASSUME TypeOK, NEW r \in Runs, Throw(r)
  PROVE  CopyInv(r)' /\ OnlyRun(r) /\ pc'[r] = "idle"
  <1>1. pc'[r] = "idle"
    BY Zenon DEF Throw, Goto, TypeOK
  <1> QED
    BY Zenon, <1>1, OutsideKnowsNothing DEF Throw, Goto, TypeOK, OnlyRun

-----------------------------------------------------------------------------
(* Steps of a run that change neither the database nor the mints.          *)

\* The step that reads the intent: the copy is current.
LEMMA ReadIntentKnows ==
  ASSUME TypeOK, Knowledge, NEW r \in Runs, findEscrowMintIntent(r)
  PROVE  CopyInv(r)' /\ OnlyRun(r)
  <1>1. /\ pc'[r] = "balance" /\ at'[r] = at[r] /\ seen'[r] = intent[at[r]]
        /\ intent' = intent /\ mints' = mints /\ OnlyRun(r)
    BY Zenon DEF findEscrowMintIntent, Goto, TypeOK, OnlyRun, databaseVars, positionVars, chainVars
  <1>2. at[r] \in Contributors /\ RowInv(at[r]) /\ intent[at[r]] \in Intent
    BY Zenon DEF TypeOK, Knowledge
  <1> QED
    BY <1>1, <1>2 DEF CopyInv, RowInv, Intent, Statuses, Reading

\* What has to hold of a run that is about to ask for the holder's authorization.
LEMMA CopyAtAuthorize ==
  ASSUME NEW r \in Runs, pc'[r] = "authorize",
         seen'[r].attempt <= intent'[at'[r]].attempt,
         seen'[r].status = "none" => seen'[r].attempt = 0,
         seen'[r].status # "none" => seen'[r].attempt >= 1,
         intent'[at'[r]].attempt = seen'[r].attempt => Live(at[r])' = {} /\ NobodySends(at[r])'
  PROVE  CopyInv(r)'
  BY Zenon DEF CopyInv, Reading

\* What has to hold of a run that is about to read the receipt of a recorded hash.
LEMMA CopyAtReceipt ==
  ASSUME NEW r \in Runs, pc'[r] \in {"receipt", "receipt_minted"},
         seen'[r].attempt <= intent'[at'[r]].attempt,
         seen'[r].status = "mint_sent", seen'[r].attempt >= 1,
         seen'[r].mintTxHash \in DOMAIN mints'[at'[r]],
         intent'[at'[r]].attempt = seen'[r].attempt =>
           /\ intent'[at'[r]].status \in {"mint_sent", "recorded"}
           /\ intent'[at'[r]].mintTxHash = seen'[r].mintTxHash
  PROVE  CopyInv(r)'
  BY Zenon DEF CopyInv, Reading

\* What has to hold of a run that is about to read the logs of a mint.
LEMMA CopyAtLogs ==
  ASSUME NEW r \in Runs, pc'[r] = "logs", seen'[r].attempt <= intent'[at'[r]].attempt,
         seen'[r].status = "none" => seen'[r].attempt = 0
  PROVE  CopyInv(r)'
  BY Zenon DEF CopyInv, Reading

\* What has to hold of a run that is about to begin an attempt.
LEMMA CopyAtMint ==
  ASSUME NEW r \in Runs, seen'[r].attempt <= intent'[at'[r]].attempt,
         \/ pc'[r] = "create" /\ seen'[r].status = "none" /\ seen'[r].attempt = 0
         \/ pc'[r] = "restart" /\ seen'[r].status # "none" /\ seen'[r].attempt >= 1,
         intent'[at'[r]].attempt = seen'[r].attempt => Live(at[r])' = {} /\ NobodySends(at[r])'
  PROVE  CopyInv(r)'
  BY Zenon DEF CopyInv, Reading

\* What has to hold of a run that is about to record a position.
LEMMA CopyAtRecord ==
  ASSUME NEW r \in Runs, pc'[r] = "record", seen'[r].attempt <= intent'[at'[r]].attempt,
         seen'[r].mintTxHash \in Minted(at[r])'
  PROVE  CopyInv(r)'
  BY Zenon DEF CopyInv, Reading

\* What has to hold of a run that is about to wait for a receipt.
LEMMA CopyAtWait ==
  ASSUME NEW r \in Runs, pc'[r] = "wait", seen'[r].attempt <= intent'[at'[r]].attempt,
         seen'[r].mintTxHash \in DOMAIN mints'[at'[r]]
  PROVE  CopyInv(r)'
  BY Zenon DEF CopyInv, Reading

-----------------------------------------------------------------------------
(* Steps that change the database.                                         *)

\* The run that inserts the intent is the only one that goes on to send.
LEMMA CreateKnows ==
  ASSUME TypeOK, Knowledge, NEW r \in Runs, createEscrowMintIntent(r)
  PROVE  Knowledge'
  <1>1. CASE intent[at[r]].status # "none"
    BY Zenon, <1>1, ThrowIsOutside, QuietStep DEF createEscrowMintIntent, positionVars, chainVars, Knowledge
  <1>2. CASE intent[at[r]].status = "none"
    <2>c. PICK c \in Contributors : c = at[r]
      BY Zenon DEF TypeOK
    <2>1. /\ RowInv(c) /\ CopyInv(r) /\ pc[r] \in {"create", "create_adopted"} /\ at[r] = c
          /\ intent[c].status = "none"
      BY Zenon, <1>2, <2>c DEF createEscrowMintIntent, TypeOK, Knowledge, Intent
    <2>a. /\ \A s \in Runs : CopyInv(s) /\ at[s] \in Contributors /\ seen[s].attempt \in Nat
          /\ \A d \in Contributors : RowInv(d)
      BY Zenon DEF TypeOK, Knowledge, Intent
    <2>2. /\ intent'[c].status = "sending" /\ intent'[c].attempt = 1 /\ intent'[c].mintTxHash = 0
          /\ graceOver'[c] = FALSE
          /\ \A d \in Contributors \ {c} : intent'[d] = intent[d] /\ graceOver'[d] = graceOver[d]
          /\ seen'[r].status = "sending" /\ seen'[r].attempt = 1 /\ seen'[r].mintTxHash = seen[r].mintTxHash
          /\ pc'[r] = IF pc[r] = "create" THEN "send" ELSE "record_adopted"
          /\ at'[r] = c /\ \A s \in Runs \ {r} : Stays(s)
          /\ positions' = positions /\ mints' = mints
      BY <1>2, <2>c DEF createEscrowMintIntent, Goto, TypeOK, Intent, positionVars, chainVars, Stays
    <2>3. Live(c)' = Live(c) /\ Minted(c)' = Minted(c) /\ Unsettled(c)' = Unsettled(c)
      <3>1. mints' = mints
        BY Zenon, <2>2
      <3> QED
        BY Zenon, <3>1 DEF Live, Minted, Unsettled
    <2>4. intent[c].attempt = 0 /\ Unsettled(c) = {}
      BY Zenon, <2>1 DEF RowInv
    <2>5. \A d \in Contributors \ {c} : NoNewSender(d) /\ (NobodySends(d) => NobodySends(d)')
      BY <2>2 DEF NobodySends, NoNewSender, Stays
    <2>6. pc[r] = "create" => Live(c) = {}
      BY Zenon, <2>1, <2>4 DEF CopyInv
    <2>7. NobodySends(c)
      BY Zenon, <2>1, SenderKnows
    <2>8. ASSUME NEW d \in Contributors PROVE RowInv(d)'
      <3>1. CASE d = c
        <4>1. /\ intent'[c].status = "sending" /\ intent'[c].attempt = 1 /\ intent'[c].mintTxHash = 0
              /\ graceOver'[c] = FALSE /\ c \notin positions' /\ Live(c)' = Live(c)
              /\ \A i, j \in Live(c) : i = j
          BY Zenon, <2>1, <2>2, <2>3 DEF RowInv
        <4> QED
          BY <3>1, <4>1, SMTT(20) DEF RowInv
      <3>2. CASE d # c
        BY Zenon, <2>a, <2>2, <2>5, <3>2, RowFrame
      <3> QED
        BY Zenon, <3>1, <3>2
    <2>9. ASSUME NEW s \in Runs \ {r} PROVE CopyInv(s)'
      <3>1. CASE at[s] # c
        BY Zenon, <2>a, <2>2, <2>5, <3>1, CopyFrame
      <3>2. CASE at[s] = c
        <4>1. pc[s] # "send"
          BY Zenon, <2>7, <3>2 DEF NobodySends
        <4>a. CopyInv(s) /\ seen[s].attempt \in Nat /\ Stays(s)
          BY Zenon, <2>a, <2>2
        <4>2. pc[s] \in Reading => seen[s].attempt <= 0
          BY Zenon, <2>4, <3>2, <4>a DEF CopyInv
        <4>n. intent'[c].attempt = 1 /\ mints' = mints
          BY Zenon, <2>2
        <4>3. pc[s] \in Reading => seen[s].attempt < intent'[c].attempt
          BY <4>2, <4>a, <4>n, SMTT(20)
        <4> QED
          BY <3>2, <4>1, <4>3, <4>a, <4>n, CopyOutdated
      <3> QED
        BY Zenon, <3>1, <3>2
    <2>10. CopyInv(r)'
      <3>1. CASE pc[r] = "create"
        <4>1. \A s \in Runs : pc'[s] = "send" /\ at'[s] = c => s = r
          BY Zenon, <2>2, <2>7 DEF NobodySends, Stays
        <4>2. pc'[r] = "send" /\ Live(c)' = {}
          BY Zenon, <2>2, <2>3, <2>6, <3>1
        <4> QED
          BY SMTT(60), <2>2, <4>1, <4>2 DEF CopyInv, Reading
      <3>2. CASE pc[r] = "create_adopted"
        <4>1. pc'[r] = "record_adopted" /\ seen'[r].mintTxHash \in Minted(c)'
          BY Zenon, <2>1, <2>2, <2>3, <3>2 DEF CopyInv
        <4> QED
          BY <2>2, <4>1, SMTT(60) DEF CopyInv, Reading
      <3> QED
        BY Zenon, <2>1, <3>1, <3>2
    <2> QED
      BY Zenon, <2>8, <2>9, <2>10 DEF Knowledge
  <1> QED
    BY Zenon, <1>1, <1>2

\* The run whose conditional update succeeds is the only one that goes on to send.
LEMMA RestartKnows ==
  ASSUME TypeOK, Knowledge, NEW r \in Runs, restartEscrowMintAttempt(r)
  PROVE  Knowledge'
  <1> DEFINE wins == /\ intent[at[r]].attempt = seen[r].attempt
                     /\ intent[at[r]].status \in {"sending", "mint_sent"}
  <1>1. CASE ~wins
    BY Zenon, <1>1, ThrowIsOutside, QuietStep DEF restartEscrowMintAttempt, attemptIsCurrent, restartedRow, positionVars, chainVars, Knowledge
  <1>2. CASE wins
    <2>c. PICK c \in Contributors : c = at[r]
      BY Zenon DEF TypeOK
    <2>1. /\ RowInv(c) /\ CopyInv(r) /\ pc[r] = "restart" /\ at[r] = c /\ intent[c].attempt \in Nat
          /\ intent[c].attempt = seen[r].attempt /\ intent[c].status \in {"sending", "mint_sent"}
      BY Zenon, <1>2, <2>c DEF restartEscrowMintAttempt, TypeOK, Knowledge, Intent
    <2>a. /\ \A s \in Runs : CopyInv(s) /\ at[s] \in Contributors /\ seen[s].attempt \in Nat
          /\ \A d \in Contributors : RowInv(d)
      BY Zenon DEF TypeOK, Knowledge, Intent
    <2>2. /\ intent'[c].status = "sending" /\ intent'[c].attempt = intent[c].attempt + 1
          /\ intent'[c].mintTxHash = 0 /\ graceOver'[c] = FALSE
          /\ \A d \in Contributors \ {c} : intent'[d] = intent[d] /\ graceOver'[d] = graceOver[d]
          /\ seen'[r].status = "sending" /\ seen'[r].attempt = intent[c].attempt + 1
          /\ pc'[r] = "send"
          /\ at'[r] = c /\ \A s \in Runs \ {r} : Stays(s)
          /\ positions' = positions /\ mints' = mints
      BY SMTT(60), <1>2, <2>c DEF restartEscrowMintAttempt, attemptIsCurrent, restartedRow, Goto, TypeOK, Intent, positionVars, chainVars, Stays
    <2> HIDE DEF wins
    <2>3. Live(c)' = Live(c) /\ Minted(c)' = Minted(c) /\ Unsettled(c)' = Unsettled(c)
      <3>1. mints' = mints
        BY Zenon, <2>2
      <3> QED
        BY Zenon, <3>1 DEF Live, Minted, Unsettled
    <2>4. Live(c) = {} /\ NobodySends(c)
      BY Zenon, <2>1 DEF CopyInv
    <2>5. \A d \in Contributors \ {c} : NoNewSender(d) /\ (NobodySends(d) => NobodySends(d)')
      BY Zenon, <2>2 DEF NobodySends, NoNewSender, Stays
    <2>6. ASSUME NEW d \in Contributors PROVE RowInv(d)'
      <3>1. CASE d = c
        <4>1. RowInv(c) /\ intent[c].attempt \in Nat /\ intent[c].status \in {"sending", "mint_sent"}
          BY Zenon, <2>1
        <4>2. intent[c].attempt >= 1 /\ c \notin positions /\ \A i, j \in Live(c) : i = j
          BY Zenon, <4>1 DEF RowInv
        <4>3. /\ intent'[c].status = "sending" /\ intent'[c].attempt = intent[c].attempt + 1
              /\ intent'[c].mintTxHash = 0 /\ graceOver'[c] = FALSE /\ positions' = positions
          BY Zenon, <2>2
        <4>4. intent'[c].attempt >= 1
          BY <4>1, <4>2, <4>3, SMTT(60)
        <4> QED
          BY <2>3, <3>1, <4>2, <4>3, <4>4, Zenon DEF RowInv
      <3>2. CASE d # c
        BY Zenon, <2>a, <2>2, <2>5, <3>2, RowFrame
      <3> QED
        BY Zenon, <3>1, <3>2
    <2>7. ASSUME NEW s \in Runs \ {r} PROVE CopyInv(s)'
      <3>1. CASE at[s] # c
        BY Zenon, <2>a, <2>2, <2>5, <3>1, CopyFrame
      <3>2. CASE at[s] = c
        <4>1. pc[s] # "send"
          BY Zenon, <2>4, <3>2 DEF NobodySends
        <4>a. CopyInv(s) /\ seen[s].attempt \in Nat /\ Stays(s)
          BY ZenonT(40), <2>a, <2>2
        <4>2. pc[s] \in Reading => seen[s].attempt <= intent[c].attempt
          BY Zenon, <3>2, <4>a DEF CopyInv
        <4>n. intent'[c].attempt = intent[c].attempt + 1 /\ intent[c].attempt \in Nat /\ mints' = mints
          BY Zenon, <2>1, <2>2
        <4>3. /\ pc[s] \in Reading => seen[s].attempt < intent'[c].attempt
              /\ intent'[c].attempt \in Nat
          BY <4>2, <4>a, <4>n, SMTT(60)
        <4> QED
          BY Zenon, <3>2, <4>1, <4>3, <4>a, <4>n, CopyOutdated
      <3> QED
        BY Zenon, <3>1, <3>2
    <2>8. CopyInv(r)'
      <3>1. \A s \in Runs : pc'[s] = "send" /\ at'[s] = c => s = r
        BY Zenon, <2>2, <2>4 DEF NobodySends, Stays
      <3>2. /\ pc'[r] = "send" /\ at'[r] = c /\ intent'[c].status = "sending" /\ Live(c)' = {}
            /\ intent[c].attempt \in Nat /\ intent'[c].attempt = intent[c].attempt + 1
            /\ seen'[r].attempt = intent[c].attempt + 1
        BY <2>1, <2>2, <2>3, <2>4, ZenonT(60)
      <3>3. intent'[c].attempt \in Nat /\ seen'[r].attempt = intent'[c].attempt
        BY <3>2, SMTT(20)
      <3> QED
        BY <3>1, <3>2, <3>3, SMTT(60) DEF CopyInv, Reading
    <2> QED
      BY Zenon, <2>6, <2>7, <2>8 DEF Knowledge
  <1> QED
    BY ZenonT(40), <1>1, <1>2

\* Recording the hash: it is the only mint that is or can become a success.
LEMMA RecordSentKnows ==
  ASSUME TypeOK, Knowledge, NEW r \in Runs, recordEscrowMintSent(r)
  PROVE  Knowledge'
  <1> DEFINE c == at[r]
             h == seen[r].mintTxHash
             wins == intent[c].attempt = seen[r].attempt /\ intent[c].status = "sending"
  <1>1. CASE Throw(r) /\ UNCHANGED intent
    BY Zenon, <1>1, ThrowIsOutside, QuietStep DEF recordEscrowMintSent, positionVars, chainVars, Knowledge
  <1>0. /\ c \in Contributors /\ RowInv(c) /\ CopyInv(r) /\ pc[r] \in {"record_sent", "record_adopted"}
    BY Zenon DEF recordEscrowMintSent, TypeOK, Knowledge
  <1>a. /\ \A s \in Runs : CopyInv(s) /\ at[s] \in Contributors
        /\ \A d \in Contributors : RowInv(d)
    BY Zenon DEF TypeOK, Knowledge
  <1> DEFINE label == IF pc[r] = "record_sent" THEN "wait" ELSE "record"
  <1>2. ASSUME Goto(r, label), UNCHANGED <<at, seen, graceOver, positions, mints>>,
               seen[r].attempt <= intent'[c].attempt
        PROVE  CopyInv(r)' /\ OnlyRun(r)
    <2>1. pc'[r] = label /\ OnlyRun(r)
      BY Zenon, <1>2 DEF Goto, TypeOK, OnlyRun
    <2>2. Minted(c)' = Minted(c)
      BY <1>2, Zenon DEF Minted
    <2>3. CASE pc[r] = "record_sent"
      <3>1. h \in DOMAIN mints[c]
        BY Zenon, <1>0, <2>3 DEF CopyInv
      <3> QED
        BY Zenon, <1>2, <2>1, <2>3, <3>1, CopyAtWait
    <2>4. CASE pc[r] = "record_adopted"
      <3>1. h \in Minted(c)
        BY Zenon, <1>0, <2>4 DEF CopyInv
      <3> QED
        BY Zenon, <1>2, <2>1, <2>2, <2>4, <3>1, CopyAtRecord
    <2> QED
      BY Zenon, <1>0, <2>3, <2>4
  <1>3. CASE ~wins /\ ~(Throw(r) /\ UNCHANGED intent)
    <2>1. Goto(r, label) /\ UNCHANGED <<intent, at, seen, graceOver, positions, mints>>
      BY <1>3, Zenon DEF recordEscrowMintSent, positionVars, chainVars
    <2>2. seen[r].attempt <= intent[c].attempt
      BY ZenonT(40), <1>0 DEF CopyInv, Reading
    <2>3. CopyInv(r)' /\ OnlyRun(r)
      BY Zenon, <1>2, <2>1, <2>2
    <2> QED
      BY Zenon, <2>1, <2>3, QuietStep DEF Knowledge
  <1>4. CASE wins
    <2>1. /\ intent'[c].status = "mint_sent" /\ intent'[c].mintTxHash = h
          /\ intent'[c].attempt = intent[c].attempt
          /\ \A d \in Contributors \ {c} : intent'[d] = intent[d]
          /\ Goto(r, label) /\ UNCHANGED <<at, seen, graceOver, positions, mints>>
      <3> DEFINE row == [intent[c] EXCEPT !.status = "mint_sent", !.mintTxHash = h]
      <3>1. /\ intent' = [intent EXCEPT ![c] = row]
            /\ Goto(r, label) /\ UNCHANGED <<at, seen, graceOver, positions, mints>>
        BY Zenon, <1>4 DEF recordEscrowMintSent, positionVars, chainVars
      <3>2. row.status = "mint_sent" /\ row.mintTxHash = h /\ row.attempt = intent[c].attempt
        BY <1>0, Zenon DEF TypeOK, Intent
      <3> HIDE DEF row
      <3> QED
        BY Zenon, <1>0, <3>1, <3>2 DEF TypeOK
    <2>2. seen[r].attempt <= intent'[c].attempt
      BY <1>0, <2>1, Zenon DEF CopyInv, Reading
    <2>3. CopyInv(r)' /\ OnlyRun(r)
      BY Zenon, <1>2, <2>1, <2>2
    <2>4. h \in DOMAIN mints[c] /\ Live(c) \subseteq {h} /\ NobodySends(c)
      <3>1. CASE pc[r] = "record_sent"
        BY <1>0, <1>4, <3>1, Zenon DEF CopyInv
      <3>2. CASE pc[r] = "record_adopted"
        <4>1. h \in Minted(c)
          BY Zenon, <1>0, <3>2 DEF CopyInv
        <4>2. h \in DOMAIN mints[c] /\ h \in Live(c)
          BY <1>0, <4>1, LiveParts, Zenon DEF Minted
        <4>3. NobodySends(c)
          BY Zenon, <1>0, <4>2, SenderKnows
        <4> QED
          BY <1>0, <4>2, <4>3, Zenon DEF RowInv
      <3> QED
        BY <1>0, <3>1, <3>2, ZenonT(40)
    <2>5. \A d \in Contributors : Live(d)' = Live(d) /\ Minted(d)' = Minted(d) /\ Unsettled(d)' = Unsettled(d)
      <3>1. mints' = mints
        BY Zenon, <2>1
      <3> QED
        BY Zenon, <3>1 DEF Live, Minted, Unsettled
    <2>6. \A d \in Contributors : NobodySends(d) => NobodySends(d)'
      BY Zenon, <2>3 DEF NobodySends, OnlyRun
    <2>7. ASSUME NEW d \in Contributors PROVE RowInv(d)'
      <3>1. CASE d = c
        <4>1. PICK e \in Contributors : e = c
          BY Zenon, <1>0
        <4>2. /\ RowInv(e) /\ intent[e].status = "sending" /\ intent'[e].status = "mint_sent"
              /\ intent'[e].attempt = intent[e].attempt /\ intent'[e].mintTxHash \in DOMAIN mints[e]
              /\ Live(e) \subseteq {intent'[e].mintTxHash}
          BY Zenon, <1>0, <1>4, <2>1, <2>4, <4>1
        <4>3. /\ Live(e)' = Live(e) /\ Minted(e)' = Minted(e) /\ Unsettled(e)' = Unsettled(e)
              /\ NobodySends(e) => NobodySends(e)'
              /\ UNCHANGED <<graceOver, positions, mints>>
          BY Zenon, <2>1, <2>5, <2>6
        <4>4. RowInv(e)'
          BY Zenon, <4>2, <4>3 DEF RowInv
        <4> QED
          BY Zenon, <3>1, <4>1, <4>4
      <3>2. CASE d # c
        BY Zenon, <1>a, <2>1, <2>6, <3>2, RowFrame
      <3> QED
        BY Zenon, <3>1, <3>2
    <2>8. ASSUME NEW s \in Runs \ {r} PROVE CopyInv(s)'
      <3>0. /\ Stays(s) /\ NoNewSender(at[s]) /\ CopyInv(s) /\ at[s] \in Contributors /\ UNCHANGED mints
        BY ZenonT(40), <1>a, <2>1, <2>3 DEF OnlyRun, Stays, NoNewSender
      <3>1. CASE at[s] # c
        BY ZenonT(40), <2>1, <3>0, <3>1, CopyFrame
      <3>2. CASE at[s] = c
        <4>1. /\ pc[s] # "send" /\ intent[at[s]].status = "sending"
              /\ intent'[at[s]].attempt = intent[at[s]].attempt
          BY Zenon, <1>4, <2>1, <2>4, <3>2 DEF NobodySends
        <4> QED
          BY Zenon, <3>0, <4>1, CopyForwarded
      <3> QED
        BY Zenon, <3>1, <3>2
    <2> QED
      BY Zenon, <2>3, <2>7, <2>8 DEF Knowledge
  <1> QED
    BY Zenon, <1>1, <1>3, <1>4

\* Recording the position: the mint it stands for is on the chain.
LEMMA RecordPositionKnows ==
  ASSUME TypeOK, Knowledge, NEW r \in Runs, recordEscrowMintedPosition(r)
  PROVE  Knowledge'
  <1> DEFINE c == at[r]
             h == seen[r].mintTxHash
             wins == intent[c].status = "mint_sent" /\ intent[c].mintTxHash = h
  <1>1. CASE Throw(r) /\ UNCHANGED <<intent, positions>>
    BY Zenon, <1>1, ThrowIsOutside, QuietStep DEF recordEscrowMintedPosition, chainVars, Knowledge
  <1>2. ASSUME Goto(r, "next"), UNCHANGED <<at, seen>> PROVE CopyInv(r)' /\ OnlyRun(r)
    <2>1. pc'[r] = "next" /\ OnlyRun(r)
      BY Zenon, <1>2 DEF Goto, TypeOK, OnlyRun
    <2> QED
      BY Zenon, <2>1, OutsideKnowsNothing
  <1>3. CASE ~wins /\ ~(Throw(r) /\ UNCHANGED <<intent, positions>>)
    <2>1. Goto(r, "next") /\ UNCHANGED <<intent, at, seen, graceOver, positions, mints>>
      BY Zenon, <1>3 DEF recordEscrowMintedPosition, chainVars
    <2> QED
      BY Zenon, <1>2, <2>1, QuietStep DEF Knowledge
  <1>4. CASE wins
    <2>0. c \in Contributors /\ RowInv(c) /\ CopyInv(r) /\ pc[r] = "record"
      BY Zenon DEF recordEscrowMintedPosition, TypeOK, Knowledge
    <2>a. /\ \A s \in Runs : CopyInv(s) /\ at[s] \in Contributors
          /\ \A d \in Contributors : RowInv(d)
      BY Zenon DEF TypeOK, Knowledge
    <2>1. /\ intent'[c].status = "recorded" /\ intent'[c].mintTxHash = intent[c].mintTxHash
          /\ intent'[c].attempt = intent[c].attempt
          /\ \A d \in Contributors \ {c} : intent'[d] = intent[d]
          /\ positions' = positions \cup {c}
          /\ Goto(r, "next") /\ UNCHANGED <<at, seen, graceOver, mints>>
      <3> DEFINE row == [intent[c] EXCEPT !.status = "recorded"]
      <3>1. /\ intent' = [intent EXCEPT ![c] = row] /\ positions' = positions \cup {c}
            /\ Goto(r, "next") /\ UNCHANGED <<at, seen, graceOver, mints>>
        BY Zenon, <1>4, <2>0 DEF recordEscrowMintedPosition, chainVars, TypeOK
      <3>2. /\ row.status = "recorded" /\ row.mintTxHash = intent[c].mintTxHash
            /\ row.attempt = intent[c].attempt
        BY Zenon, <2>0 DEF TypeOK, Intent
      <3> HIDE DEF row
      <3> QED
        BY Zenon, <2>0, <3>1, <3>2 DEF TypeOK
    <2>2. CopyInv(r)' /\ OnlyRun(r)
      BY <1>2, <2>1, ZenonT(40)
    <2>3. h \in Minted(c)
      BY <2>0, Zenon DEF CopyInv
    <2>5. \A d \in Contributors : Live(d)' = Live(d) /\ Minted(d)' = Minted(d) /\ Unsettled(d)' = Unsettled(d)
      <3>1. mints' = mints
        BY ZenonT(40), <2>1
      <3> QED
        BY Zenon, <3>1 DEF Live, Minted, Unsettled
    <2>6. \A d \in Contributors : NobodySends(d) => NobodySends(d)'
      BY ZenonT(40), <2>2 DEF NobodySends, OnlyRun
    <2>7. ASSUME NEW d \in Contributors PROVE RowInv(d)'
      <3>1. CASE d = c
        <4>1. PICK e \in Contributors : e = c
          BY Zenon, <2>0
        <4>2. /\ RowInv(e) /\ intent[e].status = "mint_sent" /\ intent'[e].status = "recorded"
              /\ intent'[e].attempt = intent[e].attempt /\ intent'[e].mintTxHash = intent[e].mintTxHash
              /\ intent[e].mintTxHash \in Minted(e) /\ e \in positions'
          BY ZenonT(40), <1>4, <2>0, <2>1, <2>3, <4>1
        <4>3. /\ Live(e)' = Live(e) /\ Minted(e)' = Minted(e) /\ Unsettled(e)' = Unsettled(e)
              /\ NobodySends(e) => NobodySends(e)'
              /\ UNCHANGED <<graceOver, mints>>
          BY <2>1, <2>5, <2>6, ZenonT(40)
        <4>4. RowInv(e)'
          BY <4>2, <4>3, Zenon DEF RowInv
        <4> QED
          BY Zenon, <3>1, <4>1, <4>4
      <3>2. CASE d # c
        BY Zenon, <2>a, <2>1, <2>6, <3>2, RowFrame
      <3> QED
        BY Zenon, <3>1, <3>2
    <2>8. ASSUME NEW s \in Runs \ {r} PROVE CopyInv(s)'
      <3>0. /\ Stays(s) /\ NoNewSender(at[s]) /\ CopyInv(s) /\ at[s] \in Contributors /\ UNCHANGED mints
        BY ZenonT(40), <2>a, <2>1, <2>2 DEF OnlyRun, Stays, NoNewSender
      <3>1. CASE at[s] # c
        BY <2>1, <3>0, <3>1, CopyFrame, ZenonT(40)
      <3>2. CASE at[s] = c
        <4>1. /\ intent[at[s]].status = "mint_sent" /\ intent'[at[s]].status = "recorded"
              /\ intent'[at[s]].attempt = intent[at[s]].attempt
              /\ intent'[at[s]].mintTxHash = intent[at[s]].mintTxHash
          BY <1>4, <2>1, <3>2, ZenonT(40)
        <4>2. pc[s] # "send"
          BY Zenon, <3>0, <4>1 DEF CopyInv
        <4> QED
          BY Zenon, <3>0, <4>1, <4>2, CopyForwarded
      <3> QED
        BY Zenon, <3>1, <3>2
    <2> QED
      BY Zenon, <2>2, <2>7, <2>8 DEF Knowledge
  <1> QED
    BY Zenon, <1>1, <1>3, <1>4

-----------------------------------------------------------------------------
(* Steps that change the mints.                                            *)

\* Sending is done by the one run that may: the rows and the other runs are prepared.
LEMMA SendKnows ==
  ASSUME TypeOK, Knowledge, NEW r \in Runs, pc[r] = "send",
         mints' = [mints EXCEPT ![at[r]] = Append(@, "pending")],
         OnlyRun(r), UNCHANGED <<intent, graceOver, positions, at>>
  PROVE  /\ \A c \in Contributors : RowInv(c)'
         /\ \A s \in Runs \ {r} : CopyInv(s)'
         /\ Live(at[r])' = {Len(mints[at[r]]) + 1}
         /\ Len(mints[at[r]]) + 1 \in DOMAIN mints'[at[r]]
         /\ NobodySends(at[r])'
  <1>c. PICK c \in Contributors : c = at[r]
    BY Zenon DEF TypeOK
  <1>n. PICK n : n = Len(mints[c]) + 1
    OBVIOUS
  <1>0. RowInv(c) /\ CopyInv(r)
    BY Zenon, <1>c DEF Knowledge
  <1>a. /\ \A s \in Runs : CopyInv(s) /\ at[s] \in Contributors
        /\ \A d \in Contributors : RowInv(d)
    BY Zenon DEF TypeOK, Knowledge
  <1>1. /\ intent[c].status = "sending" /\ Live(c) = {}
        /\ \A s \in Runs : pc[s] = "send" /\ at[s] = c => s = r
    BY Zenon, <1>0, <1>c DEF CopyInv
  <1>2. /\ Live(c)' = {n} /\ Minted(c)' = {} /\ n \in DOMAIN mints'[c]
        /\ DOMAIN mints[c] \subseteq DOMAIN mints'[c]
        /\ Minted(c) = {}
        /\ \A d \in Contributors \ {c} : mints'[d] = mints[d]
    <2>1. /\ Live(c)' = Live(c) \cup {n} /\ Minted(c)' = Minted(c) /\ n \in DOMAIN mints'[c]
          /\ DOMAIN mints[c] \subseteq DOMAIN mints'[c]
          /\ \A d \in Contributors \ {c} : mints'[d] = mints[d]
      BY <1>c, <1>n, SentIsPending, Zenon
    <2>2. Minted(c) = {}
      BY Zenon, <1>0, <1>1, LiveParts
    <2> QED
      BY Zenon, <1>1, <2>1, <2>2
  <1>3. ~NobodySends(c)
    BY Zenon, <1>c DEF NobodySends
  <1>4. NobodySends(c)'
    BY Zenon, <1>1, <1>c DEF NobodySends, OnlyRun
  <1>5. \A d \in Contributors : NobodySends(d) => NobodySends(d)'
    BY Zenon DEF NobodySends, OnlyRun
  <1>6. ASSUME NEW d \in Contributors PROVE RowInv(d)'
    <2>1. CASE d = c
      BY Zenon, <1>0, <1>1, <1>2, <1>3, <2>1 DEF RowInv
    <2>2. CASE d # c
      BY Zenon, <1>a, <1>2, <1>5, <2>2, RowFrame
    <2> QED
      BY Zenon, <2>1, <2>2
  <1>7. ASSUME NEW s \in Runs \ {r} PROVE CopyInv(s)'
    <2>0. /\ Stays(s) /\ NoNewSender(at[s]) /\ CopyInv(s) /\ at[s] \in Contributors
      BY Zenon, <1>a DEF OnlyRun, Stays, NoNewSender
    <2>1. CASE at[s] # c
      BY <1>2, <2>0, <2>1, CopyFrame, Zenon
    <2>2. CASE at[s] = c
      <3>1. pc[s] # "send"
        BY Zenon, <1>1, <2>2
      <3> QED
        <4>1. at'[s] = c /\ pc'[s] = pc[s] /\ seen'[s] = seen[s] /\ intent'[c] = intent[c]
          BY Zenon, <1>c, <2>0, <2>2 DEF Stays
        <4> QED
          BY Zenon, <1>2, <1>3, <2>0, <2>2, <3>1, <4>1, CopyKept
    <2> QED
      BY Zenon, <2>1, <2>2
  <1> QED
    BY Zenon, <1>c, <1>n, <1>2, <1>4, <1>6, <1>7

\* Settling a mint takes away what could become a success, or makes it one.
LEMMA SettleKnows ==
  ASSUME TypeOK, Knowledge, NEW d \in Contributors, SettleMint(d)
  PROVE  Knowledge'
  <1>1. UNCHANGED <<intent, graceOver, positions, pc, at, seen>>
    BY Zenon DEF SettleMint, databaseVars, positionVars, runVars
  <1>2. \A c \in Contributors : /\ DOMAIN mints'[c] = DOMAIN mints[c]
                                /\ Live(c)' \subseteq Live(c)
                                /\ Unsettled(c)' \subseteq Unsettled(c)
                                /\ Minted(c) \subseteq Minted(c)'
    BY Zenon, SettledIsFinal
  <1>3. \A c \in Contributors : NobodySends(c)' = NobodySends(c)
    BY Zenon, <1>1 DEF NobodySends
  <1>4. ASSUME NEW c \in Contributors PROVE RowInv(c)'
    BY Zenon, <1>1, <1>2, <1>3 DEF Knowledge, RowInv
  <1>5. ASSUME NEW s \in Runs PROVE CopyInv(s)'
    <2>1. at[s] \in Contributors /\ CopyInv(s)
      BY Zenon DEF TypeOK, Knowledge
    <2>2. pc[s] = "send" =>
            /\ intent[at[s]].status = "sending" /\ Live(at[s]) = {}
            /\ \A q \in Runs : pc[q] = "send" /\ at[q] = at[s] => q = s
      BY Zenon, <2>1 DEF CopyInv
    <2>3. PICK c \in Contributors : c = at[s]
      BY Zenon, <2>1
    <2>4. /\ at'[s] = c /\ pc'[s] = pc[s] /\ seen'[s] = seen[s] /\ intent'[c] = intent[c]
          /\ pc[s] = "send" =>
               /\ intent'[c].status = "sending" /\ Live(c)' = {}
               /\ \A q \in Runs : pc'[q] = "send" /\ at'[q] = c => q = s
      BY Zenon, <1>1, <1>2, <2>2, <2>3
    <2>5. /\ DOMAIN mints[c] \subseteq DOMAIN mints'[c] /\ Minted(c) \subseteq Minted(c)'
          /\ NobodySends(c) => NobodySends(c)' /\ Live(c)' \subseteq Live(c)
      BY Zenon, <1>1, <1>2, <1>3
    <2> QED
      BY Zenon, <2>1, <2>3, <2>4, <2>5, CopyKept
  <1> QED
    BY Zenon, <1>4, <1>5 DEF Knowledge

\* When the grace time is over, nothing is pending and nobody is about to send.
LEMMA GraceKnows ==
  ASSUME TypeOK, Knowledge, NEW d \in Contributors, GraceElapses(d)
  PROVE  Knowledge'
  <1>1. /\ UNCHANGED <<intent, positions, mints, pc, at, seen>>
        /\ Unsettled(d) = {} /\ NobodySends(d)
        /\ \A c \in Contributors \ {d} : graceOver'[c] = graceOver[c]
    BY Zenon DEF GraceElapses, positionVars, chainVars, runVars, NobodySends, TypeOK
  <1>2. \A c \in Contributors : /\ Live(c)' = Live(c) /\ Minted(c)' = Minted(c)
                                /\ Unsettled(c)' = Unsettled(c) /\ NobodySends(c)' = NobodySends(c)
    BY Zenon, <1>1 DEF Live, Minted, Unsettled, NobodySends
  <1>3. ASSUME NEW c \in Contributors PROVE RowInv(c)'
    BY <1>1, <1>2, Zenon DEF Knowledge, RowInv
  <1>4. ASSUME NEW s \in Runs PROVE CopyInv(s)'
    <2>1. at[s] \in Contributors /\ CopyInv(s)
      BY Zenon DEF TypeOK, Knowledge
    <2>2. pc[s] = "send" =>
            /\ intent[at[s]].status = "sending" /\ Live(at[s]) = {}
            /\ \A q \in Runs : pc[q] = "send" /\ at[q] = at[s] => q = s
      BY Zenon, <2>1 DEF CopyInv
    <2>3. PICK c \in Contributors : c = at[s]
      BY Zenon, <2>1
    <2>4. /\ at'[s] = c /\ pc'[s] = pc[s] /\ seen'[s] = seen[s] /\ intent'[c] = intent[c]
          /\ pc[s] = "send" =>
               /\ intent'[c].status = "sending" /\ Live(c)' = {}
               /\ \A q \in Runs : pc'[q] = "send" /\ at'[q] = c => q = s
      BY Zenon, <1>1, <1>2, <2>2, <2>3
    <2>5. /\ DOMAIN mints[c] \subseteq DOMAIN mints'[c] /\ Minted(c) \subseteq Minted(c)'
          /\ NobodySends(c) => NobodySends(c)' /\ Live(c)' \subseteq Live(c)
      BY Zenon, <1>1, <1>2
    <2> QED
      BY Zenon, <2>1, <2>3, <2>4, <2>5, CopyKept
  <1> QED
    BY Zenon, <1>3, <1>4 DEF Knowledge

-----------------------------------------------------------------------------
(* The walk over the contributors and the sweep.                           *)

\* The steps that write intents or positions; the others leave both alone.
Writing(r) ==
  \/ createEscrowMintIntent(r) \/ restartEscrowMintAttempt(r) \/ recordEscrowMintSent(r)
  \/ recordEscrowMintedPosition(r)

LEMMA OthersLeaveRows ==
  ASSUME [Next]_vars, \A r \in Runs : ~Writing(r)
  PROVE  /\ intent' = intent /\ positions' = positions
         /\ otherPositions \subseteq otherPositions'
  <1> DEFINE Left == intent' = intent /\ positions' = positions /\ otherPositions \subseteq otherPositions'
  <1> USE DEF vars, databaseVars, positionVars
  <1>1. ASSUME NEW r \in Runs,
               \/ StartRun(r) \/ (\E c \in Contributors : hasPosition(r, c)) \/ findEscrowMintIntent(r)
               \/ recheckRecorded(r) \/ withdrawRaised(r)
        PROVE  Left
    BY Zenon, <1>1 DEF StartRun, hasPosition, findEscrowMintIntent, recheckRecorded, withdrawRaised
  <1>2. ASSUME NEW r \in Runs,
               \/ obtainConfirmedMint(r) \/ findMintTransactionHash(r) \/ resolveSentMint(r)
        PROVE  Left
    BY Zenon, <1>2 DEF obtainConfirmedMint, findMintTransactionHash, resolveSentMint
  <1>3. ASSUME NEW r \in Runs,
               \/ ensureHolderAuthorized(r) \/ sendMint(r) \/ SendMintLost(r)
               \/ waitForTransactionReceipt(r) \/ RunStops(r)
        PROVE  Left
    BY Zenon, <1>3 DEF ensureHolderAuthorized, sendMint, SendMintLost, waitForTransactionReceipt, RunStops
  <1>4. ASSUME NEW c \in Contributors, SettleMint(c) \/ GraceElapses(c) \/ ReservationFinalized(c)
        PROVE  Left
    BY Zenon, <1>4 DEF SettleMint, GraceElapses, ReservationFinalized
  <1>5. ASSUME SweptByOther \/ UNCHANGED vars PROVE Left
    BY Zenon, <1>5 DEF SweptByOther
  <1> HIDE DEF Left
  <1>6. Left
    BY Zenon, <1>1, <1>2, <1>3, <1>4, <1>5 DEF Next, RunStep, Writing
  <1> QED
    BY Zenon, <1>6 DEF Left

\* No step takes a position away.
LEMMA PositionsGrow ==
  ASSUME [Next]_vars
  PROVE  \A c \in Contributors : Held(c) => Held(c)'
  <1>1. CASE \A r \in Runs : ~Writing(r)
    BY Zenon, <1>1, OthersLeaveRows DEF Held
  <1>2. ASSUME NEW r \in Runs, Writing(r)
        PROVE  positions \subseteq positions' /\ otherPositions \subseteq otherPositions'
    BY Zenon, <1>2 DEF Writing, createEscrowMintIntent, restartEscrowMintAttempt, recordEscrowMintSent,
       recordEscrowMintedPosition, positionVars
  <1> QED
    BY Zenon, <1>1, <1>2 DEF Held

\* A run that has passed a contributor leaves a position behind, and the job sweeps only
\* at the end of its walk.
LEMMA NextWalks ==
  ASSUME TypeOK, [Next]_vars, \A r \in Runs : WalkInv(r), SweptAfterMints
  PROVE  (\A r \in Runs : WalkInv(r)') /\ SweptAfterMints'
  <1> USE DEF databaseVars, positionVars, chainVars, runVars
  <1>0. \A c \in Contributors : Held(c) => Held(c)'
    BY Zenon, PositionsGrow
  <1>a. ASSUME NEW r \in Runs, UNCHANGED sweptBy,
               \A s \in Runs \ {r} : pc'[s] = pc[s] /\ todo'[s] = todo[s] /\ at'[s] = at[s],
               WalkInv(r)'
        PROVE  (\A s \in Runs : WalkInv(s)') /\ SweptAfterMints'
    BY Zenon, <1>0, <1>a DEF WalkInv, SweptAfterMints
  <1>b. ASSUME NEW r \in Runs, Throw(r)
        PROVE  /\ \A s \in Runs \ {r} : pc'[s] = pc[s] /\ todo'[s] = todo[s] /\ at'[s] = at[s]
               /\ pc'[r] = "idle" /\ WalkInv(r)'
    BY Zenon, <1>b DEF Throw, Goto, TypeOK, WalkInv
  <1>c. ASSUME NEW r \in Runs, pc[r] \notin {"idle", "next"}, UNCHANGED <<sweptBy, todo, at>>,
               NEW label \in Labels, Goto(r, label), label # "next" \/ Held(at[r])'
        PROVE  (\A s \in Runs : WalkInv(s)') /\ SweptAfterMints'
    <2>1. pc'[r] = label /\ \A s \in Runs \ {r} : pc'[s] = pc[s]
      BY Zenon, <1>c DEF Goto, TypeOK
    <2>2. WalkInv(r)'
      BY Zenon, <1>0, <1>c, <2>1 DEF WalkInv
    <2> QED
      BY Zenon, <1>a, <1>c, <2>1, <2>2
  <1>1. CASE UNCHANGED vars
    BY Zenon, <1>1 DEF vars, WalkInv, SweptAfterMints, Held
  <1>2. ASSUME NEW r \in Runs, StartRun(r) PROVE (\A s \in Runs : WalkInv(s)') /\ SweptAfterMints'
    BY Zenon, <1>2, <1>a DEF StartRun, Goto, TypeOK, WalkInv
  <1>3. ASSUME NEW r \in Runs, NEW c \in Contributors, hasPosition(r, c)
        PROVE  (\A s \in Runs : WalkInv(s)') /\ SweptAfterMints'
    <2>1. /\ \A s \in Runs \ {r} : pc'[s] = pc[s] /\ todo'[s] = todo[s] /\ at'[s] = at[s]
          /\ UNCHANGED sweptBy /\ (Held(c) <=> Held(c)') /\ todo'[r] = todo[r] \ {c} /\ pc[r] = "next"
          /\ ~Held(c) => pc'[r] = "intent" /\ at'[r] = c
          /\ Held(c) => pc'[r] = "next"
      BY Zenon, <1>3 DEF hasPosition, Goto, TypeOK, Held
    <2>2. WalkInv(r)'
      BY Zenon, <1>0, <2>1 DEF WalkInv
    <2> QED
      BY Zenon, <1>a, <2>1, <2>2
  <1>4. ASSUME NEW r \in Runs, Throw(r), UNCHANGED sweptBy
        PROVE  (\A s \in Runs : WalkInv(s)') /\ SweptAfterMints'
    BY Zenon, <1>4, <1>a, <1>b
  <1>5. ASSUME NEW r \in Runs, withdrawRaised(r) PROVE (\A s \in Runs : WalkInv(s)') /\ SweptAfterMints'
    <2>1. \A c \in Contributors : Held(c)
      BY <1>5, Zenon DEF withdrawRaised, WalkInv, TypeOK
    <2>2. SweptAfterMints'
      BY Zenon, <1>0, <2>1 DEF SweptAfterMints
    <2>3. \A s \in Runs : WalkInv(s)'
      BY Zenon, <1>0, <1>5, <1>b DEF withdrawRaised, WalkInv
    <2> QED
      BY Zenon, <2>2, <2>3
  <1>6. ASSUME NEW r \in Runs, findEscrowMintIntent(r) PROVE (\A s \in Runs : WalkInv(s)') /\ SweptAfterMints'
    BY Zenon, <1>6, <1>c DEF findEscrowMintIntent, Labels
  <1>7. ASSUME NEW r \in Runs, obtainConfirmedMint(r) PROVE (\A s \in Runs : WalkInv(s)') /\ SweptAfterMints'
    <2>1. seen[r].status \in Statuses
      BY Zenon DEF TypeOK, Intent
    <2>2. \/ Throw(r)
          \/ UNCHANGED <<todo, at>> /\ \E label \in Labels \ {"next"} : Goto(r, label)
      BY <1>7, <2>1, ZenonT(60) DEF obtainConfirmedMint, Labels, Statuses
    <2> QED
      BY Zenon, <1>7, <1>4, <1>c, <2>2 DEF obtainConfirmedMint
  <1>8. ASSUME NEW r \in Runs, findMintTransactionHash(r) PROVE (\A s \in Runs : WalkInv(s)') /\ SweptAfterMints'
    <2>1. \/ Throw(r)
          \/ UNCHANGED <<todo, at>> /\ \E label \in Labels \ {"next"} : Goto(r, label)
      BY Zenon, <1>8 DEF findMintTransactionHash, Labels
    <2> QED
      BY Zenon, <1>8, <1>4, <1>c, <2>1 DEF findMintTransactionHash
  <1>9. ASSUME NEW r \in Runs, recheckRecorded(r) PROVE (\A s \in Runs : WalkInv(s)') /\ SweptAfterMints'
    BY Zenon, <1>9, <1>4, <1>c DEF recheckRecorded, Labels, Held
  <1>10. ASSUME NEW r \in Runs, resolveSentMint(r) PROVE (\A s \in Runs : WalkInv(s)') /\ SweptAfterMints'
    <2>1. \/ Throw(r)
          \/ UNCHANGED <<todo, at>> /\ \E label \in Labels \ {"next"} : Goto(r, label)
      BY Zenon, <1>10 DEF resolveSentMint, Labels
    <2> QED
      BY Zenon, <1>10, <1>4, <1>c, <2>1 DEF resolveSentMint
  <1>11. ASSUME NEW r \in Runs, ensureHolderAuthorized(r) PROVE (\A s \in Runs : WalkInv(s)') /\ SweptAfterMints'
    <2>1. \E label \in Labels \ {"next"} : Goto(r, label)
      BY Zenon, <1>11 DEF ensureHolderAuthorized, Labels
    <2> QED
      BY Zenon, <1>11, <1>c, <2>1 DEF ensureHolderAuthorized
  <1>12. ASSUME NEW r \in Runs, createEscrowMintIntent(r) PROVE (\A s \in Runs : WalkInv(s)') /\ SweptAfterMints'
    <2>1. \/ Throw(r)
          \/ UNCHANGED <<todo, at>> /\ \E label \in Labels \ {"next"} : Goto(r, label)
      BY Zenon, <1>12 DEF createEscrowMintIntent, Labels
    <2> QED
      BY Zenon, <1>12, <1>4, <1>c, <2>1 DEF createEscrowMintIntent
  <1>13. ASSUME NEW r \in Runs, restartEscrowMintAttempt(r) PROVE (\A s \in Runs : WalkInv(s)') /\ SweptAfterMints'
    <2>1. Throw(r) \/ (UNCHANGED <<todo, at>> /\ Goto(r, "send"))
      BY Zenon, <1>13 DEF restartEscrowMintAttempt, attemptIsCurrent, restartedRow
    <2> QED
      BY Zenon, <1>13, <1>4, <1>c, <2>1 DEF restartEscrowMintAttempt, attemptIsCurrent, restartedRow, Labels
  <1>14. ASSUME NEW r \in Runs, sendMint(r) PROVE (\A s \in Runs : WalkInv(s)') /\ SweptAfterMints'
    BY Zenon, <1>14, <1>c DEF sendMint, Labels
  <1>15. ASSUME NEW r \in Runs, recordEscrowMintSent(r) PROVE (\A s \in Runs : WalkInv(s)') /\ SweptAfterMints'
    <2>1. \/ Throw(r)
          \/ UNCHANGED <<todo, at>> /\ \E label \in Labels \ {"next"} : Goto(r, label)
      BY Zenon, <1>15 DEF recordEscrowMintSent, Labels
    <2> QED
      BY Zenon, <1>15, <1>4, <1>c, <2>1 DEF recordEscrowMintSent
  <1>16. ASSUME NEW r \in Runs, waitForTransactionReceipt(r) PROVE (\A s \in Runs : WalkInv(s)') /\ SweptAfterMints'
    BY Zenon, <1>16, <1>4, <1>c DEF waitForTransactionReceipt, Labels
  <1>17. ASSUME NEW r \in Runs, recordEscrowMintedPosition(r) PROVE (\A s \in Runs : WalkInv(s)') /\ SweptAfterMints'
    <2>1. \/ Throw(r)
          \/ UNCHANGED <<todo, at>> /\ Goto(r, "next") /\ Held(at[r])'
      BY <1>17 DEF recordEscrowMintedPosition, Held, TypeOK
    <2> QED
      BY Zenon, <1>17, <1>4, <1>c, <2>1 DEF recordEscrowMintedPosition, Labels
  <1>18. ASSUME UNCHANGED runVars, sweptBy' = "job" => sweptBy = "job"
         PROVE  (\A s \in Runs : WalkInv(s)') /\ SweptAfterMints'
    BY Zenon, <1>0, <1>18 DEF WalkInv, SweptAfterMints
  <1> QED
    BY Zenon, <1>1, <1>2, <1>3, <1>4, <1>5, <1>6, <1>7, <1>8, <1>9, <1>10, <1>11, <1>12, <1>13, <1>14,
       <1>15, <1>16, <1>17, <1>18, SMTT(20)
       DEF Next, RunStep, SendMintLost, RunStops, SettleMint, GraceElapses, SweptByOther,
           ReservationFinalized

-----------------------------------------------------------------------------
(* Steps of a run that change neither the database nor the mints.          *)

\* The step that reads the balance: a run that goes on to mint has seen that no mint of
\* the contributor is or can become a success, as long as the attempt it has read lasts.
LEMMA BalanceKnows ==
  ASSUME TypeOK, Knowledge, BalanceCounts, NEW r \in Runs, obtainConfirmedMint(r)
  PROVE  CopyInv(r)' /\ OnlyRun(r)
  <1>1. CASE Throw(r)
    BY Zenon, <1>1, ThrowIsOutside
  <1>2. CASE ~Throw(r)
    <2> DEFINE c == at[r]
    <2>1. /\ c \in Contributors /\ RowInv(c) /\ CopyInv(r) /\ seen[r].status \in Statuses
          /\ pc[r] = "balance"
      BY Zenon DEF obtainConfirmedMint, TypeOK, Knowledge, Intent
    <2>2. /\ at' = at /\ seen' = seen /\ intent' = intent /\ mints' = mints /\ graceOver' = graceOver
      BY <1>2, <2>1, Zenon DEF obtainConfirmedMint, Statuses, databaseVars, positionVars, chainVars
    <2>3. \E label \in Labels \ {"send"} : pc' = [pc EXCEPT ![r] = label]
      BY <1>2, <2>1, ZenonT(60) DEF obtainConfirmedMint, Statuses, Goto, Labels
    <2>4. OnlyRun(r)
      BY Zenon, <2>2, <2>3 DEF OnlyRun, TypeOK
    <2>5. Live(c)' = Live(c) /\ Minted(c)' = Minted(c) /\ (NobodySends(c) => NobodySends(c)')
      BY <2>2, <2>4, Zenon DEF Live, Minted, NobodySends, OnlyRun
    <2>a. seen[r].attempt <= intent[c].attempt
      BY Zenon, <2>1 DEF CopyInv, Reading
    <2>6. CASE seen[r].status = "recorded"
      <3>1. pc'[r] = "recorded"
        BY <1>2, <2>1, <2>6, Zenon DEF obtainConfirmedMint, Goto, TypeOK
      <3> QED
        BY Zenon, <2>2, <2>a, <2>4, <3>1, OutsideKnowsNothing
    <2>7. CASE seen[r].status = "mint_sent"
      <3>1. pc'[r] \in {"receipt", "receipt_minted"}
        BY <1>2, <2>1, <2>7, ZenonT(60) DEF obtainConfirmedMint, Goto, TypeOK
      <3>2. /\ seen[r].attempt >= 1 /\ seen[r].mintTxHash \in DOMAIN mints[c]
            /\ intent[c].attempt = seen[r].attempt =>
                 /\ intent[c].status \in {"mint_sent", "recorded"}
                 /\ intent[c].mintTxHash = seen[r].mintTxHash
        BY Zenon, <2>1, <2>7 DEF CopyInv
      <3> QED
        BY Zenon, <2>2, <2>4, <2>7, <2>a, <3>1, <3>2, CopyAtReceipt
    <2>8. CASE seen[r].status \in {"none", "sending"} /\ Cardinality(Minted(c)) # 0
      <3>1. pc'[r] = "logs"
        BY <1>2, <2>1, <2>8, Zenon DEF obtainConfirmedMint, Goto, TypeOK
      <3>2. seen[r].status = "none" => seen[r].attempt = 0
        BY Zenon, <2>1 DEF CopyInv
      <3> QED
        BY Zenon, <2>2, <2>4, <2>a, <3>1, <3>2, CopyAtLogs
    <2>9. CASE seen[r].status \in {"none", "sending"} /\ Cardinality(Minted(c)) = 0
      <3>1. pc'[r] = "authorize" /\ (seen[r].status = "sending" => graceOver[c])
        BY <1>2, <2>1, <2>9, Zenon DEF obtainConfirmedMint, Goto, TypeOK
      <3>2. Minted(c) = {}
        BY <2>1, <2>9, Zenon DEF BalanceCounts
      <3>3. /\ seen[r].attempt <= intent[c].attempt
            /\ seen[r].status = "none" => seen[r].attempt = 0
            /\ seen[r].status # "none" => seen[r].attempt >= 1
        BY Zenon, <2>1 DEF CopyInv, Reading
      <3>4. ASSUME intent[c].attempt = seen[r].attempt PROVE Live(c) = {} /\ NobodySends(c)
        <4>1. CASE seen[r].status = "sending"
          BY Zenon, <2>1, <3>1, <3>2, <4>1, LiveParts DEF RowInv
        <4>2. CASE seen[r].status = "none"
          <5>1. intent[c].status = "none"
            <6>1. intent[c].status # "none" => intent[c].attempt >= 1
              BY Zenon, <2>1 DEF RowInv
            <6> QED
              BY SMT, <3>3, <3>4, <4>2, <6>1
          <5>2. Unsettled(c) = {}
            BY Zenon, <2>1, <5>1 DEF RowInv
          <5> QED
            BY Zenon, <2>1, <3>2, <5>1, <5>2, LiveParts, SenderKnows
        <4> QED
          BY Zenon, <2>9, <4>1, <4>2
      <3>5. CopyInv(r)'
        <4>1. at'[r] = at[r] /\ seen'[r] = seen[r] /\ intent' = intent
          BY Zenon, <2>2
        <4>2. intent[c].attempt = seen[r].attempt => Live(c)' = {} /\ NobodySends(c)'
          BY Zenon, <2>5, <3>4
        <4>3. Live(at[r])' = Live(c)' /\ NobodySends(at[r])' = NobodySends(c)'
          OBVIOUS
        <4> HIDE DEF c
        <4> QED
          BY Zenon, <3>1, <3>3, <4>1, <4>2, <4>3, CopyAtAuthorize DEF c
      <3> QED
        BY Zenon, <2>4, <3>5
    <2> QED
      BY Zenon, <2>1, <2>6, <2>7, <2>8, <2>9 DEF Statuses
  <1> QED
    BY Zenon, <1>1, <1>2

\* The step that reads the logs: the hash is of a mint that succeeded.
LEMMA LogsKnow ==
  ASSUME TypeOK, Knowledge, NEW r \in Runs, findMintTransactionHash(r)
  PROVE  CopyInv(r)' /\ OnlyRun(r)
  <1>1. CASE Throw(r)
    BY Zenon, <1>1, ThrowIsOutside
  <1>2. CASE ~Throw(r)
    <2>1. PICK i \in Minted(at[r]) :
            /\ seen' = [seen EXCEPT ![r].mintTxHash = i]
            /\ Goto(r, IF seen[r].status = "none" THEN "create_adopted" ELSE "record_adopted")
            /\ at' = at /\ intent' = intent /\ mints' = mints
      BY Zenon, <1>2 DEF findMintTransactionHash, databaseVars, positionVars, chainVars
    <2>2. /\ at'[r] = at[r] /\ seen'[r].mintTxHash = i
          /\ seen'[r].status = seen[r].status /\ seen'[r].attempt = seen[r].attempt
          /\ pc'[r] = IF seen[r].status = "none" THEN "create_adopted" ELSE "record_adopted"
      BY Zenon, <2>1 DEF Goto, TypeOK, Intent
    <2>3. OnlyRun(r)
      BY Zenon, <2>1, <2>2 DEF OnlyRun, Goto, TypeOK
    <2>4. CopyInv(r) /\ pc[r] = "logs"
      BY Zenon DEF Knowledge, findMintTransactionHash
    <2>5. i \in Minted(at[r])'
      BY Zenon, <2>1 DEF Minted
    <2> QED
      BY Zenon, <2>1, <2>2, <2>3, <2>4, <2>5 DEF CopyInv, Reading
  <1> QED
    BY Zenon, <1>1, <1>2

\* The step that reads a receipt: after a revert no mint is or can become a success, as
\* long as the attempt lasts.
LEMMA ReceiptKnows ==
  ASSUME TypeOK, Knowledge, NEW r \in Runs, resolveSentMint(r)
  PROVE  CopyInv(r)' /\ OnlyRun(r)
  <1>1. CASE Throw(r)
    BY Zenon, <1>1, ThrowIsOutside
  <1>2. CASE ~Throw(r)
    <2> DEFINE c == at[r]
               h == seen[r].mintTxHash
    <2>1. /\ c \in Contributors /\ RowInv(c) /\ CopyInv(r)
          /\ pc[r] \in {"receipt", "receipt_minted"}
      BY Zenon DEF resolveSentMint, TypeOK, Knowledge
    <2>2. /\ at' = at /\ seen' = seen /\ intent' = intent /\ mints' = mints
      BY <1>2, Zenon DEF resolveSentMint, databaseVars, positionVars, chainVars
    <2>3. /\ seen[r].status = "mint_sent" /\ seen[r].attempt >= 1 /\ h \in DOMAIN mints[c]
          /\ seen[r].attempt <= intent[c].attempt
      BY <2>1, Zenon DEF CopyInv, Reading
    <2>4. CASE mints[c][h] = "success"
      <3>1. pc' = [pc EXCEPT ![r] = "record"]
        BY Zenon, <1>2, <2>4 DEF resolveSentMint, Goto
      <3>2. h \in Minted(c)'
        BY <2>2, <2>3, <2>4, Zenon DEF Minted
      <3> QED
        BY Zenon, <2>2, <2>3, <3>1, <3>2, CopyAtRecord DEF OnlyRun, TypeOK
    <2>5. CASE mints[c][h] = "reverted"
      <3>1. pc' = [pc EXCEPT ![r] = "authorize"]
        BY Zenon, <1>2, <2>5 DEF resolveSentMint, Goto
      <3>2. pc'[r] = "authorize" /\ OnlyRun(r)
        BY Zenon, <2>2, <3>1 DEF OnlyRun, TypeOK
      <3>3. ASSUME intent[c].attempt = seen[r].attempt
            PROVE  Live(c)' = {} /\ NobodySends(c)'
        <4>1. intent[c].status \in {"mint_sent", "recorded"} /\ intent[c].mintTxHash = h
          BY <2>1, <2>3, <3>3, Zenon DEF CopyInv
        <4>2. Live(c) \subseteq {h} /\ h \notin Live(c)
          BY <2>1, <2>5, <4>1, Zenon DEF RowInv, Live
        <4>3. NobodySends(c)
          BY <2>1, <4>1, SenderKnows, Zenon
        <4> QED
          BY <2>2, <3>2, <4>2, <4>3, Zenon DEF Live, NobodySends, OnlyRun
      <3> QED
        BY Zenon, <2>2, <2>3, <3>2, <3>3, CopyAtAuthorize
    <2> QED
      BY Zenon, <1>2, <2>4, <2>5 DEF resolveSentMint
  <1> QED
    BY Zenon, <1>1, <1>2

\* Authorizing the holder changes nothing a run knows.
LEMMA AuthorizeKnows ==
  ASSUME TypeOK, Knowledge, NEW r \in Runs, ensureHolderAuthorized(r)
  PROVE  CopyInv(r)' /\ OnlyRun(r)
  <1>1. /\ at' = at /\ seen' = seen /\ intent' = intent /\ mints' = mints /\ pc[r] = "authorize"
        /\ pc' = [pc EXCEPT ![r] = IF seen[r].status = "none" THEN "create" ELSE "restart"]
    BY Zenon DEF ensureHolderAuthorized, databaseVars, positionVars, Goto
  <1>2. OnlyRun(r) /\ pc'[r] = IF seen[r].status = "none" THEN "create" ELSE "restart"
    BY Zenon, <1>1 DEF OnlyRun, TypeOK
  <1>3. Live(at[r])' = Live(at[r]) /\ (NobodySends(at[r]) => NobodySends(at[r])')
    BY <1>1, <1>2, Zenon DEF Live, NobodySends, OnlyRun
  <1>4. /\ seen[r].attempt <= intent[at[r]].attempt
        /\ seen[r].status = "none" => seen[r].attempt = 0
        /\ seen[r].status # "none" => seen[r].attempt >= 1
        /\ intent[at[r]].attempt = seen[r].attempt => Live(at[r]) = {} /\ NobodySends(at[r])
    BY Zenon, <1>1 DEF Knowledge, CopyInv, Reading
  <1> QED
    BY Zenon, <1>1, <1>2, <1>3, <1>4, CopyAtMint

\* The end of the wait: a receipt of success is of a mint that succeeded.
LEMMA WaitKnows ==
  ASSUME TypeOK, Knowledge, NEW r \in Runs, waitForTransactionReceipt(r)
  PROVE  CopyInv(r)' /\ OnlyRun(r)
  <1>1. CASE Throw(r)
    BY Zenon, <1>1, ThrowIsOutside
  <1>2. CASE ~Throw(r)
    <2>1. /\ at' = at /\ seen' = seen /\ intent' = intent /\ mints' = mints /\ pc[r] = "wait"
          /\ pc' = [pc EXCEPT ![r] = "record"] /\ mints[at[r]][seen[r].mintTxHash] = "success"
      BY Zenon, <1>2 DEF waitForTransactionReceipt, databaseVars, positionVars, chainVars, Goto
    <2>2. seen[r].mintTxHash \in Minted(at[r])'
      BY Zenon, <2>1 DEF Knowledge, CopyInv, Minted
    <2>3. seen[r].attempt <= intent[at[r]].attempt
      BY Zenon, <2>1 DEF Knowledge, CopyInv, Reading
    <2> QED
      BY Zenon, <2>1, <2>2, <2>3, CopyAtRecord DEF OnlyRun, TypeOK
  <1> QED
    BY Zenon, <1>1, <1>2

\* Every step keeps what the rows and the runs imply.
LEMMA NextKnows == TypeOK /\ BalanceCounts /\ Knowledge /\ [Next]_vars => Knowledge'
  <1> SUFFICES ASSUME TypeOK, BalanceCounts, Knowledge, [Next]_vars PROVE Knowledge'
    OBVIOUS
  <1> USE DEF databaseVars, positionVars, chainVars, runVars
  <1>0. CASE UNCHANGED <<intent, graceOver, positions, mints, pc, at, seen>>
    <2>1. \A c \in Contributors : NobodySends(c)' = NobodySends(c)
      BY Zenon, <1>0 DEF NobodySends
    <2>2. \A s \in Runs : Stays(s) /\ NoNewSender(at[s])
      BY Zenon, <1>0 DEF Stays, NoNewSender
    <2>3. ASSUME NEW c \in Contributors PROVE RowInv(c)'
      BY Zenon, <1>0, <2>1, RowFrame DEF Knowledge
    <2>4. ASSUME NEW s \in Runs PROVE CopyInv(s)'
      BY Zenon, <1>0, <2>2, CopyFrame DEF Knowledge
    <2> QED
      BY Zenon, <2>3, <2>4 DEF Knowledge
  <1>a. ASSUME NEW r \in Runs, OnlyRun(r), CopyInv(r)',
               UNCHANGED <<intent, graceOver, positions, mints>>
        PROVE  Knowledge'
    BY Zenon, <1>a, QuietStep DEF Knowledge
  <1>1. ASSUME NEW r \in Runs, StartRun(r) PROVE Knowledge'
    <2>1. pc'[r] = "next" /\ OnlyRun(r)
      BY Zenon, <1>1 DEF StartRun, Goto, TypeOK, OnlyRun
    <2> QED
      BY Zenon, <1>1, <1>a, <2>1, OutsideKnowsNothing DEF StartRun
  <1>2. ASSUME NEW r \in Runs, NEW c \in Contributors, hasPosition(r, c) PROVE Knowledge'
    <2>1. CASE Held(c)
      BY Zenon, <1>0, <1>2, <2>1 DEF hasPosition
    <2>2. CASE ~Held(c)
      <3>1. pc'[r] = "intent" /\ OnlyRun(r)
        BY Zenon, <1>2, <2>2 DEF hasPosition, Goto, TypeOK, OnlyRun
      <3> QED
        BY Zenon, <1>2, <1>a, <3>1, OutsideKnowsNothing DEF hasPosition
    <2> QED
      BY Zenon, <2>1, <2>2
  <1>3. ASSUME NEW r \in Runs, findEscrowMintIntent(r) PROVE Knowledge'
    BY <1>3, <1>a, ReadIntentKnows, Zenon DEF findEscrowMintIntent
  <1>4. ASSUME NEW r \in Runs, obtainConfirmedMint(r) PROVE Knowledge'
    BY <1>4, <1>a, BalanceKnows, ZenonT(60) DEF obtainConfirmedMint
  <1>5. ASSUME NEW r \in Runs, findMintTransactionHash(r) PROVE Knowledge'
    BY Zenon, <1>5, <1>a, LogsKnow DEF findMintTransactionHash
  <1>6. ASSUME NEW r \in Runs, recheckRecorded(r) PROVE Knowledge'
    <2>1. CASE Throw(r)
      BY Zenon, <1>6, <1>a, <2>1, ThrowIsOutside DEF recheckRecorded
    <2>2. CASE ~Throw(r)
      <3>1. pc'[r] = "next" /\ OnlyRun(r)
        BY Zenon, <1>6, <2>2 DEF recheckRecorded, Goto, TypeOK, OnlyRun
      <3> QED
        BY Zenon, <1>6, <1>a, <3>1, OutsideKnowsNothing DEF recheckRecorded
    <2> QED
      BY Zenon, <2>1, <2>2
  <1>7. ASSUME NEW r \in Runs, resolveSentMint(r) PROVE Knowledge'
    BY Zenon, <1>7, <1>a, ReceiptKnows DEF resolveSentMint
  <1>8. ASSUME NEW r \in Runs, ensureHolderAuthorized(r) PROVE Knowledge'
    BY Zenon, <1>8, <1>a, AuthorizeKnows DEF ensureHolderAuthorized
  <1>9. ASSUME NEW r \in Runs, sendMint(r) PROVE Knowledge'
    <2>c. PICK c \in Contributors : c = at[r]
      BY Zenon DEF TypeOK
    <2>n. PICK n : n = Len(mints[c]) + 1
      OBVIOUS
    <2>1. /\ pc[r] = "send" /\ mints' = [mints EXCEPT ![at[r]] = Append(@, "pending")]
          /\ UNCHANGED <<intent, graceOver, positions, at>> /\ pc'[r] = "record_sent"
          /\ seen'[r].mintTxHash = n /\ seen'[r].attempt = seen[r].attempt /\ OnlyRun(r)
      BY Zenon, <1>9, <2>c, <2>n DEF sendMint, Goto, TypeOK, Intent, OnlyRun
    <2>2. /\ \A d \in Contributors : RowInv(d)'
          /\ \A s \in Runs \ {r} : CopyInv(s)'
          /\ Live(at[r])' = {Len(mints[at[r]]) + 1}
          /\ Len(mints[at[r]]) + 1 \in DOMAIN mints'[at[r]]
          /\ NobodySends(at[r])'
      BY <2>1, SendKnows, ZenonT(60)
    <2>3. intent[c].attempt = seen[r].attempt /\ intent[c].status = "sending"
      BY Zenon, <2>1, <2>c DEF Knowledge, CopyInv
    <2>4. intent[c].attempt >= 1 /\ intent[c].attempt \in Nat
      BY Zenon, <2>3 DEF Knowledge, RowInv, TypeOK, Intent
    <2>5. /\ pc'[r] = "record_sent" /\ at'[r] = c /\ seen'[r].mintTxHash = n
          /\ seen'[r].attempt = intent'[c].attempt /\ intent'[c].attempt >= 1 /\ intent'[c].attempt \in Nat
          /\ Live(c)' = {n} /\ n \in DOMAIN mints'[c] /\ NobodySends(c)'
      BY Zenon, <2>c, <2>n, <2>1, <2>2, <2>3, <2>4
    <2>6. CopyInv(r)'
      BY SMT, <2>5 DEF CopyInv, Reading
    <2> QED
      BY Zenon, <2>2, <2>6 DEF Knowledge
  <1>10. ASSUME NEW r \in Runs, SendMintLost(r) PROVE Knowledge'
    <2>1. CopyInv(r)' /\ OnlyRun(r) /\ at' = at
      BY <1>10, ThrowIsOutside, ZenonT(60) DEF SendMintLost, Throw
    <2>2. /\ pc[r] = "send" /\ mints' = [mints EXCEPT ![at[r]] = Append(@, "pending")]
          /\ UNCHANGED <<intent, graceOver, positions>>
      BY Zenon, <1>10 DEF SendMintLost
    <2>3. (\A c \in Contributors : RowInv(c)') /\ (\A s \in Runs \ {r} : CopyInv(s)')
      BY <2>1, <2>2, SendKnows, ZenonT(60)
    <2> QED
      BY Zenon, <2>1, <2>3 DEF Knowledge
  <1>11. ASSUME NEW r \in Runs, waitForTransactionReceipt(r) PROVE Knowledge'
    BY Zenon, <1>11, <1>a, WaitKnows DEF waitForTransactionReceipt
  <1>12. ASSUME NEW r \in Runs, withdrawRaised(r) PROVE Knowledge'
    BY Zenon, <1>12, <1>a, ThrowIsOutside DEF withdrawRaised
  <1>13. ASSUME NEW r \in Runs, RunStops(r) PROVE Knowledge'
    BY Zenon, <1>13, <1>a, ThrowIsOutside DEF RunStops
  <1> QED
    BY Zenon, <1>0, <1>1, <1>2, <1>3, <1>4, <1>5, <1>6, <1>7, <1>8, <1>9, <1>10, <1>11, <1>12, <1>13,
       CreateKnows, RestartKnows, RecordSentKnows, RecordPositionKnows, SettleKnows, GraceKnows,
       SMTT(20)
       DEF Next, RunStep, vars, SweptByOther, ReservationFinalized

-----------------------------------------------------------------------------
(* Types.                                                                  *)

\* Init establishes the type invariant.
LEMMA InitType == Init => TypeOK
  <1> SUFFICES ASSUME Init PROVE TypeOK
    OBVIOUS
  <1>1. NoIntent \in Intent
    BY Zenon DEF NoIntent, Intent, Statuses
  <1>2. mints \in [Contributors -> Seq(TxStates)]
    <2>1. << >> \in Seq(TxStates) /\ <<"success">> \in Seq(TxStates)
      BY DEF TxStates
    <2> QED
      BY <2>1, Zenon DEF Init
  <1>3. failures \in 0..MaxFailures
    BY FailuresAssumption DEF Init
  <1> QED
    BY Zenon, <1>1, <1>2, <1>3 DEF Init, TypeOK, Labels

\* A run that gives up stays within the types.
LEMMA ThrowType ==
  ASSUME TypeOK, NEW r \in Runs, Throw(r)
  PROVE  /\ pc' \in [Runs -> Labels] /\ todo' \in [Runs -> SUBSET Contributors]
         /\ at' \in [Runs -> Contributors] /\ seen' \in [Runs -> Intent]
  <1>1. NoIntent \in Intent
    BY Zenon DEF NoIntent, Intent, Statuses
  <1> QED
    BY Zenon, <1>1 DEF TypeOK, Throw, Goto, Labels

\* Every step of a run, of the chain and of the clock preserves the type invariant.
LEMMA NextType == TypeOK /\ [Next]_vars => TypeOK'
  <1> SUFFICES ASSUME TypeOK, [Next]_vars PROVE TypeOK'
    OBVIOUS
  <1> USE DEF databaseVars, positionVars, chainVars, runVars
  <1>0. CASE UNCHANGED vars
    BY Zenon, <1>0 DEF TypeOK, vars
  <1>1. ASSUME NEW r \in Runs, StartRun(r) PROVE TypeOK'
    BY Zenon, <1>1 DEF StartRun, Goto, TypeOK, Labels
  <1>2. ASSUME NEW r \in Runs, NEW c \in Contributors, hasPosition(r, c) PROVE TypeOK'
    <2>1. CASE Held(c)
      BY Zenon, <1>2, <2>1 DEF hasPosition, TypeOK
    <2>2. CASE ~Held(c)
      BY <1>2, <2>2, ZenonT(60) DEF hasPosition, Goto, TypeOK, Labels
    <2> QED
      BY Zenon, <2>1, <2>2
  <1>3. ASSUME NEW r \in Runs, findEscrowMintIntent(r) PROVE TypeOK'
    BY Zenon, <1>3 DEF findEscrowMintIntent, Goto, TypeOK, Labels
  <1>4. ASSUME NEW r \in Runs, obtainConfirmedMint(r) PROVE TypeOK'
    <2>1. CASE Throw(r)
      BY Zenon, <1>4, <2>1, ThrowType DEF obtainConfirmedMint, TypeOK
    <2>2. CASE /\ UNCHANGED <<todo, at, seen>>
               /\ \E label \in Labels : Goto(r, label)
      BY Zenon, <1>4, <2>2 DEF obtainConfirmedMint, TypeOK, Goto
    <2>3. seen[r].status \in Statuses
      BY Zenon DEF TypeOK, Intent
    <2> QED
      BY <1>4, <2>1, <2>2, <2>3, ZenonT(60) DEF obtainConfirmedMint, Labels, Statuses
  <1>5. ASSUME NEW r \in Runs, findMintTransactionHash(r) PROVE TypeOK'
    <2>1. CASE Throw(r)
      BY Zenon, <1>5, <2>1, ThrowType DEF findMintTransactionHash, TypeOK
    <2>2. ASSUME NEW i \in Minted(at[r]),
                 seen' = [seen EXCEPT ![r].mintTxHash = i],
                 Goto(r, IF seen[r].status = "none" THEN "create_adopted" ELSE "record_adopted"),
                 UNCHANGED <<todo, at>>
          PROVE  TypeOK'
      <3>1. i \in Nat
        BY Zenon, <2>2, MintPlaces DEF TypeOK
      <3>2. seen' \in [Runs -> Intent]
        BY <2>2, <3>1, Zenon DEF TypeOK, Intent
      <3> QED
        BY Zenon, <1>5, <2>2, <3>2 DEF findMintTransactionHash, Goto, TypeOK, Labels
    <2> QED
      BY Zenon, <1>5, <2>1, <2>2 DEF findMintTransactionHash
  <1>6. ASSUME NEW r \in Runs, recheckRecorded(r) PROVE TypeOK'
    <2>1. CASE Throw(r)
      BY Zenon, <1>6, <2>1, ThrowType DEF recheckRecorded, TypeOK
    <2> QED
      BY <1>6, <2>1, Zenon DEF recheckRecorded, Goto, TypeOK, Labels
  <1>7. ASSUME NEW r \in Runs, resolveSentMint(r) PROVE TypeOK'
    <2>1. CASE Throw(r)
      BY Zenon, <1>7, <2>1, ThrowType DEF resolveSentMint, TypeOK
    <2>2. CASE UNCHANGED <<todo, at, seen>> /\ (Goto(r, "record") \/ Goto(r, "authorize"))
      BY <1>7, <2>2, ZenonT(60) DEF resolveSentMint, Goto, TypeOK, Labels
    <2> QED
      BY Zenon, <1>7, <2>1, <2>2 DEF resolveSentMint
  <1>8. ASSUME NEW r \in Runs, ensureHolderAuthorized(r) PROVE TypeOK'
    BY Zenon, <1>8 DEF ensureHolderAuthorized, Goto, TypeOK, Labels
  <1>9. ASSUME NEW r \in Runs, createEscrowMintIntent(r) PROVE TypeOK'
    <2>1. CASE Throw(r) /\ UNCHANGED <<intent, graceOver>>
      BY Zenon, <1>9, <2>1, ThrowType DEF createEscrowMintIntent, TypeOK
    <2> DEFINE row == [status |-> "sending", attempt |-> 1, mintTxHash |-> 0]
    <2>2. CASE intent[at[r]].status = "none"
      <3>1. row \in Intent /\ [row EXCEPT !.mintTxHash = seen[r].mintTxHash] \in Intent
        BY Zenon DEF TypeOK, Intent, Statuses
      <3>2. /\ intent' = [intent EXCEPT ![at[r]] = row]
            /\ graceOver' = [graceOver EXCEPT ![at[r]] = FALSE]
            /\ seen' = [seen EXCEPT ![r] = [row EXCEPT !.mintTxHash = seen[r].mintTxHash]]
            /\ Goto(r, IF pc[r] = "create" THEN "send" ELSE "record_adopted")
            /\ UNCHANGED <<todo, at, positionVars, chainVars, failures>>
        BY Zenon, <1>9, <2>2 DEF createEscrowMintIntent
      <3> HIDE DEF row
      <3> QED
        BY Zenon, <3>1, <3>2 DEF Goto, TypeOK, Labels
    <2> QED
      BY Zenon, <1>9, <2>1, <2>2 DEF createEscrowMintIntent
  <1>10. ASSUME NEW r \in Runs, restartEscrowMintAttempt(r) PROVE TypeOK'
    <2>1. CASE Throw(r) /\ UNCHANGED <<intent, graceOver>>
      BY Zenon, <1>10, <2>1, ThrowType DEF restartEscrowMintAttempt, attemptIsCurrent, restartedRow, TypeOK
    <2> DEFINE row == [status |-> "sending", attempt |-> seen[r].attempt + 1, mintTxHash |-> 0]
    <2>2. CASE /\ intent' = [intent EXCEPT ![at[r]] = row]
               /\ graceOver' = [graceOver EXCEPT ![at[r]] = FALSE]
               /\ seen' = [seen EXCEPT ![r] = row]
               /\ Goto(r, "send")
               /\ UNCHANGED <<todo, at>>
      <3>1. row \in Intent
        BY DEF TypeOK, Intent, Statuses
      <3> HIDE DEF row
      <3> QED
        BY Zenon, <1>10, <2>2, <3>1 DEF restartEscrowMintAttempt, attemptIsCurrent, restartedRow, Goto, TypeOK, Labels
    <2> QED
      BY Zenon, <1>10, <2>1, <2>2 DEF restartEscrowMintAttempt, attemptIsCurrent, restartedRow
  <1>11. ASSUME NEW r \in Runs, sendMint(r) PROVE TypeOK'
    <2>1. mints' \in [Contributors -> Seq(TxStates)]
      BY <1>11 DEF sendMint, TypeOK, TxStates
    <2>2. at[r] \in Contributors /\ Len(mints[at[r]]) + 1 \in Nat
      BY MintPlaces DEF TypeOK
    <2>3. seen' \in [Runs -> Intent]
      <3> DEFINE place == Len(mints[at[r]]) + 1
      <3>1. place \in Nat /\ seen' = [seen EXCEPT ![r].mintTxHash = place]
        BY Zenon, <1>11, <2>2 DEF sendMint
      <3> HIDE DEF place
      <3> QED
        BY <3>1, ZenonT(60) DEF TypeOK, Intent
    <2> QED
      BY Zenon, <1>11, <2>1, <2>3 DEF sendMint, Goto, TypeOK, Labels
  <1>12. ASSUME NEW r \in Runs, SendMintLost(r) PROVE TypeOK'
    <2>1. mints' \in [Contributors -> Seq(TxStates)]
      BY <1>12 DEF SendMintLost, TypeOK, TxStates
    <2>2. failures' \in 0..MaxFailures
      BY <1>12, FailuresAssumption DEF SendMintLost, TypeOK
    <2> QED
      BY Zenon, <1>12, <2>1, <2>2, ThrowType DEF SendMintLost, TypeOK
  <1>13. ASSUME NEW r \in Runs, recordEscrowMintSent(r) PROVE TypeOK'
    <2>1. CASE Throw(r) /\ UNCHANGED intent
      BY Zenon, <1>13, <2>1, ThrowType DEF recordEscrowMintSent, TypeOK
    <2>2. CASE UNCHANGED <<todo, at, seen>> /\ (Goto(r, "wait") \/ Goto(r, "record"))
      <3>1. CASE UNCHANGED intent
        BY <1>13, <2>2, <3>1, ZenonT(60) DEF recordEscrowMintSent, Goto, TypeOK, Labels
      <3>2. CASE intent' = [intent EXCEPT ![at[r]] =
                              [@ EXCEPT !.status = "mint_sent", !.mintTxHash = seen[r].mintTxHash]]
        <4> DEFINE row == [intent[at[r]] EXCEPT !.status = "mint_sent", !.mintTxHash = seen[r].mintTxHash]
        <4>1. row \in Intent
          BY ZenonT(60) DEF TypeOK, Intent, Statuses
        <4>2. intent' = [intent EXCEPT ![at[r]] = row]
          BY Zenon, <3>2
        <4> HIDE DEF row
        <4>3. intent' \in [Contributors -> Intent]
          BY Zenon, <4>1, <4>2 DEF TypeOK
        <4> QED
          BY Zenon, <1>13, <2>2, <4>3 DEF recordEscrowMintSent, Goto, TypeOK, Labels
      <3> QED
        BY Zenon, <1>13, <2>1, <3>1, <3>2 DEF recordEscrowMintSent
    <2> QED
      BY Zenon, <1>13, <2>1, <2>2 DEF recordEscrowMintSent
  <1>14. ASSUME NEW r \in Runs, waitForTransactionReceipt(r) PROVE TypeOK'
    <2>1. CASE Throw(r)
      BY Zenon, <1>14, <2>1, ThrowType DEF waitForTransactionReceipt, TypeOK
    <2> QED
      BY <1>14, <2>1, ZenonT(60) DEF waitForTransactionReceipt, Goto, TypeOK, Labels
  <1>15. ASSUME NEW r \in Runs, recordEscrowMintedPosition(r) PROVE TypeOK'
    <2>1. CASE Throw(r) /\ UNCHANGED <<intent, positions>>
      BY Zenon, <1>15, <2>1, ThrowType DEF recordEscrowMintedPosition, TypeOK
    <2>2. CASE UNCHANGED <<intent, positions, todo, at, seen>> /\ Goto(r, "next")
      BY Zenon, <1>15, <2>2 DEF recordEscrowMintedPosition, Goto, TypeOK, Labels
    <2>3. CASE /\ intent' = [intent EXCEPT ![at[r]].status = "recorded"]
               /\ positions' = positions \cup {at[r]}
               /\ Goto(r, "next") /\ UNCHANGED <<todo, at, seen>>
      <3>1. intent' \in [Contributors -> Intent]
        <4> DEFINE row == [intent[at[r]] EXCEPT !.status = "recorded"]
        <4>1. row \in Intent
          BY Zenon DEF TypeOK, Intent, Statuses
        <4>2. intent' = [intent EXCEPT ![at[r]] = row]
          BY Zenon, <2>3
        <4> HIDE DEF row
        <4> QED
          BY Zenon, <4>1, <4>2 DEF TypeOK
      <3> QED
        BY Zenon, <1>15, <2>3, <3>1 DEF recordEscrowMintedPosition, Goto, TypeOK, Labels
    <2> QED
      BY Zenon, <1>15, <2>1, <2>2, <2>3 DEF recordEscrowMintedPosition
  <1>16. ASSUME NEW r \in Runs, withdrawRaised(r) PROVE TypeOK'
    BY Zenon, <1>16, ThrowType DEF withdrawRaised, TypeOK
  <1>17. ASSUME NEW r \in Runs, RunStops(r) PROVE TypeOK'
    <2>1. failures' \in 0..MaxFailures
      BY <1>17, FailuresAssumption DEF RunStops, TypeOK
    <2> QED
      BY Zenon, <1>17, <2>1, ThrowType DEF RunStops, TypeOK
  <1>18. ASSUME NEW c \in Contributors, SettleMint(c) PROVE TypeOK'
    <2>1. failures' \in 0..MaxFailures
      BY <1>18, FailuresAssumption DEF SettleMint, TypeOK
    <2>2. PICK i \in Unsettled(c), outcome \in TxStates : mints' = [mints EXCEPT ![c][i] = outcome]
      BY Zenon, <1>18 DEF SettleMint, TxStates
    <2>3. mints' \in [Contributors -> Seq(TxStates)]
      BY <2>2 DEF TypeOK, Unsettled
    <2> QED
      BY Zenon, <1>18, <2>1, <2>3 DEF SettleMint, TypeOK
  <1>19. ASSUME NEW c \in Contributors, GraceElapses(c) PROVE TypeOK'
    BY Zenon, <1>19 DEF GraceElapses, TypeOK
  <1>20. CASE SweptByOther
    BY Zenon, <1>20 DEF SweptByOther, TypeOK
  <1>21. ASSUME NEW c \in Contributors, ReservationFinalized(c) PROVE TypeOK'
    BY Zenon, <1>21 DEF ReservationFinalized, TypeOK
  <1> QED
    BY Zenon, <1>0, <1>1, <1>2, <1>3, <1>4, <1>5, <1>6, <1>7, <1>8, <1>9, <1>10, <1>11, <1>12,
       <1>13, <1>14, <1>15, <1>16, <1>17, <1>18, <1>19, <1>20, <1>21 DEF Next, RunStep

-----------------------------------------------------------------------------
(* The theorems.                                                           *)

\* IInv holds at the start, a mint of the version before intents existed included.
LEMMA InitIInv == Init => IInv
  <1> SUFFICES ASSUME Init PROVE IInv
    OBVIOUS
  <1>1. TypeOK
    BY Zenon, InitType
  <1>2. ASSUME NEW c \in Contributors PROVE RowInv(c)
    <2>1. mints[c] = << >> \/ mints[c] = <<"success">>
      BY Zenon DEF Init
    <2>2. DOMAIN mints[c] \subseteq {1} /\ \A i \in DOMAIN mints[c] : mints[c][i] = "success"
      BY SMTT(60), <2>1
    <2> QED
      BY Zenon, <2>2 DEF Init, RowInv, NoIntent, Live, Minted, Unsettled
  <1>3. ASSUME NEW r \in Runs PROVE CopyInv(r) /\ WalkInv(r)
    BY Zenon DEF Init, CopyInv, WalkInv, Reading
  <1> QED
    BY Zenon, <1>1, <1>2, <1>3 DEF IInv, SweptAfterMints, Init

\* What a step may do to the intent of a contributor.
Kept(c) ==
  /\ intent'[c].attempt >= intent[c].attempt
  /\ intent[c].mintTxHash # 0 /\ intent'[c].attempt = intent[c].attempt
       => intent'[c].mintTxHash = intent[c].mintTxHash
  /\ intent[c].status = "recorded" => intent'[c] = intent[c]

LEMMA NextKeepsHashes ==
  ASSUME IInv, [Next]_vars, NEW c \in Contributors
  PROVE  Kept(c)
  <1> USE DEF Kept
  <1>1. TypeOK /\ RowInv(c) /\ intent[c] \in Intent /\ \A r \in Runs : seen[r] \in Intent
    BY Zenon DEF IInv, TypeOK
  <1>2. CASE intent'[c] = intent[c]
    BY SMTT(60), <1>1, <1>2 DEF Intent
  <1>3. ASSUME NEW r \in Runs, createEscrowMintIntent(r), intent'[c] # intent[c] PROVE Kept(c)
    <2>1. intent'[c].attempt = 1 /\ intent[c].status = "none"
      BY SMTT(60), <1>1, <1>3 DEF createEscrowMintIntent, TypeOK
    <2> QED
      BY <1>1, <2>1 DEF RowInv
  <1>4. ASSUME NEW r \in Runs, restartEscrowMintAttempt(r), intent'[c] # intent[c] PROVE Kept(c)
    <2>1. intent'[c].attempt = intent[c].attempt + 1 /\ intent[c].status # "recorded"
      BY SMTT(60), <1>1, <1>4 DEF restartEscrowMintAttempt, attemptIsCurrent, restartedRow, TypeOK
    <2>2. intent[c].attempt \in Nat
      BY Zenon, <1>1 DEF Intent
    <2> QED
      BY SMTT(60), <2>1, <2>2
  <1>5. ASSUME NEW r \in Runs, recordEscrowMintSent(r), intent'[c] # intent[c] PROVE Kept(c)
    <2>1. /\ at[r] = c /\ intent[c].status = "sending"
          /\ intent' = [intent EXCEPT ![c] =
                          [@ EXCEPT !.status = "mint_sent", !.mintTxHash = seen[r].mintTxHash]]
      BY <1>1, <1>5, ZenonT(60) DEF recordEscrowMintSent, TypeOK
    <2>2. intent'[c].attempt = intent[c].attempt
      BY Zenon, <1>1, <2>1 DEF TypeOK, Intent
    <2>3. intent[c].attempt \in Nat /\ intent[c].mintTxHash = 0
      BY Zenon, <1>1, <2>1 DEF Intent, RowInv
    <2> QED
      BY <2>1, <2>2, <2>3
  <1>6. ASSUME NEW r \in Runs, recordEscrowMintedPosition(r), intent'[c] # intent[c] PROVE Kept(c)
    <2>1. /\ at[r] = c /\ intent[c].status = "mint_sent"
          /\ intent' = [intent EXCEPT ![c].status = "recorded"]
      BY Zenon, <1>1, <1>6 DEF recordEscrowMintedPosition, TypeOK
    <2>2. intent'[c].attempt = intent[c].attempt /\ intent'[c].mintTxHash = intent[c].mintTxHash
      BY Zenon, <1>1, <2>1 DEF TypeOK, Intent
    <2>3. intent[c].attempt \in Nat
      BY Zenon, <1>1 DEF Intent
    <2> QED
      BY SMTT(60), <2>1, <2>2, <2>3
  <1> HIDE DEF Kept
  <1> QED
    BY Zenon, <1>2, <1>3, <1>4, <1>5, <1>6, OthersLeaveRows DEF Writing

INSTANCE FiniteSetTheorems

\* The mints of a contributor are finitely many, so that none of them counts as zero
\* only when there is none.
LEMMA ZeroBalance == TypeOK => BalanceCounts
  <1> SUFFICES ASSUME TypeOK, NEW c \in Contributors, Cardinality(Minted(c)) = 0
               PROVE  Minted(c) = {}
    BY Zenon DEF BalanceCounts
  <1>1. IsFiniteSet(1..Len(mints[c]))
    BY MintPlaces, FS_Interval
  <1>2. IsFiniteSet(Minted(c))
    BY Zenon, <1>1, MintPlaces, FS_Subset DEF Minted
  <1> QED
    BY Zenon, <1>2, FS_EmptySet

\* IInv is inductive.
THEOREM EscrowInvariant == Spec => []IInv
  <1>1. Init => IInv
    BY Zenon, InitIInv
  <1>2. IInv /\ [Next]_vars => IInv'
    BY Zenon, NextType, ZeroBalance, NextKnows, NextWalks DEF IInv, Knowledge
  <1> QED
    BY <1>1, <1>2, PTL DEF Spec

\* Every variable keeps its type, whatever the constants are.
THEOREM EscrowTypeCorrect == Spec => []TypeOK
  <1>1. IInv => TypeOK
    BY Zenon DEF IInv
  <1> QED
    BY <1>1, EscrowInvariant, PTL

\* No contributor is minted twice, for any number of contributors, overlapping runs and
\* failures, under the assumption of ESCROW_MINT_IN_FLIGHT_GRACE_MS.
THEOREM NoDoubleMint == Spec => []MintedAtMostOnce
  <1>1. IInv => MintedAtMostOnce
    BY Zenon, LiveParts DEF IInv, RowInv, MintedAtMostOnce
  <1> QED
    BY <1>1, EscrowInvariant, PTL

\* A position stands for a mint that succeeded, and an intent is recorded exactly when
\* its position exists.
THEOREM PositionsMinted == Spec => []PositionsAreMinted
  <1>1. IInv => PositionsAreMinted
    BY Zenon DEF IInv, RowInv, PositionsAreMinted
  <1> QED
    BY <1>1, EscrowInvariant, PTL

\* The job sweeps the escrow only after every contributor has a position.
THEOREM SweepComesLast == Spec => []SweptAfterMints
  <1>1. IInv => SweptAfterMints
    BY Zenon DEF IInv
  <1> QED
    BY <1>1, EscrowInvariant, PTL

\* The attempt only grows, a recorded hash lasts as long as its attempt, and a recorded
\* intent is final.
THEOREM RecordedHashesKept == Spec => HashesAreKept
  <1>1. IInv /\ [Next]_vars => [\A c \in Contributors : Kept(c)]_vars
    BY Zenon, NextKeepsHashes
  <1> QED
    BY <1>1, EscrowInvariant, PTL DEF Spec, HashesAreKept, Kept

-----------------------------------------------------------------------------
(* Sums.                                                                   *)

INSTANCE FiniteSetTheorems
INSTANCE Functions

Sum(f) == FoldFunction(+, 0, f)

Chosen(s) == CHOOSE x \in s : TRUE

Unfolds(g, f, T) ==
  g = [s \in SUBSET T |-> IF s = {} THEN 0 ELSE f[Chosen(s)] + g[s \ {Chosen(s)}]]

Total(f, T) == (CHOOSE g : Unfolds(g, f, T))[T]

LEMMA SumIsTotal == ASSUME NEW f PROVE Sum(f) = Total(f, DOMAIN f)
BY Zenon DEF Sum, FoldFunction, FoldFunctionOnSet, MapThenFoldSet, Total, Unfolds, Chosen

\* Among any parts of a finite set is one that none of the others is a part of.
LEMMA SmallestSubset ==
  ASSUME NEW S, IsFiniteSet(S), NEW B \in SUBSET (SUBSET S), B # {}
  PROVE  \E T \in B : \A U \in B : U \subseteq T => U = T
  <1>1. B \subseteq FiniteSubsetsOf(S)
    BY Zenon, FS_FiniteSubsetsOfFinite
  <1>2. PICK T \in B : \A U \in B : ~ (<<U, T>> \in StrictSubsetOrdering(S))
    BY Zenon, <1>1, WFMin, FS_StrictSubsetOrderingWellFounded
  <1>3. QED
    BY Zenon, <1>2 DEF StrictSubsetOrdering

\* The recursion of the fold has one solution, the totals of the parts of the set.
Solved(f, T) == \A g : Unfolds(g, f, T) <=> g = [s \in SUBSET T |-> Total(f, s)]

LEMMA ChosenIn == \A s : s # {} => Chosen(s) \in s
  BY Zenon DEF Chosen

LEMMA SolvedStep ==
  ASSUME NEW f, NEW T, \A U \in SUBSET T : U # T => Solved(f, U)
  PROVE  Solved(f, T)
  <1> DEFINE Rec(g, s) == IF s = {} THEN 0 ELSE f[Chosen(s)] + g[s \ {Chosen(s)}]
             tot(U) == [s \in SUBSET U |-> Total(f, s)]
             h == [s \in SUBSET T |-> Rec(tot(T), s)]
  <1>1. ASSUME NEW U \in SUBSET T, U # T
        PROVE  Total(f, U) = Rec(tot(T), U)
    <2>1. Unfolds(tot(U), f, U)
      BY Zenon, <1>1 DEF Solved
    <2>2. tot(U)[U] = Rec(tot(U), U)
      BY Zenon, <2>1 DEF Unfolds
    <2>3. U # {} => U \ {Chosen(U)} \in SUBSET U /\ U \ {Chosen(U)} \in SUBSET T
      BY Zenon
    <2>4. QED
      BY Zenon, <2>2, <2>3
  <1>2. ASSUME NEW g, Unfolds(g, f, T)
        PROVE  g = h
    <2>1. ASSUME NEW U \in SUBSET T, U # T
          PROVE  g[U] = Total(f, U)
      <3> DEFINE gU == [s \in SUBSET U |-> g[s]]
      <3>1. \A s \in SUBSET U : s \in SUBSET T /\ s \ {Chosen(s)} \in SUBSET U
        BY Zenon
      <3>2. \A s \in SUBSET U : gU[s] = Rec(gU, s)
        BY Zenon, <1>2, <3>1 DEF Unfolds
      <3>3. Unfolds(gU, f, U)
        BY Zenon, <3>2 DEF Unfolds
      <3>4. gU = tot(U)
        BY Zenon, <3>3, <2>1 DEF Solved
      <3>5. gU[U] = tot(U)[U]
        BY Zenon, <3>4
      <3>6. QED
        BY Zenon, <3>5
    <2>2. \A s \in SUBSET T : s # {} => s \ {Chosen(s)} \in SUBSET T /\ s \ {Chosen(s)} # T
      BY Zenon, ChosenIn
    <2>3. \A s \in SUBSET T : Rec(g, s) = Rec(tot(T), s)
      BY Zenon, <2>1, <2>2
    <2>4. g = [s \in SUBSET T |-> Rec(g, s)]
      BY Zenon, <1>2 DEF Unfolds
    <2>5. QED
      BY Zenon, <2>3, <2>4
  <1>3. Unfolds(h, f, T)
    <2>1. \A s \in SUBSET T : s # {} => s \ {Chosen(s)} \in SUBSET T /\ s \ {Chosen(s)} # T
      BY Zenon, ChosenIn
    <2>2. \A U \in SUBSET T : U # T => h[U] = tot(T)[U]
      BY Zenon, <1>1
    <2>3. \A s \in SUBSET T : Rec(h, s) = Rec(tot(T), s)
      BY Zenon, <2>1, <2>2
    <2>4. h = [s \in SUBSET T |-> Rec(h, s)]
      BY Zenon, <2>3
    <2>5. QED
      BY Zenon, <2>4 DEF Unfolds
  <1>4. Total(f, T) = h[T]
    BY Zenon, <1>2, <1>3 DEF Total
  <1>5. h = tot(T)
    BY Zenon, <1>1, <1>4
  <1>6. QED
    BY Zenon, <1>2, <1>3, <1>5 DEF Solved

LEMMA AllSolved ==
  ASSUME NEW f, NEW S, IsFiniteSet(S)
  PROVE  Solved(f, S)
  <1> DEFINE B == {T \in SUBSET S : ~Solved(f, T)}
  <1> SUFFICES ASSUME B # {} PROVE FALSE
    BY Zenon
  <1>0. B \in SUBSET (SUBSET S)
    BY Zenon
  <1>1. PICK T \in B : \A U \in B : U \subseteq T => U = T
    <2> HIDE DEF B
    <2> QED BY SMTT(60), <1>0, SmallestSubset
  <1>2. \A U \in SUBSET T : U # T => Solved(f, U)
    BY Zenon, <1>1
  <1>3. QED
    BY SMTT(60), <1>1, <1>2, SolvedStep

LEMMA TotalStep ==
  ASSUME NEW f, NEW T, IsFiniteSet(T)
  PROVE  Total(f, T) = IF T = {} THEN 0 ELSE f[Chosen(T)] + Total(f, T \ {Chosen(T)})
  <1> DEFINE tot == [s \in SUBSET T |-> Total(f, s)]
  <1>1. Unfolds(tot, f, T)
    BY Zenon, AllSolved DEF Solved
  <1>2. tot[T] = IF T = {} THEN 0 ELSE f[Chosen(T)] + tot[T \ {Chosen(T)}]
    BY Zenon, <1>1 DEF Unfolds
  <1>3. T \in SUBSET T /\ T \ {Chosen(T)} \in SUBSET T
    BY Zenon
  <1>4. QED
    BY Zenon, <1>2, <1>3

\* The total does not depend on the order in which the elements are taken.
Splits(f, T) ==
  /\ Total(f, T) \in Int
  /\ \A x \in T : Total(f, T) = f[x] + Total(f, T \ {x})

LEMMA TotalEmpty == ASSUME NEW f PROVE Total(f, {}) = 0
  BY Zenon, TotalStep, FS_EmptySet

LEMMA SplitsStep ==
  ASSUME NEW f, NEW T, IsFiniteSet(T), \A x \in T : f[x] \in Int,
         \A U \in SUBSET T : U # T => Splits(f, U)
  PROVE  Splits(f, T)
  <1>1. CASE T = {}
    BY SMTT(60), <1>1, TotalEmpty DEF Splits
  <1>2. CASE T # {}
    <2> DEFINE y == Chosen(T)
    <2>0. y \in T
      BY Zenon, <1>2, ChosenIn
    <2>1. Total(f, T) = f[y] + Total(f, T \ {y})
      BY Zenon, <1>2, TotalStep
    <2> HIDE DEF y
    <2>2. Splits(f, T \ {y})
      BY Zenon, <2>0
    <2>3. Total(f, T \ {y}) \in Int /\ f[y] \in Int
      BY Zenon, <2>0, <2>2 DEF Splits
    <2>4. ASSUME NEW x \in T, x # y
          PROVE  Total(f, T) = f[x] + Total(f, T \ {x})
      <3> DEFINE r == Total(f, (T \ {x}) \ {y})
      <3>1. Splits(f, T \ {x}) /\ Splits(f, (T \ {x}) \ {y})
        BY Zenon, <2>0
      <3>2. (T \ {x}) \ {y} = (T \ {y}) \ {x}
        BY Zenon
      <3>3. x \in T \ {y} /\ y \in T \ {x}
        BY Zenon, <2>0, <2>4
      <3>4. Total(f, T \ {y}) = f[x] + r
        BY Zenon, <2>2, <3>2, <3>3 DEF Splits
      <3>5. Total(f, T \ {x}) = f[y] + r
        BY Zenon, <3>1, <3>3 DEF Splits
      <3>6. r \in Int /\ f[x] \in Int
        BY Zenon, <3>1 DEF Splits
      <3> HIDE DEF r
      <3>7. QED
        BY SMTT(60), <2>1, <2>3, <3>4, <3>5, <3>6
    <2>5. Total(f, T) \in Int
      BY SMTT(60), <2>1, <2>3
    <2>6. \A x \in T : Total(f, T) = f[x] + Total(f, T \ {x})
      BY Zenon, <2>1, <2>4
    <2>7. QED
      BY Zenon, <2>5, <2>6 DEF Splits
  <1>3. QED
    BY Zenon, <1>1, <1>2

LEMMA AllSplit ==
  ASSUME NEW f, NEW S, IsFiniteSet(S), \A x \in S : f[x] \in Int
  PROVE  Splits(f, S)
  <1> DEFINE B == {T \in SUBSET S : ~Splits(f, T)}
  <1> SUFFICES ASSUME B # {} PROVE FALSE
    BY Zenon
  <1>0. B \in SUBSET (SUBSET S)
    BY Zenon
  <1>1. PICK T \in B : \A U \in B : U \subseteq T => U = T
    <2> HIDE DEF B
    <2> QED BY SMTT(60), <1>0, SmallestSubset
  <1>2. IsFiniteSet(T)
    BY Zenon, FS_Subset
  <1>3. \A U \in SUBSET T : U # T => Splits(f, U)
    BY Zenon, <1>1
  <1>4. QED
    BY SMTT(60), <1>1, <1>2, <1>3, SplitsStep

\* A total is a function of the values on its set.
LEMMA TotalSame ==
  ASSUME NEW f, NEW g, NEW S, IsFiniteSet(S), \A x \in S : f[x] = g[x]
  PROVE  Total(f, S) = Total(g, S)
  <1> DEFINE B == {T \in SUBSET S : Total(f, T) # Total(g, T)}
  <1> SUFFICES ASSUME B # {} PROVE FALSE
    BY Zenon
  <1>0. B \in SUBSET (SUBSET S)
    BY Zenon
  <1>1. PICK T \in B : \A U \in B : U \subseteq T => U = T
    <2> HIDE DEF B
    <2> QED BY SMTT(60), <1>0, SmallestSubset
  <1>2. IsFiniteSet(T)
    BY Zenon, FS_Subset
  <1>3. CASE T = {}
    BY Zenon, <1>1, <1>2, <1>3, TotalStep
  <1>4. CASE T # {}
    <2>1. Chosen(T) \in T
      BY Zenon, <1>4, ChosenIn
    <2>2. Total(f, T \ {Chosen(T)}) = Total(g, T \ {Chosen(T)})
      BY SMTT(60), <1>1, <2>1
    <2>3. f[Chosen(T)] = g[Chosen(T)]
      BY Zenon, <2>1
    <2>4. QED
      BY SMTT(60), <1>1, <1>2, <1>4, <2>2, <2>3, TotalStep
  <1>5. QED
    BY Zenon, <1>3, <1>4

\* When one term changes, the sum changes by the difference.
LEMMA SumMovesWithTerm ==
  ASSUME NEW S, IsFiniteSet(S), NEW f \in [S -> Int], NEW g \in [S -> Int], NEW x \in S,
         \A y \in S : y # x => g[y] = f[y]
  PROVE  Sum(f) \in Int /\ Sum(g) = Sum(f) - f[x] + g[x]
  <1> DEFINE R == S \ {x}
  <1>1. IsFiniteSet(R)
    BY Zenon, FS_Subset
  <1>2. Splits(f, S) /\ Splits(g, S) /\ Splits(f, R)
    BY Zenon, <1>1, AllSplit
  <1>3. Total(g, R) = Total(f, R)
    BY SMTT(60), <1>1, TotalSame
  <1>4. Total(f, S) = f[x] + Total(f, R) /\ Total(g, S) = g[x] + Total(f, R)
    BY Zenon, <1>2, <1>3 DEF Splits
  <1>5. Sum(f) = Total(f, S) /\ Sum(g) = Total(g, S)
    BY Zenon, SumIsTotal
  <1>6. Total(f, R) \in Int /\ Total(f, S) \in Int /\ f[x] \in Int /\ g[x] \in Int
    BY Zenon, <1>2 DEF Splits
  <1> QED BY SMTT(60), <1>4, <1>5, <1>6

\* The sum of integers is an integer.
LEMMA SumIsInteger ==
  ASSUME NEW S, IsFiniteSet(S), NEW f \in [S -> Int]
  PROVE  Sum(f) \in Int
  <1>1. Splits(f, S)
    BY Zenon, AllSplit
  <1>2. Sum(f) = Total(f, S)
    BY Zenon, SumIsTotal
  <1> QED BY Zenon, <1>1, <1>2 DEF Splits

\* A weighted comparison of the summands carries over to the sums.
LEMMA TotalScaled ==
  ASSUME NEW S, IsFiniteSet(S), NEW f, NEW g, NEW m \in Int, NEW q \in Int,
         \A x \in S : f[x] \in Int /\ g[x] \in Int /\ m * g[x] <= q * f[x]
  PROVE  m * Total(g, S) <= q * Total(f, S)
  <1> DEFINE B == {T \in SUBSET S : ~(m * Total(g, T) <= q * Total(f, T))}
  <1> SUFFICES ASSUME B # {} PROVE FALSE
    BY Zenon
  <1>0. B \in SUBSET (SUBSET S)
    BY Zenon
  <1>1. PICK T \in B : \A U \in B : U \subseteq T => U = T
    <2> HIDE DEF B
    <2> QED BY SMTT(60), <1>0, SmallestSubset
  <1>2. IsFiniteSet(T)
    BY Zenon, FS_Subset
  <1>3. CASE T = {}
    <2>1. m * 0 = 0 /\ q * 0 = 0
      BY SMTT(60)
    <2>2. Total(f, T) = 0 /\ Total(g, T) = 0
      BY Zenon, <1>3, TotalEmpty
    <2>3. m * Total(g, T) <= q * Total(f, T)
      BY SMTT(60), <2>1, <2>2
    <2>4. QED
      BY Zenon, <1>1, <2>3
  <1>4. CASE T # {}
    <2> DEFINE x == Chosen(T)
    <2>1. x \in T
      BY Zenon, <1>4, ChosenIn
    <2> HIDE DEF x
    <2> DEFINE R == T \ {x}
    <2>2. m * Total(g, R) <= q * Total(f, R)
      BY SMTT(60), <1>1, <2>1
    <2>3. Splits(f, T) /\ Splits(g, T) /\ Splits(f, R) /\ Splits(g, R)
      BY Zenon, <1>2, <2>1, AllSplit, FS_Subset
    <2>4. Total(f, T) = f[x] + Total(f, R) /\ Total(g, T) = g[x] + Total(g, R)
      BY Zenon, <2>1, <2>3 DEF Splits
    <2>5. f[x] \in Int /\ g[x] \in Int /\ Total(f, R) \in Int /\ Total(g, R) \in Int
      BY Zenon, <2>1, <2>3 DEF Splits
    <2>6. m * g[x] <= q * f[x]
      BY Zenon, <2>1
    <2>7. \A a, b \in Int : m * (a + b) = m * a + m * b /\ q * (a + b) = q * a + q * b
      BY SMTT(60)
    <2>8. m * Total(g, T) <= q * Total(f, T)
      <3>1. m * Total(g, T) = m * g[x] + m * Total(g, R) /\ q * Total(f, T) = q * f[x] + q * Total(f, R)
        BY SMTT(60), <2>4, <2>5, <2>7
      <3>2. m * g[x] \in Int /\ q * f[x] \in Int /\ m * Total(g, R) \in Int /\ q * Total(f, R) \in Int
        BY SMTT(60), <2>5
      <3>3. QED
        BY SMTT(60), <2>2, <2>6, <3>1, <3>2
    <2>9. QED
      BY Zenon, <1>1, <2>8
  <1>5. QED
    BY Zenon, <1>3, <1>4

\* A sum of zeros is zero.
LEMMA SumOfZeros ==
  ASSUME NEW S, IsFiniteSet(S)
  PROVE  Sum([x \in S |-> 0]) = 0
  <1> DEFINE f == [x \in S |-> 0]
             B == {T \in SUBSET S : Total(f, T) # 0}
  <1>1. Sum(f) = Total(f, S)
    BY Zenon, SumIsTotal
  <1> SUFFICES ASSUME B # {} PROVE FALSE
    BY Zenon, <1>1
  <1>0. B \in SUBSET (SUBSET S)
    BY Zenon
  <1>2. PICK T \in B : \A U \in B : U \subseteq T => U = T
    <2> HIDE DEF B
    <2> QED BY SMTT(60), <1>0, SmallestSubset
  <1>3. IsFiniteSet(T)
    BY Zenon, FS_Subset
  <1>4. CASE T = {}
    BY Zenon, <1>2, <1>4, TotalEmpty
  <1>5. CASE T # {}
    <2>1. Chosen(T) \in T /\ f[Chosen(T)] = 0
      BY Zenon, <1>5, ChosenIn
    <2>2. Total(f, T \ {Chosen(T)}) = 0
      BY SMTT(60), <1>2, <2>1
    <2>3. Total(f, T) = f[Chosen(T)] + Total(f, T \ {Chosen(T)})
      BY Zenon, <1>3, <1>5, TotalStep
    <2> HIDE DEF f
    <2>4. Total(f, T) = 0
      BY SMTT(60), <2>1, <2>2, <2>3
    <2> QED BY Zenon, <1>2, <2>4
  <1> QED BY Zenon, <1>4, <1>5

\* The sum over a part is at most the sum.
Grows(f, T) == \A V \in SUBSET T : Total(f, V) \in Nat /\ Total(f, V) <= Total(f, T)

LEMMA TotalGrows ==
  ASSUME NEW S, IsFiniteSet(S), NEW f, \A x \in S : f[x] \in Nat
  PROVE  Grows(f, S)
  <1> DEFINE B == {T \in SUBSET S : ~Grows(f, T)}
  <1> SUFFICES ASSUME B # {} PROVE FALSE
    BY Zenon
  <1>0. B \in SUBSET (SUBSET S)
    BY Zenon
  <1>1. PICK T \in B : \A U \in B : U \subseteq T => U = T
    <2> HIDE DEF B
    <2> QED BY SMTT(60), <1>0, SmallestSubset
  <1>2. IsFiniteSet(T)
    BY Zenon, FS_Subset
  <1>3. ASSUME NEW x \in T
        PROVE  /\ Total(f, T) \in Nat
               /\ \A V \in SUBSET T :
                    x \notin V => Total(f, V) \in Nat /\ Total(f, V) <= Total(f, T)
    <2>1. Grows(f, T \ {x})
      BY SMTT(60), <1>1
    <2>2. \A V \in SUBSET T : x \notin V => V \in SUBSET (T \ {x})
      BY Zenon
    <2>3. T \ {x} \in SUBSET (T \ {x})
      BY Zenon
    <2>4. Total(f, T \ {x}) \in Nat /\ f[x] \in Nat
      BY Zenon, <2>1, <2>3 DEF Grows
    <2>5. Splits(f, T)
      BY SMTT(60), <1>2, AllSplit
    <2>6. Total(f, T) = f[x] + Total(f, T \ {x})
      BY Zenon, <2>5 DEF Splits
    <2>7. \A V \in SUBSET T : x \notin V => Total(f, V) \in Nat /\ Total(f, V) <= Total(f, T \ {x})
      BY Zenon, <2>1, <2>2 DEF Grows
    <2>8. Total(f, T) \in Nat /\ Total(f, T \ {x}) <= Total(f, T)
      BY SMTT(60), <2>4, <2>6
    <2> SUFFICES ASSUME NEW V \in SUBSET T, x \notin V
                 PROVE  Total(f, V) \in Nat /\ Total(f, V) <= Total(f, T)
      BY Zenon, <2>8
    <2>9. Total(f, V) \in Nat /\ Total(f, V) <= Total(f, T \ {x})
      BY Zenon, <2>7
    <2> QED BY SMTT(60), <2>4, <2>8, <2>9
  <1>4. Total(f, T) \in Nat
    BY SMTT(60), <1>3, TotalEmpty
  <1>5. ASSUME NEW V \in SUBSET T
        PROVE  Total(f, V) \in Nat /\ Total(f, V) <= Total(f, T)
    <2>1. CASE V = T
      BY SMTT(60), <1>4, <2>1
    <2>2. CASE V # T
      BY Zenon, <1>3, <2>2
    <2> QED BY Zenon, <2>1, <2>2
  <1> QED BY Zenon, <1>1, <1>5 DEF Grows

\* Shares e of at most the part k / m of U come to at most that part of all of U, of what gets
\* no share too.
LEMMA SharesAddUp ==
  ASSUME NEW S, IsFiniteSet(S), NEW P \in SUBSET S, NEW Q \in SUBSET P, NEW U \in [P -> Nat],
         NEW e \in [Q -> Nat], NEW m \in Nat, NEW k \in Nat, \A h \in Q : m * e[h] <= k * U[h]
  PROVE  Sum(e) \in Nat /\ Sum(U) \in Nat /\ m * Sum(e) <= k * Sum(U)
  <1>1. IsFiniteSet(P) /\ IsFiniteSet(Q) /\ P \in SUBSET P /\ Q \in SUBSET Q
    BY Zenon, FS_Subset
  <1>2. Sum(e) = Total(e, Q) /\ Sum(U) = Total(U, P)
    BY Zenon, SumIsTotal
  <1>3. Total(e, Q) \in Nat
    BY Zenon, <1>1, TotalGrows DEF Grows
  <1>4. Total(U, P) \in Nat /\ Total(U, Q) \in Nat /\ Total(U, Q) <= Total(U, P)
    BY Zenon, <1>1, TotalGrows DEF Grows
  <1>5. m * Total(e, Q) <= k * Total(U, Q)
    BY SMTT(60), <1>1, TotalScaled
  <1>6. k * Total(U, Q) <= k * Total(U, P) /\ k * Total(U, Q) \in Nat /\ k * Total(U, P) \in Nat
    BY SMTT(60), <1>4
  <1>7. m * Total(e, Q) \in Nat
    BY SMTT(60), <1>3
  <1>8. m * Total(e, Q) <= k * Total(U, P)
    BY SMTT(60), <1>5, <1>6, <1>7
  <1> QED BY Zenon, <1>2, <1>3, <1>4, <1>8

\* What the settlement proofs use of sums.
LEMMA SumFacts ==
  ASSUME NEW S, IsFiniteSet(S)
  PROVE  /\ \A f \in [S -> Int] :
              /\ Sum(f) \in Int
              /\ \A g \in [S -> Int], x \in S :
                   (\A y \in S : y # x => g[y] = f[y]) => Sum(g) = Sum(f) - f[x] + g[x]
         /\ Sum([x \in S |-> 0]) = 0
         /\ \A m \in Nat : \A P \in SUBSET S : \A Q \in SUBSET P :
              \A U \in [P -> Nat], e \in [Q -> Nat], k \in Nat :
                (\A h \in Q : m * e[h] <= k * U[h]) =>
                  Sum(e) \in Nat /\ Sum(U) \in Nat /\ m * Sum(e) <= k * Sum(U)
  <1>1. \A f \in [S -> Int] :
          /\ Sum(f) \in Int
          /\ \A g \in [S -> Int], x \in S :
               (\A y \in S : y # x => g[y] = f[y]) => Sum(g) = Sum(f) - f[x] + g[x]
    BY SMTT(60), SumIsInteger, SumMovesWithTerm
  <1>2. \A m \in Nat : \A P \in SUBSET S : \A Q \in SUBSET P :
          \A U \in [P -> Nat], e \in [Q -> Nat], k \in Nat :
            (\A h \in Q : m * e[h] <= k * U[h]) =>
              Sum(e) \in Nat /\ Sum(U) \in Nat /\ m * Sum(e) <= k * Sum(U)
    <2> SUFFICES ASSUME NEW m \in Nat, NEW P \in SUBSET S, NEW Q \in SUBSET P,
                        NEW U \in [P -> Nat], NEW e \in [Q -> Nat], NEW k \in Nat,
                        \A h \in Q : m * e[h] <= k * U[h]
                 PROVE  Sum(e) \in Nat /\ Sum(U) \in Nat /\ m * Sum(e) <= k * Sum(U)
      BY Zenon
    <2> QED BY Zenon, SharesAddUp
  <1> QED BY Zenon, <1>1, <1>2, SumOfZeros
=============================================================================
