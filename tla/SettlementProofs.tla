--------------------------- MODULE SettlementProofs ---------------------------
(***************************************************************************)
(* The money: the escrow's balance is what its campaigns still owe, and no *)
(* period promises more rent than was collected for it, for any number of  *)
(* properties, investors, positions and overlapping jobs and any amounts.  *)
(*                                                                         *)
(* Both are about sums over a set of any size.  What a sum does when one   *)
(* value changes, and what it keeps of the terms, is a premise of the      *)
(* first two sections and is proved in SettlementParts.                    *)
(***************************************************************************)
EXTENDS MCSettlement, TLAPS

-----------------------------------------------------------------------------
(* The escrow.                                                             *)

\* The sum over S changes by what one of its terms changes by.
SumsMove(S) ==
  \A f \in [S -> Int] :
    /\ C!Sum(f) \in Int
    /\ \A g \in [S -> Int], x \in S :
         (\A y \in S : y # x => g[y] = f[y]) => C!Sum(g) = C!Sum(f) - f[x] + g[x]

\* A sum of nothing but zeros is zero.
SumOfNone(S) == C!Sum([x \in S |-> 0]) = 0

LEMMA SumMoves ==
  ASSUME NEW S, SumsMove(S), NEW f \in [S -> Int], NEW g \in [S -> Int],
         NEW x \in S, NEW d \in Int, g[x] = f[x] + d, \A y \in S : y # x => g[y] = f[y]
  PROVE  C!Sum(f) \in Int /\ C!Sum(g) = C!Sum(f) + d
<1>1. f[x] \in Int /\ C!Sum(f) \in Int
  BY Zenon DEF SumsMove
<1>2. C!Sum(g) = C!Sum(f) - f[x] + g[x]
  BY Zenon DEF SumsMove
<1> QED BY SMTT(60), <1>1, <1>2

Campaign == [totalRaised : Nat, deadline : Nat, state : C!CampaignState, swept : BOOLEAN]

\* What was raised for a campaign is what its contributors gave, unless they may take it back.
CampaignIsSound(t) ==
  /\ campaign[t].totalRaised <= Target
  /\ campaign[t].state = "Successful" => campaign[t].totalRaised = Target
  /\ campaign[t].swept => campaign[t].state = "Successful"
  /\ campaign[t].state = "NotOpened" => campaign[t].totalRaised = 0
  /\ campaign[t].state # "Failed" => C!Sum(contribution[t]) = campaign[t].totalRaised

EscrowInv ==
  /\ C!TypeOK
  /\ \A t \in Tokens : CampaignIsSound(t)
  /\ C!EveryEuroIsAccounted

\* The sums the balances are compared with.
OwedFor == [t \in Tokens |-> C!Owed(t)]
SweptFor == [t \in Tokens |-> IF campaign[t].swept THEN Target ELSE 0]
PaidBy(w) == [t \in Tokens |-> contribution[t][w]]

\* A payment moves the amount from one balance to the other and leaves the rest.
LEMMA PaymentMoves ==
  ASSUME eurc \in [C!Holders -> Nat], NEW from \in C!Holders, NEW to \in C!Holders, from # to,
         NEW amount \in Nat, amount <= eurc[from], C!Pays(from, to, amount)
  PROVE  /\ eurc' \in [C!Holders -> Nat]
         /\ eurc'[from] = eurc[from] - amount /\ eurc'[to] = eurc[to] + amount
         /\ \A h \in C!Holders : h # from /\ h # to => eurc'[h] = eurc[h]
BY SMTT(60) DEF C!Pays

\* A step that moves no money leaves the accounts as they are.
LEMMA NoMoneyMoves ==
  ASSUME C!EveryEuroIsAccounted, UNCHANGED <<contribution, eurc>>,
         \A t \in Tokens : campaign'[t].swept = campaign[t].swept
  PROVE  C!EveryEuroIsAccounted'
<1>1. OwedFor' = OwedFor /\ SweptFor' = SweptFor
  BY Zenon DEF OwedFor, SweptFor, C!Owed
<1> QED BY Zenon, <1>1 DEF C!EveryEuroIsAccounted, OwedFor, SweptFor, PaidBy

\* The escrow and the treasury are no investors.
LEMMA HoldersAre ==
  /\ "escrow" \in C!Holders /\ "treasury" \in C!Holders /\ "escrow" # "treasury"
  /\ \A w \in Investors : w \in C!Holders /\ w # "escrow" /\ w # "treasury"
  /\ Target \in Nat /\ Target > 0 /\ Funds \in Nat /\ Deadline \in Nat /\ Extensions \subseteq Nat
BY SMTT(60), InstanceAssumption DEF C!Holders

\* The sums of the contributions are numbers.
LEMMA EscrowSums ==
  ASSUME C!TypeOK, SumsMove(Investors)
  PROVE  /\ OwedFor \in [Tokens -> Int] /\ SweptFor \in [Tokens -> Int]
         /\ \A t \in Tokens : contribution[t] \in [Investors -> Int]
         /\ \A w \in Investors : PaidBy(w) \in [Tokens -> Int]
         /\ \A t \in Tokens, w \in Investors : contribution[t][w] \in Nat
<1>1. contribution \in [Tokens -> [Investors -> Nat]]
  BY Zenon DEF C!TypeOK
<1>2. \A t \in Tokens : contribution[t] \in [Investors -> Int]
  BY SMTT(60), <1>1
<1>3. \A t \in Tokens : C!Owed(t) \in Int
  <2> SUFFICES ASSUME NEW t \in Tokens PROVE C!Owed(t) \in Int
    OBVIOUS
  <2>1. C!Sum(contribution[t]) \in Int
    BY Zenon, <1>2 DEF SumsMove
  <2> QED BY SMTT(60), <2>1 DEF C!Owed
<1>4. OwedFor \in [Tokens -> Int] /\ SweptFor \in [Tokens -> Int]
  BY SMTT(60), <1>3, HoldersAre DEF OwedFor, SweptFor
<1>5. \A w \in Investors : PaidBy(w) \in [Tokens -> Int]
  BY SMTT(60), <1>1 DEF PaidBy
<1> QED BY Zenon, <1>1, <1>2, <1>4, <1>5

\* Investor w's money moves into the escrow, or out of it when d is negative, for campaign t.
MoneyMoves(t, w, d) ==
  /\ contribution'[t] = [contribution[t] EXCEPT ![w] = contribution[t][w] + d]
  /\ \A u \in Tokens : u # t => contribution'[u] = contribution[u]
  /\ \A u \in Tokens : campaign'[u].swept = campaign[u].swept
  /\ eurc'["escrow"] = eurc["escrow"] + d /\ eurc'["treasury"] = eurc["treasury"]
  /\ eurc'[w] = eurc[w] - d /\ \A v \in Investors : v # w => eurc'[v] = eurc[v]

\* The accounts follow a contribution and its return.
LEMMA MoneyIsAccounted ==
  ASSUME C!TypeOK, C!EveryEuroIsAccounted, SumsMove(Tokens), SumsMove(Investors),
         NEW t \in Tokens, NEW w \in Investors, NEW d \in Int, MoneyMoves(t, w, d),
         ~campaign[t].swept
  PROVE  /\ C!EveryEuroIsAccounted'
         /\ C!Sum(contribution[t]) \in Int
         /\ C!Sum(contribution'[t]) = C!Sum(contribution[t]) + d
<1>0. contribution \in [Tokens -> [Investors -> Nat]] /\ eurc \in [C!Holders -> Nat]
  BY Zenon DEF C!TypeOK
<1>1. /\ contribution'[t] = [contribution[t] EXCEPT ![w] = contribution[t][w] + d]
      /\ \A u \in Tokens : u # t => contribution'[u] = contribution[u]
  BY Zenon DEF MoneyMoves
<1>2. /\ eurc'["escrow"] = eurc["escrow"] + d /\ eurc'["treasury"] = eurc["treasury"]
      /\ eurc'[w] = eurc[w] - d /\ \A v \in Investors : v # w => eurc'[v] = eurc[v]
      /\ \A u \in Tokens : campaign'[u].swept = campaign[u].swept
  BY Zenon DEF MoneyMoves
<1>3. C!Sum(contribution[t]) \in Int /\ C!Sum(contribution'[t]) = C!Sum(contribution[t]) + d
  <2> DEFINE f == contribution[t]
             g == contribution'[t]
  <2>1. f \in [Investors -> Int] /\ g \in [Investors -> Int]
    BY SMTT(60), <1>1, EscrowSums
  <2>2. g[w] = f[w] + d /\ \A y \in Investors : y # w => g[y] = f[y]
    BY Zenon, <1>0, <1>1
  <2>3. d \in Int
    OBVIOUS
  <2> HIDE DEF f, g
  <2>4. C!Sum(f) \in Int /\ C!Sum(g) = C!Sum(f) + d
    BY SMTT(60), <2>1, <2>2, <2>3, SumMoves
  <2> QED BY Zenon, <2>4 DEF f, g
<1>4. C!Sum(OwedFor) \in Int /\ C!Sum(OwedFor') = C!Sum(OwedFor) + d
  <2> DEFINE f == OwedFor
             g == OwedFor'
  <2>1. C!Owed(t)' = C!Owed(t) + d
    BY Zenon, <1>2, <1>3 DEF C!Owed
  <2>2. \A u \in Tokens : u # t => C!Owed(u)' = C!Owed(u)
    BY Zenon, <1>1, <1>2 DEF C!Owed
  <2>3. f \in [Tokens -> Int] /\ d \in Int
    BY Zenon, EscrowSums
  <2>4. g[t] = f[t] + d /\ \A u \in Tokens : u # t => g[u] = f[u]
    BY Zenon, <2>1, <2>2 DEF OwedFor
  <2>5. g = [u \in Tokens |-> g[u]]
    BY Zenon DEF OwedFor
  <2> HIDE DEF f, g
  <2>6. g \in [Tokens -> Int]
    BY SMTT(60), <2>3, <2>4, <2>5
  <2>7. C!Sum(f) \in Int /\ C!Sum(g) = C!Sum(f) + d
    BY SMTT(60), <2>3, <2>4, <2>6, SumMoves
  <2> QED BY Zenon, <2>7 DEF f, g
<1>5. SweptFor' = SweptFor
  BY Zenon, <1>2 DEF SweptFor
<1>6. C!Sum(PaidBy(w)) \in Int /\ C!Sum(PaidBy(w)') = C!Sum(PaidBy(w)) + d
  <2> DEFINE f == PaidBy(w)
             g == PaidBy(w)'
  <2>1. f \in [Tokens -> Int] /\ d \in Int
    BY Zenon, EscrowSums
  <2>2. g[t] = f[t] + d /\ \A u \in Tokens : u # t => g[u] = f[u]
    BY Zenon, <1>0, <1>1 DEF PaidBy
  <2>3. g = [u \in Tokens |-> g[u]]
    BY Zenon DEF PaidBy
  <2> HIDE DEF f, g
  <2>4. g \in [Tokens -> Int]
    BY SMTT(60), <2>1, <2>2, <2>3
  <2>5. C!Sum(f) \in Int /\ C!Sum(g) = C!Sum(f) + d
    BY SMTT(60), <2>1, <2>2, <2>4, SumMoves
  <2> QED BY Zenon, <2>5 DEF f, g
<1>7. \A v \in Investors : v # w => PaidBy(v)' = PaidBy(v)
  BY Zenon, <1>0, <1>1 DEF PaidBy
<1>8. C!EveryEuroIsAccounted'
  <2>1. /\ eurc["escrow"] = C!Sum(OwedFor) /\ eurc["treasury"] = C!Sum(SweptFor)
        /\ \A v \in Investors : eurc[v] = Funds - C!Sum(PaidBy(v))
    BY Zenon DEF C!EveryEuroIsAccounted, OwedFor, SweptFor, PaidBy
  <2>2. /\ eurc'["escrow"] = C!Sum(OwedFor') /\ eurc'["treasury"] = C!Sum(SweptFor')
    BY Zenon, <1>2, <1>4, <1>5, <2>1
  <2>3. \A v \in Investors : eurc'[v] = Funds - C!Sum(PaidBy(v)')
    BY SMTT(60), <1>2, <1>6, <1>7, <2>1, HoldersAre
  <2> QED BY Zenon, <2>2, <2>3 DEF C!EveryEuroIsAccounted, OwedFor, SweptFor, PaidBy
<1> QED BY Zenon, <1>3, <1>8

\* contribute: the escrow has the amount more, the investor less, and the campaign is credited.
LEMMA ContributionIsAccounted ==
  ASSUME EscrowInv, SumsMove(Tokens), SumsMove(Investors),
         NEW t \in Tokens, NEW w \in Investors, NEW amount \in Nat, C!contribute(t, w, amount)
  PROVE  C!EveryEuroIsAccounted' /\ CampaignIsSound(t)'
<1>0. /\ campaign \in [Tokens -> Campaign] /\ contribution \in [Tokens -> [Investors -> Nat]]
      /\ eurc \in [C!Holders -> Nat] /\ CampaignIsSound(t) /\ campaign[t].state = "Open"
      /\ amount <= Target - campaign[t].totalRaised /\ amount <= eurc[w]
  BY Zenon DEF EscrowInv, C!TypeOK, Campaign, C!contribute
<1>1. /\ campaign' = [campaign EXCEPT ![t].totalRaised = campaign[t].totalRaised + amount]
      /\ contribution' = [contribution EXCEPT ![t][w] = contribution[t][w] + amount]
      /\ C!Pays(w, "escrow", amount)
  BY Zenon DEF C!contribute
<1>2. /\ eurc'["escrow"] = eurc["escrow"] + amount /\ eurc'["treasury"] = eurc["treasury"]
      /\ eurc'[w] = eurc[w] - amount /\ \A v \in Investors : v # w => eurc'[v] = eurc[v]
  BY SMTT(60), <1>0, <1>1, PaymentMoves, HoldersAre
<1>3. /\ campaign'[t].totalRaised = campaign[t].totalRaised + amount
      /\ campaign'[t].state = campaign[t].state
      /\ \A u \in Tokens : campaign'[u].swept = campaign[u].swept
  BY Zenon, <1>0, <1>1 DEF Campaign
<1>4. MoneyMoves(t, w, amount) /\ ~campaign[t].swept /\ amount \in Int
  BY SMTT(60), <1>0, <1>1, <1>2, <1>3 DEF MoneyMoves, CampaignIsSound
<1>5. /\ C!EveryEuroIsAccounted' /\ C!Sum(contribution[t]) \in Int
      /\ C!Sum(contribution'[t]) = C!Sum(contribution[t]) + amount
  BY Zenon, <1>4, MoneyIsAccounted DEF EscrowInv
<1>6. campaign[t].totalRaised \in Nat
  BY Zenon, <1>0 DEF Campaign
<1>7. CampaignIsSound(t)'
  BY SMTT(60), <1>0, <1>3, <1>5, <1>6, HoldersAre DEF CampaignIsSound
<1> QED BY Zenon, <1>5, <1>7

\* withdraw: what the investor gave to a campaign that failed goes back, once.
LEMMA ReturnIsAccounted ==
  ASSUME EscrowInv, SumsMove(Tokens), SumsMove(Investors),
         NEW t \in Tokens, NEW w \in Investors, C!withdraw(t, w)
  PROVE  C!EveryEuroIsAccounted' /\ CampaignIsSound(t)'
<1> DEFINE amount == contribution[t][w]
<1>0. /\ campaign \in [Tokens -> Campaign] /\ contribution \in [Tokens -> [Investors -> Nat]]
      /\ eurc \in [C!Holders -> Nat] /\ CampaignIsSound(t) /\ campaign[t].state = "Failed"
      /\ amount <= eurc["escrow"] /\ amount \in Nat
  BY Zenon DEF EscrowInv, C!TypeOK, Campaign, C!withdraw
<1>1. /\ campaign' = campaign
      /\ contribution' = [contribution EXCEPT ![t][w] = 0]
      /\ C!Pays("escrow", w, amount)
  BY Zenon DEF C!withdraw
<1>2. /\ eurc'["escrow"] = eurc["escrow"] - amount /\ eurc'["treasury"] = eurc["treasury"]
      /\ eurc'[w] = eurc[w] + amount /\ \A v \in Investors : v # w => eurc'[v] = eurc[v]
  BY SMTT(60), <1>0, <1>1, PaymentMoves, HoldersAre
<1>3. MoneyMoves(t, w, -amount) /\ ~campaign[t].swept /\ -amount \in Int
  <2>1. /\ contribution'[t] = [contribution[t] EXCEPT ![w] = 0]
        /\ \A u \in Tokens : u # t => contribution'[u] = contribution[u]
    BY Zenon, <1>0, <1>1
  <2>2. /\ eurc'["escrow"] = eurc["escrow"] + (-amount) /\ eurc'[w] = eurc[w] - (-amount)
    BY SMTT(60), <1>0, <1>2, HoldersAre
  <2>3. ~campaign[t].swept /\ -amount \in Int /\ contribution[t][w] + (-amount) = 0
    BY SMTT(60), <1>0 DEF CampaignIsSound
  <2> QED BY Zenon, <1>1, <1>2, <2>1, <2>2, <2>3 DEF MoneyMoves
<1>4. C!EveryEuroIsAccounted'
  BY Zenon, <1>3, MoneyIsAccounted DEF EscrowInv
<1>5. CampaignIsSound(t)'
  BY Zenon, <1>0, <1>1 DEF CampaignIsSound
<1> QED BY Zenon, <1>4, <1>5

\* withdrawRaised: what the campaign raised, its target, goes to the treasury, once.
LEMMA SweepIsAccounted ==
  ASSUME EscrowInv, SumsMove(Tokens), SumsMove(Investors), NEW t \in Tokens, C!withdrawRaised(t)
  PROVE  C!EveryEuroIsAccounted' /\ CampaignIsSound(t)'
<1> DEFINE amount == campaign[t].totalRaised
<1>0. /\ campaign \in [Tokens -> Campaign] /\ contribution \in [Tokens -> [Investors -> Nat]]
      /\ eurc \in [C!Holders -> Nat] /\ CampaignIsSound(t) /\ campaign[t].state = "Successful"
      /\ amount <= eurc["escrow"] /\ amount \in Nat /\ ~campaign[t].swept
  BY Zenon DEF EscrowInv, C!TypeOK, Campaign, C!withdrawRaised
<1>1. /\ campaign' = [campaign EXCEPT ![t].swept = TRUE] /\ contribution' = contribution
      /\ C!Pays("escrow", "treasury", amount)
  BY Zenon DEF C!withdrawRaised
<1>2. /\ eurc'["escrow"] = eurc["escrow"] - amount
      /\ eurc'["treasury"] = eurc["treasury"] + amount
      /\ \A v \in Investors : eurc'[v] = eurc[v]
  <2>1. /\ "escrow" \in C!Holders /\ "treasury" \in C!Holders /\ "escrow" # "treasury"
        /\ \A v \in Investors : v \in C!Holders /\ v # "escrow" /\ v # "treasury"
    BY Zenon, HoldersAre
  <2>2. \A h \in C!Holders : h # "escrow" /\ h # "treasury" => eurc'[h] = eurc[h]
    BY Zenon, <1>0, <1>1, <2>1, PaymentMoves
  <2>3. /\ eurc'["escrow"] = eurc["escrow"] - amount
        /\ eurc'["treasury"] = eurc["treasury"] + amount
    BY Zenon, <1>0, <1>1, <2>1, PaymentMoves
  <2> QED BY Zenon, <2>1, <2>2, <2>3
<1>3. /\ campaign'[t].totalRaised = amount /\ campaign'[t].state = "Successful"
      /\ campaign'[t].swept /\ \A u \in Tokens : u # t => campaign'[u] = campaign[u]
  BY Zenon, <1>0, <1>1 DEF Campaign
<1>4. amount = Target /\ C!Sum(contribution[t]) = Target
  BY Zenon, <1>0 DEF CampaignIsSound
<1>5. C!Sum(OwedFor) \in Int /\ C!Sum(OwedFor') = C!Sum(OwedFor) + (-Target)
  <2> DEFINE f == OwedFor
             g == OwedFor'
  <2>1. C!Owed(t) = Target /\ C!Owed(t)' = 0
    BY Zenon, <1>0, <1>3, <1>4 DEF C!Owed
  <2>2. \A u \in Tokens : u # t => C!Owed(u)' = C!Owed(u)
    BY Zenon, <1>1, <1>3 DEF C!Owed
  <2>3. f \in [Tokens -> Int] /\ -Target \in Int
    BY SMTT(60), EscrowSums, HoldersAre DEF EscrowInv
  <2>4. g[t] = f[t] + (-Target) /\ \A u \in Tokens : u # t => g[u] = f[u]
    BY SMTT(60), <2>1, <2>2, HoldersAre DEF OwedFor
  <2>5. g = [u \in Tokens |-> g[u]]
    BY Zenon DEF OwedFor
  <2> HIDE DEF f, g
  <2>6. g \in [Tokens -> Int]
    BY SMTT(60), <2>3, <2>4, <2>5
  <2>7. C!Sum(f) \in Int /\ C!Sum(g) = C!Sum(f) + (-Target)
    BY SMTT(60), <2>3, <2>4, <2>6, SumMoves
  <2> QED BY Zenon, <2>7 DEF f, g
<1>6. C!Sum(SweptFor) \in Int /\ C!Sum(SweptFor') = C!Sum(SweptFor) + Target
  <2> DEFINE f == SweptFor
             g == SweptFor'
  <2>1. f \in [Tokens -> Int] /\ g \in [Tokens -> Int] /\ Target \in Int
    BY SMTT(60), HoldersAre DEF SweptFor
  <2>2. g[t] = f[t] + Target /\ \A u \in Tokens : u # t => g[u] = f[u]
    BY SMTT(60), <1>0, <1>3, HoldersAre DEF SweptFor
  <2> HIDE DEF f, g
  <2>3. C!Sum(f) \in Int /\ C!Sum(g) = C!Sum(f) + Target
    BY SMTT(60), <2>1, <2>2, SumMoves
  <2> QED BY Zenon, <2>3 DEF f, g
<1>7. C!EveryEuroIsAccounted'
  <2>1. /\ eurc["escrow"] = C!Sum(OwedFor) /\ eurc["treasury"] = C!Sum(SweptFor)
        /\ \A v \in Investors : eurc[v] = Funds - C!Sum(PaidBy(v))
    BY Zenon DEF EscrowInv, C!EveryEuroIsAccounted, OwedFor, SweptFor, PaidBy
  <2>2. /\ eurc'["escrow"] = C!Sum(OwedFor') /\ eurc'["treasury"] = C!Sum(SweptFor')
    BY Zenon, <1>2, <1>4, <1>5, <1>6, <2>1, HoldersAre
  <2>3. \A v \in Investors : eurc'[v] = Funds - C!Sum(PaidBy(v)')
    BY Zenon, <1>1, <1>2, <2>1 DEF PaidBy
  <2> QED BY Zenon, <2>2, <2>3 DEF C!EveryEuroIsAccounted, OwedFor, SweptFor, PaidBy
<1>8. CampaignIsSound(t)'
  BY Zenon, <1>0, <1>1, <1>3 DEF CampaignIsSound
<1> QED BY Zenon, <1>7, <1>8

\* The steps that move no money keep what was raised for a campaign, or begin with nothing.
LEMMA OtherCampaignsAreSound ==
  ASSUME EscrowInv, NEW t \in Tokens, UNCHANGED contribution,
         \/ campaign'[t] = campaign[t]
         \/ C!openCampaign(t) \/ (\E d \in Extensions : C!extendDeadline(t, d)) \/ C!finalize(t)
  PROVE  CampaignIsSound(t)' /\ campaign'[t].swept = campaign[t].swept
<1>0. /\ campaign \in [Tokens -> Campaign] /\ CampaignIsSound(t) /\ campaign[t] \in Campaign
      /\ campaign[t].totalRaised \in Nat
  BY Zenon DEF EscrowInv, C!TypeOK, Campaign
<1>1. CASE campaign'[t] = campaign[t]
  BY Zenon, <1>0, <1>1 DEF CampaignIsSound
<1>2. CASE C!openCampaign(t)
  <2>1. /\ campaign'[t].totalRaised = 0 /\ campaign'[t].state = "Open"
        /\ campaign'[t].swept = FALSE /\ campaign[t].state = "NotOpened"
    BY Zenon, <1>0, <1>2 DEF C!openCampaign, C!NotOpened
  <2>2. campaign[t].swept = FALSE
    BY Zenon, <1>0, <2>1 DEF CampaignIsSound, Campaign
  <2>3. C!Sum(contribution[t]) = 0
    BY Zenon, <1>0, <2>1 DEF CampaignIsSound
  <2>4. CampaignIsSound(t)'
    BY SMTT(60), <2>1, <2>3, HoldersAre DEF CampaignIsSound
  <2> QED BY Zenon, <2>1, <2>2, <2>4
<1>3. CASE \E d \in Extensions : C!extendDeadline(t, d)
  <2>1. /\ campaign'[t].totalRaised = campaign[t].totalRaised
        /\ campaign'[t].state = campaign[t].state /\ campaign'[t].swept = campaign[t].swept
    BY SMTT(60), <1>0, <1>3 DEF C!extendDeadline, Campaign
  <2> QED BY Zenon, <1>0, <2>1 DEF CampaignIsSound
<1>4. CASE C!finalize(t)
  <2>1. /\ campaign'[t].totalRaised = campaign[t].totalRaised
        /\ campaign'[t].swept = campaign[t].swept /\ campaign[t].state = "Open"
        /\ campaign'[t].state = IF campaign[t].totalRaised >= Target THEN "Successful" ELSE "Failed"
    BY Zenon, <1>0, <1>4 DEF C!finalize, Campaign
  <2> QED BY SMTT(60), <1>0, <2>1, HoldersAre DEF CampaignIsSound
<1> QED BY Zenon, <1>1, <1>2, <1>3, <1>4

-----------------------------------------------------------------------------
(* The steps of the escrow.                                                *)

\* What the contract does in a step: nothing, or one of its functions for one campaign.
Contract(t) ==
  \/ C!openCampaign(t) \/ (\E d \in Extensions : C!extendDeadline(t, d)) \/ C!finalize(t)
  \/ C!withdrawRaised(t)
  \/ \E w \in Investors : C!withdraw(t, w) \/ \E amount \in Nat : C!contribute(t, w, amount)

Quiet == UNCHANGED <<campaign, contribution, contributors, eurc>> /\ paused' \in BOOLEAN

LEMMA ContractSteps ==
  ASSUME C!TypeOK, [C!Next]_(C!vars)
  PROVE  Quiet \/ \E t \in Tokens : Contract(t)
<1>0. paused \in BOOLEAN
  BY Zenon DEF C!TypeOK
<1>1. CASE C!Call
  <2>1. \A amount \in 1 .. Funds : amount \in Nat
    BY SMTT(60), HoldersAre
  <2>2. C!pause => Quiet
    BY Zenon, <1>0 DEF C!pause, Quiet
  <2> QED BY Zenon, <1>1, <2>1, <2>2 DEF C!Call, Contract
<1>2. ASSUME NEW j \in Runs, C!JobStep(j)
      PROVE  Quiet \/ \E t \in Tokens : Contract(t)
  <2>1. job[j].token \in Tokens
    BY Zenon DEF C!TypeOK
  <2>2. CASE C!JobMined(j)
    BY Zenon, <2>1, <2>2 DEF C!JobMined, Contract
  <2>3. CASE ~C!JobMined(j)
    <3>1. UNCHANGED C!chainVars
      BY Zenon, <1>2, <2>3
      DEF C!JobStep, C!OpenIpoEscrowCampaignService, C!processCampaign, C!readCampaign,
          C!mintForContributors, C!JobFails
    <3> QED BY Zenon, <1>0, <3>1 DEF C!chainVars, C!contractVars, Quiet
  <2> QED BY Zenon, <2>2, <2>3
<1>3. CASE C!Tick \/ UNCHANGED C!vars
  BY Zenon, <1>0, <1>3 DEF C!Tick, C!vars, C!chainVars, C!contractVars, Quiet
<1> QED BY Zenon, <1>1, <1>2, <1>3 DEF C!Next

\* The contract's functions keep its types.
LEMMA ContractTypes ==
  ASSUME EscrowInv, NEW t \in Tokens, Contract(t)
  PROVE  /\ campaign' \in [Tokens -> Campaign] /\ contribution' \in [Tokens -> [Investors -> Nat]]
         /\ contributors' \in [Tokens -> SUBSET Investors] /\ paused' \in BOOLEAN
         /\ eurc' \in [C!Holders -> Nat]
<1>0. /\ campaign \in [Tokens -> Campaign] /\ contribution \in [Tokens -> [Investors -> Nat]]
      /\ contributors \in [Tokens -> SUBSET Investors] /\ paused \in BOOLEAN
      /\ eurc \in [C!Holders -> Nat] /\ campaign[t] \in Campaign
  BY Zenon DEF EscrowInv, C!TypeOK, Campaign
<1>1. CASE C!openCampaign(t)
  <2>0. 0 \in Nat
    BY Zenon
  <2>1. [C!NotOpened EXCEPT !.deadline = Deadline, !.state = "Open"] \in Campaign
    BY Zenon, HoldersAre, <2>0 DEF C!NotOpened, Campaign, C!CampaignState
  <2> QED BY Zenon, <1>0, <1>1, <2>1 DEF C!openCampaign
<1>2. ASSUME NEW d \in Extensions, C!extendDeadline(t, d)
      PROVE  /\ campaign' \in [Tokens -> Campaign]
             /\ UNCHANGED <<contribution, contributors, paused, eurc>>
  <2>0. d \in Nat
    BY Zenon, HoldersAre
  <2>1. [campaign[t] EXCEPT !.deadline = d] \in Campaign
    BY Zenon, <1>0, <2>0 DEF Campaign
  <2> QED BY Zenon, <1>0, <1>2, <2>1 DEF C!extendDeadline
<1>3. CASE C!finalize(t)
  <2> DEFINE s == IF campaign[t].totalRaised >= Target THEN "Successful" ELSE "Failed"
  <2>1. s \in C!CampaignState
    BY Zenon DEF C!CampaignState
  <2>2. campaign' = [campaign EXCEPT ![t].state = s]
        /\ UNCHANGED <<contribution, contributors, paused, eurc>>
    BY Zenon, <1>3 DEF C!finalize
  <2> HIDE DEF s
  <2>3. campaign' \in [Tokens -> Campaign]
    BY Zenon, <1>0, <2>1, <2>2 DEF Campaign
  <2> QED BY Zenon, <1>0, <2>2, <2>3
<1>4. CASE C!withdrawRaised(t)
  <2>1. [campaign[t] EXCEPT !.swept = TRUE] \in Campaign /\ campaign[t].totalRaised \in Nat
    BY Zenon, <1>0 DEF Campaign
  <2>2. campaign' \in [Tokens -> Campaign] /\ UNCHANGED <<contribution, contributors, paused>>
    BY Zenon, <1>0, <1>4, <2>1 DEF C!withdrawRaised
  <2>3. eurc' \in [C!Holders -> Nat]
    <3>1. /\ C!Pays("escrow", "treasury", campaign[t].totalRaised)
          /\ campaign[t].totalRaised <= eurc["escrow"]
      BY Zenon, <1>4 DEF C!withdrawRaised
    <3>2. "escrow" \in C!Holders /\ "treasury" \in C!Holders /\ "escrow" # "treasury"
      BY Zenon, HoldersAre
    <3> QED BY Zenon, <1>0, <2>1, <3>1, <3>2, PaymentMoves
  <2> QED BY Zenon, <1>0, <2>2, <2>3
<1>5. ASSUME NEW w \in Investors, C!withdraw(t, w)
      PROVE  /\ contribution' \in [Tokens -> [Investors -> Nat]] /\ eurc' \in [C!Holders -> Nat]
             /\ UNCHANGED <<campaign, contributors, paused>>
  <2>1. contribution' \in [Tokens -> [Investors -> Nat]] /\ UNCHANGED <<campaign, contributors, paused>>
    BY Zenon, <1>0, <1>5 DEF C!withdraw
  <2>2. eurc' \in [C!Holders -> Nat]
    BY SMTT(60), <1>0, <1>5, PaymentMoves, HoldersAre DEF C!withdraw
  <2> QED BY Zenon, <2>1, <2>2
<1>6. ASSUME NEW w \in Investors, NEW amount \in Nat, C!contribute(t, w, amount)
      PROVE  /\ campaign' \in [Tokens -> Campaign]
             /\ contribution' \in [Tokens -> [Investors -> Nat]]
             /\ contributors' \in [Tokens -> SUBSET Investors] /\ eurc' \in [C!Holders -> Nat]
             /\ UNCHANGED paused
  <2>0. campaign[t].totalRaised + amount \in Nat
    BY SMTT(60), <1>0 DEF Campaign
  <2>1. [campaign[t] EXCEPT !.totalRaised = campaign[t].totalRaised + amount] \in Campaign
    BY Zenon, <1>0, <2>0 DEF Campaign
  <2>2. campaign' \in [Tokens -> Campaign] /\ UNCHANGED paused
    BY Zenon, <1>0, <1>6, <2>1 DEF C!contribute
  <2>3. contribution' \in [Tokens -> [Investors -> Nat]]
    BY SMTT(60), <1>0, <1>6 DEF C!contribute
  <2>4. contributors' \in [Tokens -> SUBSET Investors]
    BY Zenon, <1>0, <1>6 DEF C!contribute
  <2>5. eurc' \in [C!Holders -> Nat]
    BY Zenon, <1>0, <1>6, PaymentMoves, HoldersAre DEF C!contribute
  <2> QED BY Zenon, <2>2, <2>3, <2>4, <2>5
<1> QED BY Zenon, <1>0, <1>1, <1>2, <1>3, <1>4, <1>5, <1>6 DEF Contract

\* So do the jobs and the clock.
LEMMA JobTypes ==
  ASSUME C!TypeOK, [C!Next]_(C!vars)
  PROVE  /\ now' \in 0 .. MaxTime
         /\ job' \in [Runs -> [pc : {"idle", "open", "finalize", "reread", "mint", "sweep"},
                               token : Tokens]]
<1> DEFINE Steps == {"idle", "open", "finalize", "reread", "mint", "sweep"}
           Job == [pc : Steps, token : Tokens]
<1>0. now \in 0 .. MaxTime /\ job \in [Runs -> Job] /\ MaxTime \in Nat
  BY Zenon, InstanceAssumption DEF C!TypeOK
<1>1. C!Idle \in Job
  <2>1. (CHOOSE t \in Tokens : TRUE) \in Tokens
    BY Zenon, InstanceAssumption
  <2> QED BY Zenon, <2>1 DEF C!Idle
<1>2. \A j \in Runs : C!Ends(j) => job' \in [Runs -> Job]
  BY Zenon, <1>0, <1>1 DEF C!Ends
<1>3. \A j \in Runs, l \in Steps : C!Goes(j, l) => job' \in [Runs -> Job]
  BY Zenon, <1>0 DEF C!Goes
<1>4. CASE UNCHANGED <<now, job>> \/ UNCHANGED C!vars
  BY Zenon, <1>0, <1>4 DEF C!vars
<1>5. CASE C!Tick
  BY SMTT(60), <1>0, <1>5 DEF C!Tick
<1>6. ASSUME NEW j \in Runs, C!JobStep(j) PROVE now' = now /\ job' \in [Runs -> Job]
  <2>1. ASSUME NEW t \in Tokens, C!OpenIpoEscrowCampaignService(j, t) \/ C!processCampaign(j, t)
        PROVE  now' = now /\ job' \in [Runs -> Job]
    <3>1. \A l \in Steps : [pc |-> l, token |-> t] \in Job
      BY Zenon
    <3>2. \E l \in Steps : job' = [job EXCEPT ![j] = [pc |-> l, token |-> t]]
      BY Zenon, <2>1 DEF C!OpenIpoEscrowCampaignService, C!processCampaign
    <3>3. now' = now
      BY Zenon, <2>1 DEF C!OpenIpoEscrowCampaignService, C!processCampaign
    <3> QED BY Zenon, <1>0, <3>1, <3>2, <3>3
  <2>2. CASE C!readCampaign(j) \/ C!mintForContributors(j) \/ C!JobMined(j) \/ C!JobFails(j)
    <3>1. now' = now /\ (C!Ends(j) \/ \E l \in Steps : C!Goes(j, l))
      BY Zenon, <2>2 DEF C!readCampaign, C!mintForContributors, C!JobMined, C!JobFails
    <3> QED BY Zenon, <1>2, <1>3, <3>1
  <2> QED BY Zenon, <1>6, <2>1, <2>2 DEF C!JobStep
<1> QED BY Zenon, <1>0, <1>4, <1>5, <1>6 DEF C!Next

\* The accounts are right after every step of the contract, the jobs and the clock.
LEMMA EscrowStep ==
  ASSUME EscrowInv, SumsMove(Tokens), SumsMove(Investors), [C!Next]_(C!vars)
  PROVE  EscrowInv'
<1>0. C!TypeOK /\ campaign \in [Tokens -> Campaign] /\ contribution \in [Tokens -> [Investors -> Nat]]
  BY Zenon DEF EscrowInv, C!TypeOK, Campaign
<1>1. CASE Quiet
  <2>1. C!EveryEuroIsAccounted'
    BY Zenon, <1>1, NoMoneyMoves DEF EscrowInv, Quiet
  <2>2. \A t \in Tokens : CampaignIsSound(t)'
    BY Zenon, <1>1, OtherCampaignsAreSound DEF Quiet
  <2>3. C!TypeOK'
    BY Zenon, <1>0, <1>1, JobTypes DEF C!TypeOK, Quiet
  <2> QED BY Zenon, <2>1, <2>2, <2>3 DEF EscrowInv
<1>2. ASSUME NEW t \in Tokens, Contract(t)
      PROVE  EscrowInv'
  <2>1. C!TypeOK'
    BY Zenon, <1>0, <1>2, ContractTypes, JobTypes DEF C!TypeOK, Campaign
  <2>2. \A u \in Tokens : u # t => campaign'[u] = campaign[u] /\ contribution'[u] = contribution[u]
    BY Zenon, <1>0, <1>2
    DEF Contract, C!openCampaign, C!extendDeadline, C!finalize, C!withdrawRaised, C!withdraw,
        C!contribute
  <2>3. \A u \in Tokens : u # t => CampaignIsSound(u)'
    BY Zenon, <2>2 DEF EscrowInv, CampaignIsSound
  <2>4. CASE C!openCampaign(t) \/ (\E d \in Extensions : C!extendDeadline(t, d)) \/ C!finalize(t)
    <3>1. UNCHANGED <<contribution, eurc>>
      BY Zenon, <2>4 DEF C!openCampaign, C!extendDeadline, C!finalize
    <3>2. CampaignIsSound(t)' /\ campaign'[t].swept = campaign[t].swept
      BY Zenon, <2>4, <3>1, OtherCampaignsAreSound
    <3>3. \A u \in Tokens : campaign'[u].swept = campaign[u].swept
      BY Zenon, <2>2, <3>2
    <3>4. C!EveryEuroIsAccounted'
      BY Zenon, <3>1, <3>3, NoMoneyMoves DEF EscrowInv
    <3> QED BY Zenon, <2>1, <2>3, <3>2, <3>4 DEF EscrowInv
  <2>5. CASE \/ C!withdrawRaised(t)
             \/ \E w \in Investors : C!withdraw(t, w) \/ \E amount \in Nat : C!contribute(t, w, amount)
    <3>1. C!EveryEuroIsAccounted' /\ CampaignIsSound(t)'
      BY Zenon, <2>5, SweepIsAccounted, ReturnIsAccounted, ContributionIsAccounted
    <3> QED BY Zenon, <2>1, <2>3, <3>1 DEF EscrowInv
  <2> QED BY Zenon, <1>2, <2>4, <2>5 DEF Contract
<1> QED BY Zenon, <1>0, <1>1, <1>2, ContractSteps

\* Nothing is raised and nothing is owed at first.
LEMMA EscrowStarts ==
  ASSUME C!Init, SumOfNone(Tokens), SumOfNone(Investors)
  PROVE  EscrowInv
<1>0. /\ \A t \in Tokens : campaign[t] = C!NotOpened /\ contribution[t] = [w \in Investors |-> 0]
      /\ eurc = [h \in C!Holders |-> IF h \in Investors THEN Funds ELSE 0]
  BY Zenon DEF C!Init
<1>1. C!TypeOK
  <2>0. 0 \in Nat /\ 0 \in 0 .. MaxTime
    BY SMTT(60), InstanceAssumption
  <2>1. C!NotOpened \in Campaign
    BY Zenon, <2>0 DEF C!NotOpened, Campaign, C!CampaignState
  <2>2. (CHOOSE t \in Tokens : TRUE) \in Tokens
    BY Zenon, InstanceAssumption
  <2>3. campaign \in [Tokens -> Campaign] /\ contribution \in [Tokens -> [Investors -> Nat]]
    BY Zenon, <2>0, <2>1 DEF C!Init
  <2>4. contributors \in [Tokens -> SUBSET Investors] /\ paused \in BOOLEAN /\ now \in 0 .. MaxTime
    BY Zenon, <2>0 DEF C!Init
  <2>5. eurc \in [C!Holders -> Nat]
    BY Zenon, <1>0, HoldersAre
  <2>6. job \in [Runs -> [pc : {"idle", "open", "finalize", "reread", "mint", "sweep"},
                          token : Tokens]]
    BY Zenon, <2>2 DEF C!Init, C!Idle
  <2> QED BY Zenon, <2>3, <2>4, <2>5, <2>6 DEF C!TypeOK, Campaign
<1>2. \A t \in Tokens : C!Sum(contribution[t]) = 0
  BY Zenon, <1>0 DEF SumOfNone
<1>3. \A t \in Tokens : /\ campaign[t].totalRaised = 0 /\ campaign[t].state = "NotOpened"
                        /\ campaign[t].swept = FALSE
  BY SMTT(60), <1>0 DEF C!NotOpened
<1>4. \A t \in Tokens : CampaignIsSound(t)
  BY SMTT(60), <1>2, <1>3, HoldersAre DEF CampaignIsSound
<1>5. C!EveryEuroIsAccounted
  <2>1. /\ OwedFor = [t \in Tokens |-> 0] /\ SweptFor = [t \in Tokens |-> 0]
        /\ \A w \in Investors : PaidBy(w) = [t \in Tokens |-> 0]
    BY Zenon, <1>0, <1>2, <1>3 DEF OwedFor, SweptFor, PaidBy, C!Owed
  <2>2. /\ C!Sum(OwedFor) = 0 /\ C!Sum(SweptFor) = 0 /\ \A w \in Investors : C!Sum(PaidBy(w)) = 0
    BY Zenon, <2>1 DEF SumOfNone
  <2>3. eurc["escrow"] = 0 /\ eurc["treasury"] = 0 /\ \A w \in Investors : eurc[w] = Funds
    BY Zenon, <1>0, HoldersAre
  <2>4. \A w \in Investors : eurc[w] = Funds - C!Sum(PaidBy(w))
    BY SMTT(60), <2>2, <2>3, HoldersAre
  <2> QED BY Zenon, <2>2, <2>3, <2>4 DEF C!EveryEuroIsAccounted, OwedFor, SweptFor, PaidBy
<1> QED BY Zenon, <1>1, <1>4, <1>5 DEF EscrowInv

-----------------------------------------------------------------------------
(* The rent.                                                               *)

Position == [status : D!PositionStatuses, units : Units, wallet : BOOLEAN]
Holders == UNION {[P -> Position] : P \in SUBSET Positions}
Sweep == [pc : {"idle", "next", "holders", "create"}, todo : SUBSET Periods, period : Periods,
          holders : Holders]

\* A sweep only deals with periods whose rent is on record.
SweepIsSound(s) ==
  /\ \A p \in sweep[s].todo : rent[p] # D!NoRent
  /\ sweep[s].pc \in {"holders", "create"} => rent[sweep[s].period] # D!NoRent

\* What a period promises was collected for it.
PeriodIsSound(p) ==
  distribution[p] # D!NoDistribution =>
    /\ rent[p] # D!NoRent
    /\ D!Sum(distribution[p].entries) <= distribution[p].net
    /\ distribution[p].net <= rent[p]

RentInv ==
  /\ rent \in [Periods -> Gross \cup {D!NoRent}]
  /\ position \in [Positions -> Position]
  /\ distribution = [p \in Periods |-> distribution[p]]
  /\ sweep \in [Runs -> Sweep]
  /\ \A s \in Runs : SweepIsSound(s)
  /\ \A p \in Periods : PeriodIsSound(p)

\* Shares e of at most the part k / Micros of the units U: together they are at most that part
\* of all units, those that get no share included.
SharesAdd ==
  \A P \in SUBSET Positions : \A Q \in SUBSET P : \A U \in [P -> Nat], e \in [Q -> Nat], k \in Nat :
    (\A h \in Q : Micros * e[h] <= k * U[h]) =>
      D!Sum(e) \in Nat /\ D!Sum(U) \in Nat /\ Micros * D!Sum(e) <= k * D!Sum(U)

\* A quotient rounded down, multiplied again, is at most the dividend.
LEMMA RoundsDown ==
  ASSUME NEW a \in Nat, NEW b \in Nat, b > 0
  PROVE  a \div b \in Nat /\ b * (a \div b) <= a
BY SMTT(60)

\* CalculateOperatingDistributionService: the entries come to at most the net, the net to at
\* most the rent, whatever the three divisions drop.
LEMMA CalculatedIsCovered ==
  ASSUME SharesAdd, NEW gross \in Nat, NEW holders \in Holders
  PROVE  /\ D!Sum(D!Calculated(gross, holders).entries) <= D!Calculated(gross, holders).net
         /\ D!Calculated(gross, holders).net <= gross
<1> DEFINE P == DOMAIN holders
           U == [h \in P |-> holders[h].units]
           total == D!Sum(U)
           net == D!computeDistributableNet(gross)
           k == IF total > 0 THEN D!computeAmountPerUnit(net, total) ELSE 0
           Q == {h \in P : total > 0 /\ holders[h].wallet}
           e == [h \in Q |-> D!computeEntryAmount(holders[h].units, k)]
<1>0. Micros \in Nat /\ Micros > 0 /\ Cent \in Nat /\ Cent > 0 /\ Units \subseteq Nat
  BY SMTT(60), InstanceAssumption
<1>1. P \in SUBSET Positions /\ \A h \in P : holders[h] \in Position
  BY Zenon DEF Holders
<1>2. \A h \in P : holders[h].units \in Nat
  <2>1. \A x \in Position : x.units \in Nat
    BY Zenon, <1>0 DEF Position
  <2> QED BY Zenon, <1>1, <2>1
<1>3. U \in [P -> Nat] /\ Q \in SUBSET P
  BY Zenon, <1>2
<1>4. net \in Nat /\ net <= gross
  <2>1. gross \div Cent \in Nat /\ Cent * (gross \div Cent) <= gross
    BY Zenon, <1>0, RoundsDown
  <2>2. net = (gross \div Cent) * Cent
    <3>1. gross - 0 - 0 - 0 = gross /\ (IF gross > 0 THEN gross ELSE 0) = gross
      BY SMTT(60)
    <3> QED BY Zenon, <3>1 DEF D!computeDistributableNet
  <2> QED BY SMTT(60), <1>0, <2>1, <2>2
<1>5. D!Calculated(gross, holders).entries = e /\ D!Calculated(gross, holders).net = net
  BY Zenon DEF D!Calculated
<1>6. total \in Nat
  <2>1. {} \in SUBSET P /\ [h \in {} |-> 0] \in [{} -> Nat] /\ 0 \in Nat
    BY Zenon
  <2> HIDE DEF P, U, Q
  <2> QED BY Zenon, <1>1, <1>3, <2>1 DEF SharesAdd
<1> HIDE DEF total, net
<1>7. k \in Nat /\ k * total <= net * Micros
  <2>1. CASE total > 0
    <3>1. net * Micros \in Nat
      BY SMTT(60), <1>0, <1>4
    <3>2. (net * Micros) \div total \in Nat /\ total * ((net * Micros) \div total) <= net * Micros
      BY Zenon, <1>6, <2>1, <3>1, RoundsDown
    <3>3. k = (net * Micros) \div total
      BY Zenon, <2>1 DEF D!computeAmountPerUnit
    <3> HIDE DEF k
    <3> QED BY SMTT(60), <1>6, <3>2, <3>3
  <2>2. CASE ~(total > 0)
    <3>1. net * Micros \in Nat
      BY SMTT(60), <1>0, <1>4
    <3> QED BY SMTT(60), <1>6, <2>2, <3>1
  <2> QED BY Zenon, <2>1, <2>2
<1> HIDE DEF k
<1>8. e \in [Q -> Nat] /\ \A h \in Q : Micros * e[h] <= k * U[h]
  <2> SUFFICES ASSUME NEW h \in Q
               PROVE  /\ D!computeEntryAmount(holders[h].units, k) \in Nat
                      /\ Micros * D!computeEntryAmount(holders[h].units, k) <= k * holders[h].units
    BY Zenon, <1>3
  <2> DEFINE u == holders[h].units
  <2>1. u \in Nat
    BY Zenon, <1>2
  <2> HIDE DEF u
  <2>2. u * k \in Nat /\ u * k = k * u
    BY SMTT(60), <1>7, <2>1
  <2>3. (u * k) \div Micros \in Nat /\ Micros * ((u * k) \div Micros) <= u * k
    BY Zenon, <1>0, <2>2, RoundsDown
  <2> QED BY Zenon, <2>2, <2>3 DEF D!computeEntryAmount, u
<1>9. D!Sum(e) \in Nat /\ Micros * D!Sum(e) <= k * total
  <2> HIDE DEF P, U, Q, e
  <2> QED BY Zenon, <1>1, <1>3, <1>7, <1>8 DEF SharesAdd, total
<1> DEFINE sum == D!Sum(e)
<1> HIDE DEF e, sum
<1>10. sum <= net
  <2>1. sum \in Nat /\ Micros * sum <= k * total /\ k * total <= net * Micros /\ k * total \in Nat
    BY SMTT(60), <1>6, <1>7, <1>9 DEF sum
  <2>2. ASSUME sum >= net + 1 PROVE FALSE
    <3>1. Micros * sum >= Micros * (net + 1)
      BY SMTT(60), <1>0, <1>4, <2>1, <2>2
    <3>2. Micros * (net + 1) = net * Micros + Micros
      BY SMTT(60), <1>0, <1>4
    <3> QED BY SMTT(60), <1>0, <1>4, <2>1, <3>1, <3>2
  <2> QED BY SMTT(60), <1>4, <2>1, <2>2
<1> QED BY Zenon, <1>4, <1>5, <1>10 DEF sum

\* The steps of a sweep keep its types.
LEMMA SweepTypes ==
  ASSUME RentInv, NEW s \in Runs
  PROVE  /\ D!Idle \in Sweep /\ sweep[s] \in Sweep
         /\ \A T \in SUBSET Periods : [D!Idle EXCEPT !.pc = "next", !.todo = T] \in Sweep
<1>1. (CHOOSE p \in Periods : TRUE) \in Periods
  BY Zenon, InstanceAssumption
<1>2. D!NoHolders \in Holders
  <2>1. D!NoHolders \in [{} -> Position] /\ {} \in SUBSET Positions
    BY Zenon DEF D!NoHolders
  <2> QED BY Zenon, <2>1 DEF Holders
<1>3. D!Idle \in Sweep
  BY Zenon, <1>1, <1>2 DEF D!Idle, Sweep
<1>4. \A T \in SUBSET Periods : [D!Idle EXCEPT !.pc = "next", !.todo = T] \in Sweep
  BY Zenon, <1>3 DEF Sweep
<1> QED BY Zenon, <1>3, <1>4 DEF RentInv

\* A step of the sweep that writes nothing.
LEMMA ReadsKeepRent ==
  ASSUME RentInv, NEW s \in Runs, sweep' \in [Runs -> Sweep],
         \A r \in Runs : r # s => sweep'[r] = sweep[r],
         UNCHANGED <<rent, position, distribution>>, SweepIsSound(s)'
  PROVE  RentInv'
<1>1. \A r \in Runs : SweepIsSound(r)'
  BY Zenon DEF RentInv, SweepIsSound
<1>2. \A p \in Periods : PeriodIsSound(p)'
  BY Zenon DEF RentInv, PeriodIsSound
<1> QED BY Zenon, <1>1, <1>2 DEF RentInv

\* A sweep that ends holds nothing.
LEMMA EndsKeepRent ==
  ASSUME RentInv, NEW s \in Runs, sweep' = [sweep EXCEPT ![s] = D!Idle],
         UNCHANGED <<rent, position, distribution>>
  PROVE  RentInv'
<1>1. /\ sweep' \in [Runs -> Sweep] /\ sweep'[s] = D!Idle
      /\ \A r \in Runs : r # s => sweep'[r] = sweep[r]
  BY Zenon, SweepTypes DEF RentInv
<1>2. D!Idle.pc = "idle" /\ D!Idle.todo = {}
  BY Zenon DEF D!Idle
<1>3. SweepIsSound(s)'
  BY Zenon, <1>1, <1>2 DEF SweepIsSound
<1> QED BY Zenon, <1>1, <1>3, ReadsKeepRent

LEMMA RentStep ==
  ASSUME RentInv, SharesAdd, [D!Next]_(D!vars)
  PROVE  RentInv'
<1>0. /\ rent \in [Periods -> Gross \cup {D!NoRent}] /\ position \in [Positions -> Position]
      /\ distribution = [p \in Periods |-> distribution[p]] /\ sweep \in [Runs -> Sweep]
      /\ \A s \in Runs : SweepIsSound(s)
      /\ \A p \in Periods : PeriodIsSound(p)
  BY Zenon DEF RentInv
<1>1. ASSUME NEW p \in Periods, D!recordRentCollection(p) PROVE RentInv'
  <2>1. PICK g \in Gross : rent' = [rent EXCEPT ![p] = g]
    BY Zenon, <1>1 DEF D!recordRentCollection
  <2>2. rent[p] = D!NoRent /\ UNCHANGED <<position, distribution, sweep>>
    BY Zenon, <1>1 DEF D!recordRentCollection
  <2>3. g # D!NoRent
    BY SMTT(60), InstanceAssumption DEF D!NoRent
  <2>4. rent' \in [Periods -> Gross \cup {D!NoRent}]
    BY Zenon, <1>0, <2>1
  <2>5. \A q \in Periods : rent[q] # D!NoRent => rent'[q] = rent[q] /\ rent'[q] # D!NoRent
    BY Zenon, <1>0, <2>1, <2>2
  <2>6. \A s \in Runs : sweep[s].period \in Periods /\ sweep[s].todo \in SUBSET Periods
    BY Zenon, <1>0 DEF Sweep
  <2>7. \A s \in Runs : SweepIsSound(s)'
    BY Zenon, <1>0, <2>2, <2>5, <2>6 DEF SweepIsSound
  <2>8. \A q \in Periods : PeriodIsSound(q)'
    BY Zenon, <1>0, <2>2, <2>5 DEF PeriodIsSound
  <2> QED BY Zenon, <1>0, <2>2, <2>4, <2>7, <2>8 DEF RentInv
<1>2. ASSUME NEW h \in Positions, D!PositionMoves(h) PROVE RentInv'
  <2>1. \E x \in {"active", "redeemed"} : position' = [position EXCEPT ![h].status = x]
    BY Zenon, <1>2 DEF D!PositionMoves
  <2>2. position' \in [Positions -> Position]
    BY SMTT(60), <1>0, <2>1 DEF Position, D!PositionStatuses
  <2>3. UNCHANGED <<rent, distribution, sweep>>
    BY Zenon, <1>2 DEF D!PositionMoves
  <2> QED BY Zenon, <1>0, <2>2, <2>3 DEF RentInv, SweepIsSound, PeriodIsSound
<1>3. ASSUME NEW s \in Runs, D!listRentCollectionsAwaitingDistribution(s) PROVE RentInv'
  <2> DEFINE T == {p \in Periods : rent[p] # D!NoRent /\ distribution[p] = D!NoDistribution}
             x == [D!Idle EXCEPT !.pc = "next", !.todo = T]
  <2>1. sweep' = [sweep EXCEPT ![s] = x] /\ UNCHANGED <<rent, position, distribution>>
    BY Zenon, <1>3 DEF D!listRentCollectionsAwaitingDistribution, D!ledgerVars
  <2>2. x \in Sweep
    BY Zenon, SweepTypes
  <2>3. x.pc = "next" /\ \A p \in x.todo : rent[p] # D!NoRent
    BY Zenon DEF D!Idle
  <2> HIDE DEF x
  <2>4. /\ sweep' \in [Runs -> Sweep] /\ sweep'[s] = x
        /\ \A r \in Runs : r # s => sweep'[r] = sweep[r]
    BY Zenon, <1>0, <2>1, <2>2
  <2>5. SweepIsSound(s)'
    BY Zenon, <2>1, <2>3, <2>4 DEF SweepIsSound
  <2> QED BY Zenon, <2>1, <2>4, <2>5, ReadsKeepRent
<1>4. ASSUME NEW s \in Runs, NEW p \in Periods, D!findDistribution(s, p) PROVE RentInv'
  <2> DEFINE none == distribution[p] = D!NoDistribution
             next == IF none THEN "holders" ELSE "next"
             dealt == IF none THEN p ELSE sweep[s].period
             T == sweep[s].todo \ {p}
  <2>0. sweep[s] \in Sweep /\ sweep[s].period \in Periods /\ sweep[s].todo \in SUBSET Periods
    BY Zenon, <1>0 DEF Sweep
  <2>1. /\ sweep' = [sweep EXCEPT ![s].todo = T, ![s].pc = next, ![s].period = dealt]
        /\ UNCHANGED <<rent, position, distribution>>
    BY Zenon, <1>4 DEF D!findDistribution, D!ledgerVars
  <2>2. p \in sweep[s].todo /\ rent[p] # D!NoRent /\ \A q \in T : rent[q] # D!NoRent
    BY Zenon, <1>0, <1>4 DEF D!findDistribution, SweepIsSound
  <2>3. /\ next \in {"idle", "next", "holders", "create"} /\ dealt \in Periods
        /\ T \in SUBSET Periods /\ (next \in {"holders", "create"} => dealt = p)
    BY Zenon, <2>0
  <2> HIDE DEF next, dealt, T
  <2>4. /\ sweep' \in [Runs -> Sweep] /\ sweep'[s].todo = T
        /\ sweep'[s].pc = next /\ sweep'[s].period = dealt
        /\ \A r \in Runs : r # s => sweep'[r] = sweep[r]
    <3> DEFINE x == [sweep[s] EXCEPT !.todo = T, !.pc = next, !.period = dealt]
    <3>1. x \in Sweep /\ x.todo = T /\ x.pc = next /\ x.period = dealt
      BY Zenon, <2>0, <2>3 DEF Sweep
    <3>2. sweep' = [sweep EXCEPT ![s] = x]
      BY Zenon, <1>0, <2>1
    <3> HIDE DEF x
    <3> QED BY Zenon, <1>0, <3>1, <3>2
  <2>5. SweepIsSound(s)'
    BY Zenon, <2>1, <2>2, <2>3, <2>4 DEF SweepIsSound
  <2> QED BY Zenon, <2>1, <2>4, <2>5, ReadsKeepRent
<1>5. ASSUME NEW s \in Runs, D!listActivePositionHolders(s) PROVE RentInv'
  <2> DEFINE P == {h \in Positions : position[h].status = "active"}
             H == [h \in P |-> position[h]]
  <2>1. /\ sweep' = [sweep EXCEPT ![s].pc = "create", ![s].holders = H]
        /\ UNCHANGED <<rent, position, distribution>>
    BY Zenon, <1>5 DEF D!listActivePositionHolders, D!ledgerVars
  <2>2. H \in Holders
    <3>1. P \in SUBSET Positions /\ H \in [P -> Position]
      BY Zenon, <1>0
    <3> QED BY Zenon, <3>1 DEF Holders
  <2> HIDE DEF H
  <2>3. /\ sweep' \in [Runs -> Sweep] /\ sweep'[s].todo = sweep[s].todo
        /\ sweep'[s].period = sweep[s].period
        /\ \A r \in Runs : r # s => sweep'[r] = sweep[r]
    <3> DEFINE x == [sweep[s] EXCEPT !.pc = "create", !.holders = H]
    <3>0. sweep[s] \in Sweep
      BY Zenon, <1>0
    <3>1. x \in Sweep /\ x.todo = sweep[s].todo /\ x.period = sweep[s].period
      BY Zenon, <2>2, <3>0 DEF Sweep
    <3>2. sweep' = [sweep EXCEPT ![s] = x]
      BY Zenon, <1>0, <2>1
    <3> HIDE DEF x
    <3> QED BY Zenon, <1>0, <3>1, <3>2
  <2>4. sweep[s].pc = "holders"
    BY Zenon, <1>5 DEF D!listActivePositionHolders
  <2>5. SweepIsSound(s)'
    BY Zenon, <1>0, <2>1, <2>3, <2>4 DEF SweepIsSound
  <2> QED BY Zenon, <2>1, <2>3, <2>5, ReadsKeepRent
<1>6. ASSUME NEW s \in Runs, D!createOperatingDistribution(s) PROVE RentInv'
  <2> DEFINE p == sweep[s].period
             c == D!Calculated(rent[p], sweep[s].holders)
             x == [D!Idle EXCEPT !.pc = "next", !.todo = sweep[s].todo]
  <2>0. /\ sweep[s] \in Sweep /\ p \in Periods /\ sweep[s].holders \in Holders
        /\ sweep[s].todo \in SUBSET Periods /\ sweep[s].pc = "create"
    BY Zenon, <1>0, <1>6 DEF Sweep, D!createOperatingDistribution
  <2>1. rent[p] # D!NoRent /\ \A q \in sweep[s].todo : rent[q] # D!NoRent
    BY Zenon, <1>0, <2>0 DEF SweepIsSound
  <2>2. rent[p] \in Nat
    <3>1. rent[p] \in Gross /\ Gross \subseteq Nat
      BY Zenon, <1>0, <2>0, <2>1, InstanceAssumption
    <3> QED BY Zenon, <3>1
  <2>3. CASE distribution[p] = D!NoDistribution
    <3>1. /\ distribution' = [distribution EXCEPT ![p] = c] /\ sweep' = [sweep EXCEPT ![s] = x]
          /\ UNCHANGED <<rent, position>>
      BY Zenon, <1>6, <2>3 DEF D!createOperatingDistribution, D!ledgerVars
    <3>2. D!Sum(c.entries) <= c.net /\ c.net <= rent[p]
      BY Zenon, <2>0, <2>2, CalculatedIsCovered
    <3>3. x \in Sweep
      BY Zenon, <2>0, SweepTypes
    <3>4. x.pc = "next" /\ x.todo = sweep[s].todo
      BY Zenon DEF D!Idle
    <3> HIDE DEF c, x
    <3>5. sweep' \in [Runs -> Sweep] /\ sweep'[s] = x /\ \A r \in Runs : r # s => sweep'[r] = sweep[r]
      BY Zenon, <1>0, <3>1, <3>3
    <3>6. distribution'[p] = c /\ \A q \in Periods : q # p => distribution'[q] = distribution[q]
      BY Zenon, <1>0, <2>0, <3>1
    <3>7. distribution' = [q \in Periods |-> distribution'[q]]
      BY Zenon, <1>0, <2>0, <3>1
    <3>8. \A r \in Runs : SweepIsSound(r)'
      BY Zenon, <1>0, <2>1, <3>1, <3>4, <3>5 DEF SweepIsSound
    <3>9. \A q \in Periods : PeriodIsSound(q)'
      BY Zenon, <1>0, <2>1, <3>1, <3>2, <3>6 DEF PeriodIsSound
    <3> QED BY Zenon, <1>0, <3>1, <3>5, <3>7, <3>8, <3>9 DEF RentInv
  <2>4. CASE distribution[p] # D!NoDistribution
    <3>1. sweep' = [sweep EXCEPT ![s] = D!Idle] /\ UNCHANGED <<rent, position, distribution>>
      BY Zenon, <1>6, <2>4 DEF D!createOperatingDistribution, D!ledgerVars
    <3> QED BY Zenon, <3>1, EndsKeepRent
  <2> QED BY Zenon, <2>3, <2>4
<1>7. ASSUME NEW s \in Runs, D!SweepEnds(s) PROVE RentInv'
  <2>1. sweep' = [sweep EXCEPT ![s] = D!Idle] /\ UNCHANGED <<rent, position, distribution>>
    BY Zenon, <1>7 DEF D!SweepEnds, D!ledgerVars
  <2> QED BY Zenon, <2>1, EndsKeepRent
<1>8. CASE UNCHANGED D!vars
  BY Zenon, <1>0, <1>8 DEF D!vars, D!ledgerVars, RentInv, SweepIsSound, PeriodIsSound
<1> QED BY Zenon, <1>1, <1>2, <1>3, <1>4, <1>5, <1>6, <1>7, <1>8 DEF D!Next

LEMMA RentStarts == D!Init => RentInv
<1> SUFFICES ASSUME D!Init PROVE RentInv
  OBVIOUS
<1>1. rent \in [Periods -> Gross \cup {D!NoRent}]
  BY Zenon DEF D!Init
<1>2. position \in [Positions -> Position]
  BY Zenon DEF D!Init, Position, D!PositionStatuses
<1>3. distribution = [p \in Periods |-> distribution[p]] /\ \A p \in Periods : PeriodIsSound(p)
  BY Zenon DEF D!Init, PeriodIsSound
<1>4. D!Idle \in Sweep /\ D!Idle.pc = "idle" /\ D!Idle.todo = {}
  <2>1. (CHOOSE p \in Periods : TRUE) \in Periods
    BY Zenon, InstanceAssumption
  <2>2. D!NoHolders \in Holders
    <3>1. D!NoHolders \in [{} -> Position] /\ {} \in SUBSET Positions
      BY Zenon DEF D!NoHolders
    <3> QED BY Zenon, <3>1 DEF Holders
  <2> QED BY Zenon, <2>1, <2>2 DEF D!Idle, Sweep
<1>5. sweep \in [Runs -> Sweep] /\ \A s \in Runs : SweepIsSound(s)
  BY Zenon, <1>4 DEF D!Init, SweepIsSound
<1> QED BY Zenon, <1>1, <1>2, <1>3, <1>5 DEF RentInv

-----------------------------------------------------------------------------
(* The composition.                                                        *)

\* The inductive invariant: that of the component in focus.
SettlementInv == (focus = "escrow" => EscrowInv) /\ (focus = "rent" => RentInv)

\* What the steps use of the sums.
SumsAre ==
  /\ SumsMove(Tokens) /\ SumsMove(Investors)
  /\ SumOfNone(Tokens) /\ SumOfNone(Investors)
  /\ SharesAdd

LEMMA SettlementStarts == ASSUME SumsAre PROVE SettlementInit => SettlementInv
BY Zenon, EscrowStarts, RentStarts DEF SettlementInit, EscrowInit, RentInit, SettlementInv, SumsAre

LEMMA SettlementStep ==
  ASSUME SumsAre
  PROVE  SettlementInv /\ [SettlementNext]_settlementVars => SettlementInv'
<1> SUFFICES ASSUME SettlementInv, [SettlementNext]_settlementVars PROVE SettlementInv'
  BY Zenon
<1>1. focus' = focus
  BY Zenon DEF SettlementNext, Only, settlementVars
<1>2. ASSUME focus = "escrow" PROVE [C!Next]_(C!vars)
  BY Zenon, <1>2
  DEF SettlementNext, Only, settlementVars, escrowVars, C!vars, C!chainVars, C!contractVars
<1>3. ASSUME focus = "rent" PROVE [D!Next]_(D!vars)
  BY Zenon, <1>3
  DEF SettlementNext, Only, settlementVars, rentVars, D!vars, D!ledgerVars
<1> QED BY Zenon, <1>1, <1>2, <1>3, EscrowStep, RentStep DEF SettlementInv, SumsAre

LEMMA SettlementImplies == SettlementInv => EveryEuroIsAccounted /\ NeverOverdistributed
BY Zenon
DEF SettlementInv, EscrowInv, EveryEuroIsAccounted, RentInv, PeriodIsSound, NeverOverdistributed,
    D!NeverOverdistributed

P == INSTANCE SettlementParts

\* The sums of the two components are over finite sets.
LEMMA SumsOverFiniteSets == SumsAre
<1>1. IsFiniteSet(Tokens) /\ IsFiniteSet(Investors) /\ IsFiniteSet(Positions) /\ Micros \in Nat
  BY ZenonT(40), InstanceAssumption
<1>2. \A f : C!Sum(f) = P!Sum(f) /\ D!Sum(f) = P!Sum(f)
  BY ZenonT(40)
  DEF C!Sum, C!FoldFunction, C!FoldFunctionOnSet, C!MapThenFoldSet,
      D!Sum, D!FoldFunction, D!FoldFunctionOnSet, D!MapThenFoldSet,
      P!Sum, P!FoldFunction, P!FoldFunctionOnSet, P!MapThenFoldSet
<1>3. ASSUME NEW S, IsFiniteSet(S) PROVE SumsMove(S) /\ SumOfNone(S)
  <2>1. P!IsFiniteSet(S)
    BY ZenonT(40), <1>3 DEF IsFiniteSet, P!IsFiniteSet
  <2>2. /\ \A f \in [S -> Int] :
            /\ P!Sum(f) \in Int
            /\ \A g \in [S -> Int], x \in S :
                 (\A y \in S : y # x => g[y] = f[y]) => P!Sum(g) = P!Sum(f) - f[x] + g[x]
        /\ P!Sum([x \in S |-> 0]) = 0
    BY ZenonT(40), <2>1, P!SumFacts, DepthAssumption, OverlapAssumption, RangeAssumption,
       BlockAssumption, NoneAssumption, FailuresAssumption, ReserversAssumption
  <2>3. SumsMove(S)
    <3> SUFFICES ASSUME NEW f \in [S -> Int]
                 PROVE  /\ C!Sum(f) \in Int
                        /\ \A g \in [S -> Int], x \in S :
                             (\A y \in S : y # x => g[y] = f[y]) =>
                               C!Sum(g) = C!Sum(f) - f[x] + g[x]
      BY ZenonT(40) DEF SumsMove
    <3>1. C!Sum(f) = P!Sum(f) /\ \A g : C!Sum(g) = P!Sum(g)
      BY ZenonT(40), <1>2
    <3>2. C!Sum(f) \in Int
      BY ZenonT(40), <3>1, <2>2
    <3>3. ASSUME NEW g \in [S -> Int], NEW x \in S, \A y \in S : y # x => g[y] = f[y]
          PROVE  C!Sum(g) = C!Sum(f) - f[x] + g[x]
      <4>1. P!Sum(g) = P!Sum(f) - f[x] + g[x]
        BY ZenonT(40), <2>2, <3>3
      <4> QED BY ZenonT(40), <4>1, <3>1
    <3> QED BY ZenonT(40), <3>2, <3>3
  <2>4. SumOfNone(S)
    BY ZenonT(40), <1>2, <2>2 DEF SumOfNone
  <2> QED BY ZenonT(40), <2>3, <2>4
<1>4. SharesAdd
  <2>1. P!IsFiniteSet(Positions)
    BY ZenonT(40), <1>1 DEF IsFiniteSet, P!IsFiniteSet
  <2>2. \A R \in SUBSET Positions : \A Q \in SUBSET R :
          \A U \in [R -> Nat], e \in [Q -> Nat], k \in Nat :
            (\A h \in Q : Micros * e[h] <= k * U[h]) =>
              P!Sum(e) \in Nat /\ P!Sum(U) \in Nat /\ Micros * P!Sum(e) <= k * P!Sum(U)
    BY ZenonT(40), <1>1, <2>1, P!SumFacts, DepthAssumption, OverlapAssumption, RangeAssumption,
       BlockAssumption, NoneAssumption, FailuresAssumption, ReserversAssumption
  <2> SUFFICES ASSUME NEW R \in SUBSET Positions, NEW Q \in SUBSET R,
                      NEW U \in [R -> Nat], NEW e \in [Q -> Nat], NEW k \in Nat,
                      \A h \in Q : Micros * e[h] <= k * U[h]
               PROVE  D!Sum(e) \in Nat /\ D!Sum(U) \in Nat /\ Micros * D!Sum(e) <= k * D!Sum(U)
    BY ZenonT(40) DEF SharesAdd
  <2>3. D!Sum(e) = P!Sum(e) /\ D!Sum(U) = P!Sum(U)
    BY ZenonT(40), <1>2
  <2>4. P!Sum(e) \in Nat /\ P!Sum(U) \in Nat /\ Micros * P!Sum(e) <= k * P!Sum(U)
    BY ZenonT(40), <2>2
  <2> QED BY ZenonT(40), <2>3, <2>4
<1> QED BY ZenonT(40), <1>1, <1>3, <1>4 DEF SumsAre

LEMMA SettlementInvariant == SettlementSpec => []SettlementInv
BY PTL, SumsOverFiniteSets, SettlementStarts, SettlementStep DEF SettlementSpec

\* The escrow holds exactly what its campaigns still owe, and nobody is paid twice: of what the
\* contract's functions pay, in whichever order investors, role holders and overlapping jobs call
\* them, no euro is paid out for one campaign that was given for another.
THEOREM EscrowIsAccounted == SettlementSpec => []EveryEuroIsAccounted
BY PTL, SettlementInvariant, SettlementImplies

\* No period promises more than was collected for it, whatever the divisions drop, however many
\* positions share and however the ledger moves while sweeps overlap.
THEOREM RentIsCovered == SettlementSpec => []NeverOverdistributed
BY PTL, SettlementInvariant, SettlementImplies
=============================================================================
