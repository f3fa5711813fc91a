-------------------------- MODULE AttributionProofs ---------------------------
(***************************************************************************)
(* Theorems about Attribution, for any campaigns, codes, users, prices and *)
(* number of workers.  In this order:                                      *)
(*                                                                         *)
(*   - the fee split, and the type of every variable; no budget is         *)
(*     overdrawn;                                                          *)
(*   - that evidence is rewarded once, for any number of racing requests:  *)
(*     the row locks protect what the guards read, and so the flags and    *)
(*     the redemptions move together (Inv, below);                         *)
(*   - what single steps may do: a voided code earns nothing, and the      *)
(*     money path implements Rewards;                                      *)
(*   - the books: the balances are the sums of the ledger, every movement  *)
(*     balances, and a reward is charged one price (Kept, below).          *)
(***************************************************************************)
EXTENDS Attribution, SumProofs

-------------------------------------------------------------------------------
(* The fee split of rates.ts. *)

(* splitFee never takes more than there is, and loses nothing: what it      *)
(* gives the publisher and the platform is what left the budget.            *)
THEOREM SplitIsExact ==
    ASSUME NEW gross \in Nat, NEW bps \in 0 .. BasisPoints
    PROVE  /\ Cut(gross, bps) \in 0 .. gross
           /\ Net(gross, bps) \in 0 .. gross
           /\ Net(gross, bps) + Cut(gross, bps) = gross
<1> DEFINE product == gross * bps
<1>1. product \in Nat /\ product <= gross * BasisPoints
  BY DEF BasisPoints
<1>2. (product \div BasisPoints) \in Nat /\ product \div BasisPoints <= gross
  <2> HIDE DEF product
  <2> QED  BY <1>1 DEF BasisPoints
<1>3. Cut(gross, bps) \in Nat /\ Cut(gross, bps) <= gross
  BY <1>2 DEF Cut
<1> QED  BY <1>3 DEF Net

-------------------------------------------------------------------------------
(* Every variable keeps its type. *)

(* Who a request can name: first_open nobody, a claim or a confirm a user,  *)
(* and a scan has no row of its own to hold.                                *)
RequestsOK ==
    \A w \in Workers :
        /\ tx[w].phase = "holding" => tx[w].op # "scan"
        /\ tx[w] # Idle /\ tx[w].op \notin {"scan", "first_open"} => tx[w].user \in Users

LEMMA CardPrices ==
    ASSUME NEW card \in RateCards
    PROVE  /\ card.coin \in Nat /\ card.guest \in Nat /\ card.engagement \in Nat
           /\ card.bps \in 0 .. BasisPoints
           /\ card.coin \in Prices /\ card.guest \in Prices /\ card.engagement \in Prices
BY RatesAssumption DEF ValidCard, Prices

LEMMA PricesAreNat == Prices \subseteq Nat
BY RatesAssumption DEF ValidCard, Prices

(* The fee of a request is one of the prices it read. *)
LEMMA FeeIsPrice ==
    ASSUME NEW t \in Transactions
    PROVE  Fee(t) \in Prices /\ Fee(t) \in Nat
BY CardPrices DEF Fee, Transactions

LEMMA InitialBalances ==
    Init => balance \in [Accounts -> Int]
<1> SUFFICES ASSUME Init PROVE balance \in [Accounts -> Int]
  OBVIOUS
<1>1. Cardinality(Campaigns) \in Nat
  BY ConstantsAssumption, FS_CardinalityType
<1>2. InitialBudget \in Int /\ -(InitialBudget * Cardinality(Campaigns)) \in Int
  BY <1>1, ConstantsAssumption
<1> QED  BY <1>2 DEF Init

LEMMA InitType == Init => TypeOK /\ RequestsOK
<1> SUFFICES ASSUME Init PROVE TypeOK /\ RequestsOK
  OBVIOUS
<1>1. balance \in [Accounts -> Int]
  BY InitialBalances
<1>2. \A e \in entries : e.account \in Accounts /\ e.amount \in Int
  BY ConstantsAssumption
     DEF Init, OpeningEntries, FundingEntries, Entry, Accounts
<1> QED  BY <1>1, <1>2, ConstantsAssumption
         DEF Init, TypeOK, RequestsOK, PartnershipStatuses, CampaignStatuses, Idle

LEMMA AccountsExist ==
    /\ \A c \in Campaigns : CampaignAccount(c) \in Accounts
    /\ \A p \in Publishers : PublisherAccount(p) \in Accounts
    /\ PlatformFees \in Accounts /\ ExternalFunding \in Accounts
BY DEF Accounts

(* An entry changes the balance of its own account and no other.            *)
LEMMA PostType ==
    ASSUME NEW f \in [Accounts -> Int], NEW a \in Accounts, NEW n \in Int
    PROVE  /\ Post(f, a, n) \in [Accounts -> Int]
           /\ Post(f, a, n)[a] = f[a] + n
           /\ \A b \in Accounts : b # a => Post(f, a, n)[b] = f[b]
BY DEF Post

LEMMA AccountsDistinct ==
    /\ \A c \in Campaigns, p \in Publishers : CampaignAccount(c) # PublisherAccount(p)
    /\ \A c \in Campaigns : CampaignAccount(c) \notin {PlatformFees, ExternalFunding}
    /\ \A p \in Publishers : PublisherAccount(p) \notin {PlatformFees, ExternalFunding}
    /\ \A c1, c2 \in Campaigns : CampaignAccount(c1) = CampaignAccount(c2) => c1 = c2
    /\ \A p1, p2 \in Publishers : PublisherAccount(p1) = PublisherAccount(p2) => p1 = p2
    /\ PlatformFees # ExternalFunding
BY DEF CampaignAccount, PublisherAccount, PlatformFees, ExternalFunding

(* A payout takes the gross out of the budget, gives the publisher the net  *)
(* and the platform its cut, and touches no other account.                  *)
LEMMA PayoutMoves ==
    ASSUME NEW f \in [Accounts -> Int], NEW c \in Campaigns, NEW p \in Publishers,
           NEW gross \in Nat, NEW bps \in 0 .. BasisPoints
    PROVE  LET after == AfterPayout(f, c, p, gross, bps) IN
           /\ after \in [Accounts -> Int]
           /\ after[CampaignAccount(c)] = f[CampaignAccount(c)] - gross
           /\ after[PublisherAccount(p)] = f[PublisherAccount(p)] + Net(gross, bps)
           /\ after[PlatformFees] = f[PlatformFees] + Cut(gross, bps)
           /\ \A a \in Accounts :
                a \notin {CampaignAccount(c), PublisherAccount(p), PlatformFees} => after[a] = f[a]
<1> DEFINE net == Net(gross, bps)
           cut == Cut(gross, bps)
           debited == Post(f, CampaignAccount(c), -gross)
           credited == Post(debited, PublisherAccount(p), net)
           after == Post(credited, PlatformFees, cut)
<1>1. net \in Int /\ cut \in Int
  BY SplitIsExact
<1>2. /\ CampaignAccount(c) \in Accounts /\ PublisherAccount(p) \in Accounts
      /\ PlatformFees \in Accounts
  BY AccountsExist
<1>3. /\ CampaignAccount(c) # PublisherAccount(p) /\ CampaignAccount(c) # PlatformFees
      /\ PublisherAccount(p) # PlatformFees
  BY AccountsDistinct
<1>4. /\ debited \in [Accounts -> Int]
      /\ debited[CampaignAccount(c)] = f[CampaignAccount(c)] - gross
      /\ \A b \in Accounts : b # CampaignAccount(c) => debited[b] = f[b]
  <2>1. -gross \in Int
    OBVIOUS
  <2>2. /\ debited \in [Accounts -> Int]
        /\ debited[CampaignAccount(c)] = f[CampaignAccount(c)] + (-gross)
        /\ \A b \in Accounts : b # CampaignAccount(c) => debited[b] = f[b]
    BY <1>2, <2>1, PostType
  <2>3. f[CampaignAccount(c)] \in Int
    BY <1>2
  <2> HIDE DEF debited
  <2> QED  BY <2>2, <2>3
<1> HIDE DEF net, cut, debited
<1>5. /\ credited \in [Accounts -> Int]
      /\ credited[PublisherAccount(p)] = debited[PublisherAccount(p)] + net
      /\ \A b \in Accounts : b # PublisherAccount(p) => credited[b] = debited[b]
  BY <1>1, <1>2, <1>4, PostType
<1> HIDE DEF credited
<1>6. /\ after \in [Accounts -> Int]
      /\ after[PlatformFees] = credited[PlatformFees] + cut
      /\ \A b \in Accounts : b # PlatformFees => after[b] = credited[b]
  BY <1>1, <1>2, <1>5, PostType
<1> HIDE DEF after
<1>7. AfterPayout(f, c, p, gross, bps) = after
  BY DEF AfterPayout, after, credited, debited, net, cut
<1> QED  BY <1>2, <1>3, <1>4, <1>5, <1>6, <1>7 DEF net, cut

(* A funding moves coins between the outside and one budget.                *)
LEMMA FundingMoves ==
    ASSUME NEW f \in [Accounts -> Int], NEW c \in Campaigns, NEW coins \in Int
    PROVE  LET after == AfterFunding(f, c, coins) IN
           /\ after \in [Accounts -> Int]
           /\ after[CampaignAccount(c)] = f[CampaignAccount(c)] + coins
           /\ after[ExternalFunding] = f[ExternalFunding] - coins
           /\ \A a \in Accounts : a \notin {CampaignAccount(c), ExternalFunding} => after[a] = f[a]
<1> DEFINE drawn == Post(f, ExternalFunding, -coins)
<1>1. CampaignAccount(c) \in Accounts /\ ExternalFunding \in Accounts
  BY AccountsExist
<1>2. CampaignAccount(c) # ExternalFunding
  BY AccountsDistinct
<1>3. /\ drawn \in [Accounts -> Int]
      /\ drawn[ExternalFunding] = f[ExternalFunding] - coins
      /\ \A b \in Accounts : b # ExternalFunding => drawn[b] = f[b]
  <2>1. -coins \in Int
    OBVIOUS
  <2>2. /\ drawn \in [Accounts -> Int]
        /\ drawn[ExternalFunding] = f[ExternalFunding] + (-coins)
        /\ \A b \in Accounts : b # ExternalFunding => drawn[b] = f[b]
    BY <1>1, <2>1, PostType
  <2>3. f[ExternalFunding] \in Int
    BY <1>1
  <2> HIDE DEF drawn
  <2> QED  BY <2>2, <2>3
<1> HIDE DEF drawn
<1>4. /\ Post(drawn, CampaignAccount(c), coins) \in [Accounts -> Int]
      /\ Post(drawn, CampaignAccount(c), coins)[CampaignAccount(c)] =
            drawn[CampaignAccount(c)] + coins
      /\ \A b \in Accounts :
            b # CampaignAccount(c) => Post(drawn, CampaignAccount(c), coins)[b] = drawn[b]
  BY <1>1, <1>3, PostType
<1>5. AfterFunding(f, c, coins) = Post(drawn, CampaignAccount(c), coins)
  BY DEF AfterFunding, drawn
<1> QED  BY <1>1, <1>2, <1>3, <1>4, <1>5

(* A payout leaves every balance and every amount an integer. *)
LEMMA PayType ==
    ASSUME TypeOK, NEW t \in Transactions, NEW gross \in Nat, NEW ref, Pay(t, gross, ref)
    PROVE  /\ balance' \in [Accounts -> Int]
           /\ \A e \in entries' : e.account \in Accounts /\ e.amount \in Int
<1> DEFINE c == CampaignOfScan(t.scan)
<1>1. t.rates \in RateCards /\ t.publisher \in Publishers /\ c \in Campaigns
  BY ConstantsAssumption DEF Transactions, CampaignOfScan
<1>2. t.rates.bps \in 0 .. BasisPoints
  BY <1>1, CardPrices
<1>3. Cut(gross, t.rates.bps) \in Int /\ Net(gross, t.rates.bps) \in Int
  BY <1>2, SplitIsExact
<1> HIDE DEF c
<1>4. balance' \in [Accounts -> Int]
  <2>1. balance \in [Accounts -> Int]
    BY DEF TypeOK
  <2>2. balance' = AfterPayout(balance, c, t.publisher, gross, t.rates.bps)
    BY DEF Pay, c
  <2> QED  BY <1>1, <1>2, <2>1, <2>2, PayoutMoves
<1>5. \A e \in PayoutEntries(c, t.publisher, gross, t.rates.bps, ref) :
          e.account \in Accounts /\ e.amount \in Int
  BY <1>1, <1>3 DEF PayoutEntries, Entry, Accounts
<1>6. \A e \in entries' : e.account \in Accounts /\ e.amount \in Int
  BY <1>5 DEF Pay, TypeOK, c
<1> QED  BY <1>4, <1>6

(* A request reads its rates and its campaign's status as they stand.       *)
LEMMA RequestType ==
    ASSUME TypeOK, NEW op \in Ops, NEW phase \in {"waiting", "holding"}, NEW s \in Scans,
           NEW u \in Users \cup {NoUser}, NEW i \in BOOLEAN, NEW p \in Publishers
    PROVE  Request(op, phase, s, u, i, p) \in Transactions
<1>1. PartnershipOfScan(s) \in Partnerships
  BY ConstantsAssumption DEF PartnershipOfScan, CampaignOfScan
<1>2. partnership[PartnershipOfScan(s)].rates \in RateCards
  BY <1>1 DEF TypeOK
<1> QED  BY <1>2 DEF Request, Transactions

(* The steps that only move a request on keep the types. *)
LEMMA ServeOnlyType ==
    ASSUME TypeOK, RequestsOK, NEW w \in Workers, NEW t \in Transactions \cup {Idle},
           Enter(w, t),
           t # Idle => /\ t.phase = "holding" => t.op # "scan"
                       /\ t.op \notin {"scan", "first_open"} => t.user \in Users
    PROVE  /\ tx' \in [Workers -> Transactions \cup {Idle}]
           /\ RequestsOK'
<1>1. tx \in [Workers -> Transactions \cup {Idle}]
  BY DEF TypeOK
<1>2. tx' = [tx EXCEPT ![w] = t]
  BY DEF Enter
<1>3. tx' \in [Workers -> Transactions \cup {Idle}]
  BY <1>1, <1>2
<1>4. RequestsOK'
  <2>1. ASSUME NEW v \in Workers
        PROVE  /\ tx'[v].phase = "holding" => tx'[v].op # "scan"
               /\ tx'[v] # Idle /\ tx'[v].op \notin {"scan", "first_open"} => tx'[v].user \in Users
    <3>1. CASE v = w
      <4>1. tx'[v] = t
        BY <1>1, <1>2, <3>1
      <4> QED  BY <4>1 DEF Idle
    <3>2. CASE v # w
      <4>1. tx'[v] = tx[v]
        BY <1>1, <1>2, <3>2
      <4> QED  BY <4>1 DEF RequestsOK
    <3> QED  BY <3>1, <3>2
  <2> QED  BY <2>1 DEF RequestsOK
<1> QED  BY <1>3, <1>4

LEMMA LeaveType ==
    ASSUME TypeOK, RequestsOK, NEW w \in Workers, Leave(w)
    PROVE  /\ tx' \in [Workers -> Transactions \cup {Idle}]
           /\ RequestsOK'
BY ServeOnlyType, Enter(w, Idle) DEF Enter, Leave

LEMMA SameTxRequests ==
    ASSUME RequestsOK, UNCHANGED tx
    PROVE  RequestsOK'
BY DEF RequestsOK

(* A worker in the middle of a request holds a whole transaction record.    *)
LEMMA InFlight ==
    ASSUME TypeOK, NEW w \in Workers, tx[w].phase # "idle"
    PROVE  tx[w] \in Transactions /\ tx[w] # Idle
BY DEF TypeOK, Idle

(* Only the requests move. *)
LEMMA QuietStepType ==
    ASSUME TypeOK, UNCHANGED <<settings, scan, install, books>>,
           tx' \in [Workers -> Transactions \cup {Idle}]
    PROVE  TypeOK'
BY DEF TypeOK, settings, books, Accounts

(* The books move under a commit. *)
LEMMA CommitType ==
    ASSUME TypeOK, UNCHANGED settings,
           scan' \in [Scans -> {"unseen", "open", "consumed"}],
           install' \in [Scans -> {"none", "bound", "redeemed"}],
           redemptions' \subseteq
                [kind : Modes, scan : Scans, user : Users, coins : Prices, identified : BOOLEAN],
           balance' \in [Accounts -> Int],
           \A e \in entries' : e.account \in Accounts /\ e.amount \in Int,
           tx' \in [Workers -> Transactions \cup {Idle}]
    PROVE  TypeOK'
BY DEF TypeOK, settings, Accounts

LEMMA ServeType ==
    ASSUME TypeOK, RequestsOK, NEW w \in Workers, Serve(w)
    PROVE  TypeOK' /\ RequestsOK'
<1>1. ASSUME NEW s \in Scans, BeginScan(w, s)
      PROVE  TypeOK' /\ RequestsOK'
  <2> DEFINE t == Request("scan", "waiting", s, NoUser, FALSE, PublisherOfScan(s))
  <2>1. PublisherOfScan(s) \in Publishers
    BY ConstantsAssumption DEF PublisherOfScan, PartnershipOfScan, CampaignOfScan
  <2>2. t \in Transactions /\ t.phase = "waiting" /\ t.op = "scan"
    BY <2>1, RequestType DEF Ops, Request
  <2>3. Enter(w, t)
    BY <1>1 DEF BeginScan
  <2> HIDE DEF t
  <2>4. tx' \in [Workers -> Transactions \cup {Idle}] /\ RequestsOK'
    BY <2>2, <2>3, ServeOnlyType
  <2> QED  BY <1>1, <2>4, QuietStepType DEF BeginScan
<1>2. CASE SettleScan(w)
  <2>1. tx' \in [Workers -> Transactions \cup {Idle}] /\ RequestsOK'
    BY <1>2, LeaveType DEF SettleScan
  <2>2. scan' \in [Scans -> {"unseen", "open", "consumed"}]
    BY <1>2 DEF SettleScan, TypeOK
  <2> QED  BY <1>2, <2>1, <2>2, CommitType DEF SettleScan, TypeOK, books
<1>3. ASSUME NEW op \in Ops, NEW s \in Scans, NEW u \in Users \cup {NoUser}, NEW i \in BOOLEAN,
             NEW p \in Publishers, BeginMatch(w, op, s, u, i, p)
      PROVE  TypeOK' /\ RequestsOK'
  <2> DEFINE t == Request(op, "holding", s, u, i, p)
  <2>1. t \in Transactions /\ t.op = op /\ t.user = u
    BY RequestType DEF Request
  <2>2. Enter(w, t) /\ op \in {"first_open", "claim_signup"} /\ (op = "first_open" <=> u = NoUser)
    BY <1>3 DEF BeginMatch
  <2> HIDE DEF t
  <2>3. tx' \in [Workers -> Transactions \cup {Idle}] /\ RequestsOK'
    BY <2>1, <2>2, ServeOnlyType
  <2> QED  BY <1>3, <2>3, QuietStepType DEF BeginMatch
<1>4. ASSUME NEW op \in Ops, NEW s \in Scans, NEW u \in Users, NEW i \in BOOLEAN,
             NEW p \in Publishers, BeginLocking(w, op, s, u, i, p)
      PROVE  TypeOK' /\ RequestsOK'
  <2> DEFINE row == EvidenceRow(Request(op, "waiting", s, u, i, p))
             phase == IF RowLocked(row) THEN "waiting" ELSE "holding"
             t == Request(op, phase, s, u, i, p)
  <2>1. t \in Transactions /\ t.op = op /\ t.user = u
    BY RequestType DEF Request
  <2>2. Enter(w, t) /\ op \in {"claim_install", "claim_code", "confirm"}
    BY <1>4 DEF BeginLocking
  <2> HIDE DEF t
  <2>3. tx' \in [Workers -> Transactions \cup {Idle}] /\ RequestsOK'
    BY <2>1, <2>2, ServeOnlyType
  <2> QED  BY <1>4, <2>3, QuietStepType DEF BeginLocking
<1>5. CASE Acquire(w)
  <2>1. tx[w] \in Transactions
    BY <1>5, InFlight DEF Acquire
  <2>2. CASE Takeable(tx[w])
    <3> DEFINE t == [tx[w] EXCEPT !.phase = "holding"]
    <3>1. t \in Transactions /\ t.op = tx[w].op /\ t.user = tx[w].user
      BY <2>1 DEF Transactions
    <3>2. Enter(w, t) /\ tx[w].op # "scan"
      BY <1>5, <2>2 DEF Acquire
    <3>3. tx[w].op \notin {"scan", "first_open"} => tx[w].user \in Users
      BY <1>5, InFlight DEF Acquire, RequestsOK
    <3> HIDE DEF t
    <3>4. tx' \in [Workers -> Transactions \cup {Idle}] /\ RequestsOK'
      BY <3>1, <3>2, <3>3, ServeOnlyType
    <3> QED  BY <1>5, <3>4, QuietStepType DEF Acquire
  <2>3. CASE ~Takeable(tx[w])
    <3>1. Leave(w)
      BY <1>5, <2>3 DEF Acquire
    <3> QED  BY <1>5, <3>1, LeaveType, QuietStepType DEF Acquire
  <2> QED  BY <2>2, <2>3
<1>6. CASE SettleFirstOpen(w)
  <2>1. tx' \in [Workers -> Transactions \cup {Idle}] /\ RequestsOK'
    BY <1>6, LeaveType DEF SettleFirstOpen
  <2>2. /\ scan' \in [Scans -> {"unseen", "open", "consumed"}]
        /\ install' \in [Scans -> {"none", "bound", "redeemed"}]
    BY <1>6 DEF SettleFirstOpen, TypeOK
  <2> QED  BY <1>6, <2>1, <2>2, CommitType DEF SettleFirstOpen, TypeOK, books
<1>7. CASE SettleAcquisition(w)
  <2> DEFINE t == tx[w]
             r == Redemption("acquisition", t.scan, t.user, Fee(t), t.identified)
  <2>1. t \in Transactions /\ t.user \in Users
    BY <1>7, InFlight DEF SettleAcquisition, Holding, RequestsOK, AcquisitionOps
  <2>2. Fee(t) \in Prices /\ Fee(t) \in Nat
    BY <2>1, FeeIsPrice
  <2>3. /\ Pay(t, Fee(t), PaymentRef(r)) /\ Leave(w) /\ UNCHANGED settings
        /\ SpendEvidence(t) /\ redemptions' = redemptions \cup {r}
    BY <1>7 DEF SettleAcquisition
  <2>4. r \in [kind : Modes, scan : Scans, user : Users, coins : Prices, identified : BOOLEAN]
    BY <2>1, <2>2 DEF Redemption, Modes, Transactions
  <2> HIDE DEF r
  <2>5. /\ balance' \in [Accounts -> Int]
        /\ \A e \in entries' : e.account \in Accounts /\ e.amount \in Int
    BY <2>1, <2>2, <2>3, PayType
  <2>6. /\ scan' \in [Scans -> {"unseen", "open", "consumed"}]
        /\ install' \in [Scans -> {"none", "bound", "redeemed"}]
    BY <2>3 DEF SpendEvidence, TypeOK
  <2>7. tx' \in [Workers -> Transactions \cup {Idle}] /\ RequestsOK'
    BY <2>3, LeaveType
  <2>8. redemptions' \subseteq
            [kind : Modes, scan : Scans, user : Users, coins : Prices, identified : BOOLEAN]
    BY <2>3, <2>4 DEF TypeOK
  <2> QED  BY <2>3, <2>5, <2>6, <2>7, <2>8, CommitType
<1>8. CASE SettleEngagement(w)
  <2> DEFINE t == tx[w]
             r == Redemption("engagement", t.scan, t.user, Fee(t), TRUE)
  <2>1. t \in Transactions /\ t.user \in Users
    BY <1>8, InFlight DEF SettleEngagement, Holding, RequestsOK
  <2>2. Fee(t) \in Prices /\ Fee(t) \in Nat
    BY <2>1, FeeIsPrice
  <2>3. /\ Pay(t, Fee(t), PaymentRef(r)) /\ Leave(w) /\ UNCHANGED settings
        /\ UNCHANGED <<scan, install>> /\ redemptions' = redemptions \cup {r}
    BY <1>8 DEF SettleEngagement
  <2>4. r \in [kind : Modes, scan : Scans, user : Users, coins : Prices, identified : BOOLEAN]
    BY <2>1, <2>2 DEF Redemption, Modes, Transactions
  <2> HIDE DEF r
  <2>5. /\ balance' \in [Accounts -> Int]
        /\ \A e \in entries' : e.account \in Accounts /\ e.amount \in Int
    BY <2>1, <2>2, <2>3, PayType
  <2>6. tx' \in [Workers -> Transactions \cup {Idle}] /\ RequestsOK'
    BY <2>3, LeaveType
  <2>7. redemptions' \subseteq
            [kind : Modes, scan : Scans, user : Users, coins : Prices, identified : BOOLEAN]
    BY <2>3, <2>4 DEF TypeOK
  <2> QED  BY <2>3, <2>5, <2>6, <2>7, CommitType DEF TypeOK
<1>9. CASE SettleConfirm(w)
  <2> DEFINE t == tx[w]
             full(r) == [r EXCEPT !.coins = t.rates.coin, !.identified = TRUE]
  <2>1. t \in Transactions /\ t.rates \in RateCards
    BY <1>9, InFlight DEF SettleConfirm, Holding, Transactions
  <2>2. Leave(w) /\ UNCHANGED <<settings, scan, install>>
    BY <1>9 DEF SettleConfirm
  <2>3. PICK r \in redemptions :
            /\ IF Delta(t, r) > 0
               THEN Pay(t, Delta(t, r), UpgradeRef(r))
               ELSE UNCHANGED <<balance, entries>>
            /\ redemptions' = (redemptions \ {r}) \cup {full(r)}
    BY <1>9 DEF SettleConfirm
  <2>4. r \in [kind : Modes, scan : Scans, user : Users, coins : Prices, identified : BOOLEAN]
    BY DEF TypeOK
  <2>5. full(r) \in [kind : Modes, scan : Scans, user : Users, coins : Prices, identified : BOOLEAN]
    BY <2>1, <2>4, CardPrices
  <2>6. redemptions' \subseteq
            [kind : Modes, scan : Scans, user : Users, coins : Prices, identified : BOOLEAN]
    BY <2>3, <2>5 DEF TypeOK
  <2>7. /\ balance' \in [Accounts -> Int]
        /\ \A e \in entries' : e.account \in Accounts /\ e.amount \in Int
    <3>1. CASE Delta(t, r) > 0
      <4>1. t.rates.coin \in Nat /\ r.coins \in Nat
        BY <2>1, <2>4, CardPrices, PricesAreNat
      <4>2. Delta(t, r) \in Nat
        BY <3>1, <4>1 DEF Delta
      <4> QED  BY <2>1, <2>3, <3>1, <4>2, PayType
    <3>2. CASE ~(Delta(t, r) > 0)
      BY <2>3, <3>2 DEF TypeOK
    <3> QED  BY <3>1, <3>2
  <2>8. tx' \in [Workers -> Transactions \cup {Idle}] /\ RequestsOK'
    BY <2>2, LeaveType
  <2> QED  BY <2>2, <2>6, <2>7, <2>8, CommitType DEF TypeOK
<1>10. CASE BudgetExhausted(w) \/ Replay(w) \/ Abort(w)
  <2>1. Leave(w) /\ UNCHANGED <<settings, scan, install, books>>
    BY <1>10 DEF BudgetExhausted, Replay, Abort
  <2> QED  BY <2>1, LeaveType, QuietStepType
<1> QED  BY <1>1, <1>2, <1>3, <1>4, <1>5, <1>6, <1>7, <1>8, <1>9, <1>10 DEF Serve

LEMMA ManageType ==
    ASSUME TypeOK, RequestsOK, Manage
    PROVE  TypeOK' /\ RequestsOK'
<1>1. UNCHANGED tx
  BY DEF Manage, SetCampaignStatus, KillCampaign, PatchPartnership, SetVoided, FundCampaign,
         AdjustBudget, Credit
<1>2. RequestsOK'
  BY <1>1, SameTxRequests
<1>3. ASSUME NEW c \in Campaigns, NEW status \in CampaignStatuses, SetCampaignStatus(c, status)
      PROVE  TypeOK'
  BY <1>3 DEF SetCampaignStatus, TypeOK, books, Accounts
<1>4. ASSUME NEW c \in Campaigns, KillCampaign(c)
      PROVE  TypeOK'
  <2>1. /\ voided' \in [Codes -> BOOLEAN]
        /\ campaign' \in [Campaigns -> CampaignStatuses]
    BY <1>4 DEF KillCampaign, TypeOK, CampaignStatuses
  <2> QED  BY <1>4, <2>1 DEF KillCampaign, TypeOK, books, Accounts
<1>5. ASSUME NEW p \in Partnerships, NEW status \in PartnershipStatuses, NEW card \in RateCards,
             PatchPartnership(p, status, card)
      PROVE  TypeOK'
  BY <1>5 DEF PatchPartnership, TypeOK, books, Accounts
<1>6. ASSUME NEW q \in Codes, NEW void \in BOOLEAN, SetVoided(q, void)
      PROVE  TypeOK'
  BY <1>6 DEF SetVoided, TypeOK, books, Accounts
<1>7. ASSUME NEW c \in Campaigns, NEW coins \in Int, NEW ref, Credit(c, coins, ref)
      PROVE  TypeOK'
  <2>1. balance' \in [Accounts -> Int]
    BY <1>7, FundingMoves DEF Credit, TypeOK
  <2>2. \A e \in entries' : e.account \in Accounts /\ e.amount \in Int
    <3>1. \A e \in FundingEntries(c, coins, ref) : e.account \in Accounts /\ e.amount \in Int
      BY DEF FundingEntries, Entry, Accounts
    <3> QED  BY <1>7, <3>1 DEF Credit, TypeOK
  <2> QED  BY <1>7, <2>1, <2>2, CommitType DEF Credit, TypeOK
<1>8. ASSUME NEW c \in Campaigns, NEW coins \in FundingAmounts, FundCampaign(c, coins)
      PROVE  TypeOK'
  BY <1>7, <1>8, ConstantsAssumption DEF FundCampaign
<1>9. ASSUME NEW c \in Campaigns, NEW coins \in AdjustAmounts, AdjustBudget(c, coins)
      PROVE  TypeOK'
  BY <1>7, <1>9, ConstantsAssumption DEF AdjustBudget
<1> QED  BY <1>2, <1>3, <1>4, <1>5, <1>6, <1>8, <1>9 DEF Manage

LEMMA StutterType ==
    ASSUME TypeOK, RequestsOK, UNCHANGED vars
    PROVE  TypeOK' /\ RequestsOK'
BY DEF vars, TypeOK, RequestsOK, Accounts

(* Every reachable state has the types of the schema, and a reward's coins  *)
(* are always the price of some card.                                       *)
THEOREM TypeCorrect == Spec => [](TypeOK /\ RequestsOK)
<1>1. TypeOK /\ RequestsOK /\ [Next]_vars => TypeOK' /\ RequestsOK'
  BY ServeType, ManageType, StutterType DEF Next
<1> QED  BY InitType, <1>1, PTL DEF Spec

-------------------------------------------------------------------------------
(* No budget goes below zero. *)

LEMMA PayKeepsFloor ==
    ASSUME TypeOK, NoOverdraft, NEW t \in Transactions, NEW gross \in Nat, NEW ref,
           HasBudget(CampaignOfScan(t.scan), gross), Pay(t, gross, ref)
    PROVE  NoOverdraft'
<1> DEFINE c == CampaignOfScan(t.scan)
           p == t.publisher
           bps == t.rates.bps
<1>1. c \in Campaigns /\ p \in Publishers /\ bps \in 0 .. BasisPoints
  BY ConstantsAssumption, CardPrices DEF Transactions, CampaignOfScan
<1>2. /\ Cut(gross, bps) \in Nat /\ Net(gross, bps) \in Nat
  BY <1>1, SplitIsExact
<1>3. /\ balance \in [Accounts -> Int]
      /\ balance' = AfterPayout(balance, c, p, gross, bps)
      /\ balance[CampaignAccount(c)] >= gross
  BY DEF TypeOK, Pay, HasBudget
<1> HIDE DEF c, p, bps
<1>4. /\ balance'[CampaignAccount(c)] = balance[CampaignAccount(c)] - gross
      /\ balance'[PublisherAccount(p)] = balance[PublisherAccount(p)] + Net(gross, bps)
      /\ balance'[PlatformFees] = balance[PlatformFees] + Cut(gross, bps)
      /\ \A a \in Accounts :
            a \notin {CampaignAccount(c), PublisherAccount(p), PlatformFees}
                => balance'[a] = balance[a]
  BY <1>1, <1>3, PayoutMoves
<1>5. /\ CampaignAccount(c) \in Accounts /\ PublisherAccount(p) \in Accounts
      /\ PlatformFees \in Accounts
      /\ ExternalFunding \notin {CampaignAccount(c), PublisherAccount(p), PlatformFees}
  BY <1>1, AccountsExist, AccountsDistinct
<1>6. /\ balance[CampaignAccount(c)] \in Int
      /\ balance[PublisherAccount(p)] \in Int /\ balance[PublisherAccount(p)] >= 0
      /\ balance[PlatformFees] \in Int /\ balance[PlatformFees] >= 0
  BY <1>3, <1>5 DEF NoOverdraft
<1>7. /\ balance'[CampaignAccount(c)] >= 0
      /\ balance'[PublisherAccount(p)] >= 0
      /\ balance'[PlatformFees] >= 0
  BY <1>2, <1>3, <1>4, <1>6
<1> QED  BY <1>4, <1>7 DEF NoOverdraft, Accounts

(* A request touches the books in its commit alone. *)
LEMMA OnlySettlingMovesBooks ==
    ASSUME NEW w \in Workers, Serve(w)
    PROVE  \/ UNCHANGED books
           \/ SettleAcquisition(w) \/ SettleEngagement(w) \/ SettleConfirm(w)
<1>1. ASSUME NEW s \in Scans, BeginScan(w, s)  PROVE UNCHANGED books
  BY <1>1 DEF BeginScan
<1>2. ASSUME NEW op \in Ops, NEW s \in Scans, NEW u \in Users \cup {NoUser}, NEW i \in BOOLEAN,
             NEW p \in Publishers, BeginMatch(w, op, s, u, i, p)
      PROVE  UNCHANGED books
  BY <1>2 DEF BeginMatch
<1>3. ASSUME NEW op \in Ops, NEW s \in Scans, NEW u \in Users, NEW i \in BOOLEAN,
             NEW p \in Publishers, BeginLocking(w, op, s, u, i, p)
      PROVE  UNCHANGED books
  BY <1>3 DEF BeginLocking
<1>4. SettleScan(w) => UNCHANGED books
  BY DEF SettleScan
<1>5. SettleFirstOpen(w) => UNCHANGED books
  BY DEF SettleFirstOpen
<1>6. Acquire(w) \/ BudgetExhausted(w) \/ Replay(w) \/ Abort(w) => UNCHANGED books
  BY DEF Acquire, BudgetExhausted, Replay, Abort
<1> QED  BY <1>1, <1>2, <1>3, <1>4, <1>5, <1>6 DEF Serve

LEMMA FloorStep ==
    ASSUME TypeOK, RequestsOK, NoOverdraft, [Next]_vars
    PROVE  NoOverdraft'
<1>1. CASE UNCHANGED balance
  BY <1>1 DEF NoOverdraft, Accounts
<1>2. ASSUME NEW w \in Workers, SettleAcquisition(w) \/ SettleEngagement(w)
      PROVE  NoOverdraft'
  <2>1. tx[w] \in Transactions
    BY <1>2, InFlight DEF SettleAcquisition, SettleEngagement, Holding
  <2>2. Fee(tx[w]) \in Nat
    BY <2>1, FeeIsPrice
  <2>3. /\ HasBudget(CampaignOfScan(tx[w].scan), Fee(tx[w]))
        /\ \E ref : Pay(tx[w], Fee(tx[w]), ref)
    BY <1>2 DEF SettleAcquisition, SettleEngagement
  <2> QED  BY <2>1, <2>2, <2>3, PayKeepsFloor
<1>3. ASSUME NEW w \in Workers, SettleConfirm(w)
      PROVE  NoOverdraft'
  <2> DEFINE t == tx[w]
  <2>1. t \in Transactions /\ t.rates \in RateCards
    BY <1>3, InFlight DEF SettleConfirm, Holding, Transactions
  <2>2. PICK r \in redemptions :
            IF Delta(t, r) > 0
            THEN HasBudget(CampaignOfScan(t.scan), Delta(t, r)) /\ Pay(t, Delta(t, r), UpgradeRef(r))
            ELSE UNCHANGED <<balance, entries>>
    BY <1>3 DEF SettleConfirm
  <2>3. CASE Delta(t, r) > 0
    <3>1. t.rates.coin \in Nat /\ r.coins \in Nat
      BY <2>1, CardPrices, PricesAreNat DEF TypeOK
    <3>2. Delta(t, r) \in Nat
      BY <2>3, <3>1 DEF Delta
    <3> QED  BY <2>1, <2>2, <2>3, <3>2, PayKeepsFloor
  <2>4. CASE ~(Delta(t, r) > 0)
    BY <1>1, <2>2, <2>4
  <2> QED  BY <2>3, <2>4
<1>4. ASSUME NEW c \in Campaigns, NEW coins \in Int, NEW ref,
             Credit(c, coins, ref), balance[CampaignAccount(c)] + coins >= 0
      PROVE  NoOverdraft'
  <2>1. balance \in [Accounts -> Int] /\ balance' = AfterFunding(balance, c, coins)
    BY <1>4 DEF TypeOK, Credit
  <2>2. /\ balance'[CampaignAccount(c)] = balance[CampaignAccount(c)] + coins
        /\ \A a \in Accounts :
                a \notin {CampaignAccount(c), ExternalFunding} => balance'[a] = balance[a]
    BY <2>1, FundingMoves
  <2> QED  BY <1>4, <2>2 DEF NoOverdraft, Accounts
<1>5. ASSUME NEW c \in Campaigns, NEW coins \in FundingAmounts, FundCampaign(c, coins)
      PROVE  NoOverdraft'
  <2>1. coins \in Nat /\ CampaignAccount(c) \in Accounts \ {ExternalFunding}
    BY ConstantsAssumption, AccountsExist, AccountsDistinct
  <2>2. balance[CampaignAccount(c)] \in Int /\ balance[CampaignAccount(c)] >= 0
    BY <2>1 DEF NoOverdraft, TypeOK
  <2>3. balance[CampaignAccount(c)] + coins >= 0
    BY <2>1, <2>2
  <2> QED  BY <1>4, <1>5, <2>1, <2>3 DEF FundCampaign
<1>6. ASSUME NEW c \in Campaigns, NEW coins \in AdjustAmounts, AdjustBudget(c, coins)
      PROVE  NoOverdraft'
  <2>1. coins \in Int
    BY ConstantsAssumption
  <2> QED  BY <1>4, <1>6, <2>1 DEF AdjustBudget
<1>7. ASSUME NEW w \in Workers, Serve(w)
      PROVE  NoOverdraft'
  <2>1. CASE UNCHANGED books
    BY <1>1, <2>1 DEF books
  <2> QED  BY <1>2, <1>3, <1>7, <2>1, OnlySettlingMovesBooks
<1>8. CASE Manage
  <2>1. ASSUME UNCHANGED books  PROVE NoOverdraft'
    BY <1>1, <2>1 DEF books
  <2> QED  BY <1>5, <1>6, <1>8, <2>1
           DEF Manage, SetCampaignStatus, KillCampaign, PatchPartnership, SetVoided
<1>9. CASE UNCHANGED vars
  BY <1>1, <1>9 DEF vars
<1> QED  BY <1>7, <1>8, <1>9 DEF Next

(* However payouts, upgrades and clawbacks race, the row lock of            *)
(* lockedBalance is enough to keep every budget at zero or above.           *)
THEOREM BudgetsHold == Spec => []NoOverdraft
<1>1. Init => NoOverdraft
  BY ConstantsAssumption DEF Init, NoOverdraft, Accounts
<1>2. TypeOK /\ RequestsOK /\ NoOverdraft /\ [Next]_vars => NoOverdraft'
  BY FloorStep
<1> QED  BY TypeCorrect, <1>1, <1>2, PTL DEF Spec

-------------------------------------------------------------------------------
(* Evidence is rewarded once.  The inductive invariant is the conjunction   *)
(* of LocksProtect, EvidenceSpentIffPaid and OneRewardPerEvidence on top    *)
(* of the types.                                                            *)

Typed == TypeOK /\ RequestsOK

Inv == Typed /\ LocksProtect /\ EvidenceSpentIffPaid /\ OneRewardPerEvidence

-------------------------------------------------------------------------------
(* The row a request is after does not depend on the state.                 *)

LEMMA RowOfScan ==
    ASSUME NEW t, t.op \in {"first_open", "claim_signup"}
    PROVE  EvidenceRow(t) = <<"scan", t.scan>>
BY DEF EvidenceRow

LEMMA RowOfInstall ==
    ASSUME NEW t, t.op = "claim_install"
    PROVE  EvidenceRow(t) = <<"install", t.scan>>
BY DEF EvidenceRow

LEMMA RowOfCode ==
    ASSUME NEW t, t.op = "claim_code"
    PROVE  EvidenceRow(t) = <<"code", CodeOf[t.scan]>>
BY DEF EvidenceRow

LEMMA RowOfConfirm ==
    ASSUME NEW t, t.op = "confirm"
    PROVE  EvidenceRow(t) = <<"redemption", t.scan, t.user>>
BY DEF EvidenceRow

-------------------------------------------------------------------------------
(* Nobody gets a row that somebody holds. *)

LEMMA EnterKeepsAlone ==
    ASSUME Typed, HeldAlone, NEW w \in Workers, NEW t \in Transactions \cup {Idle}, Enter(w, t),
           t.phase = "holding" =>
                \A v \in Workers \ {w} : tx[v].phase = "holding" => EvidenceRow(tx[v]) # EvidenceRow(t)
    PROVE  HeldAlone'
<1>1. tx' = [tx EXCEPT ![w] = t] /\ tx \in [Workers -> Transactions \cup {Idle}]
  BY DEF Enter, Typed, TypeOK
<1>2. tx'[w] = t /\ \A v \in Workers \ {w} : tx'[v] = tx[v]
  BY <1>1
<1> SUFFICES ASSUME NEW v1 \in Workers, NEW v2 \in Workers, v1 # v2,
                    tx'[v1].phase = "holding", tx'[v2].phase = "holding"
             PROVE  EvidenceRow(tx'[v1]) # EvidenceRow(tx'[v2])
  BY DEF HeldAlone, EvidenceRow
<1>3. CASE v1 = w
  BY <1>2, <1>3
<1>4. CASE v2 = w
  BY <1>2, <1>4
<1>5. CASE v1 # w /\ v2 # w
  BY <1>2, <1>5 DEF HeldAlone
<1> QED  BY <1>3, <1>4, <1>5

LEMMA LeaveKeepsAlone ==
    ASSUME Typed, HeldAlone, NEW w \in Workers, Leave(w)
    PROVE  HeldAlone'
BY EnterKeepsAlone, Enter(w, Idle) DEF Enter, Leave, Idle

LEMMA StutterKeepsAlone ==
    ASSUME HeldAlone, UNCHANGED tx
    PROVE  HeldAlone'
<1> SUFFICES ASSUME NEW v1 \in Workers, NEW v2 \in Workers, v1 # v2,
                    tx'[v1].phase = "holding", tx'[v2].phase = "holding"
             PROVE  EvidenceRow(tx'[v1]) # EvidenceRow(tx'[v2])
  BY DEF HeldAlone, EvidenceRow
<1> QED  BY DEF HeldAlone

(* What the two workers of HeldAlone hold is not the same piece of evidence. *)
LEMMA HeldApart ==
    ASSUME HeldAlone, NEW w \in Workers, NEW v \in Workers, v # w,
           tx[w].phase = "holding", tx[v].phase = "holding"
    PROVE  /\ tx[w].op \in {"first_open", "claim_signup"}
                /\ tx[v].op \in {"first_open", "claim_signup"} => tx[v].scan # tx[w].scan
           /\ tx[w].op = "claim_install" /\ tx[v].op = "claim_install" => tx[v].scan # tx[w].scan
           /\ tx[w].op = "claim_code" /\ tx[v].op = "claim_code"
                => CodeOf[tx[v].scan] # CodeOf[tx[w].scan]
           /\ tx[w].op = "confirm" /\ tx[v].op = "confirm"
                => tx[v].scan # tx[w].scan \/ tx[v].user # tx[w].user
<1>1. EvidenceRow(tx[w]) # EvidenceRow(tx[v])
  BY DEF HeldAlone
<1> QED  BY <1>1, RowOfScan, RowOfInstall, RowOfCode, RowOfConfirm

-------------------------------------------------------------------------------
(* A request that enters, moves on or leaves, with nothing written.         *)

Money == EvidenceSpentIffPaid /\ OneRewardPerEvidence

LEMMA QuietKeepsMoney ==
    ASSUME Money, UNCHANGED <<scan, install, redemptions>>
    PROVE  Money'
BY DEF Money, EvidenceSpentIffPaid, OneRewardPerEvidence, Acquisitions, Engagements

LEMMA QuietKeepsLocks ==
    ASSUME Typed, LocksProtect, UNCHANGED <<scan, install, voided, redemptions>>,
           NEW w \in Workers, NEW t \in Transactions \cup {Idle}, Enter(w, t),
           t # Idle /\ t.phase = "holding" =>
                /\ Takeable(t)
                /\ \A v \in Workers \ {w} :
                        tx[v].phase = "holding" => EvidenceRow(tx[v]) # EvidenceRow(t),
           t # Idle /\ t.op = "scan" =>
                /\ scan[t.scan] = "unseen"
                /\ \A v \in Workers : tx[v] # Idle /\ tx[v].op = "scan" => tx[v].scan # t.scan
    PROVE  LocksProtect'
<1>1. tx' = [tx EXCEPT ![w] = t] /\ tx \in [Workers -> Transactions \cup {Idle}]
  BY DEF Enter, Typed, TypeOK
<1>2. tx'[w] = t /\ \A v \in Workers \ {w} : tx'[v] = tx[v]
  BY <1>1
<1>3. t.phase = "holding" => t # Idle
  BY DEF Idle
<1>4. HeldAlone'
  BY <1>3, EnterKeepsAlone DEF LocksProtect
<1>5. ASSUME NEW v \in Workers, tx'[v].phase = "holding"
      PROVE  Takeable(tx[v])'
  <2>1. CASE v = w
    BY <1>2, <1>3, <1>5, <2>1 DEF Takeable, IsGuestRow
  <2>2. CASE v # w
    BY <1>2, <1>5, <2>2 DEF Takeable, IsGuestRow, LocksProtect, HeldStands
  <2> QED  BY <2>1, <2>2
<1>6. FreshClaimIds'
  <2> SUFFICES ASSUME NEW v1 \in Workers, tx'[v1] # Idle, tx'[v1].op = "scan"
               PROVE  /\ scan'[tx'[v1].scan] = "unseen"
                      /\ \A v2 \in Workers \ {v1} :
                            tx'[v2] # Idle /\ tx'[v2].op = "scan" => tx'[v2].scan # tx'[v1].scan
    BY DEF FreshClaimIds, Idle
  <2>1. CASE v1 = w
    BY <1>2, <2>1
  <2>2. CASE v1 # w
    BY <1>2, <2>2 DEF LocksProtect, FreshClaimIds
  <2> QED  BY <2>1, <2>2
<1> QED  BY <1>4, <1>5, <1>6 DEF LocksProtect, HeldStands

LEMMA LeaveKeepsLocks ==
    ASSUME Typed, LocksProtect, UNCHANGED <<scan, install, voided, redemptions>>,
           NEW w \in Workers, Leave(w)
    PROVE  LocksProtect'
BY QuietKeepsLocks, Enter(w, Idle) DEF Enter, Leave

-------------------------------------------------------------------------------
(* A request that commits.  Whoever else holds a row keeps it, and the      *)
(* commit does not touch what they found there.                             *)

LEMMA CommitKeepsAlone ==
    ASSUME Typed, LocksProtect, NEW w \in Workers, Leave(w),
           \A v \in Workers \ {w} : tx[v].phase = "holding" => Takeable(tx[v])',
           \A v \in Workers \ {w} :
                tx[v] # Idle /\ tx[v].op = "scan" => scan'[tx[v].scan] = "unseen"
    PROVE  LocksProtect'
<1>1. tx'[w] = Idle /\ \A v \in Workers \ {w} : tx'[v] = tx[v]
  BY DEF Leave, Typed, TypeOK
<1>2. HeldAlone'
  BY LeaveKeepsAlone DEF LocksProtect
<1>3. HeldStands'
  BY <1>1 DEF HeldStands, Takeable, IsGuestRow, Idle
<1>4. FreshClaimIds'
  BY <1>1 DEF LocksProtect, FreshClaimIds, Idle
<1> QED  BY <1>2, <1>3, <1>4 DEF LocksProtect

LEMMA ScanKeeps ==
    ASSUME Inv, NEW w \in Workers, SettleScan(w)
    PROVE  LocksProtect' /\ Money'
<1> DEFINE s == tx[w].scan
<1>1. /\ tx[w] # Idle /\ tx[w].op = "scan" /\ s \in Scans
      /\ scan[s] = "unseen"
  BY InFlight DEF Inv, Typed, SettleScan, LocksProtect, FreshClaimIds, Transactions
<1>2. /\ scan' = [scan EXCEPT ![s] = "open"] /\ Leave(w)
      /\ UNCHANGED <<install, redemptions, voided>>
      /\ scan \in [Scans -> {"unseen", "open", "consumed"}]
  BY DEF SettleScan, settings, books, Inv, Typed, TypeOK
<1> HIDE DEF s
<1>3. ASSUME NEW v \in Workers \ {w}, tx[v].phase = "holding"
      PROVE  Takeable(tx[v])'
  <2>1. Takeable(tx[v])
    BY <1>3 DEF Inv, LocksProtect, HeldStands
  <2>2. tx'[v] = tx[v]
    BY <1>2 DEF Leave, Inv, Typed, TypeOK
  <2>3. tx[v].scan \in Scans
    BY <1>3, InFlight DEF Inv, Typed, Transactions
  <2>4. tx[v].op \in {"first_open", "claim_signup"} => scan'[tx[v].scan] = "open"
    BY <1>1, <1>2, <2>1, <2>3 DEF Takeable
  <2> QED  BY <1>2, <2>1, <2>2, <2>4 DEF Takeable, IsGuestRow
<1>4. ASSUME NEW v \in Workers \ {w}, tx[v] # Idle, tx[v].op = "scan"
      PROVE  scan'[tx[v].scan] = "unseen"
  <2>1. tx[v].scan # s /\ scan[tx[v].scan] = "unseen"
    BY <1>1, <1>4 DEF Inv, LocksProtect, FreshClaimIds, s
  <2>2. tx[v].scan \in Scans
    BY <1>4 DEF Inv, Typed, TypeOK, Transactions
  <2> QED  BY <1>2, <2>1, <2>2
<1>5. LocksProtect'
  BY <1>2, <1>3, <1>4, CommitKeepsAlone DEF Inv
<1>6. EvidenceSpentIffPaid'
  BY <1>1, <1>2 DEF Inv, EvidenceSpentIffPaid, Acquisitions
<1>7. OneRewardPerEvidence'
  BY <1>2 DEF Inv, OneRewardPerEvidence, Acquisitions, Engagements
<1> QED  BY <1>5, <1>6, <1>7 DEF Money

(* Taking a scan, by a first open or by a signup, disturbs nobody who holds *)
(* something else.                                                          *)
LEMMA TakingScanKeepsLocks ==
    ASSUME Inv, NEW w \in Workers, Holding(w, {"first_open", "claim_signup"}), Leave(w),
           scan' = [scan EXCEPT ![tx[w].scan] = "consumed"],
           UNCHANGED voided, redemptions \subseteq redemptions',
           \A s \in Scans : install[s] = "bound" => install'[s] = "bound"
    PROVE  LocksProtect'
<1>1. tx[w].scan \in Scans /\ scan[tx[w].scan] = "open"
  BY InFlight DEF Inv, Typed, Holding, LocksProtect, HeldStands, Takeable, Transactions
<1>2. ASSUME NEW v \in Workers \ {w}, tx[v].phase = "holding"
      PROVE  Takeable(tx[v])'
  <2>1. Takeable(tx[v]) /\ tx[v].scan \in Scans /\ tx'[v] = tx[v]
    BY <1>2, InFlight
       DEF Inv, Typed, LocksProtect, HeldStands, Transactions, Leave, TypeOK
  <2>2. tx[v].op \in {"first_open", "claim_signup"} => tx[v].scan # tx[w].scan
    BY <1>2, HeldApart DEF Inv, LocksProtect, Holding
  <2>3. tx[v].op \in {"first_open", "claim_signup"} => scan'[tx[v].scan] = "open"
    BY <2>1, <2>2 DEF Takeable, Inv, Typed, TypeOK
  <2> QED  BY <2>1, <2>3 DEF Takeable, IsGuestRow
<1>3. ASSUME NEW v \in Workers \ {w}, tx[v] # Idle, tx[v].op = "scan"
      PROVE  scan'[tx[v].scan] = "unseen"
  <2>1. scan[tx[v].scan] = "unseen" /\ tx[v].scan \in Scans
    BY <1>3 DEF Inv, Typed, LocksProtect, FreshClaimIds, TypeOK, Transactions
  <2> QED  BY <1>1, <2>1 DEF Inv, Typed, TypeOK
<1> QED  BY <1>2, <1>3, CommitKeepsAlone DEF Inv

LEMMA FirstOpenKeeps ==
    ASSUME Inv, NEW w \in Workers, SettleFirstOpen(w)
    PROVE  LocksProtect' /\ Money'
<1> DEFINE s == tx[w].scan
<1>1. Holding(w, {"first_open", "claim_signup"}) /\ Leave(w)
  BY DEF SettleFirstOpen, Holding
<1>2. s \in Scans /\ scan[s] = "open"
  BY InFlight DEF Inv, Typed, SettleFirstOpen, Holding, LocksProtect, HeldStands, Takeable, Transactions
<1>3. /\ scan' = [scan EXCEPT ![s] = "consumed"]
      /\ install' = [install EXCEPT ![s] = "bound"]
      /\ UNCHANGED <<redemptions, voided>>
      /\ scan \in [Scans -> {"unseen", "open", "consumed"}]
      /\ install \in [Scans -> {"none", "bound", "redeemed"}]
  BY DEF SettleFirstOpen, settings, books, Inv, Typed, TypeOK
<1>4. LocksProtect'
  BY <1>1, <1>2, <1>3, TakingScanKeepsLocks
<1> HIDE DEF s
<1>5. install[s] = "none" /\ \A r \in Acquisitions : r.scan # s
  BY <1>2, <1>3 DEF Inv, EvidenceSpentIffPaid
<1>6. EvidenceSpentIffPaid'
  BY <1>2, <1>3, <1>5 DEF Inv, EvidenceSpentIffPaid, Acquisitions
<1>7. OneRewardPerEvidence'
  BY <1>3 DEF Inv, OneRewardPerEvidence, Acquisitions, Engagements
<1> QED  BY <1>4, <1>6, <1>7 DEF Money

LEMMA AcquisitionKeeps ==
    ASSUME Inv, NEW w \in Workers, SettleAcquisition(w)
    PROVE  LocksProtect' /\ Money'
<1> DEFINE t == tx[w]
           s == tx[w].scan
           r == Redemption("acquisition", t.scan, t.user, Fee(t), t.identified)
<1>1. /\ t.op \in AcquisitionOps /\ t.phase = "holding" /\ Takeable(t) /\ s \in Scans
      /\ Leave(w) /\ UNCHANGED settings
  BY InFlight
     DEF Inv, Typed, SettleAcquisition, Holding, LocksProtect, HeldStands, Transactions
<1>2. /\ redemptions' = redemptions \cup {r} /\ SpendEvidence(t)
      /\ ~AlreadyCounted(CampaignOfScan(s), t.user)
      /\ r.kind = "acquisition" /\ r.scan = s /\ r.user = t.user
  BY DEF SettleAcquisition, Redemption
<1>3. /\ scan \in [Scans -> {"unseen", "open", "consumed"}]
      /\ install \in [Scans -> {"none", "bound", "redeemed"}]
  BY DEF Inv, Typed, TypeOK
<1> HIDE DEF r
<1>4. LocksProtect'
  <2>1. CASE t.op = "claim_signup"
    <3>1. scan' = [scan EXCEPT ![s] = "consumed"] /\ UNCHANGED install
      BY <1>2, <2>1 DEF SpendEvidence
    <3>2. Holding(w, {"first_open", "claim_signup"}) /\ UNCHANGED voided
      BY <1>1, <2>1 DEF Holding, settings
    <3> QED  BY <1>1, <1>2, <3>1, <3>2, TakingScanKeepsLocks
  <2>2. CASE t.op = "claim_install"
    <3>1. install' = [install EXCEPT ![s] = "redeemed"] /\ UNCHANGED <<scan, voided>>
      BY <1>1, <1>2, <2>2 DEF SpendEvidence, settings
    <3>2. ASSUME NEW v \in Workers \ {w}, tx[v].phase = "holding"
          PROVE  Takeable(tx[v])'
      <4>1. Takeable(tx[v]) /\ tx[v].scan \in Scans /\ tx'[v] = tx[v]
        BY <1>1, <3>2, InFlight
           DEF Inv, Typed, LocksProtect, HeldStands, Transactions, Leave, TypeOK
      <4>2. tx[v].op = "claim_install" => tx[v].scan # s
        BY <1>1, <2>2, <3>2, HeldApart DEF Inv, LocksProtect
      <4>3. tx[v].op = "claim_install" => install'[tx[v].scan] = "bound"
        BY <1>3, <3>1, <4>1, <4>2 DEF Takeable
      <4> QED  BY <1>2, <3>1, <4>1, <4>3 DEF Takeable, IsGuestRow
    <3>3. ASSUME NEW v \in Workers \ {w}, tx[v] # Idle, tx[v].op = "scan"
          PROVE  scan'[tx[v].scan] = "unseen"
      BY <3>1, <3>3 DEF Inv, LocksProtect, FreshClaimIds
    <3> QED  BY <1>1, <3>2, <3>3, CommitKeepsAlone DEF Inv
  <2> QED  BY <1>1, <2>1, <2>2 DEF AcquisitionOps
<1>5. \A other \in Acquisitions :
        other.scan # s /\ ~(CampaignOfScan(other.scan) = CampaignOfScan(s) /\ other.user = t.user)
  <2>1. \A other \in Acquisitions : other.scan # s
    BY <1>1, <1>3 DEF Inv, EvidenceSpentIffPaid, Takeable, AcquisitionOps
  <2> QED  BY <1>2, <2>1 DEF AlreadyCounted, Acquisitions
<1>6. Acquisitions' = Acquisitions \cup {r} /\ Engagements' = Engagements
  BY <1>2 DEF Acquisitions, Engagements
<1>7. OneRewardPerEvidence'
  <2>1. ASSUME NEW r1 \in Acquisitions', NEW r2 \in Acquisitions',
               \/ r1.scan = r2.scan
               \/ CampaignOfScan(r1.scan) = CampaignOfScan(r2.scan) /\ r1.user = r2.user
        PROVE  r1 = r2
    BY <1>2, <1>5, <1>6, <2>1 DEF Inv, OneRewardPerEvidence
  <2> QED  BY <1>6, <2>1 DEF Inv, OneRewardPerEvidence, CampaignOfScan
<1>8. EvidenceSpentIffPaid'
  <2>1. CASE t.op = "claim_signup"
    <3>1. scan' = [scan EXCEPT ![s] = "consumed"] /\ UNCHANGED install /\ scan[s] = "open"
      BY <1>1, <1>2, <2>1 DEF SpendEvidence, Takeable
    <3>2. install[s] = "none"
      BY <1>1, <1>3, <3>1 DEF Inv, EvidenceSpentIffPaid
    <3> QED  BY <1>1, <1>2, <1>3, <1>6, <3>1, <3>2 DEF Inv, EvidenceSpentIffPaid
  <2>2. CASE t.op = "claim_install"
    <3>1. install' = [install EXCEPT ![s] = "redeemed"] /\ UNCHANGED scan /\ install[s] = "bound"
      BY <1>1, <1>2, <2>2 DEF SpendEvidence, Takeable
    <3> QED  BY <1>1, <1>2, <1>3, <1>6, <3>1 DEF Inv, EvidenceSpentIffPaid
  <2> QED  BY <1>1, <2>1, <2>2 DEF AcquisitionOps
<1> QED  BY <1>4, <1>7, <1>8 DEF Money

LEMMA EngagementKeeps ==
    ASSUME Inv, NEW w \in Workers, SettleEngagement(w)
    PROVE  LocksProtect' /\ Money'
<1> DEFINE t == tx[w]
           r == Redemption("engagement", t.scan, t.user, Fee(t), TRUE)
<1>1. /\ Leave(w) /\ UNCHANGED <<scan, install, voided>>
      /\ redemptions' = redemptions \cup {r} /\ ~AlreadyRewarded(CodeOf[t.scan])
      /\ r.kind = "engagement" /\ r.scan = t.scan
  BY DEF SettleEngagement, settings, Redemption
<1> HIDE DEF r
<1>2. ASSUME NEW v \in Workers \ {w}, tx[v].phase = "holding"
      PROVE  Takeable(tx[v])'
  <2>1. Takeable(tx[v]) /\ tx'[v] = tx[v]
    BY <1>1, <1>2 DEF Inv, Typed, LocksProtect, HeldStands, Leave, TypeOK
  <2> QED  BY <1>1, <2>1 DEF Takeable, IsGuestRow
<1>3. ASSUME NEW v \in Workers \ {w}, tx[v] # Idle, tx[v].op = "scan"
      PROVE  scan'[tx[v].scan] = "unseen"
  BY <1>1, <1>3 DEF Inv, LocksProtect, FreshClaimIds
<1>4. LocksProtect'
  BY <1>1, <1>2, <1>3, CommitKeepsAlone DEF Inv
<1>5. Acquisitions' = Acquisitions /\ Engagements' = Engagements \cup {r}
  BY <1>1 DEF Acquisitions, Engagements
<1>6. \A other \in Engagements : CodeOf[other.scan] # CodeOf[r.scan]
  BY <1>1 DEF AlreadyRewarded, Engagements
<1>7. OneRewardPerEvidence'
  <2>1. ASSUME NEW r1 \in Engagements', NEW r2 \in Engagements', CodeOf[r1.scan] = CodeOf[r2.scan]
        PROVE  r1 = r2
    BY <1>5, <1>6, <2>1 DEF Inv, OneRewardPerEvidence
  <2> QED  BY <1>5, <2>1 DEF Inv, OneRewardPerEvidence, CampaignOfScan
<1>8. EvidenceSpentIffPaid'
  BY <1>1, <1>5 DEF Inv, EvidenceSpentIffPaid
<1> QED  BY <1>4, <1>7, <1>8 DEF Money

LEMMA ConfirmKeeps ==
    ASSUME Inv, NEW w \in Workers, SettleConfirm(w)
    PROVE  LocksProtect' /\ Money'
<1> DEFINE t == tx[w]
           full(r) == [r EXCEPT !.coins = t.rates.coin, !.identified = TRUE]
<1>1. /\ Leave(w) /\ UNCHANGED <<scan, install, voided>>
      /\ tx[w].phase = "holding" /\ tx[w].op = "confirm"
  BY DEF SettleConfirm, settings, Holding
<1>2. PICK r \in redemptions :
        IsGuestRow(r, t) /\ redemptions' = (redemptions \ {r}) \cup {full(r)}
  BY DEF SettleConfirm
<1>3. /\ r \in [kind : Modes, scan : Scans, user : Users, coins : Prices, identified : BOOLEAN]
      /\ full(r).kind = r.kind /\ full(r).scan = r.scan /\ full(r).user = r.user
      /\ r.kind = "acquisition" /\ r.scan = t.scan /\ r.user = t.user
  BY <1>2 DEF Inv, Typed, TypeOK, IsGuestRow
<1> HIDE DEF full
<1>4. ASSUME NEW v \in Workers \ {w}, tx[v].phase = "holding"
      PROVE  Takeable(tx[v])'
  <2>1. Takeable(tx[v]) /\ tx'[v] = tx[v]
    BY <1>1, <1>4 DEF Inv, Typed, LocksProtect, HeldStands, Leave, TypeOK
  <2>2. tx[v].op = "confirm" => tx[v].scan # t.scan \/ tx[v].user # t.user
    BY <1>1, <1>4, HeldApart DEF Inv, LocksProtect
  <2>3. tx[v].op = "confirm" => \E other \in redemptions' : IsGuestRow(other, tx[v])
    BY <1>2, <1>3, <2>1, <2>2 DEF Takeable, IsGuestRow
  <2> QED  BY <1>1, <2>1, <2>3 DEF Takeable, IsGuestRow
<1>5. ASSUME NEW v \in Workers \ {w}, tx[v] # Idle, tx[v].op = "scan"
      PROVE  scan'[tx[v].scan] = "unseen"
  BY <1>1, <1>5 DEF Inv, LocksProtect, FreshClaimIds
<1>6. LocksProtect'
  BY <1>1, <1>4, <1>5, CommitKeepsAlone DEF Inv
<1>7. /\ Acquisitions' = (Acquisitions \ {r}) \cup {full(r)}
      /\ Engagements' = Engagements /\ r \in Acquisitions
  BY <1>2, <1>3 DEF Acquisitions, Engagements
<1>8. OneRewardPerEvidence'
  <2>1. ASSUME NEW r1 \in Acquisitions', NEW r2 \in Acquisitions',
               \/ r1.scan = r2.scan
               \/ CampaignOfScan(r1.scan) = CampaignOfScan(r2.scan) /\ r1.user = r2.user
        PROVE  r1 = r2
    BY <1>3, <1>7, <2>1 DEF Inv, OneRewardPerEvidence
  <2> QED  BY <1>7, <2>1 DEF Inv, OneRewardPerEvidence, CampaignOfScan
<1>9. EvidenceSpentIffPaid'
  <2>1. \A s \in Scans : (\E r1 \in Acquisitions' : r1.scan = s) <=> (\E r1 \in Acquisitions : r1.scan = s)
    BY <1>3, <1>7
  <2> QED  BY <1>1, <2>1 DEF Inv, EvidenceSpentIffPaid
<1> QED  BY <1>6, <1>8, <1>9 DEF Money

-------------------------------------------------------------------------------
(* Every step. *)

LEMMA BeginKeeps ==
    ASSUME Inv, NEW w \in Workers,
           \/ \E s \in Scans : BeginScan(w, s)
           \/ \E op \in Ops, s \in Scans, u \in Users \cup {NoUser}, i \in BOOLEAN, p \in Publishers :
                    BeginMatch(w, op, s, u, i, p)
           \/ \E op \in Ops, s \in Scans, u \in Users, i \in BOOLEAN, p \in Publishers :
                    BeginLocking(w, op, s, u, i, p)
    PROVE  LocksProtect' /\ Money'
<1>1. ASSUME NEW s \in Scans, BeginScan(w, s)
      PROVE  LocksProtect' /\ Money'
  <2> DEFINE t == Request("scan", "waiting", s, NoUser, FALSE, PublisherOfScan(s))
  <2>1. PublisherOfScan(s) \in Publishers
    BY ConstantsAssumption DEF PublisherOfScan, PartnershipOfScan, CampaignOfScan
  <2>2. t \in Transactions /\ t.phase = "waiting" /\ t.op = "scan" /\ t.scan = s
    BY <2>1, RequestType DEF Ops, Request, Inv, Typed
  <2>3. /\ Enter(w, t) /\ UNCHANGED <<scan, install, voided, redemptions>>
        /\ scan[s] = "unseen"
        /\ \A v \in Workers : tx[v] # Idle /\ tx[v].op = "scan" => tx[v].scan # s
    BY <1>1 DEF BeginScan, settings, books
  <2> HIDE DEF t
  <2>4. LocksProtect'
    BY <2>2, <2>3, QuietKeepsLocks DEF Inv
  <2> QED  BY <2>3, <2>4, QuietKeepsMoney DEF Inv, Money
<1>2. ASSUME NEW op \in Ops, NEW s \in Scans, NEW u \in Users \cup {NoUser}, NEW i \in BOOLEAN,
             NEW p \in Publishers, BeginMatch(w, op, s, u, i, p)
      PROVE  LocksProtect' /\ Money'
  <2> DEFINE t == Request(op, "holding", s, u, i, p)
  <2>1. t \in Transactions /\ t.op = op
    BY RequestType DEF Request, Inv, Typed
  <2>2. /\ Enter(w, t) /\ UNCHANGED <<scan, install, voided, redemptions>>
        /\ Takeable(t) /\ ~RowLocked(EvidenceRow(t)) /\ op # "scan"
    BY <1>2 DEF BeginMatch, settings, books
  <2> HIDE DEF t
  <2>3. LocksProtect'
    BY <2>1, <2>2, QuietKeepsLocks DEF Inv, RowLocked
  <2> QED  BY <2>2, <2>3, QuietKeepsMoney DEF Inv, Money
<1>3. ASSUME NEW op \in Ops, NEW s \in Scans, NEW u \in Users, NEW i \in BOOLEAN,
             NEW p \in Publishers, BeginLocking(w, op, s, u, i, p)
      PROVE  LocksProtect' /\ Money'
  <2> DEFINE row == EvidenceRow(Request(op, "waiting", s, u, i, p))
             phase == IF RowLocked(row) THEN "waiting" ELSE "holding"
             t == Request(op, phase, s, u, i, p)
  <2>1. t \in Transactions /\ t.op = op /\ t.phase = phase
    BY RequestType DEF Request, Inv, Typed
  <2>2. /\ Enter(w, t) /\ UNCHANGED <<scan, install, voided, redemptions>>
        /\ Takeable(t) /\ op \in {"claim_install", "claim_code", "confirm"}
    BY <1>3 DEF BeginLocking, settings, books
  <2>3. EvidenceRow(t) = row
    BY DEF EvidenceRow, Request
  <2>4. t.phase = "holding" => ~RowLocked(EvidenceRow(t))
    BY <2>1, <2>3
  <2> HIDE DEF t
  <2>5. LocksProtect'
    BY <2>1, <2>2, <2>4, QuietKeepsLocks DEF Inv, RowLocked
  <2> QED  BY <2>2, <2>5, QuietKeepsMoney DEF Inv, Money
<1> QED  BY <1>1, <1>2, <1>3

LEMMA AcquireKeeps ==
    ASSUME Inv, NEW w \in Workers, Acquire(w)
    PROVE  LocksProtect' /\ Money'
<1>1. UNCHANGED <<scan, install, voided, redemptions>> /\ tx[w] \in Transactions
  BY InFlight DEF Acquire, settings, books, Inv, Typed
<1>2. CASE Takeable(tx[w])
  <2> DEFINE t == [tx[w] EXCEPT !.phase = "holding"]
  <2>1. Enter(w, t) /\ ~RowLocked(EvidenceRow(tx[w])) /\ tx[w].op # "scan"
    BY <1>2 DEF Acquire
  <2>2. /\ t \in Transactions /\ t.op = tx[w].op /\ t.scan = tx[w].scan /\ t.user = tx[w].user
    BY <1>1 DEF Transactions
  <2> HIDE DEF t
  <2>3. Takeable(t)
    BY <1>2, <2>2 DEF Takeable, IsGuestRow
  <2>4. EvidenceRow(t) = EvidenceRow(tx[w])
    BY <2>2 DEF EvidenceRow
  <2>5. LocksProtect'
    BY <1>1, <2>1, <2>2, <2>3, <2>4, QuietKeepsLocks DEF Inv, RowLocked
  <2> QED  BY <1>1, <2>5, QuietKeepsMoney DEF Inv, Money
<1>3. CASE ~Takeable(tx[w])
  <2>1. Leave(w)
    BY <1>3 DEF Acquire
  <2> QED  BY <1>1, <2>1, LeaveKeepsLocks, QuietKeepsMoney DEF Inv, Money
<1> QED  BY <1>2, <1>3

LEMMA ServeKeeps ==
    ASSUME Inv, NEW w \in Workers, Serve(w)
    PROVE  LocksProtect' /\ Money'
<1>1. CASE BudgetExhausted(w) \/ Replay(w) \/ Abort(w)
  <2>1. Leave(w) /\ UNCHANGED <<scan, install, voided, redemptions>>
    BY <1>1 DEF BudgetExhausted, Replay, Abort, settings, books
  <2> QED  BY <2>1, LeaveKeepsLocks, QuietKeepsMoney DEF Inv, Money
<1> QED  BY <1>1, BeginKeeps, AcquireKeeps, ScanKeeps, FirstOpenKeeps, AcquisitionKeeps,
             EngagementKeeps, ConfirmKeeps DEF Serve

(* Promoters and admins write none of the locked rows but the codes, and    *)
(* wait for a claim that has one.                                           *)
LEMMA ManageLeavesEvidence ==
    ASSUME Manage
    PROVE  UNCHANGED <<scan, install, redemptions, tx>>
<1>1. ASSUME NEW c \in Campaigns, NEW status \in CampaignStatuses, SetCampaignStatus(c, status)
      PROVE  UNCHANGED <<scan, install, redemptions, tx>>
  BY <1>1 DEF SetCampaignStatus, books
<1>2. ASSUME NEW c \in Campaigns, KillCampaign(c)
      PROVE  UNCHANGED <<scan, install, redemptions, tx>>
  BY <1>2 DEF KillCampaign, books
<1>3. ASSUME NEW p \in Partnerships, NEW status \in PartnershipStatuses, NEW card \in RateCards,
             PatchPartnership(p, status, card)
      PROVE  UNCHANGED <<scan, install, redemptions, tx>>
  BY <1>3 DEF PatchPartnership, books
<1>4. ASSUME NEW q \in Codes, NEW void \in BOOLEAN, SetVoided(q, void)
      PROVE  UNCHANGED <<scan, install, redemptions, tx>>
  BY <1>4 DEF SetVoided, books
<1>5. ASSUME NEW c \in Campaigns, NEW coins, NEW ref, Credit(c, coins, ref)
      PROVE  UNCHANGED <<scan, install, redemptions, tx>>
  BY <1>5 DEF Credit
<1>6. ASSUME NEW c \in Campaigns, NEW coins, FundCampaign(c, coins) \/ AdjustBudget(c, coins)
      PROVE  UNCHANGED <<scan, install, redemptions, tx>>
  BY <1>5, <1>6 DEF FundCampaign, AdjustBudget
<1> QED  BY <1>1, <1>2, <1>3, <1>4, <1>6 DEF Manage

LEMMA ManageWaitsForCodes ==
    ASSUME Manage, voided \in [Codes -> BOOLEAN],
           NEW q \in Codes, ~voided[q], RowLocked(<<"code", q>>)
    PROVE  ~voided'[q]
<1>1. ASSUME NEW c \in Campaigns, NEW status \in CampaignStatuses, SetCampaignStatus(c, status)
      PROVE  ~voided'[q]
  BY <1>1 DEF SetCampaignStatus
<1>2. ASSUME NEW c \in Campaigns, KillCampaign(c)  PROVE ~voided'[q]
  BY <1>2 DEF KillCampaign
<1>3. ASSUME NEW p \in Partnerships, NEW status \in PartnershipStatuses, NEW card \in RateCards,
             PatchPartnership(p, status, card)
      PROVE  ~voided'[q]
  BY <1>3 DEF PatchPartnership
<1>4. ASSUME NEW q1 \in Codes, NEW void \in BOOLEAN, SetVoided(q1, void)  PROVE ~voided'[q]
  BY <1>4 DEF SetVoided
<1>5. ASSUME NEW c \in Campaigns, NEW coins, FundCampaign(c, coins) \/ AdjustBudget(c, coins)
      PROVE  ~voided'[q]
  <2>1. UNCHANGED settings
    BY <1>5 DEF FundCampaign, AdjustBudget, Credit
  <2> QED  BY <2>1 DEF settings
<1> QED  BY <1>1, <1>2, <1>3, <1>4, <1>5 DEF Manage

LEMMA ManageKeeps ==
    ASSUME Inv, Manage
    PROVE  LocksProtect' /\ Money'
<1>1. UNCHANGED <<scan, install, redemptions, tx>>
  BY ManageLeavesEvidence
<1>2. ASSUME NEW w \in Workers, tx[w].phase = "holding", tx[w].op = "claim_code"
      PROVE  ~voided'[CodeOf[tx[w].scan]]
  <2>1. /\ CodeOf[tx[w].scan] \in Codes /\ voided \in [Codes -> BOOLEAN]
        /\ ~voided[CodeOf[tx[w].scan]]
    BY <1>2, InFlight, ConstantsAssumption
       DEF Inv, Typed, TypeOK, Transactions, LocksProtect, HeldStands, Takeable
  <2>2. RowLocked(<<"code", CodeOf[tx[w].scan]>>)
    BY <1>2, RowOfCode DEF RowLocked
  <2> QED  BY <2>1, <2>2, ManageWaitsForCodes
<1>3. ASSUME NEW w \in Workers, tx[w].phase = "holding"
      PROVE  Takeable(tx[w])'
  BY <1>1, <1>2, <1>3 DEF Inv, LocksProtect, HeldStands, Takeable, IsGuestRow
<1>4. HeldAlone'
  BY <1>1, StutterKeepsAlone DEF Inv, LocksProtect
<1>5. FreshClaimIds'
  BY <1>1 DEF Inv, LocksProtect, FreshClaimIds
<1>6. HeldStands'
  BY <1>1, <1>3 DEF HeldStands
<1>7. Money'
  BY <1>1, QuietKeepsMoney DEF Inv, Money
<1> QED  BY <1>4, <1>5, <1>6, <1>7 DEF LocksProtect

LEMMA InvStep == Inv /\ [Next]_vars => Inv'
<1> SUFFICES ASSUME Inv, [Next]_vars  PROVE Inv'
  OBVIOUS
<1>1. Typed'
  BY ServeType, ManageType, StutterType DEF Inv, Typed, Next
<1>2. CASE UNCHANGED vars
  <2>1. UNCHANGED <<scan, install, voided, redemptions, tx>>
    BY <1>2 DEF vars
  <2>2. ASSUME NEW w \in Workers, tx[w].phase = "holding"  PROVE Takeable(tx[w])'
    BY <2>1, <2>2 DEF Inv, LocksProtect, HeldStands, Takeable, IsGuestRow
  <2>3. HeldStands'
    BY <2>1, <2>2 DEF HeldStands
  <2>4. FreshClaimIds'
    BY <2>1 DEF Inv, LocksProtect, FreshClaimIds
  <2>5. HeldAlone'
    BY <2>1, StutterKeepsAlone DEF Inv, LocksProtect
  <2>6. Money'
    BY <2>1, QuietKeepsMoney DEF Inv, Money
  <2> QED  BY <1>1, <2>3, <2>4, <2>5, <2>6 DEF Inv, LocksProtect, Money
<1>3. Next => LocksProtect' /\ Money'
  BY ServeKeeps, ManageKeeps DEF Next
<1> QED  BY <1>1, <1>2, <1>3 DEF Inv, Money

LEMMA InvInit == Init => Inv
<1> SUFFICES ASSUME Init  PROVE Inv
  OBVIOUS
<1>1. Typed
  BY InitType DEF Typed
<1>2. \A w \in Workers : tx[w] = Idle
  BY DEF Init
<1>3. LocksProtect
  BY <1>2 DEF LocksProtect, FreshClaimIds, HeldAlone, HeldStands, Idle
<1>4. EvidenceSpentIffPaid /\ OneRewardPerEvidence
  BY DEF Init, EvidenceSpentIffPaid, OneRewardPerEvidence, Acquisitions, Engagements
<1> QED  BY <1>1, <1>3, <1>4 DEF Inv

LEMMA InvHolds == Spec => []Inv
BY InvInit, InvStep, PTL DEF Spec

(* A request that got its row keeps it to itself, and its guards stand      *)
(* until it commits.                                                        *)
THEOREM LocksAreEnough == Spec => []LocksProtect
<1>1. Inv => LocksProtect
  BY DEF Inv
<1> QED  BY InvHolds, <1>1, PTL

(* A scan brings one acquisition, a user is acquired once per campaign, a   *)
(* code is rewarded once, whatever races.                                   *)
THEOREM RewardedOnce == Spec => []OneRewardPerEvidence
<1>1. Inv => OneRewardPerEvidence
  BY DEF Inv
<1> QED  BY InvHolds, <1>1, PTL

(* No refusal burns a scan or an install, and none that was paid for stays  *)
(* spendable.                                                               *)
THEOREM NothingBurned == Spec => []EvidenceSpentIffPaid
<1>1. Inv => EvidenceSpentIffPaid
  BY DEF Inv
<1> QED  BY InvHolds, <1>1, PTL

-------------------------------------------------------------------------------
(* What single steps may do to the evidence. *)

(* Only what a commit writes can change the evidence.                       *)
LEMMA OnlySettlingMovesEvidence ==
    ASSUME NEW w \in Workers, Serve(w)
    PROVE  \/ UNCHANGED <<scan, redemptions>>
           \/ SettleScan(w) \/ SettleFirstOpen(w)
           \/ SettleAcquisition(w) \/ SettleEngagement(w) \/ SettleConfirm(w)
<1>1. ASSUME NEW s \in Scans, BeginScan(w, s)  PROVE UNCHANGED <<scan, redemptions>>
  BY <1>1 DEF BeginScan, books
<1>2. ASSUME NEW op \in Ops, NEW s \in Scans, NEW u \in Users \cup {NoUser}, NEW i \in BOOLEAN,
             NEW p \in Publishers, BeginMatch(w, op, s, u, i, p)
      PROVE  UNCHANGED <<scan, redemptions>>
  BY <1>2 DEF BeginMatch, books
<1>3. ASSUME NEW op \in Ops, NEW s \in Scans, NEW u \in Users, NEW i \in BOOLEAN,
             NEW p \in Publishers, BeginLocking(w, op, s, u, i, p)
      PROVE  UNCHANGED <<scan, redemptions>>
  BY <1>3 DEF BeginLocking, books
<1>4. Acquire(w) \/ BudgetExhausted(w) \/ Replay(w) \/ Abort(w) => UNCHANGED <<scan, redemptions>>
  BY DEF Acquire, BudgetExhausted, Replay, Abort, books
<1> QED  BY <1>1, <1>2, <1>3, <1>4 DEF Serve

LEMMA DeadCodeStep ==
    ASSUME Inv, [Next]_vars, NEW q \in Codes, voided[q]
    PROVE  EarnsNothing(q)
<1>1. CASE UNCHANGED <<scan, redemptions>>
  BY <1>1 DEF EarnsNothing
<1>2. ASSUME NEW w \in Workers, SettleScan(w)  PROVE EarnsNothing(q)
  <2>1. /\ ~voided[CodeOf[tx[w].scan]] /\ scan' = [scan EXCEPT ![tx[w].scan] = "open"]
        /\ UNCHANGED redemptions
    BY <1>2 DEF SettleScan, books
  <2> QED  BY <2>1 DEF EarnsNothing, Inv, Typed, TypeOK
<1>3. ASSUME NEW w \in Workers, SettleFirstOpen(w)  PROVE EarnsNothing(q)
  <2>1. tx[w].scan \in Scans /\ scan[tx[w].scan] = "open"
    BY <1>3, InFlight
       DEF Inv, Typed, SettleFirstOpen, Holding, LocksProtect, HeldStands, Takeable, Transactions
  <2>2. scan' = [scan EXCEPT ![tx[w].scan] = "consumed"] /\ UNCHANGED redemptions
    BY <1>3 DEF SettleFirstOpen, books
  <2> QED  BY <2>1, <2>2 DEF EarnsNothing, Inv, Typed, TypeOK
<1>4. ASSUME NEW w \in Workers, SettleAcquisition(w)  PROVE EarnsNothing(q)
  <2> DEFINE r == Redemption("acquisition", tx[w].scan, tx[w].user, Fee(tx[w]), tx[w].identified)
  <2>1. redemptions' = redemptions \cup {r} /\ r.kind = "acquisition"
    BY <1>4 DEF SettleAcquisition, Redemption
  <2> HIDE DEF r
  <2>2. tx[w].op = "claim_signup" => tx[w].scan \in Scans /\ scan[tx[w].scan] = "open"
    BY <1>4, InFlight
       DEF Inv, Typed, SettleAcquisition, Holding, LocksProtect, HeldStands, Takeable, Transactions
  <2>3. \/ UNCHANGED scan
        \/ tx[w].op = "claim_signup" /\ scan' = [scan EXCEPT ![tx[w].scan] = "consumed"]
    BY <1>4 DEF SettleAcquisition, Holding, SpendEvidence, AcquisitionOps
  <2>4. \A s \in Scans : scan[s] = "unseen" => scan'[s] = "unseen"
    BY <2>2, <2>3 DEF Inv, Typed, TypeOK
  <2> QED  BY <2>1, <2>4 DEF EarnsNothing
<1>5. ASSUME NEW w \in Workers, SettleEngagement(w)  PROVE EarnsNothing(q)
  <2> DEFINE r == Redemption("engagement", tx[w].scan, tx[w].user, Fee(tx[w]), TRUE)
  <2>1. redemptions' = redemptions \cup {r} /\ UNCHANGED scan /\ r.scan = tx[w].scan
    BY <1>5 DEF SettleEngagement, Redemption
  <2> HIDE DEF r
  <2>2. ~voided[CodeOf[tx[w].scan]]
    BY <1>5 DEF SettleEngagement, Holding, Inv, LocksProtect, HeldStands, Takeable
  <2> QED  BY <2>1, <2>2 DEF EarnsNothing
<1>6. ASSUME NEW w \in Workers, SettleConfirm(w)  PROVE EarnsNothing(q)
  <2>1. PICK r \in redemptions :
            /\ IsGuestRow(r, tx[w])
            /\ redemptions' = (redemptions \ {r})
                    \cup {[r EXCEPT !.coins = tx[w].rates.coin, !.identified = TRUE]}
    BY <1>6 DEF SettleConfirm
  <2>2. r \in [kind : Modes, scan : Scans, user : Users, coins : Prices, identified : BOOLEAN]
    BY DEF Inv, Typed, TypeOK
  <2>3. [r EXCEPT !.coins = tx[w].rates.coin, !.identified = TRUE].kind = "acquisition"
    BY <2>1, <2>2 DEF IsGuestRow
  <2>4. UNCHANGED scan
    BY <1>6 DEF SettleConfirm
  <2> QED  BY <2>1, <2>3, <2>4 DEF EarnsNothing
<1>7. ASSUME NEW w \in Workers, Serve(w)  PROVE EarnsNothing(q)
  BY <1>1, <1>2, <1>3, <1>4, <1>5, <1>6, <1>7, OnlySettlingMovesEvidence
<1>8. CASE Manage \/ UNCHANGED vars
  BY <1>1, <1>8, ManageLeavesEvidence DEF vars
<1> QED  BY <1>7, <1>8 DEF Next

(* A code that is voided records no scan and earns no engagement in the     *)
(* next step, whatever a request had read of it before.                     *)
THEOREM VoidedCodesStayDead == Spec => VoidedCodeIsDead
<1>1. Inv /\ [Next]_vars => [\A q \in Codes : voided[q] => EarnsNothing(q)]_vars
  BY DeadCodeStep
<1> QED  BY InvHolds, <1>1, PTL DEF Spec, VoidedCodeIsDead

-------------------------------------------------------------------------------
(* A request acts for the publisher of its scan. *)

OwnScans == \A w \in Workers : tx[w] # Idle => tx[w].publisher = PublisherOfScan(tx[w].scan)

LEMMA EnterKeepsOwn ==
    ASSUME TypeOK, OwnScans, NEW w \in Workers, NEW t, Enter(w, t),
           t # Idle => t.publisher = PublisherOfScan(t.scan)
    PROVE  OwnScans'
<1>1. tx'[w] = t /\ \A v \in Workers \ {w} : tx'[v] = tx[v]
  BY DEF Enter, TypeOK
<1> QED  BY <1>1 DEF OwnScans, PublisherOfScan, PartnershipOfScan, CampaignOfScan

LEMMA LeaveKeepsOwn ==
    ASSUME TypeOK, OwnScans, NEW w \in Workers, Leave(w)
    PROVE  OwnScans'
BY EnterKeepsOwn, Enter(w, Idle) DEF Enter, Leave

LEMMA ServeKeepsOwn ==
    ASSUME TypeOK, OwnScans, NEW w \in Workers, Serve(w)
    PROVE  OwnScans'
<1>1. ASSUME NEW s \in Scans, BeginScan(w, s)  PROVE OwnScans'
  <2> DEFINE t == Request("scan", "waiting", s, NoUser, FALSE, PublisherOfScan(s))
  <2>1. Enter(w, t) /\ t.publisher = PublisherOfScan(t.scan)
    BY <1>1 DEF BeginScan, Request
  <2> HIDE DEF t
  <2> QED  BY <2>1, EnterKeepsOwn
<1>2. ASSUME NEW op \in Ops, NEW s \in Scans, NEW u \in Users \cup {NoUser}, NEW i \in BOOLEAN,
             NEW p \in Publishers, BeginMatch(w, op, s, u, i, p)
      PROVE  OwnScans'
  <2> DEFINE t == Request(op, "holding", s, u, i, p)
  <2>1. Enter(w, t) /\ t.publisher = PublisherOfScan(t.scan)
    BY <1>2 DEF BeginMatch, InScope
  <2> HIDE DEF t
  <2> QED  BY <2>1, EnterKeepsOwn
<1>3. ASSUME NEW op \in Ops, NEW s \in Scans, NEW u \in Users, NEW i \in BOOLEAN,
             NEW p \in Publishers, BeginLocking(w, op, s, u, i, p)
      PROVE  OwnScans'
  <2> DEFINE row == EvidenceRow(Request(op, "waiting", s, u, i, p))
             t == Request(op, IF RowLocked(row) THEN "waiting" ELSE "holding", s, u, i, p)
  <2>1. Enter(w, t) /\ t.publisher = PublisherOfScan(t.scan)
    BY <1>3 DEF BeginLocking, InScope
  <2> HIDE DEF t
  <2> QED  BY <2>1, EnterKeepsOwn
<1>4. ASSUME Acquire(w)  PROVE OwnScans'
  <2>1. CASE Takeable(tx[w])
    <3> DEFINE t == [tx[w] EXCEPT !.phase = "holding"]
    <3>1. tx[w] \in Transactions
      BY <1>4, InFlight DEF Acquire
    <3>2. Enter(w, t)
      BY <1>4, <2>1 DEF Acquire
    <3>3. t.publisher = tx[w].publisher /\ t.scan = tx[w].scan /\ tx[w] # Idle
      BY <1>4, <3>1 DEF Acquire, Idle, Transactions
    <3> HIDE DEF t
    <3> QED  BY <3>2, <3>3, EnterKeepsOwn DEF OwnScans
  <2>2. CASE ~Takeable(tx[w])
    BY <1>4, <2>2, LeaveKeepsOwn DEF Acquire
  <2> QED  BY <2>1, <2>2
<1>5. ASSUME SettleScan(w) \/ SettleFirstOpen(w) \/ SettleAcquisition(w)  PROVE OwnScans'
  <2>1. Leave(w)
    BY <1>5 DEF SettleScan, SettleFirstOpen, SettleAcquisition
  <2> QED  BY <2>1, LeaveKeepsOwn
<1>6. ASSUME SettleEngagement(w) \/ SettleConfirm(w)  PROVE OwnScans'
  <2>1. Leave(w)
    BY <1>6 DEF SettleEngagement, SettleConfirm
  <2> QED  BY <2>1, LeaveKeepsOwn
<1>7. ASSUME BudgetExhausted(w) \/ Replay(w) \/ Abort(w)  PROVE OwnScans'
  <2>1. Leave(w)
    BY <1>7 DEF BudgetExhausted, Replay, Abort
  <2> QED  BY <2>1, LeaveKeepsOwn
<1> QED  BY <1>1, <1>2, <1>3, <1>4, <1>5, <1>6, <1>7 DEF Serve

LEMMA OwnStep == TypeOK /\ OwnScans /\ [Next]_vars => OwnScans'
<1> SUFFICES ASSUME TypeOK, OwnScans, [Next]_vars  PROVE OwnScans'
  OBVIOUS
<1>1. CASE UNCHANGED tx
  BY <1>1 DEF OwnScans, PublisherOfScan, PartnershipOfScan, CampaignOfScan
<1>2. Manage \/ UNCHANGED vars => UNCHANGED tx
  BY ManageLeavesEvidence DEF vars
<1> QED  BY <1>1, <1>2, ServeKeepsOwn DEF Next

-------------------------------------------------------------------------------
(* A payment of the model is a payment of Rewards. *)

LEMMA PayIsPays ==
    ASSUME TypeOK, NEW t \in Transactions, NEW gross \in Nat, NEW ref,
           t.publisher = PublisherOfScan(t.scan),
           HasBudget(CampaignOfScan(t.scan), gross), Pay(t, gross, ref)
    PROVE  Promise!Pays(CampaignOfScan(t.scan))
<1> DEFINE c == CampaignOfScan(t.scan)
           p == t.publisher
           bps == t.rates.bps
           budget == [k \in Campaigns |-> balance[CampaignAccount(k)]]
           earned == [k \in Publishers |-> balance[PublisherAccount(k)]]
<1>1. c \in Campaigns /\ p \in Publishers /\ bps \in 0 .. BasisPoints
      /\ p = PublisherOf[PartnershipOf[c]]
  BY ConstantsAssumption, CardPrices
     DEF Transactions, CampaignOfScan, PublisherOfScan, PartnershipOfScan
<1>2. /\ Cut(gross, bps) \in Nat /\ Net(gross, bps) \in Nat
      /\ Net(gross, bps) = gross - Cut(gross, bps)
  BY <1>1, SplitIsExact DEF Net
<1>3. /\ balance \in [Accounts -> Int]
      /\ balance' = AfterPayout(balance, c, p, gross, bps)
      /\ balance[CampaignAccount(c)] >= gross
  BY DEF TypeOK, Pay, HasBudget
<1> HIDE DEF p, bps
<1>4. /\ balance' \in [Accounts -> Int]
      /\ balance'[CampaignAccount(c)] = balance[CampaignAccount(c)] - gross
      /\ balance'[PublisherAccount(p)] = balance[PublisherAccount(p)] + Net(gross, bps)
      /\ balance'[PlatformFees] = balance[PlatformFees] + Cut(gross, bps)
      /\ \A a \in Accounts :
            a \notin {CampaignAccount(c), PublisherAccount(p), PlatformFees}
                => balance'[a] = balance[a]
  <2> HIDE DEF c
  <2> QED  BY <1>1, <1>3, PayoutMoves
<1> HIDE DEF c
<1>5. /\ \A k \in Campaigns : balance[CampaignAccount(k)] \in Int
      /\ \A k \in Publishers : balance[PublisherAccount(k)] \in Int
      /\ balance[PlatformFees] \in Int
  BY <1>3, AccountsExist
<1>6. budget' = [budget EXCEPT ![c] = @ - gross]
  <2>1. \A k \in Campaigns : k # c => balance'[CampaignAccount(k)] = balance[CampaignAccount(k)]
    BY <1>1, <1>4, AccountsExist, AccountsDistinct
  <2> QED  BY <1>1, <1>4, <2>1
<1>7. earned' = [earned EXCEPT ![p] = @ + Net(gross, bps)]
  <2>1. \A k \in Publishers : k # p => balance'[PublisherAccount(k)] = balance[PublisherAccount(k)]
    BY <1>1, <1>4, AccountsExist, AccountsDistinct
  <2> QED  BY <1>1, <1>4, <2>1
<1>8. balance'[ExternalFunding] = balance[ExternalFunding]
  BY <1>1, <1>4, AccountsExist, AccountsDistinct
<1>9. budget[c] - budget'[c] = gross /\ budget[c] >= gross
  BY <1>1, <1>3, <1>4, <1>5
<1>10. balance'[PlatformFees] - balance[PlatformFees] = Cut(gross, bps)
  BY <1>2, <1>4, <1>5
<1>11. earned' = [earned EXCEPT ![p] = @ + gross - Cut(gross, bps)]
  <2>1. earned[p] \in Int
    BY <1>1, <1>5
  <2>2. earned[p] + Net(gross, bps) = earned[p] + gross - Cut(gross, bps)
    BY <1>2, <2>1
  <2> QED  BY <1>7, <2>2
<1>12. 0 <= Cut(gross, bps) /\ Cut(gross, bps) <= gross
  BY <1>2
<1>13. p = [k \in Campaigns |-> PublisherOf[PartnershipOf[k]]][c]
  BY <1>1
<1>14. Promise!Pays(c)
  BY <1>4, <1>6, <1>8, <1>9, <1>10, <1>11, <1>12, <1>13 DEF Promise!Pays
<1> QED  BY <1>14 DEF c

LEMMA PaysBy ==
    ASSUME NEW c, NEW gross, NEW cut,
           0 <= cut, cut <= gross,
           LET budget == [k \in Campaigns |-> balance[CampaignAccount(k)]]
               earned == [k \in Publishers |-> balance[PublisherAccount(k)]]
               payee == [k \in Campaigns |-> PublisherOf[PartnershipOf[k]]][c]
           IN  /\ budget[c] - budget'[c] = gross /\ gross <= budget[c]
               /\ budget' = [budget EXCEPT ![c] = @ - gross]
               /\ earned' = [earned EXCEPT ![payee] = @ + gross - cut],
           balance'[PlatformFees] - balance[PlatformFees] = cut,
           balance'[PlatformFees] = balance[PlatformFees] + cut,
           balance'[ExternalFunding] = balance[ExternalFunding]
    PROVE  Promise!Pays(c)
BY DEF Promise!Pays

(* Nothing paid is a payment too: the confirm of a rate that came down.     *)
LEMMA NoPayIsPays ==
    ASSUME TypeOK, NoOverdraft, NEW c \in Campaigns, UNCHANGED balance
    PROVE  Promise!Pays(c)
<1> DEFINE budget == [k \in Campaigns |-> balance[CampaignAccount(k)]]
           earned == [k \in Publishers |-> balance[PublisherAccount(k)]]
           payee == [k \in Campaigns |-> PublisherOf[PartnershipOf[k]]][c]
<1>2. /\ budget[c] \in Int /\ budget[c] >= 0
      /\ balance[PlatformFees] \in Int
      /\ payee \in Publishers
      /\ \A p \in Publishers : earned[p] \in Int
  BY ConstantsAssumption, AccountsExist, AccountsDistinct DEF TypeOK, NoOverdraft
<1>3. budget' = budget /\ earned' = earned
  OBVIOUS
<1>4. budget' = [budget EXCEPT ![c] = @ - 0]
  BY <1>2, <1>3
<1>5. earned' = [earned EXCEPT ![payee] = @ + 0 - 0]
  BY <1>2, <1>3
<1>6. /\ budget[c] - budget'[c] = 0 /\ 0 <= budget[c]
      /\ balance'[PlatformFees] - balance[PlatformFees] = 0
      /\ balance'[PlatformFees] = balance[PlatformFees] + 0
      /\ balance'[ExternalFunding] = balance[ExternalFunding]
      /\ 0 <= 0
  BY <1>2, <1>3
<1> QED  BY <1>4, <1>5, <1>6, PaysBy

-------------------------------------------------------------------------------
(* What a redemption is to Rewards. *)

Seen(r) == [kind |-> r.kind, scan |-> r.scan, user |-> r.user, full |-> r.identified]
SeenOf(rows) == {Seen(r) : r \in rows}

Rows == [kind : Modes, scan : Scans, user : Users, coins : Prices, identified : BOOLEAN]

(* Two rows Rewards would call the same reward, or rewards of the same      *)
(* evidence, are the same row.                                              *)
LEMMA ConflictsAreEqual ==
    ASSUME NEW r1 \in Rows, NEW r2 \in Rows,
           r1.kind = "acquisition" /\ r2.kind = "acquisition" =>
                (\/ r1.scan = r2.scan
                 \/ CampaignOfScan(r1.scan) = CampaignOfScan(r2.scan) /\ r1.user = r2.user
                 => r1 = r2),
           r1.kind = "engagement" /\ r2.kind = "engagement" =>
                (CodeOf[r1.scan] = CodeOf[r2.scan] => r1 = r2),
           Promise!Conflicts(Seen(r1), Seen(r2))
    PROVE  r1 = r2
<1>1. /\ r1.kind = r2.kind /\ r1.kind \in Modes
      /\ r1.scan \in Scans /\ r2.scan \in Scans
  BY DEF Rows, Seen, Promise!Conflicts
<1>2. CASE r1.kind = "acquisition"
  <2>1. \/ r1.scan = r2.scan
        \/ CampaignOfScan(r1.scan) = CampaignOfScan(r2.scan) /\ r1.user = r2.user
    BY <1>1, <1>2 DEF Seen, Promise!Conflicts
  <2> QED  BY <1>1, <1>2, <2>1
<1>3. CASE r1.kind = "engagement"
  <2>1. CodeOf[r1.scan] = CodeOf[r2.scan]
    BY <1>1, <1>3 DEF Seen, Promise!Conflicts
  <2> QED  BY <1>1, <1>3, <2>1
<1> QED  BY <1>1, <1>2, <1>3 DEF Modes

LEMMA ConflictWithItself ==
    ASSUME NEW r1, NEW r2, Seen(r1) = Seen(r2)
    PROVE  Promise!Conflicts(Seen(r1), Seen(r2))
BY DEF Promise!Conflicts

LEMMA NoConflicts ==
    ASSUME TypeOK, OneRewardPerEvidence, NEW r1 \in redemptions, NEW r2 \in redemptions, r1 # r2
    PROVE  ~Promise!Conflicts(Seen(r1), Seen(r2))
<1>1. r1 \in Rows /\ r2 \in Rows
  BY DEF TypeOK, Rows
<1> QED  BY <1>1, ConflictsAreEqual DEF OneRewardPerEvidence, Acquisitions, Engagements

LEMMA NoConflictsNext ==
    ASSUME TypeOK', OneRewardPerEvidence', NEW r1 \in redemptions', NEW r2 \in redemptions', r1 # r2
    PROVE  ~Promise!Conflicts(Seen(r1), Seen(r2))
<1>1. r1 \in Rows /\ r2 \in Rows
  BY DEF TypeOK, Rows
<1> QED  BY <1>1, ConflictsAreEqual DEF OneRewardPerEvidence, Acquisitions, Engagements

(* A new row under the unique indexes, paid for, is a grant. *)
LEMMA NewRowGrants ==
    ASSUME TypeOK', OneRewardPerEvidence', NEW new, new \notin redemptions,
           redemptions' = redemptions \cup {new}, Promise!Pays(CampaignOfScan(new.scan))
    PROVE  Promise!Grant(Seen(new)) /\ Seen(new) \in Promise!AllRewards
<1>1. new \in Rows
  BY DEF TypeOK, Rows
<1>2. \A other \in SeenOf(redemptions) : ~Promise!Conflicts(Seen(new), other)
  BY NoConflictsNext DEF SeenOf
<1>3. SeenOf(redemptions') = SeenOf(redemptions) \cup {Seen(new)}
  BY DEF SeenOf
<1>4. Promise!Pays([s \in Scans |-> CampaignOfScan(s)][Seen(new).scan])
  <2>1. Seen(new).scan = new.scan /\ new.scan \in Scans
    BY <1>1 DEF Rows, Seen
  <2>2. [s \in Scans |-> CampaignOfScan(s)][Seen(new).scan] = CampaignOfScan(new.scan)
    BY <2>1
  <2> QED  BY <2>2
<1>5. Seen(new) \in Promise!AllRewards
  BY <1>1 DEF Rows, Seen, Modes, Promise!AllRewards
<1> QED  BY <1>2, <1>3, <1>4, <1>5 DEF Promise!Grant, Seen, SeenOf

(* A guest row made full, paid for, is a reward made full. *)
LEMMA FullRowMakesFull ==
    ASSUME TypeOK, OneRewardPerEvidence, NEW r \in redemptions, NEW full, ~r.identified,
           full.kind = r.kind, full.scan = r.scan, full.user = r.user,
           full.identified = TRUE,
           redemptions' = (redemptions \ {r}) \cup {full}, Promise!Pays(CampaignOfScan(r.scan))
    PROVE  Promise!MakeFull(Seen(r)) /\ Seen(r) \in Promise!AllRewards
<1>1. r \in Rows
  BY DEF TypeOK, Rows
<1>2. Seen(r) \in SeenOf(redemptions) /\ ~Seen(r).full
  BY DEF SeenOf, Seen
<1>3. Seen(full) = [Seen(r) EXCEPT !.full = TRUE]
  <2>1. ASSUME NEW before, NEW after, NEW held, NEW paid,
               before = [kind |-> r.kind, scan |-> r.scan, user |-> r.user, full |-> held],
               after = [kind |-> r.kind, scan |-> r.scan, user |-> r.user, full |-> paid]
        PROVE  after = [before EXCEPT !.full = paid]
    BY <2>1
  <2>2. Seen(full) = [kind |-> r.kind, scan |-> r.scan, user |-> r.user, full |-> full.identified]
    BY DEF Seen
  <2>3. Seen(full) = [Seen(r) EXCEPT !.full = full.identified]
    <3> DEFINE paid == full.identified
               held == r.identified
               before == Seen(r)
               after == Seen(full)
    <3>1. /\ before = [kind |-> r.kind, scan |-> r.scan, user |-> r.user, full |-> held]
          /\ after = [kind |-> r.kind, scan |-> r.scan, user |-> r.user, full |-> paid]
      BY <2>2, Zenon DEF Seen
    <3> HIDE DEF paid, held, before, after
    <3>2. after = [before EXCEPT !.full = paid]
      BY <2>1, <3>1
    <3> QED  BY <3>2 DEF paid, before, after
  <2> QED  BY <2>3
<1>4. SeenOf(redemptions') = (SeenOf(redemptions) \ {Seen(r)}) \cup {Seen(full)}
  <2>1. \A other \in redemptions : other # r => Seen(other) # Seen(r)
    BY NoConflicts, ConflictWithItself
  <2> QED  BY <2>1 DEF SeenOf
<1>5. Promise!Pays([s \in Scans |-> CampaignOfScan(s)][Seen(r).scan])
  <2>1. Seen(r).scan = r.scan /\ r.scan \in Scans
    BY <1>1 DEF Rows, Seen
  <2>2. [s \in Scans |-> CampaignOfScan(s)][Seen(r).scan] = CampaignOfScan(r.scan)
    BY <2>1
  <2> QED  BY <2>2
<1>6. Seen(r) \in Promise!AllRewards
  BY <1>1 DEF Rows, Seen, Modes, Promise!AllRewards
<1> QED  BY <1>2, <1>3, <1>4, <1>5, <1>6 DEF Promise!MakeFull, Seen, SeenOf

-------------------------------------------------------------------------------
(* Every step of the money path is a step of Rewards, or none. *)

Granted == \E r \in Promise!AllRewards : Promise!Grant(r) \/ Promise!MakeFull(r)

LEMMA AcquisitionGrants ==
    ASSUME Inv, OwnScans, Inv', NEW w \in Workers, SettleAcquisition(w)
    PROVE  Granted
<1> DEFINE t == tx[w]
           r == Redemption("acquisition", t.scan, t.user, Fee(t), t.identified)
<1>1. t \in Transactions /\ t # Idle
  BY InFlight DEF SettleAcquisition, Holding, Inv, Typed
<1>2. Promise!Pays(CampaignOfScan(t.scan))
  <2>1. /\ Fee(t) \in Nat /\ HasBudget(CampaignOfScan(t.scan), Fee(t))
        /\ Pay(t, Fee(t), PaymentRef(r)) /\ t.publisher = PublisherOfScan(t.scan)
    BY <1>1, FeeIsPrice DEF SettleAcquisition, OwnScans
  <2> HIDE DEF t, r
  <2> QED  BY <1>1, <2>1, PayIsPays DEF Inv, Typed
<1>3. r.kind = "acquisition" /\ r.scan = t.scan /\ r.user = t.user
  BY DEF Redemption
<1>4. redemptions' = redemptions \cup {r} /\ ~AlreadyCounted(CampaignOfScan(t.scan), t.user)
  BY DEF SettleAcquisition
<1> HIDE DEF r
<1>5. r \notin redemptions
  BY <1>3, <1>4 DEF AlreadyCounted
<1> QED  BY <1>2, <1>3, <1>4, <1>5, NewRowGrants DEF Granted, Inv, Typed

LEMMA EngagementGrants ==
    ASSUME Inv, OwnScans, Inv', NEW w \in Workers, SettleEngagement(w)
    PROVE  Granted
<1> DEFINE t == tx[w]
           r == Redemption("engagement", t.scan, t.user, Fee(t), TRUE)
<1>1. t \in Transactions /\ t # Idle
  BY InFlight DEF SettleEngagement, Holding, Inv, Typed
<1>2. Promise!Pays(CampaignOfScan(t.scan))
  <2>1. /\ Fee(t) \in Nat /\ HasBudget(CampaignOfScan(t.scan), Fee(t))
        /\ Pay(t, Fee(t), PaymentRef(r)) /\ t.publisher = PublisherOfScan(t.scan)
    BY <1>1, FeeIsPrice DEF SettleEngagement, OwnScans
  <2> HIDE DEF t, r
  <2> QED  BY <1>1, <2>1, PayIsPays DEF Inv, Typed
<1>3. r.kind = "engagement" /\ r.scan = t.scan
  BY DEF Redemption
<1>4. redemptions' = redemptions \cup {r} /\ ~AlreadyRewarded(CodeOf[t.scan])
  BY DEF SettleEngagement
<1> HIDE DEF r
<1>5. r \notin redemptions
  BY <1>3, <1>4 DEF AlreadyRewarded
<1> QED  BY <1>2, <1>3, <1>4, <1>5, NewRowGrants DEF Granted, Inv, Typed

LEMMA ConfirmMakesFull ==
    ASSUME Inv, NoOverdraft, OwnScans, NEW w \in Workers, SettleConfirm(w)
    PROVE  Granted
<1> DEFINE t == tx[w]
           full(r) == [r EXCEPT !.coins = t.rates.coin, !.identified = TRUE]
<1>1. t \in Transactions /\ t # Idle /\ t.publisher = PublisherOfScan(t.scan)
      /\ CampaignOfScan(t.scan) \in Campaigns
  <2>1. t \in Transactions /\ t # Idle
    BY InFlight DEF SettleConfirm, Holding, Inv, Typed
  <2> QED  BY <2>1, ConstantsAssumption DEF OwnScans, CampaignOfScan, Transactions
<1>2. PICK r \in redemptions :
        /\ IsGuestRow(r, t)
        /\ IF Delta(t, r) > 0
           THEN /\ HasBudget(CampaignOfScan(t.scan), Delta(t, r))
                /\ Pay(t, Delta(t, r), UpgradeRef(r))
           ELSE UNCHANGED <<balance, entries>>
        /\ redemptions' = (redemptions \ {r}) \cup {full(r)}
  BY DEF SettleConfirm
<1>3. /\ r \in Rows /\ ~r.identified /\ r.scan = t.scan
  BY <1>2 DEF IsGuestRow, Inv, Typed, TypeOK, Rows
<1>4. /\ full(r).kind = r.kind /\ full(r).scan = r.scan
      /\ full(r).user = r.user /\ full(r).identified = TRUE
  BY <1>3 DEF Rows
<1>5. Delta(t, r) \in Int
  <2>1. t.rates \in RateCards /\ r.coins \in Prices
    BY <1>1, <1>3 DEF Rows, Transactions
  <2>2. t.rates.coin \in Nat /\ r.coins \in Nat
    BY <2>1, CardPrices, PricesAreNat
  <2> QED  BY <2>2 DEF Delta
<1>6. Promise!Pays(CampaignOfScan(t.scan))
  <2>1. CASE Delta(t, r) > 0
    <3>1. Delta(t, r) \in Nat /\ HasBudget(CampaignOfScan(t.scan), Delta(t, r))
          /\ Pay(t, Delta(t, r), UpgradeRef(r))
      BY <1>2, <1>5, <2>1
    <3> HIDE DEF t
    <3> QED  BY <1>1, <3>1, PayIsPays DEF Inv, Typed
  <2>2. CASE ~(Delta(t, r) > 0)
    BY <1>1, <1>2, <2>2, NoPayIsPays DEF Inv, Typed
  <2> QED  BY <2>1, <2>2
<1> DEFINE row == full(r)
<1>7. /\ redemptions' = (redemptions \ {r}) \cup {row}
      /\ row.kind = r.kind /\ row.scan = r.scan /\ row.user = r.user /\ row.identified = TRUE
  BY <1>2, <1>4
<1> HIDE DEF row
<1> QED  BY <1>2, <1>3, <1>6, <1>7, FullRowMakesFull DEF Granted, Inv, Typed

LEMMA CreditFunds ==
    ASSUME TypeOK, NoOverdraft, NEW c \in Campaigns, NEW coins \in Int, NEW ref,
           balance[CampaignAccount(c)] + coins >= 0, Credit(c, coins, ref)
    PROVE  Promise!Fund(c)
<1> DEFINE budget == [k \in Campaigns |-> balance[CampaignAccount(k)]]
           earned == [k \in Publishers |-> balance[PublisherAccount(k)]]
<1>1. balance \in [Accounts -> Int] /\ balance' = AfterFunding(balance, c, coins)
      /\ UNCHANGED redemptions
  BY DEF TypeOK, Credit
<1>2. /\ balance' \in [Accounts -> Int]
      /\ balance'[CampaignAccount(c)] = balance[CampaignAccount(c)] + coins
      /\ balance'[ExternalFunding] = balance[ExternalFunding] - coins
      /\ \A a \in Accounts : a \notin {CampaignAccount(c), ExternalFunding} => balance'[a] = balance[a]
  BY <1>1, FundingMoves
<1>3. budget[c] \in Int /\ budget[c] + coins >= 0
  BY <1>1, AccountsExist
<1>4. budget' = [budget EXCEPT ![c] = @ + coins]
  <2>1. \A k \in Campaigns : k # c => balance'[CampaignAccount(k)] = balance[CampaignAccount(k)]
    BY <1>2, AccountsExist, AccountsDistinct
  <2> QED  BY <1>2, <2>1
<1>5. earned' = earned /\ balance'[PlatformFees] = balance[PlatformFees]
  BY <1>2, AccountsExist, AccountsDistinct
<1>6. budget'[c] - budget[c] = coins
  BY <1>2, <1>3
<1>7. SeenOf(redemptions)' = SeenOf(redemptions)
  BY <1>1 DEF SeenOf
<1> QED  BY <1>2, <1>3, <1>4, <1>5, <1>6, <1>7 DEF Promise!Fund, SeenOf, Seen

LEMMA PromiseStutters ==
    ASSUME UNCHANGED <<balance, redemptions>>
    PROVE  UNCHANGED Promise!vars
BY DEF Promise!vars

LEMMA PromiseInit == Init => Promise!Init
<1> SUFFICES ASSUME Init  PROVE Promise!Init
  OBVIOUS
<1>1. \A c \in Campaigns : balance[CampaignAccount(c)] = InitialBudget
  BY AccountsExist DEF Init
<1>2. \A p \in Publishers : balance[PublisherAccount(p)] = 0
  BY AccountsExist, AccountsDistinct DEF Init
<1>3. balance[PlatformFees] = 0
  BY AccountsExist, AccountsDistinct DEF Init
<1>4. redemptions = {} /\ InitialBudget \in Nat
  BY ConstantsAssumption DEF Init
<1> QED  BY <1>1, <1>2, <1>3, <1>4 DEF Promise!Init

LEMMA PromiseStep ==
    ASSUME Inv, NoOverdraft, OwnScans, Inv', [Next]_vars
    PROVE  [Promise!Next]_(Promise!vars)
<1>1. Granted => Promise!Next
  BY DEF Granted, Promise!Next
<1>2. ASSUME NEW w \in Workers, Serve(w)
      PROVE  UNCHANGED <<balance, redemptions>> \/ Promise!Next
  <2>1. CASE UNCHANGED books
    BY <2>1 DEF books
  <2> QED  BY <1>1, <1>2, <2>1, OnlySettlingMovesBooks, AcquisitionGrants, EngagementGrants,
              ConfirmMakesFull
<1>3. ASSUME NEW c \in Campaigns, NEW coins \in FundingAmounts, FundCampaign(c, coins)
      PROVE  Promise!Next
  <2>1. coins \in Nat /\ CampaignAccount(c) \in Accounts \ {ExternalFunding}
    BY ConstantsAssumption, AccountsExist, AccountsDistinct
  <2>2. balance[CampaignAccount(c)] \in Int /\ balance[CampaignAccount(c)] >= 0
    BY <2>1 DEF NoOverdraft, Inv, Typed, TypeOK
  <2>3. balance[CampaignAccount(c)] + coins >= 0
    BY <2>1, <2>2
  <2>4. Promise!Fund(c)
    BY <1>3, <2>1, <2>3, CreditFunds DEF FundCampaign, Inv, Typed
  <2> QED  BY <2>4 DEF Promise!Next
<1>4. ASSUME NEW c \in Campaigns, NEW coins \in AdjustAmounts, AdjustBudget(c, coins)
      PROVE  Promise!Next
  <2>1. coins \in Int
    BY ConstantsAssumption
  <2>2. Promise!Fund(c)
    BY <1>4, <2>1, CreditFunds DEF AdjustBudget, Inv, Typed
  <2> QED  BY <2>2 DEF Promise!Next
<1>5. CASE Manage
  <2>1. ASSUME UNCHANGED books  PROVE UNCHANGED <<balance, redemptions>>
    BY <2>1 DEF books
  <2>2. UNCHANGED <<balance, redemptions>> \/ Promise!Next
    BY <1>3, <1>4, <1>5, <2>1
       DEF Manage, SetCampaignStatus, KillCampaign, PatchPartnership, SetVoided
  <2> QED  BY <2>2, PromiseStutters
<1>6. CASE UNCHANGED vars
  BY <1>6, PromiseStutters DEF vars
<1> QED  BY <1>2, <1>5, <1>6, PromiseStutters DEF Next

(* The money path implements Rewards: a reward is granted once for its      *)
(* evidence, paid in one go out of a budget that covers it and to the       *)
(* publisher of its campaign, and only a guest reward is ever paid again.   *)
THEOREM MoneyPathKeepsPromise == Spec => KeepsPromise
<1>1. Init => OwnScans
  BY DEF Init, OwnScans
<1>2. Inv => TypeOK
  BY DEF Inv, Typed
<1>3. Spec => []OwnScans
  BY <1>1, <1>2, OwnStep, InvHolds, PTL DEF Spec
<1>4. Inv /\ NoOverdraft /\ OwnScans /\ Inv' /\ [Next]_vars => [Promise!Next]_(Promise!vars)
  BY PromiseStep
<1> QED  BY <1>3, <1>4, PromiseInit, InvHolds, BudgetsHold, PTL DEF Spec, KeepsPromise, Promise!Spec

-------------------------------------------------------------------------------
(* The books.  Every movement is posted under a reference of its own, which *)
(* tells what it was for; that is why nothing already in the ledger ever    *)
(* changes its meaning.                                                     *)

(* What the ledger has a reference for: fundings so far, and the rewards,   *)
(* the upgrades only of those that have been confirmed.                     *)
RefKnown(ref) ==
    \/ \E c \in Campaigns, n \in Nat :
            /\ n < Cardinality(Fundings)
            /\ ref \in {<<"fund", c, n>>, <<"admin-adjust", c, n>>}
    \/ \E r \in redemptions : ref = PaymentRef(r) \/ (r.identified /\ ref = UpgradeRef(r))

RefsKnown == IsFiniteSet(entries) /\ \A e \in entries : RefKnown(e.ref)

(* What the budget paid for a reward under one of its references. *)
BudgetOf(r) == CampaignAccount(CampaignOfScan(r.scan))
Legs(r, ref) == {e \in entries : e.account = BudgetOf(r) /\ e.ref = ref}

(* At once, or in two parts whose sum is what the reward reports.           *)
Charged(r) ==
    \E n \in Prices :
        /\ Legs(r, PaymentRef(r)) = {Entry(BudgetOf(r), -n, PaymentRef(r))}
        /\ \/ /\ r.coins <= n /\ (~r.identified => r.coins = n)
              /\ Legs(r, UpgradeRef(r)) = {}
           \/ \E m \in Int :
                /\ r.identified /\ n + m = r.coins
                /\ Legs(r, UpgradeRef(r)) = {Entry(BudgetOf(r), -m, UpgradeRef(r))}

AllCharged == \A r \in redemptions : Charged(r)

Agree(bal, es) == \A a \in Accounts : bal[a] = Total(Posted(es, a))

Kept == RefsKnown /\ RefsBalance /\ BooksAgree /\ AllCharged

-------------------------------------------------------------------------------
(* Totals.                                                                  *)

LEMMA TotalOfNone == Total({}) = 0
BY SumOfNone DEF Total

LEMMA TotalIsInt ==
    ASSUME NEW es, IsFiniteSet(es), \A x \in es : x.amount \in Int
    PROVE  Total(es) \in Int
<1> DEFINE f == [x \in es |-> x.amount]
<1>1. \A x \in es : f[x] \in Int
  OBVIOUS
<1>2. Total(es) = SumFunctionOnSet(f, es)
  BY DEF Total
<1> HIDE DEF f
<1> QED  BY <1>1, <1>2, SumIsInt

(* One more entry adds its amount. *)
LEMMA TotalWith ==
    ASSUME NEW es, IsFiniteSet(es), NEW e, e \notin es, \A x \in es \cup {e} : x.amount \in Int
    PROVE  Total(es \cup {e}) = e.amount + Total(es)
<1> DEFINE f == [x \in es |-> x.amount]
           g == [x \in es \cup {e} |-> x.amount]
<1>1. \A x \in es : g[x] = f[x]
  OBVIOUS
<1>2. g[e] = e.amount /\ \A x \in es \cup {e} : g[x] \in Int
  OBVIOUS
<1>3. Total(es) = SumFunctionOnSet(f, es) /\ Total(es \cup {e}) = SumFunctionOnSet(g, es \cup {e})
  BY DEF Total
<1> HIDE DEF f, g
<1>4. SumFunctionOnSet(g, es \cup {e}) = g[e] + SumFunctionOnSet(g, es)
  BY <1>2, SumWith
<1>5. SumFunctionOnSet(g, es) = SumFunctionOnSet(f, es)
  BY <1>1, SumSame
<1> QED  BY <1>2, <1>3, <1>4, <1>5

LEMMA TotalOfOne ==
    ASSUME NEW e, e.amount \in Int
    PROVE  Total({e}) = e.amount
<1>1. IsFiniteSet({}) /\ {} \cup {e} = {e} /\ e \notin {}
  BY FS_EmptySet
<1>2. Total({} \cup {e}) = e.amount + Total({})
  BY <1>1, TotalWith
<1> QED  BY <1>1, <1>2, TotalOfNone

LEMMA PairIsFinite == \A e1, e2 : IsFiniteSet({e1, e2})
<1> TAKE e1, e2
<1>1. IsFiniteSet({e1}) /\ {e1} \cup {e2} = {e1, e2}
  BY FS_Singleton
<1>2. IsFiniteSet({e1} \cup {e2})
  BY <1>1, FS_AddElement
<1> QED  BY <1>1, <1>2

LEMMA TotalOfTwo ==
    ASSUME NEW e1, NEW e2, e1 # e2, e1.amount \in Int, e2.amount \in Int
    PROVE  Total({e1, e2}) = e1.amount + e2.amount
<1>1. IsFiniteSet({e1}) /\ {e1} \cup {e2} = {e1, e2} /\ e2 \notin {e1}
  BY FS_Singleton
<1>2. Total({e1} \cup {e2}) = e2.amount + Total({e1})
  BY <1>1, TotalWith
<1> QED  BY <1>1, <1>2, TotalOfOne

-------------------------------------------------------------------------------
(* What is posted in one movement.                                          *)

LEMMA EntryFields ==
    \A a, n, ref : /\ Entry(a, n, ref).account = a
                   /\ Entry(a, n, ref).amount = n /\ Entry(a, n, ref).ref = ref
BY DEF Entry

LEMMA FundingLegs ==
    ASSUME NEW c \in Campaigns, NEW coins \in Int, NEW ref
    PROVE  LET legs == FundingEntries(c, coins, ref) IN
           /\ IsFiniteSet(legs) /\ Total(legs) = 0
           /\ \A e \in legs : e.ref = ref /\ e.amount \in Int /\ e.account \in Accounts
           /\ \A e1, e2 \in legs : e1.account = e2.account => e1 = e2
           /\ {e \in legs : e.account = ExternalFunding} = {Entry(ExternalFunding, -coins, ref)}
<1> DEFINE e1 == Entry(ExternalFunding, -coins, ref)
           e2 == Entry(CampaignAccount(c), coins, ref)
<1>1. /\ e1.account = ExternalFunding /\ e1.amount = -coins /\ e1.ref = ref
      /\ e2.account = CampaignAccount(c) /\ e2.amount = coins /\ e2.ref = ref
  BY EntryFields
<1>2. FundingEntries(c, coins, ref) = {e1, e2}
  BY DEF FundingEntries
<1>3. ExternalFunding # CampaignAccount(c)
  BY AccountsDistinct
<1> HIDE DEF e1, e2
<1>4. IsFiniteSet({e1, e2})
  BY PairIsFinite
<1>5. Total({e1, e2}) = -coins + coins
  BY <1>1, <1>3, TotalOfTwo
<1>6. {e \in {e1, e2} : e.account = ExternalFunding} = {e1}
  BY <1>1, <1>3
<1> QED  BY <1>1, <1>2, <1>3, <1>4, <1>5, <1>6, AccountsExist DEF e1

LEMMA PayoutLegs ==
    ASSUME NEW c \in Campaigns, NEW p \in Publishers, NEW gross \in Nat,
           NEW bps \in 0 .. BasisPoints, NEW ref
    PROVE  LET legs == PayoutEntries(c, p, gross, bps, ref) IN
           /\ IsFiniteSet(legs) /\ Total(legs) = 0
           /\ \A e \in legs : /\ e.ref = ref /\ e.amount \in Int /\ e.account \in Accounts
                              /\ e.account # ExternalFunding
           /\ \A e1, e2 \in legs : e1.account = e2.account => e1 = e2
           /\ {e \in legs : e.account = CampaignAccount(c)} = {Entry(CampaignAccount(c), -gross, ref)}
<1> DEFINE net == Net(gross, bps)
           cut == Cut(gross, bps)
           e1 == Entry(CampaignAccount(c), -gross, ref)
           e2 == Entry(PublisherAccount(p), net, ref)
           e3 == Entry(PlatformFees, cut, ref)
           legs == PayoutEntries(c, p, gross, bps, ref)
<1>1. net \in Int /\ cut \in Int /\ net + cut = gross
  BY SplitIsExact
<1>2. /\ e1.account = CampaignAccount(c) /\ e1.amount = -gross /\ e1.ref = ref
      /\ e2.account = PublisherAccount(p) /\ e2.amount = net /\ e2.ref = ref
      /\ e3.account = PlatformFees /\ e3.amount = cut /\ e3.ref = ref
  BY EntryFields
<1>3. legs = IF cut = 0 THEN {e1, e2} ELSE {e1, e2} \cup {e3}
  BY DEF PayoutEntries
<1>4. /\ CampaignAccount(c) # PublisherAccount(p) /\ CampaignAccount(c) # PlatformFees
      /\ PublisherAccount(p) # PlatformFees /\ PlatformFees # ExternalFunding
      /\ CampaignAccount(c) # ExternalFunding /\ PublisherAccount(p) # ExternalFunding
      /\ CampaignAccount(c) \in Accounts /\ PublisherAccount(p) \in Accounts
      /\ PlatformFees \in Accounts
  BY AccountsDistinct, AccountsExist
<1>5. e1 = Entry(CampaignAccount(c), -gross, ref)
  OBVIOUS
<1> HIDE DEF e1, e2, e3, net, cut, legs
<1>6. e1 # e2 /\ e1 # e3 /\ e2 # e3
  BY <1>2, <1>4
<1>7. IsFiniteSet({e1, e2}) /\ IsFiniteSet({e1, e2} \cup {e3})
  BY PairIsFinite, FS_AddElement
<1>8. Total({e1, e2}) = -gross + net
  BY <1>1, <1>2, <1>6, TotalOfTwo
<1>9. Total({e1, e2} \cup {e3}) = cut + Total({e1, e2})
  BY <1>1, <1>2, <1>6, <1>7, TotalWith
<1>10. Total(legs) = 0
  BY <1>1, <1>3, <1>8, <1>9
<1>11. {e \in legs : e.account = CampaignAccount(c)} = {e1}
  BY <1>2, <1>3, <1>4
<1>12. \A e \in legs : /\ e.ref = ref /\ e.amount \in Int /\ e.account \in Accounts
                       /\ e.account # ExternalFunding
  BY <1>1, <1>2, <1>3, <1>4
<1>13. \A x, y \in legs : x.account = y.account => x = y
  BY <1>2, <1>3, <1>4
<1>14. IsFiniteSet(legs)
  BY <1>3, <1>7
<1> QED  BY <1>5, <1>10, <1>11, <1>12, <1>13, <1>14 DEF legs

-------------------------------------------------------------------------------
(* The books agree entry by entry: the ledger call moves the balance of the *)
(* account it posts to by the amount it posts.                              *)

LEMMA AgreePost ==
    ASSUME NEW f \in [Accounts -> Int], NEW es, IsFiniteSet(es), \A x \in es : x.amount \in Int,
           Agree(f, es),
           NEW a \in Accounts, NEW n \in Int, NEW ref, Entry(a, n, ref) \notin es
    PROVE  Agree(Post(f, a, n), es \cup {Entry(a, n, ref)})
<1> DEFINE e == Entry(a, n, ref)
<1>1. e.account = a /\ e.amount = n
  BY EntryFields
<1> SUFFICES ASSUME NEW b \in Accounts
             PROVE  Post(f, a, n)[b] = Total(Posted(es \cup {e}, b))
  BY DEF Agree
<1>2. f[b] = Total(Posted(es, b)) /\ f[b] \in Int
  BY DEF Agree
<1>3. IsFiniteSet(Posted(es, b)) /\ \A x \in Posted(es, b) : x.amount \in Int
  BY FS_Subset DEF Posted
<1>4. CASE b = a
  <2>1. Posted(es \cup {e}, b) = Posted(es, b) \cup {e} /\ e \notin Posted(es, b)
    BY <1>1, <1>4 DEF Posted
  <2> HIDE DEF e
  <2>2. Total(Posted(es, b) \cup {e}) = e.amount + Total(Posted(es, b))
    BY <1>1, <1>3, <2>1, TotalWith
  <2>3. Post(f, a, n)[b] = f[b] + n
    BY <1>4, PostType
  <2> QED  BY <1>1, <1>2, <2>1, <2>2, <2>3
<1>5. CASE b # a
  <2>1. Posted(es \cup {e}, b) = Posted(es, b)
    BY <1>1, <1>5 DEF Posted
  <2>2. Post(f, a, n)[b] = f[b]
    BY <1>5, PostType
  <2> QED  BY <1>2, <2>1, <2>2
<1> QED  BY <1>4, <1>5

LEMMA AgreeFunding ==
    ASSUME NEW f \in [Accounts -> Int], NEW es, IsFiniteSet(es), \A x \in es : x.amount \in Int,
           Agree(f, es), NEW c \in Campaigns, NEW coins \in Int, NEW ref,
           \A x \in es : x.ref # ref
    PROVE  Agree(AfterFunding(f, c, coins), es \cup FundingEntries(c, coins, ref))
<1> DEFINE a1 == ExternalFunding
           a2 == CampaignAccount(c)
           e1 == Entry(a1, -coins, ref)
           e2 == Entry(a2, coins, ref)
           drawn == Post(f, a1, -coins)
<1>1. a1 \in Accounts /\ a2 \in Accounts /\ a1 # a2
  BY AccountsExist, AccountsDistinct
<1>2. /\ e1.account = a1 /\ e1.ref = ref /\ e1.amount \in Int
      /\ e2.account = a2 /\ e2.ref = ref
  BY EntryFields
<1>3. es \cup FundingEntries(c, coins, ref) = (es \cup {e1}) \cup {e2}
  BY DEF FundingEntries
<1>4. AfterFunding(f, c, coins) = Post(drawn, a2, coins)
  BY DEF AfterFunding
<1>5. e1 \notin es /\ e2 \notin es \cup {e1} /\ \A x \in es \cup {e1} : x.amount \in Int
  BY <1>1, <1>2
<1>6. IsFiniteSet(es \cup {e1})
  BY FS_AddElement
<1> HIDE DEF a1, a2
<1>7. -coins \in Int /\ drawn \in [Accounts -> Int]
  BY <1>1, PostType, -coins \in Int
<1>8. Agree(drawn, es \cup {e1})
  BY <1>1, <1>5, <1>7, AgreePost
<1> HIDE DEF drawn, e1
<1>9. Agree(Post(drawn, a2, coins), (es \cup {e1}) \cup {e2})
  BY <1>1, <1>5, <1>6, <1>7, <1>8, AgreePost
<1> QED  BY <1>3, <1>4, <1>9

(* A cut of zero is not posted, and moves nothing.                          *)
LEMMA AgreePayout ==
    ASSUME NEW f \in [Accounts -> Int], NEW es, IsFiniteSet(es), \A x \in es : x.amount \in Int,
           Agree(f, es), NEW c \in Campaigns, NEW p \in Publishers, NEW gross \in Nat,
           NEW bps \in 0 .. BasisPoints, NEW ref,
           \A x \in es : x.ref # ref
    PROVE  Agree(AfterPayout(f, c, p, gross, bps), es \cup PayoutEntries(c, p, gross, bps, ref))
<1> DEFINE a1 == CampaignAccount(c)
           a2 == PublisherAccount(p)
           net == Net(gross, bps)
           cut == Cut(gross, bps)
           e1 == Entry(a1, -gross, ref)
           e2 == Entry(a2, net, ref)
           e3 == Entry(PlatformFees, cut, ref)
           debited == Post(f, a1, -gross)
           credited == Post(debited, a2, net)
           es2 == (es \cup {e1}) \cup {e2}
<1>1. /\ a1 \in Accounts /\ a2 \in Accounts /\ PlatformFees \in Accounts
      /\ a1 # a2 /\ a1 # PlatformFees /\ a2 # PlatformFees
  BY AccountsExist, AccountsDistinct
<1>2. net \in Int /\ cut \in Int /\ -gross \in Int
  BY SplitIsExact
<1>3. /\ e1.account = a1 /\ e1.ref = ref /\ e1.amount = -gross
      /\ e2.account = a2 /\ e2.ref = ref /\ e2.amount = net
      /\ e3.account = PlatformFees /\ e3.ref = ref
  BY EntryFields
<1>4. es \cup PayoutEntries(c, p, gross, bps, ref) = IF cut = 0 THEN es2 ELSE es2 \cup {e3}
  BY DEF PayoutEntries
<1>5. AfterPayout(f, c, p, gross, bps) = Post(credited, PlatformFees, cut)
  BY DEF AfterPayout
<1> HIDE DEF a1, a2, net, cut
<1>6. /\ e1 \notin es /\ e2 \notin es \cup {e1} /\ e3 \notin es2
      /\ \A x \in es \cup {e1} : x.amount \in Int
      /\ \A x \in es2 : x.amount \in Int
  <2> HIDE DEF e1, e2, e3
  <2> QED  BY <1>1, <1>2, <1>3
<1>7. IsFiniteSet(es \cup {e1}) /\ IsFiniteSet(es2)
  BY FS_AddElement
<1>8. debited \in [Accounts -> Int]
  BY <1>1, <1>2, PostType
<1>9. Agree(debited, es \cup {e1})
  BY <1>1, <1>2, <1>6, AgreePost
<1> HIDE DEF debited, e1
<1>10. credited \in [Accounts -> Int]
  BY <1>1, <1>2, <1>8, PostType
<1>11. Agree(credited, es2)
  BY <1>1, <1>2, <1>6, <1>7, <1>8, <1>9, AgreePost
<1> HIDE DEF credited, e2, es2
<1>12. CASE cut = 0
  <2>1. Post(credited, PlatformFees, cut) = credited
    BY <1>1, <1>10, <1>12 DEF Post
  <2> QED  BY <1>4, <1>5, <1>11, <1>12, <2>1
<1>13. CASE cut # 0
  <2>1. Agree(Post(credited, PlatformFees, cut), es2 \cup {e3})
    BY <1>1, <1>2, <1>6, <1>7, <1>10, <1>11, AgreePost
  <2> QED  BY <1>4, <1>5, <1>13, <2>1
<1> QED  BY <1>12, <1>13

-------------------------------------------------------------------------------
(* A movement under a reference of its own.                                 *)

LEMMA RefsApart ==
    /\ \A r1, r2 : PaymentRef(r1) = PaymentRef(r2) <=>
                        r1.kind = r2.kind /\ r1.scan = r2.scan /\ r1.user = r2.user
    /\ \A r1, r2 : UpgradeRef(r1) = UpgradeRef(r2) <=>
                        r1.kind = r2.kind /\ r1.scan = r2.scan /\ r1.user = r2.user
    /\ \A r1, r2 : PaymentRef(r1) # UpgradeRef(r2)
    /\ \A r, c, n : /\ <<"fund", c, n>> \notin {PaymentRef(r), UpgradeRef(r)}
                     /\ <<"admin-adjust", c, n>> \notin {PaymentRef(r), UpgradeRef(r)}
BY DEF PaymentRef, UpgradeRef

(* It stands for itself, and what was there stands as it stood. *)
LEMMA MovementKeepsRefs ==
    ASSUME RefsKnown, RefsBalance, NEW ref, \A e \in entries : e.ref # ref,
           NEW legs, IsFiniteSet(legs), Total(legs) = 0, \A e \in legs : e.ref = ref,
           \A e1, e2 \in legs : e1.account = e2.account => e1 = e2,
           entries' = entries \cup legs
    PROVE  RefsBalance' /\ IsFiniteSet(entries')
<1>1. UnderRef(entries', ref) = legs
  BY DEF UnderRef
<1>2. ASSUME NEW other, other # ref
      PROVE  UnderRef(entries', other) = UnderRef(entries, other)
  BY <1>2 DEF UnderRef
<1>3. ASSUME NEW e \in entries'
      PROVE  Total(UnderRef(entries', e.ref)) = 0
  BY <1>1, <1>2 DEF RefsBalance
<1>4. \A e1, e2 \in entries' : e1.account = e2.account /\ e1.ref = e2.ref => e1 = e2
  BY DEF RefsBalance
<1>5. IsFiniteSet(entries')
  BY FS_Union DEF RefsKnown
<1> QED  BY <1>3, <1>4, <1>5 DEF RefsBalance

LEMMA ChargedStands ==
    ASSUME NEW r, Charged(r), NEW ref, ref # PaymentRef(r), ref # UpgradeRef(r),
           NEW legs, \A e \in legs : e.ref = ref, entries' = entries \cup legs
    PROVE  Charged(r)'
<1>1. /\ Legs(r, PaymentRef(r))' = Legs(r, PaymentRef(r))
      /\ Legs(r, UpgradeRef(r))' = Legs(r, UpgradeRef(r))
  BY DEF Legs
<1> QED  BY <1>1 DEF Charged

(* A reference the ledger knows stays known while the rewards only grow. *)
LEMMA KnownStays ==
    ASSUME NEW ref, RefKnown(ref), Cardinality(Fundings)' >= Cardinality(Fundings),
           Cardinality(Fundings)' \in Int, Cardinality(Fundings) \in Int,
           \A r \in redemptions : \E full \in redemptions' :
                /\ full.kind = r.kind /\ full.scan = r.scan /\ full.user = r.user
                /\ r.identified => full.identified
    PROVE  RefKnown(ref)'
<1>1. ASSUME NEW c \in Campaigns, NEW n \in Nat, n < Cardinality(Fundings),
             ref \in {<<"fund", c, n>>, <<"admin-adjust", c, n>>}
      PROVE  RefKnown(ref)'
  <2>1. n < Cardinality(Fundings)'
    BY <1>1
  <2> QED  BY <1>1, <2>1 DEF RefKnown
<1>2. ASSUME NEW r \in redemptions, ref = PaymentRef(r) \/ (r.identified /\ ref = UpgradeRef(r))
      PROVE  RefKnown(ref)'
  <2>1. PICK full \in redemptions' :
                /\ full.kind = r.kind /\ full.scan = r.scan /\ full.user = r.user
                /\ r.identified => full.identified
    OBVIOUS
  <2>2. PaymentRef(full) = PaymentRef(r) /\ UpgradeRef(full) = UpgradeRef(r)
    BY <2>1, RefsApart
  <2> QED  BY <1>2, <2>1, <2>2 DEF RefKnown
<1> QED  BY <1>1, <1>2 DEF RefKnown

(* fundCampaign, adjustBudget: the reference counts the fundings before it. *)
LEMMA CreditKeeps ==
    ASSUME TypeOK, Kept, NEW c \in Campaigns, NEW coins \in Int, NEW ref, Credit(c, coins, ref),
           ref \in {<<"fund", c, Cardinality(Fundings)>>,
                    <<"admin-adjust", c, Cardinality(Fundings)>>}
    PROVE  Kept'
<1> DEFINE legs == FundingEntries(c, coins, ref)
           n == Cardinality(Fundings)
<1>1. /\ entries' = entries \cup legs /\ UNCHANGED redemptions
      /\ balance' = AfterFunding(balance, c, coins)
  BY DEF Credit
<1>2. /\ IsFiniteSet(entries) /\ \A e \in entries : RefKnown(e.ref)
      /\ RefsKnown /\ RefsBalance /\ Agree(balance, entries) /\ AllCharged
  BY DEF Kept, RefsKnown, BooksAgree, Agree
<1>3. IsFiniteSet(Fundings) /\ n \in Nat
  BY <1>2, FS_Subset, FS_CardinalityType DEF Fundings
<1>4. \A e \in entries : e.ref # ref
  <2> SUFFICES ASSUME NEW e \in entries, e.ref = ref PROVE FALSE
    OBVIOUS
  <2>1. \A k \in Campaigns, m \in Nat :
            m < n => ref \notin {<<"fund", k, m>>, <<"admin-adjust", k, m>>}
    BY <1>3
  <2>2. \A r : ref \notin {PaymentRef(r), UpgradeRef(r)}
    BY RefsApart
  <2> QED  BY <1>2, <2>1, <2>2 DEF RefKnown
<1>5. /\ IsFiniteSet(legs) /\ Total(legs) = 0
      /\ \A e \in legs : e.ref = ref /\ e.amount \in Int /\ e.account \in Accounts
      /\ \A e1, e2 \in legs : e1.account = e2.account => e1 = e2
      /\ {e \in legs : e.account = ExternalFunding} = {Entry(ExternalFunding, -coins, ref)}
  BY FundingLegs
<1>6. Agree(balance', entries')
  BY <1>1, <1>2, <1>4, AgreeFunding DEF TypeOK
<1> HIDE DEF legs
<1>7. RefsBalance' /\ IsFiniteSet(entries')
  BY <1>1, <1>2, <1>4, <1>5, MovementKeepsRefs
<1>8. Cardinality(Fundings)' = n + 1
  <2> DEFINE e1 == Entry(ExternalFunding, -coins, ref)
  <2>1. e1.ref = ref
    BY EntryFields
  <2> HIDE DEF e1
  <2>2. Fundings' = Fundings \cup {e1} /\ e1 \notin Fundings
    BY <1>1, <1>4, <1>5, <2>1 DEF Fundings, e1
  <2> QED  BY <1>3, <2>2, FS_AddElement
<1>9. ASSUME NEW e \in entries'
      PROVE  RefKnown(e.ref)'
  <2>1. CASE e \in entries
    BY <1>1, <1>2, <1>3, <1>8, <2>1, KnownStays
  <2>2. CASE e \in legs
    BY <1>3, <1>5, <1>8, <2>2 DEF RefKnown
  <2> QED  BY <1>1, <2>1, <2>2
<1>10. AllCharged'
  <2>1. \A r : ref # PaymentRef(r) /\ ref # UpgradeRef(r)
    BY RefsApart
  <2> QED  BY <1>1, <1>2, <1>5, <2>1, ChargedStands DEF AllCharged
<1> QED  BY <1>6, <1>7, <1>9, <1>10 DEF Kept, RefsKnown, BooksAgree, Agree

(* payout, under a reference not used before. *)
LEMMA PayKeeps ==
    ASSUME TypeOK, Kept, NEW t \in Transactions, NEW gross \in Nat, NEW ref,
           \A e \in entries : e.ref # ref, Pay(t, gross, ref)
    PROVE  /\ RefsBalance' /\ BooksAgree' /\ IsFiniteSet(entries') /\ Fundings' = Fundings
           /\ \E legs :
                /\ entries' = entries \cup legs /\ \A e \in legs : e.ref = ref
                /\ Posted(legs, CampaignAccount(CampaignOfScan(t.scan)))
                        = {Entry(CampaignAccount(CampaignOfScan(t.scan)), -gross, ref)}
<1> DEFINE c == CampaignOfScan(t.scan)
           p == t.publisher
           bps == t.rates.bps
           legs == PayoutEntries(c, p, gross, bps, ref)
<1>1. c \in Campaigns /\ p \in Publishers /\ bps \in 0 .. BasisPoints
  BY ConstantsAssumption, CardPrices DEF Transactions, CampaignOfScan
<1>2. entries' = entries \cup legs /\ balance' = AfterPayout(balance, c, p, gross, bps)
  BY DEF Pay
<1>3. /\ IsFiniteSet(entries) /\ RefsKnown /\ RefsBalance /\ Agree(balance, entries)
      /\ balance \in [Accounts -> Int] /\ \A e \in entries : e.amount \in Int
  BY DEF Kept, RefsKnown, BooksAgree, Agree, TypeOK
<1> HIDE DEF c, p, bps
<1>4. /\ IsFiniteSet(legs) /\ Total(legs) = 0
      /\ \A e \in legs : e.ref = ref /\ e.account # ExternalFunding
      /\ \A e1, e2 \in legs : e1.account = e2.account => e1 = e2
      /\ {e \in legs : e.account = CampaignAccount(c)} = {Entry(CampaignAccount(c), -gross, ref)}
  BY <1>1, PayoutLegs
<1>5. Agree(balance', entries')
  BY <1>1, <1>2, <1>3, AgreePayout
<1> HIDE DEF legs
<1>6. RefsBalance' /\ IsFiniteSet(entries')
  BY <1>2, <1>3, <1>4, MovementKeepsRefs
<1>7. Fundings' = Fundings
  BY <1>2, <1>4 DEF Fundings
<1>8. Posted(legs, CampaignAccount(c)) = {Entry(CampaignAccount(c), -gross, ref)}
  BY <1>4 DEF Posted
<1> QED  BY <1>2, <1>4, <1>5, <1>6, <1>7, <1>8 DEF BooksAgree, Agree, c

(* A reward for which there was none, paid at once.                         *)
LEMMA NewRewardKeeps ==
    ASSUME TypeOK, Kept, NEW t \in Transactions, NEW r, r.scan = t.scan, r.coins \in Prices,
           \A other \in redemptions :
                ~(other.kind = r.kind /\ other.scan = r.scan /\ other.user = r.user),
           Pay(t, r.coins, PaymentRef(r)), redemptions' = redemptions \cup {r}
    PROVE  Kept'
<1>1. \A e \in entries : e.ref # PaymentRef(r) /\ e.ref # UpgradeRef(r)
  BY RefsApart DEF Kept, RefsKnown, RefKnown
<1>2. r.coins \in Nat
  BY PricesAreNat
<1>3. /\ RefsBalance' /\ BooksAgree' /\ IsFiniteSet(entries') /\ Fundings' = Fundings
      /\ \E legs :
            /\ entries' = entries \cup legs /\ \A e \in legs : e.ref = PaymentRef(r)
            /\ Posted(legs, BudgetOf(r)) = {Entry(BudgetOf(r), -r.coins, PaymentRef(r))}
  BY <1>1, <1>2, PayKeeps DEF BudgetOf
<1>4. PICK legs :
            /\ entries' = entries \cup legs /\ \A e \in legs : e.ref = PaymentRef(r)
            /\ Posted(legs, BudgetOf(r)) = {Entry(BudgetOf(r), -r.coins, PaymentRef(r))}
  BY <1>3
<1>5. Cardinality(Fundings) \in Nat
  BY FS_Subset, FS_CardinalityType DEF Fundings, Kept, RefsKnown
<1>6. ASSUME NEW e \in entries'
      PROVE  RefKnown(e.ref)'
  <2>1. CASE e \in entries
    BY <1>3, <1>5, <2>1, KnownStays DEF Kept, RefsKnown
  <2>2. CASE e \in legs
    BY <1>4, <2>2 DEF RefKnown
  <2> QED  BY <1>4, <2>1, <2>2
<1>7. ASSUME NEW other \in redemptions
      PROVE  Charged(other)'
  <2>1. PaymentRef(r) # PaymentRef(other) /\ PaymentRef(r) # UpgradeRef(other)
    BY RefsApart
  <2> QED  BY <1>4, <2>1, ChargedStands DEF Kept, AllCharged
<1>8. Charged(r)'
  <2>1. Legs(r, PaymentRef(r))' = {Entry(BudgetOf(r), -r.coins, PaymentRef(r))}
    BY <1>1, <1>4 DEF Legs, Posted
  <2>2. Legs(r, UpgradeRef(r))' = {}
    BY <1>1, <1>4, RefsApart DEF Legs
  <2> QED  BY <1>2, <2>1, <2>2 DEF Charged
<1> QED  BY <1>3, <1>6, <1>7, <1>8 DEF Kept, RefsKnown, AllCharged

(* confirm: the guest row, completed with or without a second payment. *)
LEMMA ConfirmKeepsBooks ==
    ASSUME TypeOK, OneRewardPerEvidence, Kept, NEW w \in Workers, SettleConfirm(w)
    PROVE  Kept'
<1> PICK t : t = tx[w]
  OBVIOUS
<1>1. t \in Transactions /\ t.rates.coin \in Nat
  BY InFlight, CardPrices DEF SettleConfirm, Holding, Transactions
<1> DEFINE full(r) == [r EXCEPT !.coins = t.rates.coin, !.identified = TRUE]
<1>2. PICK r \in redemptions :
        /\ IsGuestRow(r, t)
        /\ IF Delta(t, r) > 0 THEN Pay(t, Delta(t, r), UpgradeRef(r))
                              ELSE UNCHANGED <<balance, entries>>
        /\ redemptions' = (redemptions \ {r}) \cup {full(r)}
  BY DEF SettleConfirm
<1>3. /\ r.kind = "acquisition" /\ ~r.identified /\ r.scan = t.scan /\ r.coins \in Nat
      /\ full(r).kind = r.kind /\ full(r).scan = r.scan /\ full(r).user = r.user
      /\ full(r).coins = t.rates.coin /\ full(r).identified = TRUE
  BY <1>2, PricesAreNat DEF IsGuestRow, TypeOK
<1> PICK row : row = full(r)
  OBVIOUS
<1>4. /\ row.kind = r.kind /\ row.scan = r.scan /\ row.user = r.user
      /\ row.coins = t.rates.coin /\ row.identified = TRUE
      /\ redemptions' = (redemptions \ {r}) \cup {row}
  BY <1>2, <1>3
<1> HIDE DEF full
<1>5. PaymentRef(row) = PaymentRef(r) /\ UpgradeRef(row) = UpgradeRef(r) /\ BudgetOf(row) = BudgetOf(r)
  BY <1>4, RefsApart DEF BudgetOf
<1>6. \A other \in redemptions :
        other.kind = r.kind /\ other.scan = r.scan /\ other.user = r.user => other = r
  BY <1>3 DEF OneRewardPerEvidence, Acquisitions
<1>7. \A known \in redemptions : \E now \in redemptions' :
        /\ now.kind = known.kind /\ now.scan = known.scan /\ now.user = known.user
        /\ known.identified => now.identified
  BY <1>4
<1>8. /\ Legs(r, PaymentRef(r)) = {Entry(BudgetOf(r), -r.coins, PaymentRef(r))}
      /\ Legs(r, UpgradeRef(r)) = {} /\ r.coins \in Prices
  BY <1>3 DEF Kept, AllCharged, Charged, TypeOK
<1>9. Cardinality(Fundings) \in Nat
  BY FS_Subset, FS_CardinalityType DEF Fundings, Kept, RefsKnown
<1>10. CASE Delta(t, r) > 0
  <2> DEFINE delta == Delta(t, r)
             ref == UpgradeRef(r)
  <2>1. delta \in Nat /\ r.coins + delta = row.coins
    BY <1>1, <1>3, <1>4, <1>10 DEF Delta
  <2>2. \A e \in entries : e.ref # ref
    BY <1>3, <1>6, RefsApart DEF Kept, RefsKnown, RefKnown
  <2>3. Pay(t, delta, ref)
    BY <1>2, <1>10
  <2>4. BudgetOf(r) = CampaignAccount(CampaignOfScan(t.scan))
    BY <1>3 DEF BudgetOf
  <2> HIDE DEF delta
  <2>5. /\ RefsBalance' /\ BooksAgree' /\ IsFiniteSet(entries') /\ Fundings' = Fundings
        /\ \E legs :
            /\ entries' = entries \cup legs /\ \A e \in legs : e.ref = ref
            /\ Posted(legs, BudgetOf(r)) = {Entry(BudgetOf(r), -delta, ref)}
    <3> HIDE DEF ref
    <3> QED  BY <1>1, <2>1, <2>2, <2>3, <2>4, PayKeeps
  <2>6. PICK legs :
            /\ entries' = entries \cup legs /\ \A e \in legs : e.ref = ref
            /\ Posted(legs, BudgetOf(r)) = {Entry(BudgetOf(r), -delta, ref)}
    BY <2>5
  <2>7. ASSUME NEW e \in entries'
        PROVE  RefKnown(e.ref)'
    <3>1. CASE e \in entries
      BY <1>7, <1>9, <2>5, <3>1, KnownStays DEF Kept, RefsKnown
    <3>2. CASE e \in legs
      BY <1>4, <1>5, <2>6, <3>2 DEF RefKnown
    <3> QED  BY <2>6, <3>1, <3>2
  <2>8. ASSUME NEW other \in redemptions \ {r}
        PROVE  Charged(other)'
    <3>1. ref # PaymentRef(other) /\ ref # UpgradeRef(other)
      BY <1>6, RefsApart
    <3> QED  BY <2>6, <3>1, ChargedStands DEF Kept, AllCharged
  <2>9. Charged(row)'
    <3>1. Legs(row, PaymentRef(row))' = {Entry(BudgetOf(row), -r.coins, PaymentRef(row))}
      BY <1>5, <1>8, <2>6, RefsApart DEF Legs, Posted
    <3>2. Legs(row, UpgradeRef(row))' = {Entry(BudgetOf(row), -delta, UpgradeRef(row))}
      BY <1>5, <2>2, <2>6 DEF Legs, Posted
    <3> QED  BY <1>4, <1>8, <2>1, <3>1, <3>2 DEF Charged
  <2> QED  BY <1>4, <2>5, <2>7, <2>8, <2>9 DEF Kept, RefsKnown, AllCharged
<1>11. CASE ~(Delta(t, r) > 0)
  <2>1. UNCHANGED <<balance, entries>>
    BY <1>2, <1>11
  <2>2. row.coins <= r.coins
    BY <1>1, <1>3, <1>4, <1>11 DEF Delta
  <2>3. /\ RefsBalance' /\ BooksAgree' /\ IsFiniteSet(entries') /\ Fundings' = Fundings
    BY <2>1 DEF Kept, RefsKnown, RefsBalance, BooksAgree, Accounts, Fundings
  <2>4. ASSUME NEW e \in entries'
        PROVE  RefKnown(e.ref)'
    BY <1>7, <1>9, <2>1, <2>3, KnownStays DEF Kept, RefsKnown
  <2>5. ASSUME NEW other \in redemptions \ {r}
        PROVE  Charged(other)'
    BY <2>1 DEF Charged, Legs, Kept, AllCharged
  <2>6. Charged(row)'
    <3>1. /\ Legs(row, PaymentRef(row))' = {Entry(BudgetOf(row), -r.coins, PaymentRef(row))}
          /\ Legs(row, UpgradeRef(row))' = {}
      BY <1>5, <1>8, <2>1 DEF Legs
    <3> QED  BY <1>4, <1>8, <2>2, <3>1 DEF Charged
  <2> QED  BY <1>4, <2>3, <2>4, <2>5, <2>6 DEF Kept, RefsKnown, AllCharged
<1> QED  BY <1>10, <1>11

LEMMA AcquisitionKeepsBooks ==
    ASSUME TypeOK, Kept, NEW w \in Workers, SettleAcquisition(w)
    PROVE  Kept'
<1> PICK t : t = tx[w]
  OBVIOUS
<1> PICK r : r = Redemption("acquisition", t.scan, t.user, Fee(t), t.identified)
  OBVIOUS
<1>1. t \in Transactions
  BY InFlight DEF SettleAcquisition, Holding
<1>2. r.kind = "acquisition" /\ r.scan = t.scan /\ r.user = t.user /\ r.coins = Fee(t)
  BY DEF Redemption
<1>3. /\ ~AlreadyCounted(CampaignOfScan(t.scan), t.user)
      /\ Pay(t, r.coins, PaymentRef(r)) /\ redemptions' = redemptions \cup {r}
  BY <1>2 DEF SettleAcquisition
<1>4. r.coins \in Prices
  BY <1>1, <1>2, FeeIsPrice
<1>5. \A other \in redemptions :
            ~(other.kind = r.kind /\ other.scan = r.scan /\ other.user = r.user)
  BY <1>2, <1>3 DEF AlreadyCounted
<1> QED  BY <1>1, <1>2, <1>3, <1>4, <1>5, NewRewardKeeps

LEMMA EngagementKeepsBooks ==
    ASSUME TypeOK, Kept, NEW w \in Workers, SettleEngagement(w)
    PROVE  Kept'
<1> PICK t : t = tx[w]
  OBVIOUS
<1> PICK r : r = Redemption("engagement", t.scan, t.user, Fee(t), TRUE)
  OBVIOUS
<1>1. t \in Transactions
  BY InFlight DEF SettleEngagement, Holding
<1>2. r.kind = "engagement" /\ r.scan = t.scan /\ r.user = t.user /\ r.coins = Fee(t)
  BY DEF Redemption
<1>3. /\ ~AlreadyRewarded(CodeOf[t.scan])
      /\ Pay(t, r.coins, PaymentRef(r)) /\ redemptions' = redemptions \cup {r}
  BY <1>2 DEF SettleEngagement
<1>4. r.coins \in Prices
  BY <1>1, <1>2, FeeIsPrice
<1>5. \A other \in redemptions :
            ~(other.kind = r.kind /\ other.scan = r.scan /\ other.user = r.user)
  BY <1>2, <1>3 DEF AlreadyRewarded
<1> QED  BY <1>1, <1>2, <1>3, <1>4, <1>5, NewRewardKeeps

(* The books of a platform on which nothing has been written stay kept. *)
LEMMA QuietKeepsBooks ==
    ASSUME Kept, UNCHANGED books
    PROVE  Kept'
BY DEF Kept, RefsKnown, RefKnown, RefsBalance, BooksAgree, AllCharged, Charged, Legs, Fundings,
       Accounts, books

LEMMA KeptStep == Inv /\ Kept /\ [Next]_vars => Kept'
<1> SUFFICES ASSUME Inv, Kept, [Next]_vars PROVE Kept'
  OBVIOUS
<1>1. TypeOK /\ OneRewardPerEvidence
  BY DEF Inv, Typed
<1>2. ASSUME NEW w \in Workers, Serve(w)
      PROVE  Kept'
  BY <1>1, <1>2, OnlySettlingMovesBooks, QuietKeepsBooks, AcquisitionKeepsBooks,
     EngagementKeepsBooks, ConfirmKeepsBooks
<1>3. ASSUME NEW c \in Campaigns, NEW coins \in FundingAmounts, FundCampaign(c, coins)
      PROVE  Kept'
  <2>1. coins \in Int
    BY ConstantsAssumption
  <2> QED  BY <1>1, <1>3, <2>1, CreditKeeps DEF FundCampaign
<1>4. ASSUME NEW c \in Campaigns, NEW coins \in AdjustAmounts, AdjustBudget(c, coins)
      PROVE  Kept'
  <2>1. coins \in Int
    BY ConstantsAssumption
  <2> QED  BY <1>1, <1>4, <2>1, CreditKeeps DEF AdjustBudget
<1>5. CASE Manage
  <2>1. CASE UNCHANGED books
    BY <2>1, QuietKeepsBooks
  <2> QED  BY <1>3, <1>4, <1>5, <2>1
           DEF Manage, SetCampaignStatus, KillCampaign, PatchPartnership, SetVoided
<1>6. CASE UNCHANGED vars
  BY <1>6, QuietKeepsBooks DEF vars, books
<1> QED  BY <1>2, <1>5, <1>6 DEF Next

-------------------------------------------------------------------------------
(* The books as they are opened, one funding per campaign.                  *)

OpeningRef(c) == <<"fund", c, 0>>
OpenedFor(C) == UNION {FundingEntries(c, InitialBudget, OpeningRef(c)) : c \in C}
BalancesFor(C) ==
    [a \in Accounts |->
        IF a \in {CampaignAccount(c) : c \in C} THEN InitialBudget
        ELSE IF a = ExternalFunding THEN -(InitialBudget * Cardinality(C))
        ELSE 0]

Opened(C) ==
    /\ IsFiniteSet(OpenedFor(C)) /\ \A e \in OpenedFor(C) : e.amount \in Int
    /\ BalancesFor(C) \in [Accounts -> Int]
    /\ Agree(BalancesFor(C), OpenedFor(C))

LEMMA OpeningLegs ==
    /\ InitialBudget \in Int
    /\ \A c \in Campaigns : \A e \in FundingEntries(c, InitialBudget, OpeningRef(c)) :
            e.ref = OpeningRef(c) /\ e.amount \in Int
    /\ \A c1, c2 : OpeningRef(c1) = OpeningRef(c2) => c1 = c2
<1>1. InitialBudget \in Int
  BY ConstantsAssumption
<1> QED  BY <1>1, FundingLegs DEF OpeningRef

(* One campaign more is one funding more. *)
LEMMA OneMoreOpened ==
    ASSUME NEW C \in SUBSET Campaigns, NEW c \in C, Opened(C \ {c})
    PROVE  Opened(C)
<1> DEFINE rest == C \ {c}
           legs == FundingEntries(c, InitialBudget, OpeningRef(c))
           n == Cardinality(rest)
<1>1. /\ c \in Campaigns /\ IsFiniteSet(rest) /\ C = rest \cup {c} /\ c \notin rest
      /\ InitialBudget \in Int
  BY ConstantsAssumption, FS_Subset
<1>2. n \in Nat /\ Cardinality(C) = n + 1
  BY <1>1, FS_AddElement, FS_CardinalityType
<1>3. OpenedFor(C) = OpenedFor(rest) \cup legs
  BY <1>1 DEF OpenedFor
<1>4. \A e \in OpenedFor(rest) : e.ref # OpeningRef(c)
  BY <1>1, OpeningLegs DEF OpenedFor
<1>5. IsFiniteSet(legs) /\ \A e \in legs : e.amount \in Int
  BY <1>1, FundingLegs
<1>6. BalancesFor(C) = AfterFunding(BalancesFor(rest), c, InitialBudget)
  <2> DEFINE before == BalancesFor(rest)
             after == AfterFunding(before, c, InitialBudget)
  <2>1. before \in [Accounts -> Int]
    BY DEF Opened
  <2>2. /\ after \in [Accounts -> Int]
        /\ after[CampaignAccount(c)] = before[CampaignAccount(c)] + InitialBudget
        /\ after[ExternalFunding] = before[ExternalFunding] - InitialBudget
        /\ \A a \in Accounts : a \notin {CampaignAccount(c), ExternalFunding} => after[a] = before[a]
    <3> HIDE DEF before
    <3> QED  BY <1>1, <2>1, FundingMoves
  <2>3. CampaignAccount(c) \notin {CampaignAccount(k) : k \in rest}
    BY <1>1, AccountsDistinct
  <2>4. ExternalFunding \notin {CampaignAccount(k) : k \in C}
    BY AccountsDistinct
  <2>5. {CampaignAccount(k) : k \in C} = {CampaignAccount(k) : k \in rest} \cup {CampaignAccount(c)}
    BY <1>1
  <2>6. -(InitialBudget * (n + 1)) = -(InitialBudget * n) - InitialBudget
    BY <1>1, <1>2
  <2>7. /\ before[CampaignAccount(c)] = 0
        /\ before[ExternalFunding] = -(InitialBudget * n)
    BY <1>1, <2>3, <2>4, AccountsExist, AccountsDistinct DEF BalancesFor
  <2>8. \A a \in Accounts : BalancesFor(C)[a] = after[a]
    <3> SUFFICES ASSUME NEW a \in Accounts PROVE BalancesFor(C)[a] = after[a]
      OBVIOUS
    <3>1. CASE a = CampaignAccount(c)
      BY <1>1, <2>2, <2>5, <2>7, <3>1 DEF BalancesFor
    <3>2. CASE a = ExternalFunding
      BY <1>2, <2>2, <2>4, <2>6, <2>7, <3>2 DEF BalancesFor
    <3>3. CASE a \notin {CampaignAccount(c), ExternalFunding}
      BY <2>2, <2>5, <3>3 DEF BalancesFor
    <3> QED  BY <3>1, <3>2, <3>3
  <2>9. BalancesFor(C) = [a \in Accounts |-> BalancesFor(C)[a]]
    BY DEF BalancesFor
  <2> HIDE DEF before, after
  <2> QED  BY <2>2, <2>8, <2>9 DEF before, after
<1> PICK f, es : f = BalancesFor(rest) /\ es = OpenedFor(rest)
  OBVIOUS
<1>7. /\ IsFiniteSet(es) /\ (\A e \in es : e.amount \in Int) /\ f \in [Accounts -> Int]
      /\ Agree(f, es)
  BY DEF Opened
<1>8. /\ BalancesFor(C) = AfterFunding(f, c, InitialBudget)
      /\ OpenedFor(C) = es \cup FundingEntries(c, InitialBudget, OpeningRef(c))
      /\ \A e \in es : e.ref # OpeningRef(c)
  BY <1>3, <1>4, <1>6
<1> HIDE DEF rest, legs
<1>9. Agree(BalancesFor(C), OpenedFor(C))
  <2>1. Agree(AfterFunding(f, c, InitialBudget), es \cup FundingEntries(c, InitialBudget, OpeningRef(c)))
    BY <1>1, <1>7, <1>8, AgreeFunding
  <2> QED  BY <1>8, <2>1
<1>10. BalancesFor(C) \in [Accounts -> Int]
  <2>1. AfterFunding(f, c, InitialBudget) \in [Accounts -> Int]
    BY <1>1, <1>7, FundingMoves
  <2> QED  BY <1>8, <2>1
<1>11. IsFiniteSet(OpenedFor(C)) /\ \A e \in OpenedFor(C) : e.amount \in Int
  BY <1>5, <1>7, <1>8, FS_Union DEF legs
<1> QED  BY <1>9, <1>10, <1>11 DEF Opened

LEMMA AllOpened == Opened(Campaigns)
<1> DEFINE Good == {C \in SUBSET Campaigns : Opened(C)}
<1>1. ASSUME NEW C \in SUBSET Campaigns, \A D \in SUBSET C : D # C => D \in Good
      PROVE  C \in Good
  <2>1. CASE C = {}
    <3>1. OpenedFor(C) = {} /\ \A a : Posted({}, a) = {}
      BY <2>1 DEF OpenedFor, Posted
    <3>2. InitialBudget \in Int /\ Cardinality(C) = 0 /\ -(InitialBudget * 0) = 0
      BY <2>1, ConstantsAssumption, FS_EmptySet
    <3>3. \A a \in Accounts : BalancesFor(C)[a] = 0
      BY <2>1, <3>2 DEF BalancesFor
    <3>4. BalancesFor(C) \in [Accounts -> Int]
      BY <3>3 DEF BalancesFor
    <3> QED  BY <3>1, <3>3, <3>4, TotalOfNone, FS_EmptySet DEF Opened, Agree
  <2>2. CASE C # {}
    <3>1. PICK c \in C : TRUE
      BY <2>2
    <3>2. C \ {c} \in Good
      BY <1>1, <3>1
    <3> QED  BY <3>1, <3>2, OneMoreOpened
  <2> QED  BY <2>1, <2>2
<1> HIDE DEF Good
<1>2. Good \in SUBSET (SUBSET Campaigns)
  BY DEF Good
<1>3. Campaigns \in Good
  BY <1>1, <1>2, ConstantsAssumption, Induct
<1> QED  BY <1>3 DEF Good

LEMMA KeptInit == Init => Kept
<1> SUFFICES ASSUME Init PROVE Kept
  OBVIOUS
<1>1. entries = OpenedFor(Campaigns) /\ balance = BalancesFor(Campaigns) /\ redemptions = {}
  BY DEF Init, OpenedFor, OpeningEntries, OpeningRef, BalancesFor
<1>2. IsFiniteSet(entries) /\ BooksAgree
  BY <1>1, AllOpened DEF Opened, BooksAgree, Agree
<1>3. ASSUME NEW e \in entries
      PROVE  \E c \in Campaigns : e \in FundingEntries(c, InitialBudget, OpeningRef(c))
  BY <1>1, <1>3 DEF OpenedFor
<1>4. ASSUME NEW c \in Campaigns
      PROVE  UnderRef(entries, OpeningRef(c)) = FundingEntries(c, InitialBudget, OpeningRef(c))
  BY <1>1, OpeningLegs DEF OpenedFor, UnderRef
<1>5. RefsBalance
  <2>1. ASSUME NEW e \in entries
        PROVE  Total(UnderRef(entries, e.ref)) = 0
    BY <1>3, <1>4, OpeningLegs, FundingLegs
  <2>2. ASSUME NEW e1 \in entries, NEW e2 \in entries, e1.account = e2.account, e1.ref = e2.ref
        PROVE  e1 = e2
    <3>1. PICK c \in Campaigns : e1 \in FundingEntries(c, InitialBudget, OpeningRef(c))
      BY <1>3
    <3>2. e2 \in FundingEntries(c, InitialBudget, OpeningRef(c))
      BY <1>3, <2>2, <3>1, OpeningLegs
    <3> QED  BY <2>2, <3>1, <3>2, OpeningLegs, FundingLegs
  <2> QED  BY <2>1, <2>2 DEF RefsBalance
<1>6. ASSUME NEW e \in entries
      PROVE  RefKnown(e.ref)
  <2>1. PICK c \in Campaigns : e \in FundingEntries(c, InitialBudget, OpeningRef(c))
    BY <1>3
  <2>2. e.ref = OpeningRef(c)
    BY <2>1, OpeningLegs
  <2>3. Entry(ExternalFunding, -InitialBudget, OpeningRef(c)) \in Fundings
    BY <1>1, EntryFields DEF OpenedFor, FundingEntries, Fundings
  <2>4. IsFiniteSet(Fundings)
    BY <1>2, FS_Subset DEF Fundings
  <2>5. Cardinality(Fundings) \in Nat /\ Cardinality(Fundings) # 0
    BY <2>3, <2>4, FS_CardinalityType, FS_EmptySet
  <2> QED  BY <2>2, <2>5 DEF RefKnown, OpeningRef
<1> QED  BY <1>1, <1>2, <1>5, <1>6 DEF Kept, RefsKnown, AllCharged

LEMMA KeptHolds == Spec => []Kept
BY KeptInit, KeptStep, InvHolds, PTL DEF Spec

(* The balance of every account is the sum of what the ledger posted to it, *)
(* for any number of campaigns, payouts, upgrades and clawbacks: the ledger *)
(* call is the only one to move either and moves both.                      *)
THEOREM BalancesCacheTheLedger == Spec => []BooksAgree
<1>1. Kept => BooksAgree
  BY DEF Kept
<1> QED  BY <1>1, KeptHolds, PTL

(* Double entry: the legs of one reference sum to zero and there is one per *)
(* account, since no movement is posted under a reference already in use,   *)
(* a confirm's included.                                                    *)
THEOREM EveryMovementBalances == Spec => []RefsBalance
<1>1. Kept => RefsBalance
  BY DEF Kept
<1> QED  BY <1>1, KeptHolds, PTL

(* What a reward cost the budget in all is one price, paid in one part or   *)
(* in two with any repricing in between, and it never reports more.         *)
THEOREM OnePricePerReward == Spec => []ChargedOnePrice
<1>1. TypeOK /\ Kept => ChargedOnePrice
  <2> SUFFICES ASSUME TypeOK, Kept, NEW r \in redemptions
               PROVE  Spent(r) \in Prices /\ r.coins <= Spent(r)
    BY DEF ChargedOnePrice
  <2> DEFINE paid == Legs(r, PaymentRef(r))
             upgraded == Legs(r, UpgradeRef(r))
  <2>1. Spent(r) = -Total(paid \cup upgraded)
    <3>1. paid \cup upgraded =
            {e \in entries : /\ e.account = CampaignAccount(CampaignOfScan(r.scan))
                             /\ e.ref \in {PaymentRef(r), UpgradeRef(r)}}
      BY DEF Legs, BudgetOf
    <3> QED  BY <3>1 DEF Spent
  <2>2. PICK n \in Prices :
            /\ paid = {Entry(BudgetOf(r), -n, PaymentRef(r))}
            /\ \/ r.coins <= n /\ upgraded = {}
               \/ \E m \in Int :
                    n + m = r.coins /\ upgraded = {Entry(BudgetOf(r), -m, UpgradeRef(r))}
    BY DEF Kept, AllCharged, Charged
  <2>3. n \in Nat /\ r.coins \in Nat /\ r.coins \in Prices
    BY PricesAreNat DEF TypeOK
  <2> HIDE DEF paid, upgraded
  <2>4. CASE r.coins <= n /\ upgraded = {}
    <3>1. Total(paid) = -n
      BY <2>2, <2>3, EntryFields, TotalOfOne
    <3> QED  BY <2>1, <2>3, <2>4, <3>1
  <2>5. ASSUME NEW m \in Int, n + m = r.coins,
               upgraded = {Entry(BudgetOf(r), -m, UpgradeRef(r))}
        PROVE  Spent(r) = r.coins
    <3> DEFINE e1 == Entry(BudgetOf(r), -n, PaymentRef(r))
               e2 == Entry(BudgetOf(r), -m, UpgradeRef(r))
    <3>1. e1.amount = -n /\ e2.amount = -m /\ e1 # e2
      BY EntryFields, RefsApart
    <3> HIDE DEF e1, e2
    <3>2. Total({e1, e2}) = -n + -m
      BY <2>3, <3>1, TotalOfTwo
    <3>3. paid \cup upgraded = {e1, e2}
      BY <2>2, <2>5 DEF e1, e2
    <3>4. Spent(r) = -(-n + -m)
      BY <2>1, <3>2, <3>3
    <3> QED  BY <2>3, <2>5, <3>4
  <2> QED  BY <2>2, <2>3, <2>4, <2>5
<1> QED  BY <1>1, KeptHolds, TypeCorrect, PTL
===============================================================================
