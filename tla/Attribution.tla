----------------------------- MODULE Attribution ------------------------------
(***************************************************************************)
(* The money path of the attribution platform: a scan of a printed code    *)
(* becomes an install, the install or the scan or the code becomes a       *)
(* reward, and a guest-tier reward may later be confirmed to full price.   *)
(* Translated from backend/src/modules/partner/partner.repository.ts, with *)
(* the scan of modules/public/public.controller.ts and the operations of   *)
(* the portal and admin modules that race with it.                         *)
(*                                                                         *)
(* Each worker serves one request at a time.  A request is one database    *)
(* transaction at READ COMMITTED, cut where another transaction can come   *)
(* between its statements:                                                 *)
(*                                                                         *)
(*   Begin...   the SELECT: joins the tables, keeps a copy of the rates,   *)
(*              and locks the row that is the evidence, or queues for it;  *)
(*   Acquire    the lock comes free: PostgreSQL re-reads the locked row,   *)
(*              and nothing else the SELECT joined;                        *)
(*   Settle...  from lockedBalance to COMMIT.  The campaign's balance row  *)
(*              is held throughout, so this part is one step.              *)
(*                                                                         *)
(* A request that is refused, thrown out or cut off leaves no trace, so a  *)
(* time window that has lapsed (a scan's, an install's, a grace period's)  *)
(* is one more reason for a request to end in Abort.                       *)
(***************************************************************************)
EXTENDS LedgerBook, FiniteSets

CONSTANTS
    Campaigns, Partnerships, Publishers, Codes, Users, Workers,
    Scans,              \* claim ids, numbered in the order they are handed out
    PartnershipOf,      \* [Campaigns -> Partnerships]
    PublisherOf,        \* [Partnerships -> Publishers]
    ModeOf,             \* [Campaigns -> {"acquisition", "engagement"}]
    CampaignOf,         \* [Codes -> Campaigns]
    CodeOf,             \* [Scans -> Codes]
    MaxUses,            \* [Codes -> Nat]
    RateCards,          \* the prices a partnership may have
    FirstCard,          \* the price it is created with
    InitialBudget,      \* the coins a campaign was first funded with
    FundingAmounts,     \* what a promoter may add
    AdjustAmounts,      \* what an admin may add or claw back
    MaxFundings,        \* bound: ledger references the campaign may be funded under
    NoUser              \* the user of a request that names none

Modes == {"acquisition", "engagement"}
CampaignStatuses == {"active", "paused", "ended"}
PartnershipStatuses == {"pending", "active", "suspended"}
Ops == {"scan", "first_open", "claim_signup", "claim_install", "claim_code", "confirm"}
AcquisitionOps == {"claim_signup", "claim_install"}

(* validateRates and the CHECK on partnerships: the guest tier never costs *)
(* more than the full one.                                                 *)
ValidCard(card) ==
    /\ card.coin \in Nat \ {0}
    /\ card.guest \in 0 .. card.coin
    /\ card.engagement \in Nat
    /\ card.bps \in 0 .. BasisPoints

ASSUME ConstantsAssumption ==
    /\ IsFiniteSet(Campaigns)
    /\ PartnershipOf \in [Campaigns -> Partnerships]
    /\ PublisherOf \in [Partnerships -> Publishers]
    /\ ModeOf \in [Campaigns -> Modes]
    /\ CampaignOf \in [Codes -> Campaigns]
    /\ CodeOf \in [Scans -> Codes]
    /\ MaxUses \in [Codes -> Nat]
    /\ Scans \subseteq Nat
    /\ FirstCard \in RateCards
    /\ InitialBudget \in Nat
    /\ FundingAmounts \subseteq Nat
    /\ AdjustAmounts \subseteq Int
    /\ MaxFundings \in Nat
    /\ NoUser \notin Users

ASSUME RatesAssumption == \A card \in RateCards : ValidCard(card)

VARIABLES
    partnership,    \* partnerships: status and rates
    campaign,       \* campaigns.status
    voided,         \* qr_codes.voided
    scan,           \* scans: not there yet, or open, or consumed
    install,        \* installs: the one bound to each scan
    redemptions,    \* redemptions: the rewards
    balance,        \* account_balances
    entries,        \* ledger_entries
    tx              \* what each worker's transaction has read and locked

vars == <<partnership, campaign, voided, scan, install, redemptions, balance, entries, tx>>
books == <<redemptions, balance, entries>>
settings == <<partnership, campaign, voided>>

-------------------------------------------------------------------------------
(* Rows and how they hang together. *)

CampaignOfScan(s) == CampaignOf[CodeOf[s]]
PartnershipOfScan(s) == PartnershipOf[CampaignOfScan(s)]
PublisherOfScan(s) == PublisherOf[PartnershipOfScan(s)]

(* A redemption: an acquisition is unique per user of a campaign, an       *)
(* engagement per code.                                                    *)
Redemption(kind, s, u, coins, identified) ==
    [kind |-> kind, scan |-> s, user |-> u, coins |-> coins, identified |-> identified]

PaymentRef(r) == <<"redemption", r.kind, r.scan, r.user>>
UpgradeRef(r) == <<"upgrade", r.kind, r.scan, r.user>>

(* Mutation: no unique index on the user of a campaign. *)
AlreadyCountedPerScan(c, u) == FALSE

AlreadyCounted(c, u) ==
    \E r \in redemptions :
        r.kind = "acquisition" /\ CampaignOfScan(r.scan) = c /\ r.user = u

AlreadyRewarded(q) == \E r \in redemptions : r.kind = "engagement" /\ CodeOf[r.scan] = q

(* qr_codes.uses is raised in the transaction that inserts the scan. *)
Uses(q) == Cardinality({s \in Scans : CodeOf[s] = q /\ scan[s] # "unseen"})

(* ORDER BY scanned_at DESC LIMIT 1 *)
LatestScan(q, s) ==
    /\ CodeOf[s] = q /\ scan[s] # "unseen"
    /\ \A s2 \in Scans : CodeOf[s2] = q /\ scan[s2] # "unseen" => s2 <= s

Accounts ==
    {CampaignAccount(c) : c \in Campaigns} \cup {PublisherAccount(p) : p \in Publishers}
        \cup {PlatformFees, ExternalFunding}

-------------------------------------------------------------------------------
(* Transactions. *)

Idle == [phase |-> "idle"]

Transactions ==
    [phase : {"waiting", "holding"}, op : Ops, scan : Scans, user : Users \cup {NoUser},
     identified : BOOLEAN, publisher : Publishers, rates : RateCards, live : BOOLEAN]

(* What the SELECT brings back: the evidence, the request's own arguments,  *)
(* the partnership's rates and whether the campaign was active.             *)
Request(op, phase, s, u, identified, p) ==
    [phase |-> phase, op |-> op, scan |-> s, user |-> u, identified |-> identified,
     publisher |-> p, rates |-> partnership[PartnershipOfScan(s)].rates,
     live |-> campaign[CampaignOfScan(s)] = "active"]

(* The row a transaction of each kind locks FOR UPDATE. *)
EvidenceRow(t) ==
    CASE t.op \in {"first_open", "claim_signup"} -> <<"scan", t.scan>>
      [] t.op = "claim_install" -> <<"install", t.scan>>
      [] t.op = "claim_code" -> <<"code", CodeOf[t.scan]>>
      [] t.op = "confirm" -> <<"redemption", t.scan, t.user>>
      [] OTHER -> <<"none">>

(* Mutation: the SELECT without its FOR UPDATE. *)
RowLockedNever(row) == FALSE

RowLocked(row) == \E v \in Workers : tx[v].phase = "holding" /\ EvidenceRow(tx[v]) = row

(* The acquisition a confirm names, while part of its fee is held back.    *)
IsGuestRow(r, t) ==
    r.kind = "acquisition" /\ ~r.identified /\ r.scan = t.scan /\ r.user = t.user

(* The part of the WHERE clauses and guards that reads the locked row.     *)
Takeable(t) ==
    /\ t.op \in {"first_open", "claim_signup"} => scan[t.scan] = "open"
    /\ t.op = "claim_install" => install[t.scan] = "bound"
    /\ t.op = "claim_code" => ~voided[CodeOf[t.scan]]
    /\ t.op = "confirm" => \E r \in redemptions : IsGuestRow(r, t)

(* Mutation: any publisher's key will do. *)
InScopeOfAnyone(t) == partnership[PartnershipOfScan(t.scan)].status = "active"

(* The part that reads the tables joined to it.  The publisher is the one   *)
(* the API key belongs to; a confirm does not ask for the campaign.         *)
InScope(t) ==
    /\ t.publisher = PublisherOfScan(t.scan)
    /\ partnership[PartnershipOfScan(t.scan)].status = "active"

(* Mutation: any budget will do. *)
HasBudgetLeft(c, coins) == balance[CampaignAccount(c)] > 0

HasBudget(c, coins) == balance[CampaignAccount(c)] >= coins

(* Mutation: an identified signup pays both tiers. *)
FeeOfBothTiers(t) ==
    IF t.op = "claim_code" THEN t.rates.engagement
    ELSE IF t.identified THEN t.rates.coin + t.rates.guest
    ELSE t.rates.guest

Fee(t) ==
    IF t.op = "claim_code" THEN t.rates.engagement
    ELSE IF t.identified THEN t.rates.coin
    ELSE t.rates.guest

Holding(w, ops) == tx[w].phase = "holding" /\ tx[w].op \in ops
Enter(w, t) == tx' = [tx EXCEPT ![w] = t]
Leave(w) == tx' = [tx EXCEPT ![w] = Idle]

(* payout, called with the campaign's balance locked. *)
Pay(t, gross, ref) ==
    /\ balance' = AfterPayout(balance, CampaignOfScan(t.scan), t.publisher, gross, t.rates.bps)
    /\ entries' = entries \cup
            PayoutEntries(CampaignOfScan(t.scan), t.publisher, gross, t.rates.bps, ref)

-------------------------------------------------------------------------------
(* Scanning a code.                                                        *)

(* handleScan up to its transaction: the page is refused for a voided code, *)
(* a stopped campaign or partnership, or an empty budget; a claim id is     *)
(* drawn for it otherwise.                                                  *)
BeginScan(w, s) ==
    LET t == Request("scan", "waiting", s, NoUser, FALSE, PublisherOfScan(s)) IN
    /\ tx[w] = Idle
    /\ scan[s] = "unseen"
    /\ \A v \in Workers : tx[v] # Idle /\ tx[v].op = "scan" => tx[v].scan # s
    /\ ~voided[CodeOf[s]]
    /\ t.live
    /\ InScope(t)
    /\ balance[CampaignAccount(CampaignOfScan(s))] > 0
    /\ Enter(w, t)
    /\ UNCHANGED <<settings, scan, install, books>>

(* The conditional UPDATE of uses, and the scan that rides with it.  The    *)
(* UPDATE waits for a claim that has the code locked.                       *)
SettleScan(w) ==
    LET s == tx[w].scan
        q == CodeOf[s]
    IN  /\ tx[w].phase = "waiting" /\ tx[w].op = "scan"
        /\ ~RowLocked(<<"code", q>>)
        /\ ~voided[q]
        /\ Uses(q) < MaxUses[q]
        /\ scan' = [scan EXCEPT ![s] = "open"]
        /\ Leave(w)
        /\ UNCHANGED <<settings, install, books>>

-------------------------------------------------------------------------------
(* The SELECTs.                                                            *)

(* byClaimId: SKIP LOCKED, so a scan somebody else holds is no match and    *)
(* nobody queues.  first_open names no user.                                *)
BeginMatch(w, op, s, u, identified, p) ==
    LET t == Request(op, "holding", s, u, identified, p) IN
    /\ tx[w] = Idle
    /\ op \in {"first_open", "claim_signup"}
    /\ op = "first_open" <=> u = NoUser
    /\ op = "first_open" => ~identified
    /\ InScope(t) /\ t.live
    /\ Takeable(t)
    /\ ~RowLocked(EvidenceRow(t))
    /\ Enter(w, t)
    /\ UNCHANGED <<settings, scan, install, books>>

(* claimInstall, claimCode and confirm: a plain FOR UPDATE.  A row that     *)
(* cannot be taken now is refused at once, one that is locked is queued     *)
(* for with the rates already read.                                         *)
BeginLocking(w, op, s, u, identified, p) ==
    LET row == EvidenceRow(Request(op, "waiting", s, u, identified, p))
        t == Request(op, IF RowLocked(row) THEN "waiting" ELSE "holding", s, u, identified, p)
    IN  /\ tx[w] = Idle
        /\ op \in {"claim_install", "claim_code", "confirm"}
        /\ op # "claim_install" => ~identified
        /\ InScope(t)
        /\ op # "confirm" => t.live
        /\ op = "claim_code" => /\ ModeOf[CampaignOfScan(s)] = "engagement"
                                /\ LatestScan(CodeOf[s], s)
        /\ Takeable(t)
        /\ Enter(w, t)
        /\ UNCHANGED <<settings, scan, install, books>>

(* Mutation: the row comes free and nobody looks at it again. *)
AcquireUnread(w) ==
    /\ tx[w].phase = "waiting" /\ tx[w].op # "scan"
    /\ ~RowLocked(EvidenceRow(tx[w]))
    /\ Enter(w, [tx[w] EXCEPT !.phase = "holding"])
    /\ UNCHANGED <<settings, scan, install, books>>

(* The row comes free and is read again. *)
Acquire(w) ==
    /\ tx[w].phase = "waiting" /\ tx[w].op # "scan"
    /\ ~RowLocked(EvidenceRow(tx[w]))
    /\ IF Takeable(tx[w]) THEN Enter(w, [tx[w] EXCEPT !.phase = "holding"]) ELSE Leave(w)
    /\ UNCHANGED <<settings, scan, install, books>>

-------------------------------------------------------------------------------
(* From lockedBalance to COMMIT.                                           *)

(* bindInstall *)
SettleFirstOpen(w) ==
    LET s == tx[w].scan IN
    /\ Holding(w, {"first_open"})
    /\ HasBudget(CampaignOfScan(s), tx[w].rates.guest)
    /\ scan' = [scan EXCEPT ![s] = "consumed"]
    /\ install' = [install EXCEPT ![s] = "bound"]
    /\ Leave(w)
    /\ UNCHANGED <<settings, books>>

(* The guard that claimInstall or claimAtSignup flips. *)
SpendEvidence(t) ==
    IF t.op = "claim_install"
    THEN /\ install' = [install EXCEPT ![t.scan] = "redeemed"]
         /\ UNCHANGED scan
    ELSE /\ scan' = [scan EXCEPT ![t.scan] = "consumed"]
         /\ UNCHANGED install

(* recordAcquisition *)
SettleAcquisition(w) ==
    LET t == tx[w]
        r == Redemption("acquisition", t.scan, t.user, Fee(t), t.identified)
    IN  /\ Holding(w, AcquisitionOps)
        /\ HasBudget(CampaignOfScan(t.scan), Fee(t))
        /\ ~AlreadyCounted(CampaignOfScan(t.scan), t.user)
        /\ SpendEvidence(t)
        /\ redemptions' = redemptions \cup {r}
        /\ Pay(t, Fee(t), PaymentRef(r))
        /\ Leave(w)
        /\ UNCHANGED settings

(* recordEngagement.  The new row's foreign key takes a share of the scan's *)
(* lock, so it waits for a match that holds the scan.                       *)
SettleEngagement(w) ==
    LET t == tx[w]
        r == Redemption("engagement", t.scan, t.user, Fee(t), TRUE)
    IN  /\ Holding(w, {"claim_code"})
        /\ HasBudget(CampaignOfScan(t.scan), Fee(t))
        /\ ~AlreadyRewarded(CodeOf[t.scan])
        /\ ~RowLocked(<<"scan", t.scan>>)
        /\ redemptions' = redemptions \cup {r}
        /\ Pay(t, Fee(t), PaymentRef(r))
        /\ Leave(w)
        /\ UNCHANGED <<settings, scan, install>>

(* Mutation: the pending_fee of today's rates, not of what was paid. *)
DeltaOfTodaysRates(t, r) == t.rates.coin - t.rates.guest

(* confirm: the held-back part of a guest fee, at the rate the SELECT read. *)
(* A rate that has come down since leaves nothing to pay.                   *)
Delta(t, r) == t.rates.coin - r.coins

SettleConfirm(w) ==
    LET t == tx[w] IN
    /\ Holding(w, {"confirm"})
    /\ \E r \in redemptions :
        LET full == [r EXCEPT !.coins = t.rates.coin, !.identified = TRUE] IN
        /\ IsGuestRow(r, t)
        /\ IF Delta(t, r) > 0
           THEN /\ HasBudget(CampaignOfScan(t.scan), Delta(t, r))
                /\ Pay(t, Delta(t, r), UpgradeRef(r))
           ELSE UNCHANGED <<balance, entries>>
        /\ redemptions' = (redemptions \ {r}) \cup {full}
    /\ Leave(w)
    /\ UNCHANGED <<settings, scan, install>>

-------------------------------------------------------------------------------
(* The ways a request ends without a trace.                                *)

(* Mutation: the refusal commits, and the flipped guard with it. *)
BudgetExhaustedCommitted(w) ==
    LET t == tx[w] IN
    /\ Holding(w, AcquisitionOps)
    /\ ~HasBudget(CampaignOfScan(t.scan), Fee(t))
    /\ SpendEvidence(t)
    /\ Leave(w)
    /\ UNCHANGED <<settings, books>>

(* Rollback('budget_exhausted'): the guard that was flipped flips back. *)
BudgetExhausted(w) ==
    LET t == tx[w] IN
    /\ Holding(w, Ops \ {"confirm"})
    /\ ~HasBudget(CampaignOfScan(t.scan), IF t.op = "first_open" THEN t.rates.guest ELSE Fee(t))
    /\ Leave(w)
    /\ UNCHANGED <<settings, scan, install, books>>

(* P2002 on the redemption: the prior row is answered instead. *)
Replay(w) ==
    LET t == tx[w] IN
    /\ \/ Holding(w, AcquisitionOps) /\ AlreadyCounted(CampaignOfScan(t.scan), t.user)
       \/ Holding(w, {"claim_code"}) /\ AlreadyRewarded(CodeOf[t.scan])
    /\ Leave(w)
    /\ UNCHANGED <<settings, scan, install, books>>

(* Every other end: a lapsed window, a used-up code, a budget too small for  *)
(* a confirm, a deadlock victim, a timeout, a dead process.                 *)
Abort(w) ==
    /\ tx[w] # Idle
    /\ Leave(w)
    /\ UNCHANGED <<settings, scan, install, books>>

-------------------------------------------------------------------------------
(* What promoters and admins do meanwhile.                                 *)

(* patchCampaign, of the portal and of the admin: any status from any. *)
SetCampaignStatus(c, status) ==
    /\ campaign' = [campaign EXCEPT ![c] = status]
    /\ UNCHANGED <<partnership, voided, scan, install, books, tx>>

(* killCampaign: its UPDATE of the codes waits for a claim on one of them. *)
KillCampaign(c) ==
    LET codes == {q \in Codes : CampaignOf[q] = c} IN
    /\ \A q \in codes : ~voided[q] => ~RowLocked(<<"code", q>>)
    /\ campaign' = [campaign EXCEPT ![c] = "ended"]
    /\ voided' = [q \in Codes |-> voided[q] \/ q \in codes]
    /\ UNCHANGED <<partnership, scan, install, books, tx>>

(* patchPartnership: the rates and the status in one UPDATE. *)
PatchPartnership(p, status, card) ==
    /\ partnership' = [partnership EXCEPT ![p] = [status |-> status, rates |-> card]]
    /\ UNCHANGED <<campaign, voided, scan, install, books, tx>>

(* voidQr and the issue API's void set it, patchQr sets or clears it. *)
SetVoided(q, void) ==
    /\ ~RowLocked(<<"code", q>>)
    /\ voided' = [voided EXCEPT ![q] = void]
    /\ UNCHANGED <<partnership, campaign, scan, install, books, tx>>

Fundings == {e \in entries : e.account = ExternalFunding}

(* fundCampaign and adjustBudget, under a reference not used before. *)
Credit(c, coins, ref) ==
    /\ Cardinality(Fundings) < MaxFundings
    /\ balance' = AfterFunding(balance, c, coins)
    /\ entries' = entries \cup FundingEntries(c, coins, ref)
    /\ UNCHANGED <<settings, scan, install, redemptions, tx>>

FundCampaign(c, coins) == Credit(c, coins, <<"fund", c, Cardinality(Fundings)>>)

AdjustBudget(c, coins) ==
    /\ balance[CampaignAccount(c)] + coins >= 0
    /\ Credit(c, coins, <<"admin-adjust", c, Cardinality(Fundings)>>)

-------------------------------------------------------------------------------
(* A campaign that has been printed and funded once, and nothing since. *)

OpeningEntries == UNION {FundingEntries(c, InitialBudget, <<"fund", c, 0>>) : c \in Campaigns}

Init ==
    /\ partnership = [p \in Partnerships |-> [status |-> "active", rates |-> FirstCard]]
    /\ campaign = [c \in Campaigns |-> "active"]
    /\ voided = [q \in Codes |-> FALSE]
    /\ scan = [s \in Scans |-> "unseen"]
    /\ install = [s \in Scans |-> "none"]
    /\ redemptions = {}
    /\ entries = OpeningEntries
    /\ balance = [a \in Accounts |->
                    IF a \in {CampaignAccount(c) : c \in Campaigns} THEN InitialBudget
                    ELSE IF a = ExternalFunding THEN -(InitialBudget * Cardinality(Campaigns))
                    ELSE 0]
    /\ tx = [w \in Workers |-> Idle]

Serve(w) ==
    \/ \E s \in Scans : BeginScan(w, s)
    \/ SettleScan(w)
    \/ \E op \in Ops, s \in Scans, u \in Users \cup {NoUser}, i \in BOOLEAN, p \in Publishers :
            BeginMatch(w, op, s, u, i, p)
    \/ \E op \in Ops, s \in Scans, u \in Users, i \in BOOLEAN, p \in Publishers :
            BeginLocking(w, op, s, u, i, p)
    \/ Acquire(w)
    \/ SettleFirstOpen(w)
    \/ SettleAcquisition(w)
    \/ SettleEngagement(w)
    \/ SettleConfirm(w)
    \/ BudgetExhausted(w)
    \/ Replay(w)
    \/ Abort(w)

Manage ==
    \/ \E c \in Campaigns, status \in CampaignStatuses : SetCampaignStatus(c, status)
    \/ \E c \in Campaigns : KillCampaign(c)
    \/ \E p \in Partnerships, status \in PartnershipStatuses, card \in RateCards :
            PatchPartnership(p, status, card)
    \/ \E q \in Codes, void \in BOOLEAN : SetVoided(q, void)
    \/ \E c \in Campaigns, coins \in FundingAmounts : FundCampaign(c, coins)
    \/ \E c \in Campaigns, coins \in AdjustAmounts : AdjustBudget(c, coins)

Next == (\E w \in Workers : Serve(w)) \/ Manage

Spec == Init /\ [][Next]_vars
-------------------------------------------------------------------------------
(* Properties.                                                             *)

Prices == UNION {{card.coin, card.guest, card.engagement} : card \in RateCards}

(* Every variable holds what its column may hold; a reward's coins are      *)
(* always a price some card has had (redemptions, installs and scans of     *)
(* schema.prisma).                                                          *)
TypeOK ==
    /\ partnership \in [Partnerships -> [status : PartnershipStatuses, rates : RateCards]]
    /\ campaign \in [Campaigns -> CampaignStatuses]
    /\ voided \in [Codes -> BOOLEAN]
    /\ scan \in [Scans -> {"unseen", "open", "consumed"}]
    /\ install \in [Scans -> {"none", "bound", "redeemed"}]
    /\ redemptions \subseteq
            [kind : Modes, scan : Scans, user : Users, coins : Prices, identified : BOOLEAN]
    /\ balance \in [Accounts -> Int]
    /\ \A e \in entries : e.account \in Accounts /\ e.amount \in Int
    /\ tx \in [Workers -> Transactions \cup {Idle}]

(* No budget and no earnings ever go below zero, so the CHECK on            *)
(* account_balances never fires: lockedBalance in the payout's own          *)
(* transaction is enough (partner.repository.ts 308, 406, 509).             *)
NoOverdraft == \A a \in Accounts \ {ExternalFunding} : balance[a] >= 0

(* account_balances is a cache of ledger_entries and never drifts from it   *)
(* (ledger.ts 9-16, what startReconciliation looks for).                    *)
BooksAgree == \A a \in Accounts : balance[a] = Total(Posted(entries, a))

(* The legs posted under one reference sum to zero, however the fee was     *)
(* rounded, and there is one per account, so that UNIQUE (account, ref)     *)
(* never rejects a payout: a confirm may not reuse its payment's reference  *)
(* (ledger.ts 30-43, rates.ts 48-53).                                       *)
RefsBalance ==
    /\ \A e \in entries : Total(UnderRef(entries, e.ref)) = 0
    /\ \A e1, e2 \in entries : e1.account = e2.account /\ e1.ref = e2.ref => e1 = e2

Acquisitions == {r \in redemptions : r.kind = "acquisition"}
Engagements == {r \in redemptions : r.kind = "engagement"}

(* Whatever requests race, in any order and by either path, a scan brings   *)
(* one acquisition, a user is acquired once per campaign, and a code is     *)
(* rewarded once (partner.repository.ts 112, 138, 165, 178, 217).           *)
OneRewardPerEvidence ==
    /\ \A r1, r2 \in Acquisitions :
            \/ r1.scan = r2.scan
            \/ CampaignOfScan(r1.scan) = CampaignOfScan(r2.scan) /\ r1.user = r2.user
            => r1 = r2
    /\ \A r1, r2 \in Engagements : CodeOf[r1.scan] = CodeOf[r2.scan] => r1 = r2

(* A scan or an install is spent exactly when an acquisition was paid for   *)
(* it: a refusal after the flag was flipped burns nothing, and nothing      *)
(* that was paid can be claimed again (partner.repository.ts 98-104).       *)
EvidenceSpentIffPaid ==
    \A s \in Scans :
        /\ install[s] # "none" => scan[s] = "consumed"
        /\ (\E r \in Acquisitions : r.scan = s) <=>
                install[s] = "redeemed" \/ (install[s] = "none" /\ scan[s] = "consumed")

(* A claim id is drawn for one scan. *)
FreshClaimIds ==
    \A w \in Workers : tx[w] # Idle /\ tx[w].op = "scan" =>
        /\ scan[tx[w].scan] = "unseen"
        /\ \A v \in Workers \ {w} : tx[v] # Idle /\ tx[v].op = "scan" => tx[v].scan # tx[w].scan

HeldAlone ==
    \A w \in Workers : \A v \in Workers \ {w} :
        tx[w].phase = "holding" /\ tx[v].phase = "holding" =>
            EvidenceRow(tx[w]) # EvidenceRow(tx[v])

HeldStands == \A w \in Workers : tx[w].phase = "holding" => Takeable(tx[w])

(* A request that got its row is alone on it, and what the guards read      *)
(* there still stands when it commits, whatever path the others came by:    *)
(* the three kinds of evidence are locked by different SELECTs and one by   *)
(* SKIP LOCKED (partner.repository.ts 125, 158, 200, 495).                  *)
LocksProtect == FreshClaimIds /\ HeldAlone /\ HeldStands

(* What the ledger took out of the campaign's budget for a reward. *)
Spent(r) ==
    -Total({e \in entries : /\ e.account = CampaignAccount(CampaignOfScan(r.scan))
                            /\ e.ref \in {PaymentRef(r), UpgradeRef(r)}})

(* A reward is charged one price of one card in all, whether it was paid at *)
(* once or in two parts with a repricing in between, and never reports more *)
(* coins than that (portal.service.ts 423, partner.repository.ts 507).      *)
ChargedOnePrice == \A r \in redemptions : Spent(r) \in Prices /\ r.coins <= Spent(r)

EarnsNothing(q) ==
    /\ \A s \in Scans : CodeOf[s] = q /\ scan[s] = "unseen" => scan'[s] = "unseen"
    /\ \A r \in redemptions' \ redemptions : r.kind = "engagement" => CodeOf[r.scan] # q

(* A code that is voided records no scan and earns no engagement, even for  *)
(* a request that had read it before (partner.repository.ts 194,            *)
(* public.controller.ts 186, killCampaign).                                 *)
VoidedCodeIsDead ==
    [][\A q \in Codes : voided[q] => EarnsNothing(q)]_vars

(* The money path implements the promise of Rewards.                        *)
Promise == INSTANCE Rewards WITH
    PublisherOf <- [c \in Campaigns |-> PublisherOf[PartnershipOf[c]]],
    CampaignOf <- [s \in Scans |-> CampaignOfScan(s)],
    budget <- [c \in Campaigns |-> balance[CampaignAccount(c)]],
    earned <- [p \in Publishers |-> balance[PublisherAccount(p)]],
    fees <- balance[PlatformFees],
    outside <- balance[ExternalFunding],
    rewards <- {[kind |-> r.kind, scan |-> r.scan, user |-> r.user, full |-> r.identified] :
                    r \in redemptions}

(* Each step of the money path grants, completes or funds as Rewards        *)
(* allows, in one go, or changes nothing it knows of.                       *)
KeepsPromise == Promise!Spec
===============================================================================
