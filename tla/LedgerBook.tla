------------------------------ MODULE LedgerBook ------------------------------
(***************************************************************************)
(* The double-entry ledger of backend/src/common/ledger.ts and the fee     *)
(* split of backend/src/common/rates.ts, as pure operators over an         *)
(* append-only set of entries and a balance per account.                   *)
(*                                                                         *)
(* An account is a pair: the code's "campaign:{id}", "publisher:{id}",     *)
(* "platform:fees" and "external:funding".  An entry is the row of         *)
(* ledger_entries without its id and timestamp.                            *)
(***************************************************************************)
EXTENDS Integers, Functions

BasisPoints == 10000

CampaignAccount(c) == <<"campaign", c>>
PublisherAccount(p) == <<"publisher", p>>
PlatformFees == <<"platform", "fees">>
ExternalFunding == <<"external", "funding">>

(* splitFee: the cut is floored, so the rounding favours the publisher. *)
Cut(gross, bps) == (gross * bps) \div BasisPoints
(* Mutation: each side of the split rounded on its own. *)
NetRounded(gross, bps) == (gross * (BasisPoints - bps)) \div BasisPoints
Net(gross, bps) == gross - Cut(gross, bps)

Entry(account, amount, ref) == [account |-> account, amount |-> amount, ref |-> ref]

(* Mutation: the platform's leg forgotten. *)
PayoutEntriesWithoutCut(campaign, publisher, gross, bps, ref) ==
    {Entry(CampaignAccount(campaign), -gross, ref),
     Entry(PublisherAccount(publisher), Net(gross, bps), ref)}

(* payout: one ref, a debit of the budget, a credit of the publisher and,  *)
(* when it is not zero, a credit of the platform's cut.                    *)
PayoutEntries(campaign, publisher, gross, bps, ref) ==
    {Entry(CampaignAccount(campaign), -gross, ref),
     Entry(PublisherAccount(publisher), Net(gross, bps), ref)}
        \cup (IF Cut(gross, bps) = 0 THEN {}
              ELSE {Entry(PlatformFees, Cut(gross, bps), ref)})

(* fundCampaign and adjustBudget: the coins come from outside the platform, *)
(* or go back there when they are negative.                                 *)
FundingEntries(campaign, coins, ref) ==
    {Entry(ExternalFunding, -coins, ref), Entry(CampaignAccount(campaign), coins, ref)}

(* ledger(): an entry moves the balance of its account. *)
Post(balance, account, amount) == [balance EXCEPT ![account] = @ + amount]

AfterPayout(balance, campaign, publisher, gross, bps) ==
    Post(Post(Post(balance, CampaignAccount(campaign), -gross),
              PublisherAccount(publisher), Net(gross, bps)),
         PlatformFees, Cut(gross, bps))

AfterFunding(balance, campaign, coins) ==
    Post(Post(balance, ExternalFunding, -coins), CampaignAccount(campaign), coins)

(* The sum of the amounts of a set of entries. *)
Total(entries) == SumFunctionOnSet([e \in entries |-> e.amount], entries)
Posted(entries, account) == {e \in entries : e.account = account}
UnderRef(entries, ref) == {e \in entries : e.ref = ref}
===============================================================================
