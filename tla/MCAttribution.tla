---------------------------- MODULE MCAttribution -----------------------------
(***************************************************************************)
(* Small worlds for Attribution: one promoter's campaign, its code and its *)
(* prices.  A second publisher, where there is one, has a key of its own   *)
(* and no part in the campaign.                                            *)
(***************************************************************************)
EXTENDS Attribution, TLC

CONSTANTS c1, p1, o1, o2, q1

OneCampaign == {c1}
OnePartnership == {p1}
TwoPublishers == {o1, o2}
OneCode == {q1}
OneScan == {1}
TwoScans == {1, 2}

PartnershipOfAll == [c \in Campaigns |-> p1]
PublisherOfAll == [p \in Partnerships |-> o1]
AcquisitionMode == [c \in Campaigns |-> "acquisition"]
EngagementMode == [c \in Campaigns |-> "engagement"]
CampaignOfAll == [q \in Codes |-> c1]
CodeOfAll == [s \in Scans |-> q1]
UsedTwice == [q \in Codes |-> 2]

Card(coin, guest, engagement, bps) ==
    [coin |-> coin, guest |-> guest, engagement |-> engagement, bps |-> bps]

(* Half of the guest fee and of what is held back do not come out even. *)
Standard == Card(4, 1, 2, 5000)
Cheap == Card(1, 0, 1, 5000)
Dear == Card(6, 3, 3, 2500)

OneCard == {Standard}
ThreeCards == {Standard, Cheap, Dear}

NoAmounts == {}
Clawback == {-2}
TopUp == {2}

Symmetric == Permutations(Workers) \cup Permutations(Users)
===============================================================================
