---------------------------- MODULE LockOrderProofs ----------------------------
(***************************************************************************)
(* Theorems about LockOrder, for any number of connections, campaigns,     *)
(* codes, scans and publishers.                                            *)
(***************************************************************************)
EXTENDS LockOrder, FiniteSetTheorems, TLAPS

Signups == {"legacy_claim", "claim_install", "claim_code"}
Credits == {"fund", "webhook"}

(* What a request that has so many of its locks waits for, as a height above *)
(* those it may have to wait for.  Whoever pays waits for the budget, then  *)
(* for the publisher, then for the platform; a credit for the outside, then *)
(* for the budget.  0 waits for nobody: it is done, or the row is its own.  *)
Heights(op) ==
    CASE op = "first_open" -> <<5, 0>>
      [] op \in Signups -> <<5, 0, 0, 0, 2, 1, 0>>
      [] op = "confirm" -> <<5, 0, 2, 1, 0>>
      [] op = "scan" -> <<0, 0>>
      [] op = "fund" -> <<3, 0>>
      [] op = "webhook" -> <<6, 3, 0>>
      [] op = "adjust" -> <<4, 0, 0>>
      [] op = "request" -> <<0>>
      [] op = "pay" -> <<2, 0, 1, 0>>

Height(r, got) ==
    IF got = 0 THEN 8 ELSE IF r.op = "kill" THEN 7 ELSE Heights(r.op)[got]
-------------------------------------------------------------------------------
(* The locks of each request, one after the other. *)

LEMMA RequestIs ==
    ASSUME NEW r \in Requests
    PROVE  \/ r.op = "first_open" /\ r.on \in Scans
           \/ r.op \in Signups /\ r.on \in Scans
           \/ r.op = "confirm" /\ r.on \in Scans
           \/ r.op \in Credits \cup {"adjust", "kill"} /\ r.on \in Campaigns
           \/ r.op \in {"request", "pay"} /\ r.on \in Publishers
           \/ r.op = "scan" /\ r.on \in Codes
BY DEF Requests, OnScan, Matches, OnCampaign, OnPublisher, Signups, Credits

LEMMA CampaignOfScanIs == \A s \in Scans : CampaignOfScan(s) \in Campaigns
BY LockOrderAssumption DEF CampaignOfScan

LEMMA FirstOpenIs ==
    ASSUME NEW r \in Requests, r.op = "first_open"
    PROVE  /\ Len(Locks(r)) = 2
           /\ Locks(r)[1] = ForUpdate("scan", r.on)
           /\ Locks(r)[2] = Balance(CampaignOfScan(r.on))
BY DEF Locks, FirstOpen

LEMMA SignupIs ==
    ASSUME NEW r \in Requests, r.op \in Signups, NEW c, c = CampaignOfScan(r.on)
    PROVE  /\ Len(Locks(r)) = 7
           /\ r.op = "legacy_claim" => Locks(r)[1] = ForUpdate("scan", r.on)
           /\ r.op = "claim_install" => Locks(r)[1] = ForUpdate("install", r.on)
           /\ r.op = "claim_code" => Locks(r)[1] = ForUpdate("code", CodeOf[r.on])
           /\ Locks(r)[2] = Balance(c)
           /\ Locks(r)[3] = KeyShare("campaign", c)
           /\ Locks(r)[4] = KeyShare("scan", r.on)
           /\ Locks(r)[5] = Post(c)
           /\ Locks(r)[6] = Post(PublisherOf[c])
           /\ Locks(r)[7] = Post(Fees)
<1>1. CASE r.op = "legacy_claim"
  <2>1. Locks(r) = Signup("scan", r.on)
    BY <1>1 DEF Locks
  <2> QED  BY <1>1, <2>1 DEF Signup, Payout
<1>2. CASE r.op = "claim_install"
  <2>1. Locks(r) = Signup("install", r.on)
    BY <1>2 DEF Locks
  <2> QED  BY <1>2, <2>1 DEF Signup, Payout
<1>3. CASE r.op = "claim_code"
  <2>1. Locks(r) = Purchase(r.on)
    BY <1>3 DEF Locks
  <2> QED  BY <1>3, <2>1 DEF Purchase, Payout
<1> QED  BY <1>1, <1>2, <1>3 DEF Signups

LEMMA ConfirmIs ==
    ASSUME NEW r \in Requests, r.op = "confirm", NEW c, c = CampaignOfScan(r.on)
    PROVE  /\ Len(Locks(r)) = 5
           /\ Locks(r)[1] = ForUpdate("redemption", r.on)
           /\ Locks(r)[2] = Balance(c)
           /\ Locks(r)[3] = Post(c)
           /\ Locks(r)[4] = Post(PublisherOf[c])
           /\ Locks(r)[5] = Post(Fees)
BY DEF Locks, Confirm, Payout, Matches

LEMMA ScanIs ==
    ASSUME NEW r \in Requests, r.op = "scan"
    PROVE  /\ Len(Locks(r)) = 2
           /\ Locks(r)[1] = Write("code", r.on)
           /\ Locks(r)[2] = KeyShare("campaign", CampaignOf[r.on])
BY DEF Locks, Scan

LEMMA FundIs ==
    ASSUME NEW r \in Requests, r.op = "fund"
    PROVE  Len(Locks(r)) = 2 /\ Locks(r)[1] = Post(Funding) /\ Locks(r)[2] = Post(r.on)
BY DEF Locks, Fund

LEMMA WebhookIs ==
    ASSUME NEW r \in Requests, r.op = "webhook"
    PROVE  /\ Len(Locks(r)) = 3
           /\ Locks(r)[1] = Write("payment", r.on)
           /\ Locks(r)[2] = Post(Funding)
           /\ Locks(r)[3] = Post(r.on)
BY DEF Locks, Webhook

LEMMA AdjustIs ==
    ASSUME NEW r \in Requests, r.op = "adjust"
    PROVE  /\ Len(Locks(r)) = 3
           /\ Locks(r)[1] = Balance(r.on)
           /\ Locks(r)[2] = Post(Funding)
           /\ Locks(r)[3] = Post(r.on)
BY DEF Locks, Adjust

LEMMA AskIs ==
    ASSUME NEW r \in Requests, r.op = "request"
    PROVE  Len(Locks(r)) = 1 /\ Locks(r)[1] = Balance(r.on)
BY DEF Locks, AskForMoney

LEMMA PayIs ==
    ASSUME NEW r \in Requests, r.op = "pay"
    PROVE  /\ Len(Locks(r)) = 4
           /\ Locks(r)[1] = Write("withdrawal", r.on)
           /\ Locks(r)[2] = Balance(r.on)
           /\ Locks(r)[3] = Post(r.on)
           /\ Locks(r)[4] = Post(Payouts)
BY DEF Locks, PayMoney

(* The library's order of a finite set lists that set. *)
LEMMA CodesInOrder ==
    ASSUME NEW c \in Campaigns
    PROVE  SetToSeq(CodesOf(c)) \in [1 .. Cardinality(CodesOf(c)) -> CodesOf(c)]
           /\ Cardinality(CodesOf(c)) \in Nat
<1>1. IsFiniteSet(CodesOf(c))
  BY LockOrderAssumption, FS_Subset DEF CodesOf
<1>2. PICK n \in Nat : ExistsBijection(1 .. n, CodesOf(c))
  BY <1>1, FS_NatBijection
<1>3. Cardinality(CodesOf(c)) = n
  BY <1>2, FS_CountingElements
<1>4. \E f \in [1 .. n -> CodesOf(c)] : IsInjective(f)
  BY <1>2 DEF ExistsBijection, Bijection, Injection, IsInjective
<1> QED  BY <1>3, <1>4 DEF SetToSeq

LEMMA KillIs ==
    ASSUME NEW r \in Requests, r.op = "kill"
    PROVE  /\ Len(Locks(r)) \in Nat \ {0}
           /\ Locks(r)[1] = Write("campaign", r.on)
           /\ \A i \in 2 .. Len(Locks(r)) :
                \E q \in Codes : Locks(r)[i] = Write("code", q) /\ CampaignOf[q] = r.on
<1>1. r.on \in Campaigns
  BY RequestIs DEF Signups, Credits
<1>2. PICK n \in Nat : n = Cardinality(CodesOf(r.on))
  BY <1>1, CodesInOrder
<1> DEFINE codes == SetToSeq(CodesOf(r.on))
<1>10. codes \in [1 .. n -> CodesOf(r.on)]
  BY <1>1, <1>2, CodesInOrder
<1>11. Kill(r.on) = <<Write("campaign", r.on)>> \o [i \in DOMAIN codes |-> Write("code", codes[i])]
  BY DEF Kill
<1> HIDE DEF codes
<1>3. DOMAIN codes = 1 .. n
  BY <1>10
<1> DEFINE writes == [i \in 1 .. n |-> Write("code", codes[i])]
<1>4. Locks(r) = <<Write("campaign", r.on)>> \o writes
  <2>1. Locks(r) = Kill(r.on)
    BY DEF Locks
  <2> QED  BY <1>3, <1>11, <2>1
<1>5. writes \in Seq({Write("code", q) : q \in CodesOf(r.on)}) /\ Len(writes) = n
  BY <1>2, <1>10
<1>6. \A i \in 1 .. n : writes[i] = Write("code", codes[i]) /\ codes[i] \in CodesOf(r.on)
  BY <1>10
<1> HIDE DEF writes
<1>7. Len(Locks(r)) = n + 1
  BY <1>4, <1>5
<1>8. Locks(r)[1] = Write("campaign", r.on)
  BY <1>4, <1>5
<1>9. \A i \in 2 .. n + 1 : Locks(r)[i] = writes[i - 1]
  BY <1>4, <1>5
<1> QED  BY <1>6, <1>7, <1>8, <1>9 DEF CodesOf
-------------------------------------------------------------------------------
(* Whoever holds a row is nearer its end than whoever may wait for it.       *)

Of(lock, kind, id) == lock.row[1] = kind /\ lock.row[2] = id

(* A request that has so many locks, this one among them. *)
HolderOK(r, got, lock) ==
    /\ Of(lock, "balance", Fees) \/ Of(lock, "balance", Payouts) => Height(r, got) = 0
    /\ \A o \in Publishers : Of(lock, "balance", o) => Height(r, got) \in 0 .. 1
    /\ Of(lock, "balance", Funding) => Height(r, got) \in 0 .. 3
    /\ \A c \in Campaigns : Of(lock, "balance", c) =>
            \/ Height(r, got) \in 0 .. 2
            \/ r.op = "adjust" /\ r.on = c /\ got = 1
    /\ \A q \in Codes : Of(lock, "code", q) =>
            \/ Height(r, got) \in 0 .. 5
            \/ r.op = "kill" /\ CampaignOf[q] = r.on
    /\ lock.row[1] = "campaign" => lock.mode # "update"
    /\ \A s \in Scans : Of(lock, "scan", s) /\ lock.mode = "update" =>
            r.op \in Matches /\ r.on = s

(* A request that has so many locks, and this one next. *)
WaiterOK(r, got, lock) ==
    \/ /\ Height(r, got) = 1
       /\ Of(lock, "balance", Fees) \/ Of(lock, "balance", Payouts)
    \/ Height(r, got) = 2 /\ \E o \in Publishers : Of(lock, "balance", o)
    \/ /\ Height(r, got) = 3 /\ r.op \in Credits
       /\ r.on \in Campaigns /\ Of(lock, "balance", r.on)
       /\ \E i \in 1 .. got : Locks(r)[i] = Post(Funding)
    \/ Height(r, got) \in {4, 6} /\ Of(lock, "balance", Funding)
    \/ Height(r, got) = 5 /\ \E c \in Campaigns : Of(lock, "balance", c)
    \/ /\ Height(r, got) = 7 /\ r.op = "kill"
       /\ \E q \in Codes : Of(lock, "code", q) /\ CampaignOf[q] = r.on
    \/ lock.row[1] = "campaign" /\ lock.mode = "key_share"
    \/ r.op \in {"claim_code", "claim_install"} /\ got = 3 /\ lock = KeyShare("scan", r.on)
    \/ \E i \in 1 .. got : Locks(r)[i].row = lock.row /\ Locks(r)[i].mode = "update"

PositionOK(r) ==
    /\ Len(Locks(r)) \in Nat \ {0}
    /\ \A got \in 1 .. Len(Locks(r)) :
        /\ Height(r, got) \in 0 .. 7
        /\ \A i \in 1 .. got : HolderOK(r, got, Locks(r)[i])
        /\ got < Len(Locks(r)) => WaiterOK(r, got, Locks(r)[got + 1])

LEMMA Accounts ==
    /\ \A c \in Campaigns : c \notin Publishers /\ c # Funding /\ c # Payouts /\ c # Fees
    /\ \A o \in Publishers : o # Funding /\ o # Payouts /\ o # Fees
    /\ Funding # Payouts /\ Funding # Fees /\ Payouts # Fees
BY LockOrderAssumption DEF Funding, Payouts, Fees

(* What the locks are of, and how. *)
LEMMA ForUpdateIs ==
    ASSUME NEW lock, NEW kind, NEW id, lock = ForUpdate(kind, id)
    PROVE  /\ Of(lock, kind, id) /\ lock.mode = "update"
           /\ lock.row = <<kind, id>> /\ lock.row[1] = kind
BY DEF Of, ForUpdate

LEMMA WriteIs ==
    ASSUME NEW lock, NEW kind, NEW id, lock = Write(kind, id)
    PROVE  /\ Of(lock, kind, id) /\ lock.mode = "no_key_update"
           /\ lock.row = <<kind, id>> /\ lock.row[1] = kind
BY DEF Of, Write

LEMMA KeyShareIs ==
    ASSUME NEW lock, NEW kind, NEW id, lock = KeyShare(kind, id)
    PROVE  /\ Of(lock, kind, id) /\ lock.mode = "key_share"
           /\ lock.row = <<kind, id>> /\ lock.row[1] = kind
BY DEF Of, KeyShare

LEMMA BalanceIs ==
    ASSUME NEW lock, NEW account, lock = Balance(account)
    PROVE  /\ Of(lock, "balance", account) /\ lock.mode = "update"
           /\ lock.row = <<"balance", account>>
BY ForUpdateIs DEF Balance

LEMMA PostIs ==
    ASSUME NEW lock, NEW account, lock = Post(account)
    PROVE  /\ Of(lock, "balance", account) /\ lock.mode = "no_key_update"
           /\ lock.row = <<"balance", account>>
BY WriteIs DEF Post

(* A lock that nobody of another request ever asks for. *)
LEMMA HoldsOther ==
    ASSUME NEW r, NEW got, NEW lock, NEW kind, NEW id, Of(lock, kind, id),
           \/ kind \in {"install", "redemption", "payment", "withdrawal"}
           \/ kind = "campaign" /\ lock.mode # "update"
           \/ kind = "scan" /\ lock.mode # "update"
           \/ kind = "scan" /\ r.op \in Matches /\ id = r.on
    PROVE  HolderOK(r, got, lock)
BY DEF HolderOK, Of

LEMMA HoldsCode ==
    ASSUME NEW r, NEW got, NEW lock, NEW q, Of(lock, "code", q),
           Height(r, got) \in 0 .. 5 \/ (r.op = "kill" /\ CampaignOf[q] = r.on)
    PROVE  HolderOK(r, got, lock)
BY DEF HolderOK, Of

LEMMA HoldsBudget ==
    ASSUME NEW r, NEW got, NEW lock, NEW c \in Campaigns, Of(lock, "balance", c),
           Height(r, got) \in 0 .. 2 \/ (r.op = "adjust" /\ r.on = c /\ got = 1)
    PROVE  HolderOK(r, got, lock)
BY Accounts DEF HolderOK, Of

LEMMA HoldsPurse ==
    ASSUME NEW r, NEW got, NEW lock, NEW o \in Publishers, Of(lock, "balance", o),
           Height(r, got) \in 0 .. 1
    PROVE  HolderOK(r, got, lock)
BY Accounts DEF HolderOK, Of

LEMMA HoldsFunding ==
    ASSUME NEW r, NEW got, NEW lock, Of(lock, "balance", Funding), Height(r, got) \in 0 .. 3
    PROVE  HolderOK(r, got, lock)
BY Accounts DEF HolderOK, Of

LEMMA HoldsLast ==
    ASSUME NEW r, NEW got, NEW lock, Of(lock, "balance", Fees) \/ Of(lock, "balance", Payouts),
           Height(r, got) = 0
    PROVE  HolderOK(r, got, lock)
BY Accounts DEF HolderOK, Of

(* Who waits for what: the locks of a request that others may hold. *)
LEMMA WaitsBudget ==
    ASSUME NEW r, NEW got, NEW lock, NEW c \in Campaigns, Of(lock, "balance", c),
           Height(r, got) = 5
    PROVE  WaiterOK(r, got, lock)
BY DEF WaiterOK

LEMMA WaitsPurse ==
    ASSUME NEW r, NEW got, NEW lock, NEW o \in Publishers, Of(lock, "balance", o),
           Height(r, got) = 2
    PROVE  WaiterOK(r, got, lock)
BY DEF WaiterOK

LEMMA WaitsLast ==
    ASSUME NEW r, NEW got, NEW lock, Of(lock, "balance", Fees) \/ Of(lock, "balance", Payouts),
           Height(r, got) = 1
    PROVE  WaiterOK(r, got, lock)
BY DEF WaiterOK

LEMMA WaitsFunding ==
    ASSUME NEW r, NEW got, NEW lock, Of(lock, "balance", Funding), Height(r, got) \in {4, 6}
    PROVE  WaiterOK(r, got, lock)
BY DEF WaiterOK

LEMMA WaitsCredit ==
    ASSUME NEW r, NEW got, NEW lock, r.op \in Credits, r.on \in Campaigns,
           Of(lock, "balance", r.on), Height(r, got) = 3,
           NEW i \in 1 .. got, Locks(r)[i] = Post(Funding)
    PROVE  WaiterOK(r, got, lock)
BY DEF WaiterOK

LEMMA WaitsCampaign ==
    ASSUME NEW r, NEW got, NEW lock, NEW c, lock = KeyShare("campaign", c)
    PROVE  WaiterOK(r, got, lock)
<1>1. lock.row[1] = "campaign" /\ lock.mode = "key_share"
  BY KeyShareIs
<1> QED  BY <1>1 DEF WaiterOK

(* A row of its own. *)
LEMMA WaitsAgain ==
    ASSUME NEW r, NEW got, NEW lock, NEW i \in 1 .. got,
           Locks(r)[i].row = lock.row, Locks(r)[i].mode = "update"
    PROVE  WaiterOK(r, got, lock)
BY DEF WaiterOK

LEMMA FirstOpenPositions ==
    ASSUME NEW r \in Requests, r.op = "first_open" PROVE PositionOK(r)
<1>1. PICK c \in Campaigns : c = CampaignOfScan(r.on)
  BY RequestIs, CampaignOfScanIs DEF Signups, Credits
<1>2. Height(r, 1) = 5 /\ Height(r, 2) = 0
  BY DEF Height, Heights
<1> DEFINE at(i) == Locks(r)[i]
<1>3. Len(Locks(r)) = 2 /\ at(1) = ForUpdate("scan", r.on) /\ at(2) = Balance(c)
  BY <1>1, FirstOpenIs
<1> HIDE DEF at
<1>4. \A got \in 1 .. 2 : HolderOK(r, got, at(1))
  BY <1>3, ForUpdateIs, BalanceIs, HoldsOther DEF Matches
<1>of. Of(at(2), "balance", c)
  BY <1>3, ForUpdateIs, BalanceIs
<1>5. HolderOK(r, 2, at(2))
  BY <1>2, <1>of, HoldsBudget
<1>6. WaiterOK(r, 1, at(2))
  BY <1>2, <1>of, WaitsBudget
<1>7. \A got \in 1 .. 2 : got \in {1, 2}
  OBVIOUS
<1>8. \A got \in 1 .. 2 : \A i \in 1 .. got : HolderOK(r, got, at(i))
  BY <1>4, <1>5, <1>7
<1> QED  BY <1>2, <1>3, <1>6, <1>7, <1>8 DEF PositionOK, at

LEMMA SignupPositions ==
    ASSUME NEW r \in Requests, r.op \in Signups PROVE PositionOK(r)
<1>1. PICK c \in Campaigns : c = CampaignOfScan(r.on)
  BY RequestIs, CampaignOfScanIs DEF Signups, Credits
<1>2. /\ Height(r, 1) = 5 /\ Height(r, 2) = 0 /\ Height(r, 3) = 0 /\ Height(r, 4) = 0
      /\ Height(r, 5) = 2 /\ Height(r, 6) = 1 /\ Height(r, 7) = 0
  <2>1. Heights(r.op) = <<5, 0, 0, 0, 2, 1, 0>> /\ r.op # "kill"
    BY DEF Heights, Signups
  <2> QED  BY <2>1 DEF Height
<1>3. PublisherOf[c] \in Publishers
  BY LockOrderAssumption
<1>4. \A got \in 1 .. 7 : got \in {1, 2, 3, 4, 5, 6, 7}
  OBVIOUS
<1> DEFINE at(i) == Locks(r)[i]
<1>5. /\ Len(Locks(r)) = 7
      /\ \/ r.op = "legacy_claim" /\ at(1) = ForUpdate("scan", r.on)
         \/ r.op = "claim_install" /\ at(1) = ForUpdate("install", r.on)
         \/ r.op = "claim_code" /\ at(1) = ForUpdate("code", CodeOf[r.on])
      /\ at(2) = Balance(c) /\ at(3) = KeyShare("campaign", c) /\ at(4) = KeyShare("scan", r.on)
      /\ at(5) = Post(c) /\ at(6) = Post(PublisherOf[c]) /\ at(7) = Post(Fees)
  BY <1>1, SignupIs DEF Signups
<1> HIDE DEF at
<1>of. /\ Of(at(2), "balance", c) /\ Of(at(5), "balance", c)
       /\ Of(at(6), "balance", PublisherOf[c]) /\ Of(at(7), "balance", Fees)
       /\ at(2).row = at(5).row /\ at(2).mode = "update"
  BY <1>5, ForUpdateIs, KeyShareIs, BalanceIs, PostIs
<1>6. \A got \in 1 .. 7 : HolderOK(r, got, at(1))
  <2>1. \A got \in 1 .. 7 : Height(r, got) \in 0 .. 5
    BY <1>2, <1>4
  <2>2. CASE r.op = "legacy_claim" /\ at(1) = ForUpdate("scan", r.on)
    BY <2>2, ForUpdateIs, KeyShareIs, BalanceIs, PostIs, HoldsOther DEF Matches
  <2>3. CASE at(1) = ForUpdate("install", r.on)
    BY <2>3, ForUpdateIs, KeyShareIs, BalanceIs, PostIs, HoldsOther
  <2>4. CASE at(1) = ForUpdate("code", CodeOf[r.on])
    BY <2>1, <2>4, ForUpdateIs, KeyShareIs, BalanceIs, PostIs, HoldsCode
  <2> QED  BY <1>5, <2>2, <2>3, <2>4
<1>7. \A got \in 2 .. 7 : Height(r, got) \in 0 .. 2
  BY <1>2, <1>4
<1>8. \A got \in 2 .. 7 : HolderOK(r, got, at(2)) /\ HolderOK(r, got, at(5))
  BY <1>7, <1>of, HoldsBudget
<1>9. \A got \in 1 .. 7 : HolderOK(r, got, at(3)) /\ HolderOK(r, got, at(4))
  BY <1>5, ForUpdateIs, KeyShareIs, BalanceIs, PostIs, HoldsOther
<1>10. HolderOK(r, 6, at(6)) /\ HolderOK(r, 7, at(6))
  <2>1. Height(r, 6) \in 0 .. 1 /\ Height(r, 7) \in 0 .. 1
    BY <1>2
  <2> QED  BY <1>3, <1>of, <2>1, HoldsPurse
<1>11. HolderOK(r, 7, at(7))
  BY <1>2, <1>of, HoldsLast
<1>12. \A got \in 1 .. 7 : \A i \in 1 .. got : HolderOK(r, got, at(i))
  BY <1>4, <1>6, <1>8, <1>9, <1>10, <1>11
<1>13. WaiterOK(r, 1, at(2)) /\ WaiterOK(r, 5, at(6)) /\ WaiterOK(r, 6, at(7))
  BY <1>2, <1>3, <1>of, WaitsBudget, WaitsPurse, WaitsLast
<1>14. WaiterOK(r, 2, at(3))
  BY <1>5, WaitsCampaign
<1>15. WaiterOK(r, 3, at(4))
  <2>1. CASE r.op = "legacy_claim" /\ at(1) = ForUpdate("scan", r.on)
    <3>1. at(1).row = at(4).row /\ at(1).mode = "update"
      BY <1>5, <2>1, ForUpdateIs, KeyShareIs, BalanceIs, PostIs
    <3> QED  BY <3>1, WaitsAgain DEF at
  <2>2. CASE r.op \in {"claim_code", "claim_install"}
    BY <1>5, <2>2 DEF WaiterOK
  <2> QED  BY <1>5, <2>1, <2>2
<1>16. WaiterOK(r, 4, at(5))
  BY <1>of, WaitsAgain DEF at
<1>17. \A got \in 1 .. 6 : WaiterOK(r, got, at(got + 1))
  BY <1>13, <1>14, <1>15, <1>16
<1>18. \A got \in 1 .. 7 : Height(r, got) \in 0 .. 7
  BY <1>2, <1>4
<1> QED  BY <1>5, <1>12, <1>17, <1>18 DEF PositionOK, at

LEMMA ConfirmPositions ==
    ASSUME NEW r \in Requests, r.op = "confirm" PROVE PositionOK(r)
<1>1. PICK c \in Campaigns : c = CampaignOfScan(r.on)
  BY RequestIs, CampaignOfScanIs DEF Signups, Credits
<1>2. /\ Height(r, 1) = 5 /\ Height(r, 2) = 0 /\ Height(r, 3) = 2
      /\ Height(r, 4) = 1 /\ Height(r, 5) = 0
  <2>1. Heights(r.op) = <<5, 0, 2, 1, 0>> /\ r.op # "kill"
    BY DEF Heights, Signups
  <2> QED  BY <2>1 DEF Height
<1>3. PublisherOf[c] \in Publishers
  BY LockOrderAssumption
<1>4. \A got \in 1 .. 5 : got \in {1, 2, 3, 4, 5}
  OBVIOUS
<1> DEFINE at(i) == Locks(r)[i]
<1>5. /\ Len(Locks(r)) = 5
      /\ at(1) = ForUpdate("redemption", r.on) /\ at(2) = Balance(c)
      /\ at(3) = Post(c) /\ at(4) = Post(PublisherOf[c]) /\ at(5) = Post(Fees)
  BY <1>1, ConfirmIs
<1> HIDE DEF at
<1>of. /\ Of(at(2), "balance", c) /\ Of(at(3), "balance", c)
       /\ Of(at(4), "balance", PublisherOf[c]) /\ Of(at(5), "balance", Fees)
       /\ at(2).row = at(3).row /\ at(2).mode = "update"
  BY <1>5, ForUpdateIs, BalanceIs, PostIs
<1>6. \A got \in 1 .. 5 : HolderOK(r, got, at(1))
  BY <1>5, ForUpdateIs, BalanceIs, PostIs, HoldsOther
<1>7. \A got \in 2 .. 5 : Height(r, got) \in 0 .. 2
  BY <1>2, <1>4
<1>8. \A got \in 2 .. 5 : HolderOK(r, got, at(2)) /\ HolderOK(r, got, at(3))
  BY <1>7, <1>of, HoldsBudget
<1>9. HolderOK(r, 4, at(4)) /\ HolderOK(r, 5, at(4))
  <2>1. Height(r, 4) \in 0 .. 1 /\ Height(r, 5) \in 0 .. 1
    BY <1>2
  <2> QED  BY <1>3, <1>of, <2>1, HoldsPurse
<1>10. HolderOK(r, 5, at(5))
  BY <1>2, <1>of, HoldsLast
<1>11. \A got \in 1 .. 5 : \A i \in 1 .. got : HolderOK(r, got, at(i))
  BY <1>4, <1>6, <1>8, <1>9, <1>10
<1>12. WaiterOK(r, 1, at(2)) /\ WaiterOK(r, 3, at(4)) /\ WaiterOK(r, 4, at(5))
  BY <1>2, <1>3, <1>of, WaitsBudget, WaitsPurse, WaitsLast
<1>13. WaiterOK(r, 2, at(3))
  BY <1>of, WaitsAgain DEF at
<1>14. \A got \in 1 .. 4 : WaiterOK(r, got, at(got + 1))
  BY <1>12, <1>13
<1>15. \A got \in 1 .. 5 : Height(r, got) \in 0 .. 7
  BY <1>2, <1>4
<1> QED  BY <1>5, <1>11, <1>14, <1>15 DEF PositionOK, at

LEMMA ScanPositions ==
    ASSUME NEW r \in Requests, r.op = "scan" PROVE PositionOK(r)
<1>1. Height(r, 1) = 0 /\ Height(r, 2) = 0
  <2>1. Heights(r.op) = <<0, 0>> /\ r.op # "kill"
    BY DEF Heights, Signups
  <2> QED  BY <2>1 DEF Height
<1>2. \A got \in 1 .. 2 : got \in {1, 2}
  OBVIOUS
<1> DEFINE at(i) == Locks(r)[i]
<1>3. /\ Len(Locks(r)) = 2
      /\ at(1) = Write("code", r.on) /\ at(2) = KeyShare("campaign", CampaignOf[r.on])
  BY ScanIs
<1> HIDE DEF at
<1>4. HolderOK(r, 1, at(1)) /\ HolderOK(r, 2, at(1))
  <2>1. Of(at(1), "code", r.on)
    BY <1>3, WriteIs, KeyShareIs
  <2>2. Height(r, 1) \in 0 .. 5 /\ Height(r, 2) \in 0 .. 5
    BY <1>1
  <2> QED  BY <2>1, <2>2, HoldsCode
<1>5. HolderOK(r, 2, at(2))
  BY <1>3, WriteIs, KeyShareIs, HoldsOther
<1>6. WaiterOK(r, 1, at(2))
  BY <1>3, WaitsCampaign
<1>7. \A got \in 1 .. 2 : \A i \in 1 .. got : HolderOK(r, got, at(i))
  BY <1>2, <1>4, <1>5
<1> QED  BY <1>1, <1>2, <1>3, <1>6, <1>7 DEF PositionOK, at

LEMMA FundPositions ==
    ASSUME NEW r \in Requests, r.op = "fund" PROVE PositionOK(r)
<1>1. Height(r, 1) = 3 /\ Height(r, 2) = 0
  <2>1. Heights(r.op) = <<3, 0>> /\ r.op # "kill"
    BY DEF Heights, Signups
  <2> QED  BY <2>1 DEF Height
<1>2. \A got \in 1 .. 2 : got \in {1, 2}
  OBVIOUS
<1>3. r.on \in Campaigns
  BY RequestIs DEF Signups, Credits
<1> DEFINE at(i) == Locks(r)[i]
<1>4. Len(Locks(r)) = 2 /\ at(1) = Post(Funding) /\ at(2) = Post(r.on)
  BY FundIs
<1> HIDE DEF at
<1>of. Of(at(1), "balance", Funding) /\ Of(at(2), "balance", r.on)
  BY <1>4, PostIs
<1>5. HolderOK(r, 1, at(1)) /\ HolderOK(r, 2, at(1))
  BY <1>1, <1>of, HoldsFunding
<1>6. HolderOK(r, 2, at(2))
  BY <1>1, <1>3, <1>of, HoldsBudget
<1>7. WaiterOK(r, 1, at(2))
  <2>1. Locks(r)[1] = Post(Funding) /\ r.op \in Credits
    BY <1>4 DEF at, Credits
  <2> QED  BY <1>1, <1>3, <1>of, <2>1, WaitsCredit
<1>8. \A got \in 1 .. 2 : \A i \in 1 .. got : HolderOK(r, got, at(i))
  BY <1>2, <1>5, <1>6
<1> QED  BY <1>1, <1>2, <1>4, <1>7, <1>8 DEF PositionOK, at

LEMMA WebhookPositions ==
    ASSUME NEW r \in Requests, r.op = "webhook" PROVE PositionOK(r)
<1>1. Height(r, 1) = 6 /\ Height(r, 2) = 3 /\ Height(r, 3) = 0
  <2>1. Heights(r.op) = <<6, 3, 0>> /\ r.op # "kill"
    BY DEF Heights, Signups
  <2> QED  BY <2>1 DEF Height
<1>2. \A got \in 1 .. 3 : got \in {1, 2, 3}
  OBVIOUS
<1>3. r.on \in Campaigns
  BY RequestIs DEF Signups, Credits
<1> DEFINE at(i) == Locks(r)[i]
<1>4. /\ Len(Locks(r)) = 3
      /\ at(1) = Write("payment", r.on) /\ at(2) = Post(Funding) /\ at(3) = Post(r.on)
  BY WebhookIs
<1> HIDE DEF at
<1>of. Of(at(2), "balance", Funding) /\ Of(at(3), "balance", r.on)
  BY <1>4, WriteIs, PostIs
<1>5. \A got \in 1 .. 3 : HolderOK(r, got, at(1))
  BY <1>4, WriteIs, PostIs, HoldsOther
<1>6. HolderOK(r, 2, at(2)) /\ HolderOK(r, 3, at(2))
  BY <1>1, <1>of, HoldsFunding
<1>7. HolderOK(r, 3, at(3))
  BY <1>1, <1>3, <1>of, HoldsBudget
<1>8. WaiterOK(r, 1, at(2))
  BY <1>1, <1>of, WaitsFunding
<1>9. WaiterOK(r, 2, at(3))
  <2>1. Locks(r)[2] = Post(Funding) /\ r.op \in Credits
    BY <1>4 DEF at, Credits
  <2> QED  BY <1>1, <1>3, <1>of, <2>1, WaitsCredit
<1>10. \A got \in 1 .. 3 : \A i \in 1 .. got : HolderOK(r, got, at(i))
  BY <1>2, <1>5, <1>6, <1>7
<1> QED  BY <1>1, <1>2, <1>4, <1>8, <1>9, <1>10 DEF PositionOK, at

LEMMA AdjustPositions ==
    ASSUME NEW r \in Requests, r.op = "adjust" PROVE PositionOK(r)
<1>1. Height(r, 1) = 4 /\ Height(r, 2) = 0 /\ Height(r, 3) = 0
  <2>1. Heights(r.op) = <<4, 0, 0>> /\ r.op # "kill"
    BY DEF Heights, Signups
  <2> QED  BY <2>1 DEF Height
<1>2. \A got \in 1 .. 3 : got \in {1, 2, 3}
  OBVIOUS
<1>3. r.on \in Campaigns
  BY RequestIs DEF Signups, Credits
<1> DEFINE at(i) == Locks(r)[i]
<1>4. /\ Len(Locks(r)) = 3
      /\ at(1) = Balance(r.on) /\ at(2) = Post(Funding) /\ at(3) = Post(r.on)
  BY AdjustIs
<1> HIDE DEF at
<1>of. /\ Of(at(1), "balance", r.on) /\ Of(at(2), "balance", Funding)
       /\ Of(at(3), "balance", r.on)
       /\ at(1).row = at(3).row /\ at(1).mode = "update"
  BY <1>4, BalanceIs, PostIs
<1>5. HolderOK(r, 1, at(1)) /\ HolderOK(r, 2, at(1)) /\ HolderOK(r, 3, at(1))
  BY <1>1, <1>3, <1>of, HoldsBudget
<1>6. HolderOK(r, 2, at(2)) /\ HolderOK(r, 3, at(2))
  BY <1>1, <1>of, HoldsFunding
<1>7. HolderOK(r, 3, at(3))
  BY <1>1, <1>3, <1>of, HoldsBudget
<1>8. WaiterOK(r, 1, at(2))
  BY <1>1, <1>of, WaitsFunding
<1>9. WaiterOK(r, 2, at(3))
  BY <1>of, WaitsAgain DEF at
<1>10. \A got \in 1 .. 3 : \A i \in 1 .. got : HolderOK(r, got, at(i))
  BY <1>2, <1>5, <1>6, <1>7
<1> QED  BY <1>1, <1>2, <1>4, <1>8, <1>9, <1>10 DEF PositionOK, at

LEMMA AskPositions ==
    ASSUME NEW r \in Requests, r.op = "request" PROVE PositionOK(r)
<1>1. Height(r, 1) = 0
  <2>1. Heights(r.op) = <<0>> /\ r.op # "kill"
    BY DEF Heights, Signups
  <2> QED  BY <2>1 DEF Height
<1>2. r.on \in Publishers
  BY RequestIs DEF Signups, Credits
<1>of. Of(Locks(r)[1], "balance", r.on)
  BY AskIs, BalanceIs
<1>3. HolderOK(r, 1, Locks(r)[1])
  BY <1>1, <1>2, <1>of, HoldsPurse
<1>4. \A got \in 1 .. 1 : got = 1
  OBVIOUS
<1>5. Len(Locks(r)) = 1
  BY AskIs
<1> QED  BY <1>1, <1>3, <1>4, <1>5 DEF PositionOK

LEMMA PayPositions ==
    ASSUME NEW r \in Requests, r.op = "pay" PROVE PositionOK(r)
<1>1. Height(r, 1) = 2 /\ Height(r, 2) = 0 /\ Height(r, 3) = 1 /\ Height(r, 4) = 0
  <2>1. Heights(r.op) = <<2, 0, 1, 0>> /\ r.op # "kill"
    BY DEF Heights, Signups
  <2> QED  BY <2>1 DEF Height
<1>2. \A got \in 1 .. 4 : got \in {1, 2, 3, 4}
  OBVIOUS
<1>3. r.on \in Publishers
  BY RequestIs DEF Signups, Credits
<1> DEFINE at(i) == Locks(r)[i]
<1>4. /\ Len(Locks(r)) = 4
      /\ at(1) = Write("withdrawal", r.on) /\ at(2) = Balance(r.on)
      /\ at(3) = Post(r.on) /\ at(4) = Post(Payouts)
  BY PayIs
<1> HIDE DEF at
<1>of. /\ Of(at(2), "balance", r.on) /\ Of(at(3), "balance", r.on)
       /\ Of(at(4), "balance", Payouts)
       /\ at(2).row = at(3).row /\ at(2).mode = "update"
  BY <1>4, WriteIs, BalanceIs, PostIs
<1>5. \A got \in 1 .. 4 : HolderOK(r, got, at(1))
  BY <1>4, WriteIs, BalanceIs, PostIs, HoldsOther
<1>6. \A got \in 2 .. 4 : Height(r, got) \in 0 .. 1
  BY <1>1, <1>2
<1>7. \A got \in 2 .. 4 : HolderOK(r, got, at(2)) /\ HolderOK(r, got, at(3))
  BY <1>3, <1>6, <1>of, HoldsPurse
<1>8. HolderOK(r, 4, at(4))
  BY <1>1, <1>of, HoldsLast
<1>9. WaiterOK(r, 1, at(2)) /\ WaiterOK(r, 3, at(4))
  BY <1>1, <1>3, <1>of, WaitsPurse, WaitsLast
<1>10. WaiterOK(r, 2, at(3))
  BY <1>of, WaitsAgain DEF at
<1>11. \A got \in 1 .. 4 : \A i \in 1 .. got : HolderOK(r, got, at(i))
  BY <1>2, <1>5, <1>7, <1>8
<1> QED  BY <1>1, <1>2, <1>4, <1>9, <1>10, <1>11 DEF PositionOK, at

LEMMA KillPositions ==
    ASSUME NEW r \in Requests, r.op = "kill" PROVE PositionOK(r)
<1>1. \A got \in Nat \ {0} : Height(r, got) = 7
  BY DEF Height
<1>2. PICK n \in Nat \ {0} : n = Len(Locks(r))
  BY KillIs
<1> DEFINE at(i) == Locks(r)[i]
<1>3. at(1) = Write("campaign", r.on)
  BY KillIs
<1>4. \A i \in 2 .. n : \E q \in Codes : at(i) = Write("code", q) /\ CampaignOf[q] = r.on
  BY <1>2, KillIs
<1> HIDE DEF at
<1>5. \A got \in 1 .. n : HolderOK(r, got, at(1))
  BY <1>3, WriteIs, HoldsOther
<1>6. ASSUME NEW got \in 1 .. n, NEW i \in 2 .. n PROVE HolderOK(r, got, at(i))
  BY <1>4, WriteIs, HoldsCode
<1>7. ASSUME NEW got \in 1 .. n, got < n PROVE WaiterOK(r, got, at(got + 1))
  <2>1. PICK q \in Codes : at(got + 1) = Write("code", q) /\ CampaignOf[q] = r.on
    BY <1>4, <1>7
  <2>2. Of(at(got + 1), "code", q)
    BY <2>1, WriteIs
  <2>3. Height(r, got) = 7
    BY <1>1
  <2> QED  BY <2>1, <2>2, <2>3 DEF WaiterOK
<1>8. \A got \in 1 .. n : \A i \in 1 .. got : i = 1 \/ i \in 2 .. n
  OBVIOUS
<1>9. \A got \in 1 .. n : \A i \in 1 .. got : HolderOK(r, got, at(i))
  BY <1>5, <1>6, <1>8
<1> QED  BY <1>1, <1>2, <1>7, <1>9 DEF PositionOK, at

LEMMA Positions ==
    ASSUME NEW r \in Requests PROVE PositionOK(r)
BY RequestIs, FirstOpenPositions, SignupPositions, ConfirmPositions, ScanPositions, FundPositions,
   WebhookPositions, AdjustPositions, AskPositions, PayPositions, KillPositions DEF Credits
-------------------------------------------------------------------------------
(* The invariant. *)

(* A connection is idle or in the middle of a request. *)
Slots ==
    /\ DOMAIN tx = Workers
    /\ \A w \in Workers :
        tx[w] = Idle \/ tx[w] \in [op : {"open"}, request : Requests, got : Nat]

(* A match has its scan's row from the start, and the scan stays as it was   *)
(* found: what would consume it waits behind the row.                       *)
MatchesHold == \A w \in Workers :
    Busy(w) /\ tx[w].request.op \in Matches =>
        tx[w].got # 0 /\ scan[tx[w].request.on] = "open"

(* An install is of a scan that is bound, and a scan is never unbound. *)
InstallsBound == \A w \in Workers :
    Busy(w) /\ tx[w].request.op = "claim_install" => scan[tx[w].request.on] # "open"

Inv == TypeOK /\ Slots /\ MatchesHold /\ InstallsBound

Excludes == \A w, v \in Workers : w # v => \A a \in Held(w), b \in Held(v) : ~Conflict(a, b)

LEMMA ConflictSymmetric == \A a, b : Conflict(a, b) => Conflict(b, a)
BY DEF Conflict

LEMMA LengthIs == \A r \in Requests : Len(Locks(r)) \in Nat \ {0}
BY Positions DEF PositionOK

LEMMA BusyIs ==
    ASSUME Slots, TypeOK, NEW w \in Workers, Busy(w)
    PROVE  /\ tx[w] = [op |-> "open", request |-> tx[w].request, got |-> tx[w].got]
           /\ tx[w].request \in Requests
           /\ tx[w].got \in 0 .. Len(Locks(tx[w].request))
           /\ Len(Locks(tx[w].request)) \in Nat \ {0}
BY LengthIs DEF Slots, TypeOK, Busy

(* One connection's slot changes, to something that excludes nobody. *)
LEMMA SlotStep ==
    ASSUME TypeOK, Slots, NEW w \in Workers, NEW r \in Requests, NEW got \in 0 .. Len(Locks(r)),
           \/ tx' = [tx EXCEPT ![w] = Idle]
           \/ /\ tx' = [tx EXCEPT ![w] = [op |-> "open", request |-> r, got |-> got]]
              /\ \A i \in 1 .. got : \A v \in Workers \ {w} : \A lock \in Held(v) :
                    ~Conflict(Locks(r)[i], lock),
           scan' \in [Scans -> {"open", "bound", "rewarded"}]
    PROVE  TypeOK' /\ Slots'
<1>1. DOMAIN tx' = Workers /\ \A v \in Workers \ {w} : tx'[v] = tx[v]
  BY DEF Slots
<1>2. ASSUME NEW v \in Workers \ {w} PROVE Held(v)' = Held(v)
  <2>1. tx'[v] = tx[v]
    BY <1>1
  <2> QED  BY <2>1 DEF Held, Busy
<1>3. CASE tx' = [tx EXCEPT ![w] = Idle]
  <2>1. tx'[w] = Idle
    BY <1>3 DEF Slots
  <2>2. Held(w)' = {}
    BY <2>1 DEF Held, Busy
  <2>3. Slots'
    BY <1>1, <2>1 DEF Slots
  <2>4. Excludes'
    BY <1>2, <2>2 DEF TypeOK, Excludes
  <2> QED  BY <1>1, <2>1, <2>3, <2>4 DEF TypeOK, Excludes, Busy
<1>4. CASE /\ tx' = [tx EXCEPT ![w] = [op |-> "open", request |-> r, got |-> got]]
           /\ \A i \in 1 .. got : \A v \in Workers \ {w} : \A lock \in Held(v) :
                    ~Conflict(Locks(r)[i], lock)
  <2>1. tx'[w] = [op |-> "open", request |-> r, got |-> got]
    BY <1>4 DEF Slots
  <2>2. tx'[w].request = r /\ tx'[w].got = got /\ got \in Nat
    BY <2>1, LengthIs
  <2>3. \A a \in Held(w)' : \E i \in 1 .. got : a = Locks(r)[i]
    BY <2>2 DEF Held
  <2>4. Slots'
    BY <1>1, <2>1, <2>2 DEF Slots
  <2>5. \A v \in Workers \ {w} : \A a \in Held(w)', b \in Held(v)' :
            ~Conflict(a, b) /\ ~Conflict(b, a)
    BY <1>2, <1>4, <2>3, ConflictSymmetric
  <2>6. Excludes'
    BY <1>2, <2>5 DEF TypeOK, Excludes
  <2>7. \A v \in Workers : Busy(v)' =>
            tx'[v].request \in Requests /\ tx'[v].got \in 0 .. Len(Locks(tx'[v].request))
    BY <1>1, <2>2 DEF TypeOK, Busy
  <2> QED  BY <2>4, <2>6, <2>7 DEF TypeOK, Excludes
<1> QED  BY <1>3, <1>4

LEMMA InitInv == Init => Inv
<1> SUFFICES ASSUME Init PROVE Inv
  OBVIOUS
<1>1. \A w \in Workers : tx[w] = Idle
  BY DEF Init
<1>2. \A w \in Workers : ~Busy(w) /\ Held(w) = {}
  BY <1>1 DEF Busy, Held
<1> QED  BY <1>1, <1>2 DEF Init, Inv, TypeOK, Slots, MatchesHold, InstallsBound

(* The first lock of a match is its scan's row. *)
LEMMA MatchHoldsScan ==
    ASSUME Inv, NEW w \in Workers, Busy(w), tx[w].request.op \in Matches
    PROVE  /\ tx[w].request.on \in Scans
           /\ ForUpdate("scan", tx[w].request.on) \in Held(w)
<1> DEFINE r == tx[w].request
<1>1. r \in Requests /\ tx[w].got \in 0 .. Len(Locks(r)) /\ tx[w].got # 0
      /\ Len(Locks(r)) \in Nat
  BY BusyIs DEF Inv, MatchesHold
<1>2. r.on \in Scans /\ Locks(r)[1] = ForUpdate("scan", r.on)
  <2> HIDE DEF r
  <2> QED  BY <1>1, RequestIs, FirstOpenIs, SignupIs DEF Matches, Signups, Credits, r
<1>3. 1 \in 1 .. tx[w].got
  BY <1>1
<1> QED  BY <1>2, <1>3 DEF Held

LEMMA OneMatchPerScan ==
    ASSUME Inv, NEW w \in Workers, NEW v \in Workers, w # v, Busy(w), Busy(v),
           tx[w].request.op \in Matches, tx[v].request.op \in Matches
    PROVE  tx[w].request.on # tx[v].request.on
<1> SUFFICES ASSUME tx[w].request.on = tx[v].request.on PROVE FALSE
  OBVIOUS
<1> DEFINE lock == ForUpdate("scan", tx[w].request.on)
<1>1. lock \in Held(w) /\ lock \in Held(v)
  BY MatchHoldsScan
<1>2. Conflict(lock, lock)
  BY DEF Conflict, ForUpdate
<1> QED  BY <1>1, <1>2 DEF Inv, TypeOK

LEMMA StepInv == Inv /\ [Next]_vars => Inv'
<1> SUFFICES ASSUME Inv, [Next]_vars PROVE Inv'
  OBVIOUS
<1> USE DEF Inv
<1>1. ASSUME NEW w \in Workers, NEW r \in Requests, Begin(w, r) PROVE Inv'
  <2>1. PICK got \in {0, 1} : got = IF r.op \in Matches THEN 1 ELSE 0
    OBVIOUS
  <2>2. tx' = [tx EXCEPT ![w] = [op |-> "open", request |-> r, got |-> got]] /\ scan' = scan
    BY <1>1, <2>1 DEF Begin
  <2>3. got \in 0 .. Len(Locks(r))
    BY LengthIs
  <2>4. \A i \in 1 .. got : \A v \in Workers \ {w} : \A lock \in Held(v) :
            ~Conflict(Locks(r)[i], lock)
    <3>1. \A i \in 1 .. got : i = 1 /\ r.op \in Matches
      BY <2>1
    <3> QED  BY <1>1, <3>1 DEF Begin
  <2>5. TypeOK' /\ Slots'
    BY <2>2, <2>3, <2>4, SlotStep DEF TypeOK
  <2>6. tx'[w].request = r /\ tx'[w].got = got /\ \A v \in Workers \ {w} : tx'[v] = tx[v]
    BY <2>2 DEF Slots
  <2>7. MatchesHold'
    <3>1. r.op \in Matches => scan[r.on] = "open"
      BY <1>1 DEF Begin, Standing, Matches
    <3> QED  BY <2>1, <2>2, <2>6, <3>1 DEF MatchesHold, Busy
  <2>8. InstallsBound'
    BY <1>1, <2>2, <2>6 DEF InstallsBound, Begin, Standing, Busy, Matches
  <2> QED  BY <2>5, <2>7, <2>8
<1>2. ASSUME NEW w \in Workers, Advance(w) PROVE Inv'
  <2> DEFINE r == tx[w].request
  <2>1. /\ tx[w] = [op |-> "open", request |-> r, got |-> tx[w].got]
        /\ r \in Requests /\ tx[w].got \in 0 .. Len(Locks(r)) /\ Len(Locks(r)) \in Nat
        /\ tx[w].got # Len(Locks(r))
    BY <1>2, BusyIs DEF Advance, Done
  <2>2. PICK got \in Nat : got = tx[w].got + 1
    BY <2>1
  <2>3. tx' = [tx EXCEPT ![w] = [op |-> "open", request |-> r, got |-> got]] /\ scan' = scan
    <3> HIDE DEF r
    <3>1. [tx[w] EXCEPT !.got = tx[w].got + 1] = [op |-> "open", request |-> r, got |-> got]
      BY <2>1, <2>2
    <3> QED  BY <1>2, <3>1 DEF Advance, Slots
  <2>4. got \in 0 .. Len(Locks(r))
    BY <2>1, <2>2
  <2>5. \A i \in 1 .. got : \A v \in Workers \ {w} : \A lock \in Held(v) :
            ~Conflict(Locks(r)[i], lock)
    <3> SUFFICES ASSUME NEW i \in 1 .. got, NEW v \in Workers \ {w}, NEW lock \in Held(v)
                 PROVE  ~Conflict(Locks(r)[i], lock)
      OBVIOUS
    <3>1. CASE i = got
      BY <1>2, <2>2, <3>1 DEF Advance, WaitsFor, Wanted
    <3>2. CASE i # got
      <4>1. Locks(r)[i] \in Held(w)
        BY <1>2, <2>1, <2>2, <3>2 DEF Held, Advance
      <4> QED  BY <4>1 DEF TypeOK
    <3> QED  BY <3>1, <3>2
  <2>6. TypeOK' /\ Slots'
    <3> HIDE DEF r
    <3>1. PICK q \in Requests : q = r
      BY <2>1
    <3> QED  BY <2>3, <2>4, <2>5, <3>1, SlotStep DEF TypeOK
  <2>7. /\ tx'[w].request = r /\ tx'[w].got = got /\ got # 0 /\ Busy(w)
        /\ \A v \in Workers \ {w} : tx'[v] = tx[v]
    BY <1>2, <2>1, <2>2, <2>3 DEF Slots, Advance
  <2>8. MatchesHold'
    BY <2>3, <2>7 DEF MatchesHold, Busy
  <2>9. InstallsBound'
    BY <2>3, <2>7 DEF InstallsBound, Busy
  <2> QED  BY <2>6, <2>8, <2>9
<1>3. ASSUME NEW w \in Workers, Busy(w), tx' = [tx EXCEPT ![w] = Idle],
             scan' \in [Scans -> {"open", "bound", "rewarded"}],
             \A v \in Workers \ {w} : Busy(v) /\ tx[v].request.op \in Matches =>
                scan'[tx[v].request.on] = scan[tx[v].request.on],
             \A s \in Scans : scan[s] # "open" => scan'[s] # "open"
      PROVE  Inv'
  <2>1. TypeOK' /\ Slots'
    <3>1. PICK r \in Requests : r = tx[w].request
      BY <1>3, BusyIs
    <3>2. 0 \in 0 .. Len(Locks(r))
      BY LengthIs
    <3> QED  BY <1>3, <3>2, SlotStep
  <2>2. tx'[w] = Idle /\ \A v \in Workers \ {w} : tx'[v] = tx[v]
    BY <1>3 DEF Slots
  <2>3. MatchesHold'
    BY <1>3, <2>2 DEF MatchesHold, Busy
  <2>4. InstallsBound'
    <3>1. \A v \in Workers : Busy(v) /\ tx[v].request.op = "claim_install" => tx[v].request.on \in Scans
      BY BusyIs, RequestIs DEF Signups, Credits
    <3> QED  BY <1>3, <2>2, <3>1 DEF InstallsBound, Busy
  <2> QED  BY <2>1, <2>3, <2>4
<1>4. ASSUME NEW w \in Workers, Commit(w) PROVE Inv'
  <2> DEFINE r == tx[w].request
  <2>1. Busy(w) /\ tx' = [tx EXCEPT ![w] = Idle]
    BY <1>4 DEF Commit
  <2>2. r \in Requests
    BY <2>1, BusyIs
  <2>3. \/ scan' = scan
        \/ r.op \in Matches \cup {"claim_install"} /\ r.on \in Scans
           /\ \E to \in {"bound", "rewarded"} : scan' = [scan EXCEPT ![r.on] = to]
    BY <1>4, <2>2, RequestIs DEF Commit, Matches, Signups, Credits
  <2>4. scan \in [Scans -> {"open", "bound", "rewarded"}]
    BY DEF TypeOK
  <2>5. CASE scan' = scan
    BY <1>3, <2>1, <2>4, <2>5
  <2>6. ASSUME NEW to \in {"bound", "rewarded"}, scan' = [scan EXCEPT ![r.on] = to],
               r.on \in Scans, r.op \in Matches \cup {"claim_install"}
        PROVE  Inv'
    <3>1. scan' \in [Scans -> {"open", "bound", "rewarded"}]
      BY <2>4, <2>6
    <3>2. \A s \in Scans : scan[s] # "open" => scan'[s] # "open"
      BY <2>4, <2>6
    <3>3. ASSUME NEW v \in Workers \ {w}, Busy(v), tx[v].request.op \in Matches
          PROVE  scan'[tx[v].request.on] = scan[tx[v].request.on]
      <4>1. tx[v].request.on # r.on
        <5>1. CASE r.op \in Matches
          BY <2>1, <3>3, <5>1, OneMatchPerScan
        <5>2. CASE r.op = "claim_install"
          BY <2>1, <3>3, <5>2 DEF MatchesHold, InstallsBound
        <5> QED  BY <2>6, <5>1, <5>2
      <4> QED  BY <2>4, <2>6, <4>1
    <3> QED  BY <1>3, <2>1, <3>1, <3>2, <3>3
  <2> QED  BY <2>3, <2>5, <2>6
<1>5. ASSUME NEW w \in Workers, Abort(w) PROVE Inv'
  BY <1>3, <1>5 DEF Abort, TypeOK
<1>6. CASE UNCHANGED vars
  <2>1. scan' = scan /\ tx' = tx
    BY <1>6 DEF vars
  <2>2. \A w \in Workers : Held(w)' = Held(w) /\ Busy(w)' = Busy(w)
    BY <2>1 DEF Held, Busy
  <2> QED  BY <2>1, <2>2 DEF TypeOK, Slots, MatchesHold, InstallsBound
<1> QED  BY <1>1, <1>2, <1>4, <1>5, <1>6 DEF Next
-------------------------------------------------------------------------------
(* Who waits for whom. *)

HeightOf(w) == IF Busy(w) THEN Height(tx[w].request, tx[w].got) ELSE 0

(* The two pairs that do lock up. *)
Known(v, u) ==
    /\ WaitsFor(v, u) /\ WaitsFor(u, v)
    /\ \/ OppositeCredits(tx[v].request, tx[u].request)
       \/ PurchaseMeetsMatch(tx[v].request, tx[u].request)

LEMMA HeightIs ==
    ASSUME Inv, NEW w \in Workers
    PROVE  HeightOf(w) \in 0 .. 8
<1>1. CASE Busy(w)
  <2>1. PositionOK(tx[w].request) /\ tx[w].got \in 0 .. Len(Locks(tx[w].request))
        /\ Len(Locks(tx[w].request)) \in Nat
    BY <1>1, BusyIs, Positions DEF Inv
  <2>2. tx[w].got = 0 => Height(tx[w].request, tx[w].got) = 8
    BY DEF Height
  <2> QED  BY <1>1, <2>1, <2>2 DEF HeightOf, PositionOK
<1>2. CASE ~Busy(w)
  BY <1>2 DEF HeightOf
<1> QED  BY <1>1, <1>2

(* A row that is locked for the keys or the money is locked by one.          *)
LEMMA OwnRow ==
    ASSUME Inv, NEW v \in Workers, NEW u \in Workers, v # u, NEW a \in Held(v), NEW b \in Held(u),
           a.row = b.row, a.mode # "key_share", b.mode # "key_share" \/ a.mode = "update"
    PROVE  FALSE
<1>1. ~Conflict(a, b)
  BY DEF Inv, TypeOK
<1> QED  BY <1>1 DEF Conflict

(* An adjustment that holds a budget a credit waits for waits for the        *)
(* outside, which the credit holds.                                         *)
LEMMA MeetsCredit ==
    ASSUME Inv, NEW v \in Workers, NEW u \in Workers, WaitsFor(v, u),
           tx[v].request.op \in Credits, Post(Funding) \in Held(v),
           tx[u].request.op = "adjust", tx[u].request.on = tx[v].request.on, tx[u].got = 1,
           Busy(u)
    PROVE  Known(u, v)
<1>1. tx[u].request \in Requests
  BY BusyIs DEF Inv
<1>2. Wanted(u) = Post(Funding) /\ ~Done(u)
  BY <1>1, AdjustIs DEF Wanted, Done
<1>3. Conflict(Post(Funding), Post(Funding))
  BY DEF Conflict, Post, Write
<1>4. WaitsFor(u, v)
  BY <1>2, <1>3 DEF WaitsFor
<1> QED  BY <1>4 DEF Known, OppositeCredits, Credits

(* A match that holds the scan a purchase names waits for the budget, which  *)
(* the purchase holds.                                                      *)
LEMMA MeetsMatch ==
    ASSUME Inv, NEW v \in Workers, NEW u \in Workers, WaitsFor(v, u), Busy(v), Busy(u),
           tx[v].request.op = "claim_code", tx[v].got = 3,
           tx[u].request.op \in Matches, tx[u].request.on = tx[v].request.on
    PROVE  Known(v, u)
<1> DEFINE r == tx[v].request
           q == tx[u].request
           c == CampaignOfScan(r.on)
<1>1. /\ r \in Requests /\ q \in Requests
      /\ tx[u].got \in 0 .. Len(Locks(q)) /\ tx[u].got # 0 /\ Len(Locks(q)) \in Nat
      /\ v # u
  BY BusyIs DEF Inv, MatchesHold, WaitsFor
<1>2. Locks(r)[2] = Balance(c)
  <2> HIDE DEF r
  <2> QED  BY <1>1, SignupIs DEF Signups, r
<1>3. Balance(c) \in Held(v)
  BY <1>2 DEF Held
<1>4. Locks(q)[2] = Balance(c) /\ Len(Locks(q)) > 1
  <2> HIDE DEF r, q
  <2>1. q.on = r.on
    BY DEF r, q
  <2> QED  BY <1>1, <2>1, SignupIs, FirstOpenIs DEF Signups, Matches, q
<1>5. tx[u].got = 1
  <2> SUFFICES ASSUME tx[u].got # 1 PROVE FALSE
    OBVIOUS
  <2>1. 2 \in 1 .. tx[u].got
    BY <1>1
  <2>2. Balance(c) \in Held(u)
    BY <1>4, <2>1 DEF Held
  <2>3. Conflict(Balance(c), Balance(c))
    BY DEF Conflict, Balance, ForUpdate
  <2> QED  BY <1>1, <1>3, <2>2, <2>3 DEF Inv, TypeOK
<1>6. Wanted(u) = Balance(c) /\ ~Done(u)
  BY <1>4, <1>5 DEF Wanted, Done
<1>7. Conflict(Balance(c), Balance(c))
  BY DEF Conflict, Balance, ForUpdate
<1>8. WaitsFor(u, v)
  BY <1>1, <1>3, <1>6, <1>7 DEF WaitsFor
<1> QED  BY <1>8 DEF Known, PurchaseMeetsMatch

(* Who waits stands above whom it waits for, but for the two pairs.          *)
LEMMA Descends ==
    ASSUME Inv, NEW v \in Workers, NEW u \in Workers, WaitsFor(v, u)
    PROVE  HeightOf(u) < HeightOf(v) \/ Known(v, u) \/ Known(u, v)
<1> DEFINE r == tx[v].request
           q == tx[u].request
           lock == Wanted(v)
<1>1. PICK held \in Held(u) : Conflict(lock, held)
  BY DEF WaitsFor
<1>2. v # u /\ Busy(v) /\ Busy(u) /\ ~Done(v)
  BY <1>1 DEF WaitsFor, Held
<1>3. /\ r \in Requests /\ tx[v].got \in Nat /\ tx[v].got < Len(Locks(r))
      /\ q \in Requests /\ tx[u].got \in 0 .. Len(Locks(q)) /\ Len(Locks(q)) \in Nat
      /\ Len(Locks(r)) \in Nat
  <2>1. /\ r \in Requests /\ tx[v].got \in 0 .. Len(Locks(r)) /\ Len(Locks(r)) \in Nat
        /\ tx[v].got # Len(Locks(r))
    BY <1>2, BusyIs DEF Inv, Done
  <2>2. q \in Requests /\ tx[u].got \in 0 .. Len(Locks(q)) /\ Len(Locks(q)) \in Nat
    BY <1>2, BusyIs DEF Inv
  <2> HIDE DEF r, q
  <2> QED  BY <2>1, <2>2
<1>4. PICK i \in 1 .. tx[u].got : held = Locks(q)[i]
  BY <1>2 DEF Held
<1>5. HolderOK(q, tx[u].got, held) /\ HeightOf(u) = Height(q, tx[u].got) /\ HeightOf(u) \in 0 .. 7
  BY <1>2, <1>3, <1>4, Positions DEF PositionOK, HeightOf
<1>6. HeightOf(v) = Height(r, tx[v].got) /\ HeightOf(v) \in 0 .. 8
  BY <1>2, HeightIs DEF HeightOf
<1>7. CASE tx[v].got = 0
  BY <1>5, <1>6, <1>7 DEF Height
<1>8. CASE tx[v].got # 0
  <2>1. WaiterOK(r, tx[v].got, lock)
    <3>1. lock = Locks(r)[tx[v].got + 1]
      BY DEF Wanted
    <3> HIDE DEF lock, r, q
    <3>2. PICK got \in 1 .. Len(Locks(r)) : got = tx[v].got
      BY <1>3, <1>8
    <3>3. PositionOK(r)
      BY <1>3, Positions
    <3> QED  BY <1>3, <3>1, <3>2, <3>3 DEF PositionOK
  <2>2. /\ lock.row = held.row
        /\ lock.mode = "key_share" => held.mode = "update"
        /\ held.mode = "key_share" => lock.mode = "update"
    BY <1>1 DEF Conflict
  <2>3. \A kind, id : Of(lock, kind, id) => Of(held, kind, id)
    BY <2>2 DEF Of
  <2>4. \A j \in 1 .. tx[v].got : Locks(r)[j] \in Held(v)
    BY <1>2 DEF Held
  <2> HIDE DEF lock, r, q
  <2>5. CASE /\ Height(r, tx[v].got) = 1
             /\ Of(lock, "balance", Fees) \/ Of(lock, "balance", Payouts)
    BY <1>5, <1>6, <2>3, <2>5 DEF HolderOK
  <2>6. CASE Height(r, tx[v].got) = 2 /\ \E o \in Publishers : Of(lock, "balance", o)
    BY <1>5, <1>6, <2>3, <2>6 DEF HolderOK
  <2>7. CASE /\ Height(r, tx[v].got) = 3 /\ r.op \in Credits
             /\ r.on \in Campaigns /\ Of(lock, "balance", r.on)
             /\ \E j \in 1 .. tx[v].got : Locks(r)[j] = Post(Funding)
    <3>1. \/ Height(q, tx[u].got) \in 0 .. 2
          \/ q.op = "adjust" /\ q.on = r.on /\ tx[u].got = 1
      BY <1>5, <2>3, <2>7 DEF HolderOK
    <3>2. Post(Funding) \in Held(v)
      BY <2>4, <2>7
    <3>3. CASE Height(q, tx[u].got) \in 0 .. 2
      BY <1>5, <1>6, <2>7, <3>3
    <3>4. CASE q.op = "adjust" /\ q.on = r.on /\ tx[u].got = 1
      BY <1>2, <2>7, <3>2, <3>4, MeetsCredit DEF r, q
    <3> QED  BY <3>1, <3>3, <3>4
  <2>8. CASE Height(r, tx[v].got) \in {4, 6} /\ Of(lock, "balance", Funding)
    BY <1>5, <1>6, <2>3, <2>8 DEF HolderOK
  <2>9. CASE Height(r, tx[v].got) = 5 /\ \E c \in Campaigns : Of(lock, "balance", c)
    <3>1. PICK c \in Campaigns : Of(held, "balance", c)
      BY <2>3, <2>9
    <3>2. Height(q, tx[u].got) \in 0 .. 2 \/ (q.op = "adjust" /\ tx[u].got = 1)
      BY <1>5, <3>1 DEF HolderOK
    <3>3. q.op = "adjust" /\ tx[u].got = 1 => Height(q, tx[u].got) = 4
      BY DEF Height, Heights, Signups
    <3> QED  BY <1>5, <1>6, <2>9, <3>2, <3>3
  <2>10. CASE /\ Height(r, tx[v].got) = 7 /\ r.op = "kill"
              /\ \E code \in Codes : Of(lock, "code", code) /\ CampaignOf[code] = r.on
    <3>1. \/ Height(q, tx[u].got) \in 0 .. 5
          \/ q.op = "kill" /\ q.on = r.on
      BY <1>5, <2>3, <2>10 DEF HolderOK
    <3>2. CASE q.op = "kill" /\ q.on = r.on
      <4>1. 1 \in 1 .. tx[v].got /\ 1 \in 1 .. tx[u].got
        BY <1>3, <1>4, <1>8
      <4>2. Locks(r)[1] = Write("campaign", r.on) /\ Locks(q)[1] = Write("campaign", r.on)
        BY <1>3, <2>10, <3>2, KillIs
      <4>3. Write("campaign", r.on) \in Held(v) /\ Write("campaign", r.on) \in Held(u)
        BY <1>2, <4>1, <4>2 DEF Held, r, q
      <4> QED  BY <1>2, <4>3, WriteIs, OwnRow
    <3> QED  BY <1>5, <1>6, <2>10, <3>1, <3>2
  <2>11. CASE lock.row[1] = "campaign" /\ lock.mode = "key_share"
    BY <1>5, <2>2, <2>11 DEF HolderOK
  <2>12. CASE /\ r.op \in {"claim_code", "claim_install"} /\ tx[v].got = 3
              /\ lock = KeyShare("scan", r.on)
    <3>1. r.on \in Scans
      BY <1>3, <2>12, RequestIs DEF Signups, Credits
    <3>2. Of(held, "scan", r.on) /\ held.mode = "update"
      BY <2>2, <2>3, <2>12, KeyShareIs
    <3>3. q.op \in Matches /\ q.on = r.on
      BY <1>5, <3>1, <3>2 DEF HolderOK
    <3>4. r.op # "claim_install"
      BY <1>2, <3>3 DEF Inv, MatchesHold, InstallsBound, r, q
    <3> QED  BY <1>2, <2>12, <3>3, <3>4, MeetsMatch DEF r, q
  <2>13. CASE \E j \in 1 .. tx[v].got : Locks(r)[j].row = lock.row /\ Locks(r)[j].mode = "update"
    <3>1. PICK own \in Held(v) : own.row = held.row /\ own.mode = "update"
      BY <2>2, <2>4, <2>13
    <3> QED  BY <1>2, <3>1, OwnRow
  <2> QED  BY <2>1, <2>5, <2>6, <2>7, <2>8, <2>9, <2>10, <2>11, <2>12, <2>13 DEF WaiterOK
<1> QED  BY <1>7, <1>8

(* The workers behind some others are closed under waiting.                  *)
LEMMA BehindCloses ==
    ASSUME NEW B \in SUBSET Workers
    PROVE  /\ B \subseteq Behind(B) /\ Behind(B) \subseteq Workers
           /\ \A v \in Behind(B), u \in Workers : WaitsFor(v, u) => u \in Behind(B)
BY DEF Behind

(* Any closed set of workers with the first ones has everyone behind them.   *)
LEMMA BehindIsLeast ==
    ASSUME NEW B \in SUBSET Workers, NEW S \in SUBSET Workers, B \subseteq S,
           \A v \in S, u \in Workers : WaitsFor(v, u) => u \in S
    PROVE  Behind(B) \subseteq S
BY DEF Behind

(* Without one of the two pairs among those behind w, everyone there that w  *)
(* waits for, directly or not, stands below w: w is not one of them.         *)
LEMMA CirclesAreKnown == Inv => OnlyKnownDeadlocks
<1> SUFFICES ASSUME Inv, NEW w \in Workers, Stuck(w),
                    \A v \in Behind({w}), u \in Behind({w}) : ~Known(v, u)
             PROVE  FALSE
  <2>1. \A v, u \in Workers : Known(v, u) =>
            /\ WaitsFor(v, u) /\ WaitsFor(u, v)
            /\ LET r == tx[v].request
                   q == tx[u].request
               IN  OppositeCredits(r, q) \/ PurchaseMeetsMatch(r, q)
    BY DEF Known
  <2>2. \A w \in Workers : Behind({w}) \subseteq Workers
    BY BehindCloses
  <2> QED  BY <2>1, <2>2 DEF OnlyKnownDeadlocks
<1> DEFINE R == Behind({w})
           B == {v \in Workers : WaitsFor(w, v)}
           S == {v \in R : HeightOf(v) < HeightOf(w)}
<1>1. /\ w \in R /\ R \subseteq Workers
      /\ \A v \in R, u \in Workers : WaitsFor(v, u) => u \in R
  BY BehindCloses
<1>2. \A v \in R, u \in Workers : WaitsFor(v, u) => HeightOf(u) < HeightOf(v)
  <2> SUFFICES ASSUME NEW v \in R, NEW u \in Workers, WaitsFor(v, u)
               PROVE  HeightOf(u) < HeightOf(v)
    OBVIOUS
  <2>1. v \in Workers /\ u \in R
    BY <1>1
  <2> QED  BY <2>1, Descends
<1>3. B \subseteq S
  BY <1>1, <1>2
<1>4. \A v \in S, u \in Workers : WaitsFor(v, u) => u \in S
  <2> SUFFICES ASSUME NEW v \in S, NEW u \in Workers, WaitsFor(v, u) PROVE u \in S
    OBVIOUS
  <2>1. v \in R /\ u \in R /\ HeightOf(u) < HeightOf(v) /\ HeightOf(v) < HeightOf(w)
    BY <1>1, <1>2
  <2>2. HeightOf(u) \in Nat /\ HeightOf(v) \in Nat /\ HeightOf(w) \in Nat
    BY <1>1, <2>1, HeightIs
  <2> QED  BY <2>1, <2>2
<1>5. Behind(B) \subseteq S
  <2>1. B \in SUBSET Workers /\ S \in SUBSET Workers
    BY <1>1
  <2> HIDE DEF B, S, R
  <2> QED  BY <1>3, <1>4, <2>1, BehindIsLeast
<1>6. w \in Behind(B)
  BY DEF Stuck
<1>7. HeightOf(w) \in Nat
  BY HeightIs
<1> QED  BY <1>5, <1>6, <1>7

-------------------------------------------------------------------------------
LEMMA InvAlways == Spec => []Inv
<1>1. Init => Inv
  BY InitInv
<1>2. Inv /\ [Next]_vars => Inv'
  BY StepInv
<1> QED  BY <1>1, <1>2, PTL DEF Spec

(* No two transactions hold row locks that exclude each other, the match of *)
(* a scan among them, which skips a taken row instead of queueing           *)
(* (bindInstall and the legacy claim, partner.repository.ts).               *)
THEOREM LocksExclude == Spec => []TypeOK
<1>1. Inv => TypeOK
  BY DEF Inv
<1> QED  BY <1>1, InvAlways, PTL

(* However many transactions run, whoever waits in a circle is in one with  *)
(* a funding and an adjustment of one campaign, or with a purchase and a    *)
(* match of one scan.  It is said of the requests of LockOrder: no other    *)
(* order of the statements of scan, claim, confirm, funding, withdrawal and *)
(* kill locks up.                                                           *)
THEOREM OnlyTwoPairsLockUp == Spec => []OnlyKnownDeadlocks
<1>1. Inv => OnlyKnownDeadlocks
  BY CirclesAreKnown
<1> QED  BY <1>1, InvAlways, PTL
===============================================================================
