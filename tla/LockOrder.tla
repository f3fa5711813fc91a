------------------------------ MODULE LockOrder -------------------------------
(***************************************************************************)
(* The order in which the transactions of the backend lock rows, and who   *)
(* waits for whom because of it.                                           *)
(*                                                                         *)
(* A request is the list of the row locks its statements take, in the      *)
(* order of the statements: FOR UPDATE, an UPDATE that leaves the keys     *)
(* alone, and the key share that an INSERT takes of each row its foreign   *)
(* keys name.  Locks are kept until the transaction ends.  What the        *)
(* requests do to the money is the business of Attribution, Funding and    *)
(* Withdrawals; here is what those leave out by letting a transaction be   *)
(* one step, or abort at will.  Statements that lock one row and commit    *)
(* hold nothing while they wait, and are left out.                         *)
(*                                                                         *)
(* The offboarding of an org (admin.repository.ts) is left out too, and    *)
(* what this module says of circles is not said of it: offboarding both    *)
(* parties of a partnership takes its campaigns in two UPDATEs of many     *)
(* rows, each in whatever order its plan finds them, and two such may lock *)
(* up.  With anyone else it cannot: what it may have to wait for, a patch  *)
(* of its org, a patch or a kill of one campaign, never waits for a row    *)
(* that it holds.                                                          *)
(***************************************************************************)
EXTENDS Integers, FiniteSets, SequencesExt

CONSTANTS
    Workers, Campaigns, Codes, Scans, Publishers,
    PublisherOf,    \* the publisher a campaign pays
    CampaignOf,     \* the campaign a code is of
    CodeOf          \* the code a scan is of

(* Accounts are campaign:<id>, publisher:<id> and these: no two of one name. *)
Funding == "external:funding"
Payouts == "external:payouts"
Fees == "platform:fees"

ASSUME LockOrderAssumption ==
    /\ PublisherOf \in [Campaigns -> Publishers]
    /\ CampaignOf \in [Codes -> Campaigns]
    /\ CodeOf \in [Scans -> Codes]
    /\ IsFiniteSet(Codes)
    /\ Campaigns \cap Publishers = {}
    /\ \A account \in {Funding, Payouts, Fees} : account \notin Campaigns \cup Publishers

VARIABLES
    scan,       \* scans.consumed, and how: the rows that follow from it
    tx          \* each connection's request and how many of its locks it has

vars == <<scan, tx>>

-------------------------------------------------------------------------------
(* Rows and locks.                                                         *)

ForUpdate(kind, id) == [row |-> <<kind, id>>, mode |-> "update"]
Write(kind, id) == [row |-> <<kind, id>>, mode |-> "no_key_update"]
KeyShare(kind, id) == [row |-> <<kind, id>>, mode |-> "key_share"]

(* PostgreSQL's table of row locks: a foreign key waits for FOR UPDATE only. *)
Conflict(a, b) ==
    /\ a.row = b.row
    /\ a.mode = "key_share" => b.mode = "update"
    /\ b.mode = "key_share" => a.mode = "update"

Balance(account) == ForUpdate("balance", account)
Post(account) == Write("balance", account)

CampaignOfScan(s) == CampaignOf[CodeOf[s]]
CodesOf(c) == {q \in Codes : CampaignOf[q] = c}

(* payout: the campaign, the publisher, the platform's cut. *)
Payout(c) == <<Post(c), Post(PublisherOf[c]), Post(Fees)>>

(* Mutation: FOR UPDATE without OF q, which locks each row of the join. *)
PurchaseOfTheJoin(s) ==
    LET c == CampaignOfScan(s) IN
    <<ForUpdate("code", CodeOf[s]), ForUpdate("scan", s), ForUpdate("campaign", c), Balance(c)>>
        \o Payout(c)

(* recordEngagement: the code, the budget, the new row's foreign keys.      *)
Purchase(s) ==
    LET c == CampaignOfScan(s) IN
    <<ForUpdate("code", CodeOf[s]), Balance(c), KeyShare("campaign", c), KeyShare("scan", s)>>
        \o Payout(c)

(* bindInstall: nothing is paid, the budget is only tested. *)
FirstOpen(s) == <<ForUpdate("scan", s), Balance(CampaignOfScan(s))>>

(* recordAcquisition, by the install or on the scan itself. *)
Signup(evidence, s) ==
    LET c == CampaignOfScan(s) IN
    <<ForUpdate(evidence, s), Balance(c), KeyShare("campaign", c), KeyShare("scan", s)>>
        \o Payout(c)

(* confirm: the row of the reward, the budget, the held-back part.          *)
Confirm(s) ==
    LET c == CampaignOfScan(s) IN <<ForUpdate("redemption", s), Balance(c)>> \o Payout(c)

(* handleScan: a use of the code, and the scan that names it. *)
Scan(q) == <<Write("code", q), KeyShare("campaign", CampaignOf[q])>>

(* fundCampaign and complete: the outside first. *)
Fund(c) == <<Post(Funding), Post(c)>>
Webhook(c) == <<Write("payment", c), Post(Funding), Post(c)>>

(* adjustBudget: the floor is tested under the lock, so the budget first.   *)
Adjust(c) == <<Balance(c), Post(Funding), Post(c)>>

(* createWithdrawal and payWithdrawal *)
AskForMoney(o) == <<Balance(o)>>
PayMoney(o) == <<Write("withdrawal", o), Balance(o), Post(o), Post(Payouts)>>

(* killCampaign: one UPDATE for the campaign, one for its codes. *)
Kill(c) ==
    LET codes == SetToSeq(CodesOf(c)) IN
    <<Write("campaign", c)>> \o [i \in DOMAIN codes |-> Write("code", codes[i])]

Matches == {"first_open", "legacy_claim"}
OnScan == Matches \cup {"claim_install", "claim_code", "confirm"}
OnCampaign == {"fund", "webhook", "adjust", "kill"}
OnPublisher == {"request", "pay"}

Request(op, on) == [op |-> op, on |-> on]
Requests ==
    [op : OnScan, on : Scans] \cup [op : OnCampaign, on : Campaigns]
        \cup [op : OnPublisher, on : Publishers] \cup [op : {"scan"}, on : Codes]

Locks(r) ==
    CASE r.op = "first_open" -> FirstOpen(r.on)
      [] r.op = "legacy_claim" -> Signup("scan", r.on)
      [] r.op = "claim_install" -> Signup("install", r.on)
      [] r.op = "claim_code" -> Purchase(r.on)
      [] r.op = "confirm" -> Confirm(r.on)
      [] r.op = "scan" -> Scan(r.on)
      [] r.op = "fund" -> Fund(r.on)
      [] r.op = "webhook" -> Webhook(r.on)
      [] r.op = "adjust" -> Adjust(r.on)
      [] r.op = "request" -> AskForMoney(r.on)
      [] r.op = "pay" -> PayMoney(r.on)
      [] r.op = "kill" -> Kill(r.on)

-------------------------------------------------------------------------------
(* The lock manager.                                                       *)

Idle == [op |-> "none"]
Busy(w) == tx[w] # Idle
Held(w) == IF Busy(w) THEN {Locks(tx[w].request)[i] : i \in 1 .. tx[w].got} ELSE {}
Done(w) == tx[w].got = Len(Locks(tx[w].request))
Wanted(w) == Locks(tx[w].request)[tx[w].got + 1]

WaitsFor(w, v) ==
    /\ w # v
    /\ Busy(w) /\ ~Done(w)
    /\ \E lock \in Held(v) : Conflict(Wanted(w), lock)

(* The blockers and everyone they wait for, directly or not: the smallest    *)
(* set with them that nobody in it waits for anyone out of.                 *)
Behind(blockers) ==
    LET Closed(S) ==
            blockers \subseteq S /\ \A b \in S, v \in Workers : WaitsFor(b, v) => v \in S
    IN  {v \in Workers : \A S \in SUBSET Workers : Closed(S) => v \in S}

Stuck(w) == w \in Behind({v \in Workers : WaitsFor(w, v)})

-------------------------------------------------------------------------------
(* Whether what a request spends is still there.                           *)
Standing(r) ==
    CASE r.op \in Matches -> scan[r.on] = "open"
      [] r.op = "claim_install" -> scan[r.on] = "bound"
      [] r.op = "confirm" -> scan[r.on] = "rewarded"
      [] OTHER -> TRUE

(* Mutation: a match does not look whether the scan's row is taken. *)
BeginUnskipped(w, r) ==
    /\ ~Busy(w)
    /\ Standing(r)
    /\ tx' = [tx EXCEPT ![w] =
            [op |-> "open", request |-> r, got |-> IF r.op \in Matches THEN 1 ELSE 0]]
    /\ UNCHANGED scan

(* A request begins.  A match takes the scan's row or, with SKIP LOCKED,    *)
(* finds no scan; every other statement queues.                             *)
Begin(w, r) ==
    /\ ~Busy(w)
    /\ Standing(r)
    /\ r.op \in Matches =>
            \A v \in Workers : \A lock \in Held(v) : ~Conflict(Locks(r)[1], lock)
    /\ tx' = [tx EXCEPT ![w] =
            [op |-> "open", request |-> r, got |-> IF r.op \in Matches THEN 1 ELSE 0]]
    /\ UNCHANGED scan

(* The next statement gets its row.  Behind the first lock the evidence is  *)
(* looked at again.                                                         *)
Advance(w) ==
    /\ Busy(w) /\ ~Done(w)
    /\ ~ \E v \in Workers : WaitsFor(w, v)
    /\ tx[w].got = 1 => Standing(tx[w].request)
    /\ tx' = [tx EXCEPT ![w].got = @ + 1]
    /\ UNCHANGED scan

Commit(w) ==
    LET r == tx[w].request IN
    /\ Busy(w) /\ Done(w)
    /\ scan' = CASE r.op = "first_open" -> [scan EXCEPT ![r.on] = "bound"]
                 [] r.op \in {"legacy_claim", "claim_install"} -> [scan EXCEPT ![r.on] = "rewarded"]
                 [] OTHER -> scan
    /\ tx' = [tx EXCEPT ![w] = Idle]

(* Every other end: a refusal at any of the guards, a timeout, and the      *)
(* victim PostgreSQL picks when requests wait in a circle.                  *)
Abort(w) ==
    /\ Busy(w)
    /\ tx' = [tx EXCEPT ![w] = Idle]
    /\ UNCHANGED scan

-------------------------------------------------------------------------------
Init ==
    /\ scan = [s \in Scans |-> "open"]
    /\ tx = [w \in Workers |-> Idle]

Next == \E w \in Workers :
    \/ \E r \in Requests : Begin(w, r)
    \/ Advance(w)
    \/ Commit(w)
    \/ Abort(w)

Spec == Init /\ [][Next]_vars

-------------------------------------------------------------------------------
(* Properties.                                                             *)

(* Requests are about rows that are there, and no two hold locks that       *)
(* exclude each other: a match of a scan is alone with it although it never *)
(* queues for it.                                                           *)
TypeOK ==
    /\ scan \in [Scans -> {"open", "bound", "rewarded"}]
    /\ \A w \in Workers : Busy(w) =>
            /\ tx[w].request \in Requests
            /\ tx[w].got \in 0 .. Len(Locks(tx[w].request))
    /\ \A w, v \in Workers : w # v =>
            \A a \in Held(w), b \in Held(v) : ~Conflict(a, b)

(* Two credits of one budget that take its row and the outside's in         *)
(* opposite orders: an adjustment against a funding or a webhook.           *)
OppositeCredits(r, q) ==
    r.op = "adjust" /\ q.op \in {"fund", "webhook"} /\ r.on = q.on

(* A purchase that holds the budget and whose new row names a scan that a   *)
(* match holds, waiting for the budget.                                     *)
PurchaseMeetsMatch(r, q) == r.op = "claim_code" /\ q.op \in Matches /\ r.on = q.on

(* Of the requests modelled here, the two pairs above are the only ones     *)
(* that lock up: whoever waits in a circle has such a pair behind it, and   *)
(* no other mix of scans, claims, confirms, top-ups, withdrawals and kills, *)
(* two at a time or three, locks up.                                        *)
OnlyKnownDeadlocks ==
    \A w \in Workers : Stuck(w) =>
        \E v, u \in Workers :
            /\ v \in Behind({w}) /\ WaitsFor(v, u) /\ WaitsFor(u, v)
            /\ LET r == tx[v].request
                   q == tx[u].request
               IN  OppositeCredits(r, q) \/ PurchaseMeetsMatch(r, q)
===============================================================================
