------------------------------- MODULE Funding --------------------------------
(***************************************************************************)
(* How coins come in: the checkout and the payment provider's webhook of   *)
(* backend/src/modules/payments, direct funding by the portal and the      *)
(* admin's adjustment under their idempotency keys, and the audit entry    *)
(* each of them writes after its commit.                                   *)
(*                                                                         *)
(* Each worker serves one request at a time.  A request is cut between its *)
(* reads, its transaction and its audit entry; a transaction is one step,  *)
(* because the row it tests (the payment, the budget, the ledger's unique  *)
(* index) stays locked until it commits.  The provider may report anything *)
(* it can sign, in any order and any number of times.                      *)
(***************************************************************************)
EXTENDS LedgerBook, FiniteSets

CONSTANTS
    Campaigns, Payments, Workers,
    Charges,        \* the provider's own ids: provider_ref
    Keys,           \* idempotency keys
    NoKey,          \* the key of a request that sends none
    NoCharge,       \* the provider_ref of a payment not reported yet
    Coins,          \* what a promoter may buy or credit
    Adjustments,    \* what an admin may add or claw back
    SelfFunding,    \* ALLOW_SELF_FUNDING
    Capacity,       \* 2^31 coins: the balances are 32-bit columns
    MaxClock,       \* bound: milliseconds that pass
    MaxAudits       \* bound: audit entries for one movement

Outcomes == {"succeeded", "failed"}
Times == 0 .. MaxClock

ASSUME FundingAssumption ==
    /\ Coins \subseteq Nat \ {0}
    /\ Adjustments \subseteq Int
    /\ Capacity \in Nat
    /\ MaxClock \in Nat
    /\ MaxAudits \in Nat
    /\ NoKey \notin Keys
    /\ NoCharge \notin Charges
    /\ SelfFunding \in BOOLEAN

VARIABLES
    campaign,       \* campaigns.status
    payment,        \* payments
    balance,        \* account_balances
    entries,        \* ledger_entries
    audits,         \* audit_log: how many entries tell of a movement
    told,           \* history: what the last step answered its caller
    now,            \* Date.now(), in milliseconds
    tx              \* what each worker is in the middle of

vars == <<campaign, payment, balance, entries, audits, told, now, tx>>
book == <<balance, entries>>

-------------------------------------------------------------------------------
Accounts == {CampaignAccount(c) : c \in Campaigns} \cup {ExternalFunding}

(* The reference a movement is posted under, which is its identity. *)
PaymentRef(p) == <<"fund", p>>
FundRef(c, key) == <<"fund", c, IF key = NoKey THEN now ELSE key>>
AdjustRef(c, key) == <<"admin-adjust", c, IF key = NoKey THEN now ELSE key>>

Refs ==
    {PaymentRef(p) : p \in Payments}
        \cup {<<op, c, k>> : op \in {"fund", "admin-adjust"}, c \in Campaigns, k \in Keys \cup Times}

(* UNIQUE (account, ref) *)
PostedUnder(ref) == \E e \in entries : e.ref = ref

(* The unique index on provider_ref. *)
ChargeTaken(charge, p) ==
    \E other \in Payments \ {p} : payment[other].status # "none" /\ payment[other].charge = charge

NoPayment == [status |-> "none"]

PaymentRows ==
    [status : {"pending", "completed", "failed"}, campaign : Campaigns, coins : Coins,
     charge : Charges \cup {NoCharge}]

Idle == [op |-> "none"]
CheckoutRequest(c, coins) == [op |-> "checkout", campaign |-> c, coins |-> coins]
WebhookRequest(p, charge, outcome) ==
    [op |-> "webhook", payment |-> p, charge |-> charge, outcome |-> outcome]
(* What is left of a request after its commit: to audit ref and to answer. *)
AuditRequest(ref, answer) == [op |-> "audit", ref |-> ref, answer |-> answer]

Told(op, subject, answer) == <<op, subject, answer>>
Subjects == Payments \cup (Campaigns \X (Keys \cup {NoKey}))
Answers ==
    {"webhook", "fund", "adjust"} \X Subjects
        \X {"completed", "replay", "failed", "ok", "conflict", "below zero"}
Nothing == Told("none", NoKey, "none")

Answer(a) == told' = a
Silently == told' = Nothing

Enter(w, t) == tx' = [tx EXCEPT ![w] = t] /\ Silently
Leave(w) == tx' = [tx EXCEPT ![w] = Idle]

(* The two postings of a movement; they fail when a balance would not fit.  *)
Move(c, coins, ref) ==
    /\ balance[CampaignAccount(c)] + coins < Capacity
    /\ balance[ExternalFunding] - coins >= -Capacity
    /\ balance' = AfterFunding(balance, c, coins)
    /\ entries' = entries \cup FundingEntries(c, coins, ref)

-------------------------------------------------------------------------------
(* Buying: the checkout and the provider's answer.                         *)

(* checkout: an ended campaign is refused before the card is charged. *)
BeginCheckout(w, c, coins) ==
    /\ tx[w] = Idle
    /\ campaign[c] # "ended"
    /\ Enter(w, CheckoutRequest(c, coins))
    /\ UNCHANGED <<campaign, payment, book, audits, now>>

(* createPayment: the campaign is not looked at again. *)
CreatePayment(w, p) ==
    /\ tx[w].op = "checkout"
    /\ payment[p] = NoPayment
    /\ payment' = [payment EXCEPT ![p] =
            [status |-> "pending", campaign |-> tx[w].campaign, coins |-> tx[w].coins,
             charge |-> NoCharge]]
    /\ Leave(w) /\ Silently
    /\ UNCHANGED <<campaign, book, audits, now>>

(* Mutation: the answer of findPayment is not looked at. *)
DeliverUnminted(w, p, charge, outcome) ==
    /\ tx[w] = Idle
    /\ Enter(w, WebhookRequest(p, charge, outcome))
    /\ UNCHANGED <<campaign, payment, book, audits, now>>

(* webhook, up to findPayment: an id that was never minted is not found. *)
Deliver(w, p, charge, outcome) ==
    /\ tx[w] = Idle
    /\ payment[p] # NoPayment
    /\ Enter(w, WebhookRequest(p, charge, outcome))
    /\ UNCHANGED <<campaign, payment, book, audits, now>>

Delivering(w, outcome) == tx[w].op = "webhook" /\ tx[w].outcome = outcome

(* Mutation: a failure is written down whatever came before. *)
MarkFailedUnguarded(w) ==
    LET p == tx[w].payment IN
    /\ Delivering(w, "failed")
    /\ ~ChargeTaken(tx[w].charge, p)
    /\ payment' = [payment EXCEPT ![p].status = "failed", ![p].charge = tx[w].charge]
    /\ Answer(Told("webhook", p, "failed"))
    /\ Leave(w)
    /\ UNCHANGED <<campaign, book, audits, now>>

(* markFailed: guarded on pending, and answered the same either way. *)
MarkFailed(w) ==
    LET p == tx[w].payment IN
    /\ Delivering(w, "failed")
    /\ IF payment[p].status = "pending"
       THEN /\ ~ChargeTaken(tx[w].charge, p)
            /\ payment' = [payment EXCEPT ![p].status = "failed", ![p].charge = tx[w].charge]
       ELSE UNCHANGED payment
    /\ Answer(Told("webhook", p, "failed"))
    /\ Leave(w)
    /\ UNCHANGED <<campaign, book, audits, now>>

(* Mutation: only the charge the payment already names may complete it. *)
CompleteKnownCharge(w) ==
    LET p == tx[w].payment IN
    /\ Delivering(w, "succeeded")
    /\ payment[p].status = "pending"
    /\ payment[p].charge = tx[w].charge
    /\ payment' = [payment EXCEPT ![p].status = "completed"]
    /\ Move(payment[p].campaign, payment[p].coins, PaymentRef(p))
    /\ Enter(w, AuditRequest(PaymentRef(p), Told("webhook", p, "completed")))
    /\ UNCHANGED <<campaign, audits, now>>

(* Mutation: the status is tested when the payment is found, and not again. *)
CompleteUntested(w) ==
    LET p == tx[w].payment IN
    /\ Delivering(w, "succeeded")
    /\ ~ChargeTaken(tx[w].charge, p)
    /\ payment' = [payment EXCEPT ![p].status = "completed", ![p].charge = tx[w].charge]
    /\ Move(payment[p].campaign, payment[p].coins, PaymentRef(p))
    /\ Enter(w, AuditRequest(PaymentRef(p), Told("webhook", p, "completed")))
    /\ UNCHANGED <<campaign, audits, now>>

(* complete: one UPDATE tests and flips the status, and the credit commits  *)
(* with it.                                                                 *)
Complete(w) ==
    LET p == tx[w].payment IN
    /\ Delivering(w, "succeeded")
    /\ payment[p].status = "pending"
    /\ ~ChargeTaken(tx[w].charge, p)
    /\ payment' = [payment EXCEPT ![p].status = "completed", ![p].charge = tx[w].charge]
    /\ Move(payment[p].campaign, payment[p].coins, PaymentRef(p))
    /\ Enter(w, AuditRequest(PaymentRef(p), Told("webhook", p, "completed")))
    /\ UNCHANGED <<campaign, audits, now>>

(* Mutation: the audit entry written whether or not this delivery credited. *)
RedeliveredAudited(w) ==
    LET p == tx[w].payment IN
    /\ Delivering(w, "succeeded")
    /\ payment[p].status # "pending"
    /\ Enter(w, AuditRequest(PaymentRef(p), Told("webhook", p, "replay")))
    /\ UNCHANGED <<campaign, payment, book, audits, now>>

(* Mutation: how many rows the UPDATE found is not looked at. *)
RedeliveredUncounted(w) ==
    LET p == tx[w].payment IN
    /\ Delivering(w, "succeeded")
    /\ Answer(Told("webhook", p, "completed"))
    /\ Leave(w)
    /\ UNCHANGED <<campaign, payment, book, audits, now>>

(* complete found nothing pending: completed, replay, whatever was found. *)
Redelivered(w) ==
    LET p == tx[w].payment IN
    /\ Delivering(w, "succeeded")
    /\ payment[p].status # "pending"
    /\ Answer(Told("webhook", p, "replay"))
    /\ Leave(w)
    /\ UNCHANGED <<campaign, payment, book, audits, now>>

-------------------------------------------------------------------------------
(* Crediting without a payment.                                            *)

(* A movement under its reference, or the key's second use, which is        *)
(* swallowed; both go on to the audit entry.                                *)
MoveOnce(w, c, coins, key, ref, answer) ==
    /\ \/ ~PostedUnder(ref) /\ Move(c, coins, ref)
       \/ PostedUnder(ref) /\ key # NoKey /\ UNCHANGED book
    /\ Enter(w, AuditRequest(ref, answer))
    /\ UNCHANGED <<campaign, payment, audits, now>>

(* Without a key a collision is an error. *)
Collide(key, ref, answer) ==
    /\ PostedUnder(ref) /\ key = NoKey
    /\ Answer(answer)
    /\ UNCHANGED <<campaign, payment, book, audits, now, tx>>

Fund(w, c, coins, key) ==
    /\ tx[w] = Idle /\ SelfFunding
    /\ \/ MoveOnce(w, c, coins, key, FundRef(c, key), Told("fund", <<c, key>>, "ok"))
       \/ Collide(key, FundRef(c, key), Told("fund", <<c, key>>, "conflict"))

(* Mutation: what is tested is the adjustment, not what it leaves. *)
BelowZeroAlone(c, coins) == coins < 0 /\ balance[CampaignAccount(c)] = 0

BelowZero(c, coins) == balance[CampaignAccount(c)] + coins < 0

(* adjustBudget: the floor under the lock, then the key. *)
Adjust(w, c, coins, key) ==
    /\ tx[w] = Idle
    /\ ~BelowZero(c, coins)
    /\ \/ MoveOnce(w, c, coins, key, AdjustRef(c, key), Told("adjust", <<c, key>>, "ok"))
       \/ Collide(key, AdjustRef(c, key), Told("adjust", <<c, key>>, "conflict"))

RefuseAdjust(w, c, coins, key) ==
    /\ tx[w] = Idle
    /\ BelowZero(c, coins)
    /\ Answer(Told("adjust", <<c, key>>, "below zero"))
    /\ UNCHANGED <<campaign, payment, book, audits, now, tx>>

-------------------------------------------------------------------------------
(* auditFunding and audit: after the commit, in a statement of its own. *)
WriteAudit(w) ==
    /\ tx[w].op = "audit"
    /\ audits[tx[w].ref] < MaxAudits
    /\ audits' = [audits EXCEPT ![tx[w].ref] = @ + 1]
    /\ Answer(tx[w].answer)
    /\ Leave(w)
    /\ UNCHANGED <<campaign, payment, book, now>>

(* A process that dies, a statement that times out, a charge reported for   *)
(* a second payment, a balance that does not fit: no answer, and what was   *)
(* committed before stays.                                                  *)
Fail(w) ==
    /\ tx[w] # Idle
    /\ Leave(w) /\ Silently
    /\ UNCHANGED <<campaign, payment, book, audits, now>>

SetCampaignStatus(c, status) ==
    /\ campaign' = [campaign EXCEPT ![c] = status]
    /\ Silently
    /\ UNCHANGED <<payment, book, audits, now, tx>>

Tick ==
    /\ now < MaxClock
    /\ now' = now + 1
    /\ Silently
    /\ UNCHANGED <<campaign, payment, book, audits, tx>>

-------------------------------------------------------------------------------
Init ==
    /\ campaign = [c \in Campaigns |-> "active"]
    /\ payment = [p \in Payments |-> NoPayment]
    /\ balance = [a \in Accounts |-> 0]
    /\ entries = {}
    /\ audits = [ref \in Refs |-> 0]
    /\ told = Nothing
    /\ now = 0
    /\ tx = [w \in Workers |-> Idle]

Pay(w) ==
    \/ \E c \in Campaigns, coins \in Coins : BeginCheckout(w, c, coins)
    \/ \E p \in Payments : CreatePayment(w, p)
    \/ \E p \in Payments, charge \in Charges, outcome \in Outcomes : Deliver(w, p, charge, outcome)
    \/ MarkFailed(w)
    \/ Complete(w)
    \/ Redelivered(w)

CreditDirectly(w) ==
    \/ \E c \in Campaigns, coins \in Coins, key \in Keys \cup {NoKey} : Fund(w, c, coins, key)
    \/ \E c \in Campaigns, coins \in Adjustments, key \in Keys \cup {NoKey} :
            Adjust(w, c, coins, key) \/ RefuseAdjust(w, c, coins, key)

Next ==
    \/ \E w \in Workers : Pay(w) \/ CreditDirectly(w) \/ WriteAudit(w) \/ Fail(w)
    \/ \E c \in Campaigns, status \in {"active", "paused", "ended"} : SetCampaignStatus(c, status)
    \/ Tick

Spec == Init /\ [][Next]_vars

(* Every request ends, one way or another. *)
Finish(w) ==
    \/ \E p \in Payments : CreatePayment(w, p)
    \/ MarkFailed(w) \/ Redelivered(w) \/ WriteAudit(w) \/ Fail(w)

(* Of the deliveries that could credit, not every one fails. *)
Progress ==
    /\ \A w \in Workers : WF_vars(Finish(w))
    /\ SF_vars(\E w \in Workers : Complete(w))

FairSpec == Spec /\ Progress
-------------------------------------------------------------------------------
(* Properties.                                                             *)

(* What a worker may be in the middle of. *)
RequestOK(t) ==
    \/ t = Idle
    \/ \E c \in Campaigns, coins \in Coins : t = CheckoutRequest(c, coins)
    \/ \E p \in Payments, charge \in Charges, outcome \in Outcomes :
            t = WebhookRequest(p, charge, outcome) /\ payment[p] # NoPayment
    \/ \E ref \in Refs, answer \in Answers : t = AuditRequest(ref, answer)

(* Every variable holds what its column may hold (schema.prisma 325-367),   *)
(* and a webhook in flight is about a payment that was minted.              *)
TypeOK ==
    /\ campaign \in [Campaigns -> {"active", "paused", "ended"}]
    /\ payment \in [Payments -> PaymentRows \cup {NoPayment}]
    /\ balance \in [Accounts -> Int]
    /\ \A e \in entries : e.account \in Accounts /\ e.amount \in Int /\ e.ref \in Refs
    /\ audits \in [Refs -> 0 .. MaxAudits]
    /\ told \in Answers \cup {Nothing}
    /\ now \in Times
    /\ DOMAIN tx = Workers /\ \A w \in Workers : RequestOK(tx[w])

(* A payment is completed exactly when its coins are in the budget it was   *)
(* bought for: no redelivery credits twice, no late failure undoes a        *)
(* credit, no failed payment was credited (payments.repository.ts 42-74).   *)
CreditedIffCompleted ==
    \A p \in Payments :
        UnderRef(entries, PaymentRef(p)) =
            IF payment[p].status = "completed"
            THEN FundingEntries(payment[p].campaign, payment[p].coins, PaymentRef(p))
            ELSE {}

(* The inbox hears of a payment once, from the delivery that credited it,   *)
(* however many others saw it completed (payments.service.ts 88-102).       *)
AuditedOnce ==
    \A p \in Payments :
        LET ref == PaymentRef(p)
            writers == {w \in Workers : tx[w].op = "audit" /\ tx[w].ref = ref}
        IN  audits[ref] + Cardinality(writers) <= (IF payment[p].status = "completed" THEN 1 ELSE 0)

(* What was answered need not be sent again: a payment the provider was told *)
(* is credited is completed and in the books, one it was told anything of   *)
(* waits for no report, and a movement a client was told of under its key   *)
(* is in the books.  The answer goes out after the audit, statements after  *)
(* the commit it speaks of (payments.service.ts 76-108, portal.service.ts   *)
(* 220-234).  A replay and a failure say no more than that the payment is   *)
(* decided: a success that comes after a failure is answered completed, as  *)
(* a replay, of a payment that was never credited (103-108).                *)
AcknowledgedIsDone ==
    /\ \A p \in Payments :
            /\ told = Told("webhook", p, "completed")
                    => payment[p].status = "completed" /\ PostedUnder(PaymentRef(p))
            /\ told \in {Told("webhook", p, "replay"), Told("webhook", p, "failed")}
                    => payment[p].status \in {"completed", "failed"}
    /\ \A c \in Campaigns, key \in Keys :
            /\ told = Told("fund", <<c, key>>, "ok") => PostedUnder(FundRef(c, key))
            /\ told = Told("adjust", <<c, key>>, "ok") => PostedUnder(AdjustRef(c, key))

(* Funding implements Deposits. *)
Promise == INSTANCE Deposits WITH
    Ids <- Refs,
    budget <- [c \in Campaigns |-> balance[CampaignAccount(c)]],
    outside <- balance[ExternalFunding],
    done <- {e.ref : e \in entries}

(* Every movement lands whole and once, under whichever of the three ways   *)
(* of funding, and none takes a budget below zero.                          *)
KeepsDeposits == Promise!Spec

(* The provider goes on reporting the success of p under one charge, to     *)
(* whichever worker is free.                                                *)
Reported(p, charge) == SF_vars(\E w \in Workers : Deliver(w, p, charge, "succeeded"))

(* A payment whose success the provider keeps reporting under a charge is   *)
(* decided, unless the charge is another payment's: then every delivery of  *)
(* it fails on the unique index, and nothing more is promised               *)
(* (payments.repository.ts 61-74).  Of other payments, and of other charges *)
(* of this one, the provider need not report anything.                      *)
ReportedIsDecided ==
    \A p \in Payments, charge \in Charges :
        Reported(p, charge) =>
            (payment[p].status = "pending" ~>
                payment[p].status # "pending" \/ ChargeTaken(charge, p))
===============================================================================
