----------------------------- MODULE Withdrawals ------------------------------
(***************************************************************************)
(* How coins go out: a publisher's request, tested against the part of its *)
(* balance that has settled and is not yet asked for, and the admin's      *)
(* decision, which pays it or turns it down.                               *)
(*                                                                         *)
(* A worker serves one request at a time, cut where another transaction    *)
(* can come between two statements: after each row lock is taken and       *)
(* before the audit entry, which follows the commit.  Every credit is of   *)
(* one coin; a larger one is several.                                      *)
(***************************************************************************)
EXTENDS Integers, FiniteSets, Functions

CONSTANTS
    Publishers, Ids, Workers,
    Coins,          \* what may be asked for
    MaxEarned       \* bound: coins the money path pays one publisher

Payouts == "external:payouts"

ASSUME WithdrawalsAssumption ==
    /\ Payouts \notin Publishers       \* a publisher's account is "publisher:{id}"
    /\ Coins \subseteq Nat \ {0}        \* withdrawals_coins_check
    /\ MaxEarned \in Nat
    /\ IsFiniteSet(Ids)

VARIABLES
    balance,        \* account_balances of the publishers and external:payouts
    recent,         \* credits younger than SETTLEMENT_DELAY_DAYS
    earned,         \* all credits so far
    withdrawal,     \* withdrawals
    audits,         \* audit_log: entries of an action on a withdrawal
    tx              \* what each worker is in the middle of

vars == <<balance, recent, earned, withdrawal, audits, tx>>
-------------------------------------------------------------------------------
NoWithdrawal == [status |-> "none"]
Requested(p, coins) == [status |-> "requested", publisher |-> p, coins |-> coins]
Withdrawal ==
    [status : {"requested", "paid", "rejected"}, publisher : Publishers, coins : Coins]

Actions == {"withdrawal.request", "withdrawal.pay", "withdrawal.reject"}

Idle == [op |-> "none"]
(* createWithdrawal holding the balance row, with the balance it read.      *)
Asking(p, coins) == [op |-> "ask", publisher |-> p, coins |-> coins, balance |-> balance[p]]
(* payWithdrawal holding the withdrawal's row. *)
Paying(id) == [op |-> "pay", id |-> id]
Auditing(action, id) == [op |-> "audit", action |-> action, id |-> id]

Go(w, t) == tx' = [tx EXCEPT ![w] = t]

(* Mutation: the balance read as the dashboard reads it, lock = false. *)
BalanceUnlocked(p) == TRUE

(* FOR UPDATE on the publisher's balance. *)
BalanceFree(p) == \A w \in Workers : tx[w].op = "ask" => tx[w].publisher # p

(* The row lock of the UPDATE that tests and flips the status. *)
RowFree(id) == \A w \in Workers : tx[w].op = "pay" => tx[w].id # id

Open(p) == {id \in Ids : withdrawal[id].status = "requested" /\ withdrawal[id].publisher = p}
Queued(p) == SumFunctionOnSet([id \in Open(p) |-> withdrawal[id].coins], Open(p))

(* Mutation: what is already asked for is not deducted. *)
AvailableOverQueue(bal, p) == bal - recent[p]

(* withdrawable; a request is for at least one coin, so max(0, ...) is moot. *)
Available(bal, p) == bal - recent[p] - Queued(p)

(* Mutation: the legs the wrong way round. *)
AfterPayingBack(p, coins) == [balance EXCEPT ![p] = @ + coins, ![Payouts] = @ - coins]

AfterPaying(p, coins) == [balance EXCEPT ![p] = @ - coins, ![Payouts] = @ + coins]

-------------------------------------------------------------------------------
(* The money path credits the publisher, under the lock of its balance.    *)
Earn(p) ==
    /\ BalanceFree(p) /\ earned[p] < MaxEarned
    /\ balance' = [balance EXCEPT ![p] = @ + 1]
    /\ recent' = [recent EXCEPT ![p] = @ + 1]
    /\ earned' = [earned EXCEPT ![p] = @ + 1]
    /\ UNCHANGED <<withdrawal, audits, tx>>

(* Time passes: a credit leaves the settlement window. *)
Settle(p) ==
    /\ recent[p] > 0
    /\ recent' = [recent EXCEPT ![p] = @ - 1]
    /\ UNCHANGED <<balance, earned, withdrawal, audits, tx>>

(* Bound: an id is left for every request under way. *)
IdsLeft ==
    Cardinality({id \in Ids : withdrawal[id] = NoWithdrawal})
        > Cardinality({w \in Workers : tx[w].op = "ask"})

(* createWithdrawal: the balance, read under its lock. *)
BeginRequest(w, p, coins) ==
    /\ tx[w] = Idle /\ IdsLeft
    /\ BalanceFree(p)
    /\ Go(w, Asking(p, coins))
    /\ UNCHANGED <<balance, recent, earned, withdrawal, audits>>

(* Mutation: what is queued is read FOR UPDATE too. *)
RequestLockingQueue(w, id) ==
    LET p == tx[w].publisher IN
    /\ tx[w].op = "ask"
    /\ withdrawal[id] = NoWithdrawal
    /\ \A open \in Open(p) : RowFree(open)
    /\ tx[w].coins <= Available(tx[w].balance, p)
    /\ withdrawal' = [withdrawal EXCEPT ![id] = Requested(p, tx[w].coins)]
    /\ Go(w, Auditing("withdrawal.request", id))
    /\ UNCHANGED <<balance, recent, earned, audits>>

(* Then what is held and what is queued, in a second statement. *)
Request(w, id) ==
    LET p == tx[w].publisher IN
    /\ tx[w].op = "ask"
    /\ withdrawal[id] = NoWithdrawal
    /\ tx[w].coins <= Available(tx[w].balance, p)
    /\ withdrawal' = [withdrawal EXCEPT ![id] = Requested(p, tx[w].coins)]
    /\ Go(w, Auditing("withdrawal.request", id))
    /\ UNCHANGED <<balance, recent, earned, audits>>

RefuseRequest(w) ==
    /\ tx[w].op = "ask"
    /\ tx[w].coins > Available(tx[w].balance, tx[w].publisher)
    /\ Go(w, Idle)
    /\ UNCHANGED <<balance, recent, earned, withdrawal, audits>>

(* payWithdrawal: the UPDATE takes the row; another request sees the old    *)
(* status until the commit.  Where it finds none requested, it answers 404. *)
BeginPay(w, id) ==
    /\ tx[w] = Idle
    /\ RowFree(id) /\ withdrawal[id].status = "requested"
    /\ Go(w, Paying(id))
    /\ UNCHANGED <<balance, recent, earned, withdrawal, audits>>

Covered(w) == withdrawal[tx[w].id].coins <= balance[withdrawal[tx[w].id].publisher]

(* Then the balance, its two postings and the commit. *)
Pay(w) ==
    LET row == withdrawal[tx[w].id] IN
    /\ tx[w].op = "pay" /\ BalanceFree(row.publisher) /\ Covered(w)
    /\ balance' = AfterPaying(row.publisher, row.coins)
    /\ withdrawal' = [withdrawal EXCEPT ![tx[w].id].status = "paid"]
    /\ Go(w, Auditing("withdrawal.pay", tx[w].id))
    /\ UNCHANGED <<recent, earned, audits>>

(* Mutation: the note is written, and the status with it, by id alone. *)
RejectBlindly(w, id) ==
    /\ tx[w] = Idle
    /\ RowFree(id) /\ withdrawal[id] # NoWithdrawal
    /\ withdrawal' = [withdrawal EXCEPT ![id].status = "rejected"]
    /\ Go(w, Auditing("withdrawal.reject", id))
    /\ UNCHANGED <<balance, recent, earned, audits>>

(* rejectWithdrawal: one UPDATE, which takes no balance. *)
Reject(w, id) ==
    /\ tx[w] = Idle
    /\ RowFree(id) /\ withdrawal[id].status = "requested"
    /\ withdrawal' = [withdrawal EXCEPT ![id].status = "rejected"]
    /\ Go(w, Auditing("withdrawal.reject", id))
    /\ UNCHANGED <<balance, recent, earned, audits>>

(* The audit entry, after the commit it tells of. *)
WriteAudit(w) ==
    /\ tx[w].op = "audit"
    /\ audits' = [audits EXCEPT ![<<tx[w].action, tx[w].id>>] = @ + 1]
    /\ Go(w, Idle)
    /\ UNCHANGED <<balance, recent, earned, withdrawal>>

(* A process that dies, a lock that times out, a balance that no longer     *)
(* covers the withdrawal: rolled back.  After the commit only the audit     *)
(* entry is lost.                                                           *)
Fail(w) ==
    /\ tx[w] # Idle
    /\ Go(w, Idle)
    /\ UNCHANGED <<balance, recent, earned, withdrawal, audits>>

-------------------------------------------------------------------------------
Init ==
    /\ balance = [a \in Publishers \cup {Payouts} |-> 0]
    /\ recent = [p \in Publishers |-> 0]
    /\ earned = [p \in Publishers |-> 0]
    /\ withdrawal = [id \in Ids |-> NoWithdrawal]
    /\ audits = [entry \in Actions \X Ids |-> 0]
    /\ tx = [w \in Workers |-> Idle]

Finish(w) == RefuseRequest(w) \/ Pay(w) \/ WriteAudit(w) \/ \E id \in Ids : Request(w, id)

Next ==
    \/ \E p \in Publishers : Earn(p) \/ Settle(p)
    \/ \E w \in Workers :
        \/ \E p \in Publishers, coins \in Coins : BeginRequest(w, p, coins)
        \/ \E id \in Ids : BeginPay(w, id) \/ Reject(w, id)
        \/ Finish(w) \/ Fail(w)

Spec == Init /\ [][Next]_vars

(* PostgreSQL serves those that wait for a row in the order they came, so a *)
(* step that waits for one is not overtaken for ever.                       *)
FairSpec == Spec /\ \A w \in Workers : SF_vars(Finish(w))
-------------------------------------------------------------------------------
(* Properties.                                                             *)

RequestOK(t) ==
    \/ t = Idle
    \/ \E p \in Publishers, coins \in Coins : t = Asking(p, coins)
    \/ \E id \in Ids : t = Paying(id) /\ withdrawal[id].status = "requested"
    \/ \E id \in Ids, action \in Actions : t = Auditing(action, id) /\ withdrawal[id] # NoWithdrawal

(* Every column holds what it may (schema.prisma 341-346, 371-387); the      *)
(* balance a request read is the balance until it ends, and a withdrawal    *)
(* being paid is one nobody has decided.                                    *)
TypeOK ==
    /\ balance \in [Publishers \cup {Payouts} -> Nat]
    /\ recent \in [Publishers -> Nat]
    /\ earned \in [Publishers -> 0 .. MaxEarned]
    /\ withdrawal \in [Ids -> Withdrawal \cup {NoWithdrawal}]
    /\ audits \in [Actions \X Ids -> Nat]
    /\ DOMAIN tx = Workers /\ \A w \in Workers : RequestOK(tx[w])

(* The settled part of a balance covers everything queued against it, so    *)
(* no payment is refused for cover and none dips into the settlement window *)
(* (ledger.ts 67-82, admin.repository.ts 482-485).                          *)
QueueCovered == \A p \in Publishers : recent[p] + Queued(p) <= balance[p]

(* A withdrawal is decided once, and the inbox hears of that decision and   *)
(* of no other, whichever admins were at it (admin.repository.ts 475-498).  *)
DecidedOnce ==
    \A id \in Ids :
        LET Told(action) ==
                audits[action, id]
                    + Cardinality({w \in Workers : tx[w] = Auditing(action, id)})
            Once(action, status) == IF withdrawal[id].status = status THEN 1 ELSE 0
        IN  /\ Told("withdrawal.pay") <= Once("withdrawal.pay", "paid")
            /\ Told("withdrawal.reject") <= Once("withdrawal.reject", "rejected")

(* Withdrawals implement Purse. *)
Promise == INSTANCE Purse WITH
    held <- recent,
    free <- [p \in Publishers |-> Available(balance[p], p)],
    out <- balance[Payouts],
    request <- withdrawal

(* A coin is withdrawn once, after its window, by a request decided once:   *)
(* every step is one of the promise's or changes nothing it speaks of.      *)
KeepsPurse == Promise!Spec

(* No request waits for ever: the order in which rows are locked admits no  *)
(* circle (withdrawal, then balance; the request takes only the balance).   *)
RequestsEnd == \A w \in Workers : tx[w] # Idle ~> tx[w] = Idle
===============================================================================
