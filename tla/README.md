# The attribution platform, specified

This directory holds TLA+ modules that model the backend of the attribution
platform and one page of its dashboard, the TLC configurations that check them
on small instances, and theorems about them that TLAPS has checked. All names of files below are
relative to the repository; `backend/` means `src/backend/src/`.

- [The system](#the-system): components, state, operations, what is hard
- [The modules](#the-modules): what models what, and how it corresponds to the code
- [The runs](#the-runs): what TLC checks, on which instance, and why it is large enough
- [The proofs](#the-proofs): what holds for every value of the constants
- [What the code does that its documentation does not say](#findings)
- [What is not modelled](#what-is-not-modelled)
- [The plan](#the-plan)

## The system

A promoter funds a campaign in coins and prints QR codes. A scan of a code
leads to an install of the promoter's app, the install to a signup, and the
signup earns the *publisher* of the app a reward, debited from the campaign's
budget. In an engagement campaign a purchase or a visit claims the code
itself. A reward may be paid at the *guest* rate first and *confirmed* to the
full rate later. The platform keeps a cut of each payment.

All state is in PostgreSQL; any number of Node processes serve requests, each
request being one transaction at READ COMMITTED (`config/prisma.ts`), and
nothing but row locks, unique indexes and CHECKs keeps them apart.

| Component | State it keeps | Operations | Talks to |
|---|---|---|---|
| Partner API (`modules/partner/partner.*`) | `scans.consumed`, `installs.redeemed`, `redemptions` | first open, claim (by install, by claim id, by code), confirm | ledger (in its own transaction); reads partnerships, campaigns, codes |
| Ledger (`common/ledger.ts`, `common/rates.ts`) | `ledger_entries`, `account_balances` | ledger, payout, lockedBalance, splitFee, withdrawable | called by every module that moves coins |
| Scan redirect (`modules/public`, `common/attribution.ts`) | `scans`, `qr_codes.uses` | handleScan, code matching on the device | reads the budget and statuses |
| Portal (`modules/portal`) | campaigns, codes, partnerships with proposed rates, withdrawals | create, patch, void, fund, request and accept a partnership, propose and decide rates, ask for coins | ledger, audit |
| Admin (`modules/admin`) | every table | patch campaigns, partnerships, codes and orgs, kill switch, adjust budget, offboard, delete, pay or reject withdrawals | ledger, audit |
| Payments (`modules/payments`) | `payments` | checkout, PSP webhook | ledger, audit after the commit |
| Purchase codes (`modules/partner/issue.controller.ts`) | `qr_codes` of engagement campaigns | issue under the order's reference, void, status | read by scans and claims |
| Accounts (`modules/auth`, `partner/api-key.ts`) | organisations, keys, sessions | signup, login, reset, key rotation, suspension | guards every request |
| Rate limiter (`common/security.ts`, `config/redis.ts`) | a counter in Redis, and one per process | rateLimited, sweep | guards every public route, logins, keys |
| Audit, alerts, reconciliation | `audit_log` | audit, budgetLow, startReconciliation | written after the commit it tells of |
| Campaign page (`src/frontend/app/dashboard`) | the rows a tab was rendered with, an open dialog, a busy flag | Edit, which fans out into three calls | the API |
| Other pages, seed, `e2e-test.sh` | none | - | the API |

What is hard, and where a test hardly reaches:

- **One row locked, several read.** A claim's SELECT joins five tables and
  locks one (`FOR UPDATE OF`). If it has to queue for the lock, PostgreSQL
  re-reads the locked row alone: status and rates of the joined rows are those
  of before the wait.
- **Three paths to one reward.** A scan is spent by a first open or a legacy
  signup, an install by a signup, a code by a purchase; each locks another
  row, one with SKIP LOCKED. Double rewards are excluded by a flag on one row,
  a partial unique index on another table and the lock, together.
- **Flip first, check later.** The evidence is marked as spent before the
  budget and the user are looked at; a refusal must roll the mark back.
- **Paid in two parts.** A confirm pays what is missing up to the rate it
  reads, which may have changed since the guest fee was paid.
- **A cached balance.** `account_balances` is kept beside the entries it sums.
- **Callbacks.** The PSP delivers late, twice, and in any order.
- **Lock order.** Some transactions lock `external:funding` before a campaign's
  balance and some after; a purchase claim locks the budget before a scan.
- **Read, decide, write.** The portal and the admin validate a partnership, a
  proposal or an org in one statement and write it in another. Only what the
  second statement tests again is safe.
- **Calls that are repeated.** A booking system repeats an issue or a void, a
  browser a save, an admin a payment.
- **A guard before, an act after.** A key or a session is looked up, and what
  it allowed happens later, when the org may be suspended or gone.
- **Two counters for one limit.** Redis is lost between the two commands of
  its pipeline, and each process counts for itself until it is back.
- **A page that grows old.** A dialog saves the row it was opened on.

What makes each component correct:

- Partner API: one reward per evidence; nothing spent without payment; no
  payment without budget; a request is paid for its own publisher only; a
  reward costs one price in all.
- Ledger: balances are the sums of entries; entries under one reference sum to
  zero; a reference is used once; no budget or earnings below zero.
- Scan redirect: `max_uses` is respected under races; a voided code is dead.
- Portal and admin: a kill switch leaves no code alive; a clawback does not
  overdraw; a pair of rates is always valid; a proposal is accepted as read.
- Payments: one credit per payment; a failure does not undo a credit.
- Withdrawals: no coin is withdrawn twice or inside the settlement window; a
  request is decided once, and every request ends.
- Purchase codes: one code per order in every answer; a voided code earns
  nothing; a coupon is scanned once.
- Accounts: nothing refers to an org that was deleted; a suspended publisher
  stops earning.
- Rate limiter: a limit stands whatever Redis does, and no refusal is for ever.
- Campaign page: one edit credits once; the buttons come back.
- Audit: each committed movement has an entry, unless the process died.
- Locks: of the money path, funding, withdrawals and the kill switch it is known
  which requests may deadlock, and no others do.

The file `PROJECT.json` lists every hazard at its line, with the properties
that would show it going wrong or the reason why none does yet.

## The modules

| Module | Models |
|---|---|
| `LedgerBook` | `common/ledger.ts` and `splitFee`: accounts, entries, postings and the split, as operators |
| `Attribution` | the money path: scan, first open, claim, confirm, and what promoters and admins do meanwhile |
| `Rewards` | the abstract specification: what the platform promises about money |
| `MCAttribution` | small instances for TLC |
| `SumProofs` | sums over finite sets: what the totals of the ledger and of the queue rest on |
| `AttributionProofs` | types, the split, no overdraft; locks suffice, one reward, nothing burned; a voided code earns nothing and `Attribution` implements `Rewards`; the books agree and balance, and a reward costs one price |
| `Funding` | how coins come in: checkout, webhook, direct funding, adjustment, and their audit entries |
| `Deposits` | the abstract specification of funding |
| `MCFunding` | small instances for TLC |
| `FundingProofs` | type correctness; completed means credited; `Funding` implements `Deposits`; a payment is told of once; what is answered is done |
| `Withdrawals`, `MCWithdrawals` | how coins go out: request, settlement window, payment, rejection, and their audit entries |
| `Purse` | the abstract specification of withdrawing |
| `WithdrawalsProofs` | type correctness; `Withdrawals` implements `Purse`; the queue is covered; decided once |
| `Negotiation`, `MCNegotiation` | the price and status of a partnership: proposal, decision, acceptance, the admin's patch |
| `Issuance`, `MCIssuance` | the codes of an engagement campaign: issue, void, scan, claim, kill switch |
| `PortalProofs` | of `Issuance`: a coupon is scanned once, one code per order, a void is final; of `Negotiation`: the pair rule, prices move by consent, overrides that no proposal crosses stand, suspensions hold |
| `Accounts`, `MCAccounts` | tenants: signup, suspension, offboarding, deletion, keys, against their requests in flight |
| `RateLimiter`, `MCRateLimiter` | one key of the limiter, in Redis and in each process |
| `AccessProofs` | of `Accounts`: campaigns have partnerships, nothing refers to an org that was deleted; of `RateLimiter`: types, no counter grants more than two windows in the time of one |
| `LockOrder`, `MCLockOrder` | the row locks of the transactions that take more than one, offboarding excepted, in the order they take them, and who waits for whom |
| `LockOrderProofs` | no two hold what excludes the other; of the requests modelled, the two known pairs are the only ones that deadlock |
| `Console`, `MCConsole` | the campaign page of the dashboard: tabs, dialogs and the calls of a save |
| `ConsoleProofs` | no save takes coins out; one edit of one page credits once |

How they fit together. `Attribution` and `Funding` both extend `LedgerBook` and
share the accounts and postings. They meet in the balance of a campaign:
`Attribution` sees funding as `Credit` under a reference of its own, and
`Funding` is where that reference, and what happens when it is not fresh, is
modelled. `Withdrawals` starts where `Attribution` ends, at a publisher's
balance: a payout is its `Earn`. The cards of `Negotiation` are the
`RateCards` of `Attribution`, whose `PatchPartnership` lets any valid card
replace any other; that every card is valid is what `Negotiation` shows. A
code is minted and voided in `Issuance` and any code is there from the start in
`Attribution`; `Issuance` has claims as short as `Attribution` allows them to
be. `Accounts` says who may make a request at all. `LockOrder` has one
transaction for each of those of the other modules and shows what they leave
to `Abort` and `Fail`: who waits, and for whom.

### State of the money path

| Variable of `Attribution` | In the database |
|---|---|
| `partnership[p]` | `partnerships.status` and the four rates, as one `rates` record |
| `campaign[c]` | `campaigns.status` |
| `voided[q]` | `qr_codes.voided` |
| `scan[s]` | the row of `scans`: `"unseen"` (no row), `"open"`, `"consumed"` |
| `install[s]` | the row of `installs` with that scan: `"none"`, `"bound"`, `"redeemed"` |
| `redemptions` | `redemptions`, `conversion_event` being its `kind`; `coins`, `identified` |
| `balance`, `entries` | `account_balances`, `ledger_entries` |
| `tx[w]` | what worker `w`'s transaction has read and whether it holds its row lock |

`qr_codes.uses` is not a variable: it is raised in the transaction that
inserts the scan, so it is the number of scans of the code (`Uses`).

### Actions of the money path

A request is a record: `Begin...` puts it in `tx[w]`, and one of `Settle...`,
`BudgetExhausted`, `Replay` and `Abort` ends it.

| Code | Actions |
|---|---|
| `handleScan` | `BeginScan` (page and guards), `SettleScan` (conditional UPDATE and INSERT) |
| `byClaimId` (`matchScan`, `claimAtSignup`) | `BeginMatch` |
| `claimInstall`, `claimCode`, the SELECT of `confirm` | `BeginLocking`, then `Acquire` when the row was locked |
| `bindInstall` | `SettleFirstOpen` |
| `recordAcquisition` | `SettleAcquisition` |
| `recordEngagement` | `SettleEngagement` |
| `confirm` | `SettleConfirm` |
| `Rollback('budget_exhausted')`, P2002, other errors | `BudgetExhausted`, `Replay`, `Abort` |
| `patchCampaign` (both), `killCampaign` | `SetCampaignStatus`, `KillCampaign` |
| `patchPartnership`, accepted proposals | `PatchPartnership` |
| `voidQr`, `patchQr`, the issue API's void | `SetVoided` |
| `fundCampaign`, `adjustBudget` | `FundCampaign`, `AdjustBudget` |

Where a request is cut, and why there. A transaction is cut at the one place
where it may wait: between the SELECT that locks its evidence and the rest.
From `lockedBalance` to COMMIT it holds the campaign's balance row, which
every transaction that touches the same budget needs; what else that part
reads (the evidence row, the unique index entries) it holds as well. So it is
one step, and the wait for the balance row is the time between `Begin...` or
`Acquire` and `Settle...`. What was read before the wait (`rates`, `live`) is
kept in `tx[w]` and never read again.

`Takeable` is the part of a SELECT's condition on the locked row, which
PostgreSQL evaluates again when the row comes free; `InScope` and `live` are
the part on joined rows, which it does not. That split is what most of the
properties turn on.

Abstractions:

- A time window that has lapsed (scan, install, grace period), a deadlock
  victim, a statement timeout and a dead process are `Abort`: the transaction
  leaves no trace. A model with clocks would have fewer behaviours.
- The partial unique indexes of `redemptions` are guards of the `Settle...`
  actions, whose failure is `Replay`.
- The CHECK of `account_balances` (no negative balance), UNIQUE (`scan_id`) of
  `installs` and UNIQUE (`account`, `ref`) of `ledger_entries` are left out.
  `NoOverdraft`, `EvidenceSpentIffPaid` and `RefsBalance` show that they would
  never fire on this path.
- A funding gets a reference of its own. What happens when two share one is
  part of `Funding`.
- Coins are unbounded integers here; the columns have 32 bits.
- Prices come as whole cards satisfying `ValidCard`, which `validateRates` and
  the CHECKs of `partnerships` enforce together.

### Funding

| Variable of `Funding` | In the code |
|---|---|
| `campaign[c]` | `campaigns.status` |
| `payment[p]` | the row of `payments`, or `NoPayment`; `charge` is `provider_ref` |
| `balance`, `entries` | `account_balances`, `ledger_entries` |
| `audits[ref]` | how many rows of `audit_log` tell of the movement `ref` |
| `told` | what the last step answered its caller, if it answered one |
| `now` | `Date.now()`, which mints the reference of a request without a key |
| `tx[w]` | the request worker `w` is in the middle of |

| Code | Actions |
|---|---|
| `checkout` | `BeginCheckout` (the campaign is read), `CreatePayment` |
| `webhook` | `Deliver` (up to `findPayment`), then `MarkFailed`, `Complete` or `Redelivered` |
| `fund`, `fundCampaign` | `Fund`: posted, swallowed under its key, or a conflict |
| `adjust`, `adjustBudget` | `Adjust`, `RefuseAdjust` |
| `auditFunding`, `audit` | `WriteAudit` |
| a crash, a timeout, a unique charge or a balance that overflows | `Fail` |

Every statement of these handlers outside a transaction is a step of its own,
and each transaction is one step: its first UPDATE or `lockedBalance` (or, in
`fundCampaign`, the insert into the unique index) takes what its outcome
depends on and holds it to the COMMIT. The provider may deliver any report it
can sign, about any payment that exists, under any charge, at any time; it need
not deliver any. An answer `replay` is the code's `status: 'completed'` with
`replay: true`, and `completed` the one with `replay: false`.

`Deposits` has a budget per campaign, what is outside and the identities that
were used; its one action moves coins between them under an identity not used
before and leaves no budget below zero. `KeepsDeposits` says that `Funding`
implements it, an identity being a reference of the ledger.

### Withdrawals

| Variable of `Withdrawals` | In the code |
|---|---|
| `balance[p]`, `balance[Payouts]` | `account_balances` |
| `recent[p]` | the credits younger than `SETTLEMENT_DELAY_DAYS`, which `withdrawable` sums |
| `withdrawal[id]` | the row of `withdrawals`, or `NoWithdrawal` |
| `audits[action, id]` | rows of `audit_log` |
| `tx[w]` | holding the balance (`Asking`), holding the withdrawal's row (`Paying`), or committed (`Auditing`) |

| Code | Actions |
|---|---|
| `requestWithdrawal`, `createWithdrawal` | `BeginRequest` (the lock and the balance), `Request` (held and queued, in a second statement, and the row), `RefuseRequest` |
| `payWithdrawal` | `BeginPay` (the conditional UPDATE), `Pay` (the balance and the postings) |
| `rejectWithdrawal` | `Reject` |
| `audit` after each | `WriteAudit` |
| the money path, and the passing of days | `Earn`, `Settle` |
| a crash, a timeout | `Fail` |

`Purse` has, for every publisher, what is held and what is free, what has gone
out, and the requests. `KeepsPurse` maps `withdrawable` to what is free, so the
refinement says that the number the code computes behaves like a purse.

### Partnerships

`Negotiation` has `status`, `price` and `offer` of a partnership (the proposed
columns, or `NoOffer`) and `tx[w]`, a request with the row it has read.
`proposeRates`, `decideRates` and `patchPartnership` are each two actions,
`Begin...` and the UPDATE, with everything else free to come between;
`acceptPartnership` is one statement and one action. The compare-and-set of
`decideRates` is the guard of `Decide`, and `LookAgain` is its conflict. The
admin's patch writes every rate, resolved against the row it read (`Patched`),
and clears a proposal if there was one then (`ClearsOffer`). The engagement
rate and the grace days travel with the pair. Two variables are history.
`crossed` holds the workers whose patch has had a proposal land on its row
since it read it. `overruled` holds the partnerships whose price was last moved
by an override (`Reprices`) that was not crossed, with nobody having proposed
since. Only of these is `LoneOverrideStands` said: an override that is crossed
may have seen no offer and leaves one open, and what follows is listed
[below](#findings).

### Purchase codes

| Variable of `Issuance` | In the code |
|---|---|
| `open` | the campaign and its partnership are active |
| `refs` | rows of `qr_codes` with an `issued_ref`, as pairs of order and code |
| `printed`, `voided`, `uses` | the other rows, and their columns |
| `paid`, `claiming` | codes with an engagement redemption; codes whose row a claim holds |
| `req[r]`, `told` | a request between two statements; what was ever answered |

`issue` is `BeginIssue`, then `Mint` or, when the unique index says so,
`Collide` and `Replay`; `void` is `BeginVoid` (with `find`) and `Void`;
`handleScan` is `BeginScan` and `Scan`; a claim is `BeginClaim`, which takes the
row, and `EndClaim`. `CreateQr`, `VoidQr`, `Unvoid`, `SetStatus` and
`KillCampaign` are what the portal and the admin do. A mint whose answer is
lost leaves `told` as it is, and the booking system may send the order again.
Two assumptions: an admin, whose `patchQr` can also write `max_uses` and the
expiry, does not raise the limit of a coupon ("scanned once" is about the limit
it was issued with); and a code drawn at random is not taken yet (the collision
would be looked up as a replay, and no row be found).

### Accounts

`org[o]` is whether the row is there and `orgs.suspended`; `keyed` the orgs
with a key; `partnership`, `campaign` and `scanned` what an org has with
another. A request is let in by `HasSession` (`AuthGuard`) or `HoldsKey`
(`orgFromKey`), stays in `req[w]`, and goes on with its next statement:
`CreatePartnership`, `Accept`, `CreateCampaign`, `PatchCampaign`, `Rotate`,
`Claim`, and `Delete` of the admin, which counts first. `SetSuspended`,
`RotateFor`, `Offboard`, `SetPartnership` and `SetCampaign` are statements or
transactions of the admin. UNIQUE and the foreign keys of a partnership are
`PairFree`, ON DELETE RESTRICT is `Deletable`. One campaign stands for those of
a partnership and one scan for those not claimed.

### Rate limiter

`counter` is the key in Redis with what is left of its TTL, `bucket[i]` the
entry of process `i`'s map. `Incr` and `Reply` are the two commands of the
pipeline, with the loss of the connection (`Redis`) before, between or after
them; `Fallback` is a request that counts locally, and `PEXPIRE` may have
arrived or not; `Sweep` is the timer of the minute, `Tick` is time. `granted`
is history: how many requests each counter let in within the last ticks, for
each number of ticks up to a window. The limits of the routes (30,
300, 20, ...) are values of `Limit`; one key is one model.

### Lock order

A request of `LockOrder` is the sequence of the row locks its statements take:
FOR UPDATE, an UPDATE that leaves the keys alone, and the key share an INSERT
takes of each row that a foreign key of it names. `Conflict` is PostgreSQL's
table of these modes, as far as these statements have them: a foreign key waits
for FOR UPDATE only, and makes nobody but FOR UPDATE wait. A worker takes its locks one by one (`Advance`), keeps
them until it commits or aborts, and waits while another worker holds one that
conflicts. A match takes its scan at `Begin` or not at all (SKIP LOCKED).
`scan[s]` is what of the evidence decides whether a request exists at all.

Left out: statements that lock a single row and commit; the offboarding of an
org; waiting in a row's queue
behind one that itself only waits (PostgreSQL may re-order those); the wait
of two requests for one entry of a unique index, which a direct funding meets
holding nothing, and an adjustment behind the budget's lock, where its rival is
already stopped.

Offboarding (`admin.repository.ts` 211-224) ends all campaigns of an org in one
UPDATE, which locks them in whatever order its plan finds them. If the promoter
and the publisher of one partnership are offboarded at once and it has two
campaigns, each may hold the one the other waits for. So what is said here of
deadlocks is said of the listed requests. With any of these an offboarding does
not lock up: it waits for patches of its org and for patches and kills of its
campaigns, and none of them ever waits for a row it holds.

### The campaign page

| Variable of `Console` | In the code |
|---|---|
| `status`, `budget`, `posted` | what the API keeps: the campaign, its balance, the keys of top-ups |
| `page[t]`, `loads` | the row a tab was rendered with |
| `dialog[t]` | the row its Edit dialog was opened on |
| `save[a]` | the calls a save has still to send |
| `busy[t]` | `busy` of `CampaignsClient` |
| `credits` | history: how often the top-up of one page to one target was credited |

`Edit` is `editCampaign` from the confirmation on; `PatchCampaign`, `Fund`,
`FundLost`, `ProposeRates` are its three calls as the API applies them, each of
which may fail instead, or be applied and its answer lost; `Finish` is `act`'s
`catch` and `finally`. `Render`, `OpenEdit` and `Cancel` are the tab; `Spend` and
`KillCampaign` are the rest of the world. Edit stays enabled while a save is
under way, so several saves of one tab overlap.

### The promise

`Rewards` has five variables (budgets, earnings, fees, what came from outside,
the rewards granted) and three actions. `Grant` adds a reward that conflicts
with none granted before, paid in one go from a budget that covers it, to the
publisher of its campaign, less a cut that is not negative; `MakeFull` pays
more for a reward granted in part, once; `Fund` moves coins in or out without
going below zero. There are no requests, locks, scans' states or installs in
it. `Attribution!Promise` is its instance under the refinement mapping (a
balance per account becomes the five variables, a redemption loses its price),
and `KeepsPromise` says that the money path implements it.

## The runs

Twelve runs, one of which ends in a counterexample. "States" are distinct
states, as TLC reports them.

| Run (module) | Instance | States | Shows |
|---|---|---|---|
| `claims` (`MCAttribution`) | engagement campaign, 2 workers, 2 users, 2 scans of a code, budget 6 | 288,936 | types; no overdraft; one reward per evidence by every path; nothing burned; locks suffice; a voided code is dead |
| `books` (`MCAttribution`) | acquisition campaign, 2 publishers, 2 workers, 2 users, 1 scan, 3 price cards, a top-up or a clawback | 132,030 | balances match entries; references balance and are used once; a reward is charged one price; refinement of `Rewards` |
| `webhooks` (`MCFunding`) | 2 workers, 2 payments, 2 charges, any report, fairness | 19,656 | types; completed means credited; audited once; a payment whose success is reported again and again under a charge is decided, unless the charge is another payment's |
| `deposits` (`MCFunding`) | 1 worker, 1 payment, direct funding and a clawback, one key or none, 2 milliseconds | 92,244 | refinement of `Deposits` by all three ways; a credit that was acknowledged is in the books |
| `withdrawals` (`MCWithdrawals`) | 2 publishers, 2 workers, 2 withdrawals of 1 or 2 coins | 87,948 | types; the queue is covered; decided once; refinement of `Purse`; every request ends |
| `negotiation` (`MCNegotiation`) | 1 partnership, 2 workers, 2 coin rates, 2 guest rates | 388,620 | the pair rule; prices move by consent; overrides that no proposal crosses stand; suspensions hold |
| `issuance` (`MCIssuance`) | 2 orders, 2 codes to mint, 1 printed code, 2 requests | 223,708 | types and the scan of a coupon; one code per order; a void is final |
| `accounts` (`MCAccounts`) | 1 promoter, 1 publisher, 3 workers | 537,034 | types; no orphans; a suspended publisher stops earning |
| `limiter` (`MCRateLimiter`) | 2 processes, a request at each, limit 2, window 2 | 375,934 | types; a limit stands whatever Redis does; refusals end |
| `locks` (`MCLockOrder`) | 3 workers, 2 campaigns, 1 code, 2 scans, 1 publisher | 258,957 | no two hold what excludes the other; of the requests modelled no others than the known pairs deadlock |
| `console` (`MCConsole`) | 1 tab, 2 saves, 2 renderings, 2 budgets | 507,247 | types; one edit credits once; the buttons come back |
| `rename_reopens` (`MCConsole`) | as `console` | - | a finding: see [below](#findings) |

The bounds, and why they are enough:

- **Money path.** Two workers suffice for every race of the code: a race is
  between a request that holds a row and one that has read it, or between a
  request and a settings change, which needs no worker. An engagement campaign
  pays by both paths (an install from its code is an acquisition), so `claims`
  has the acquisition races as well. Its prices are 4, 1 and 2 with a budget of
  6: a full fee and a purchase fit, two full fees do not, so exhaustion and
  success race. The basis points make the cuts of 1 and 3 inexact. `books`
  needs its third card for the confirm whose rate came down (`Cheap`) and the
  one whose rate went up (`Dear`), and its second publisher, who has a key and
  no campaign, for the refinement: nobody is paid for another's scan.
  `MaxFundings` bounds the references under which a campaign is credited, the
  first included; one after it is enough to race with a payout.
- **Funding.** Two deliveries are what can race for one row, and a third would
  find what the second found; the unique index is between two rows. `Capacity`
  is 8 where the columns have 2^31, with coins of 3: a third movement does not
  fit, so the overflow is in `deposits` and not in `webhooks`, whose two
  payments must fit to be decided. `MaxAudits` bounds the entries of one
  movement and is one more than `AuditedOnce` allows; `MaxClock` bounds the
  milliseconds.
- **Withdrawals.** `MaxEarned` bounds the credits: two let a request of 1 leave
  1, two requests of 1 use up everything and one of 2 needs both. Two
  publishers, so that one's queue could be taken for the other's.
- **Negotiation.** Two handlers are two reads and two writes in any order,
  which is all that one row admits; the guest rate 3 exceeds the coin rate 2
  and not 3, so half of the mixed pairs break the rule.
- **Issuance.** Two orders, for a code taken for the wrong one; two requests,
  for two calls of one order; a code to spare is what the loser of the race
  would mint. `MaxScans` bounds the scans of a printed code.
- **Accounts.** Three workers: an admin's delete between its two statements, a
  promoter's request between its two, and a third on a campaign. A second
  promoter shares nothing with the first but the publisher.
- **Rate limiter.** With limit 2 the counter has a first request (which sets
  the window), one that is the last let in, and one that is refused; a window
  of 2 ticks has a middle. Two processes are one more than Redis replaces.
- **Locks.** Three workers show circles of two and of three; four of the five
  kinds of row that two transactions share come once per campaign, and the
  second campaign is there because all campaigns share `external:funding` and
  `platform:fees`. Two scans of one code let two requests of one campaign hold
  different evidence.
- **Console.** Two saves of one dialog's page are what can overlap; two
  renderings are a stale page and a fresh one.

Symmetry is used in `claims`, `books` (workers, users), `negotiation`,
`locks` (workers) and `issuance` (orders, codes to mint, requests), none of
which checks liveness.

Every property of a passing run has a mutant in `PROJECT.json`: a definition
changed the way a slip in the code would change it (a lock dropped, a guard
not read again, a leg of the payout forgotten, a status written by id alone)
with which TLC finds the property violated.

Fairness. The money path claims no liveness: a request may always be aborted,
nothing retries it, and whether the publisher calls again is outside the
system. The others, and what justifies them:

- `webhooks`, `Progress`: every request in flight ends (weak fairness of the
  actions that end one, `Fail` included: a statement has a timeout, and a
  process that dies takes its requests with it), and of the deliveries that
  could credit not every one fails (strong fairness of `Complete`). Nothing is
  assumed of the provider. That it goes on reporting the success of one payment
  under one charge is the premise of the property (`Reported`, for each payment
  and each charge by itself), which is what a provider does that is not answered
  200; of other payments and charges it may report what it likes, or nothing. A
  failure may come first, which is a decision too. If the charge is another
  payment's, every delivery fails on the unique index and the payment stays
  pending: `ReportedIsDecided` excepts just that (`ChargeTaken`), and is violated
  without the exception.
- `withdrawals`: strong fairness of a worker's next step, `Fail` excluded:
  PostgreSQL serves those that wait for a row in the order they came, so a
  step that can be taken again and again is taken. That all requests end is
  then a statement about the order of the locks alone.
- `limiter`: time passes (weak fairness of `Tick`). `RefusalsEnd` assumes that
  somebody goes on asking.
- `console`: a browser settles every call it has sent, with an answer or an
  error (weak fairness of `Answer`).
- `accounts`, `SuspendedStopsEarning` is of the form "if suspended from some
  point on, then from some point on no claim is paid". No fairness is assumed: a
  request that was let in earlier may end at any time, but only once.

Deadlock is checked in all runs but two: in `withdrawals` every coin is earned
and settled and every request decided in the end, and in `accounts` every org
may be deleted.

## The proofs

TLAPS proves the following for all values of the constants, from the
assumptions that each module states about its own (`ConstantsAssumption` and
`RatesAssumption`, `FundingAssumption`, `WithdrawalsAssumption`,
`IssuanceAssumption`, `LimiterAssumption`, `LockOrderAssumption`,
`ConsoleAssumption`), which TLC evaluates in the runs. The theorems about
`Negotiation` and `Accounts` use none. `PortalProofs` and `AccessProofs` extend
two modules each that share no state, which is why `Negotiation` and
`RateLimiter` have names of their own for what the others call `Init`, `Next`,
`Spec`, `vars` and `TypeOK`.
What the assumptions say is what the code's names and types guarantee: that the
accounts of campaigns, publishers and the platform have different names, that
there are finitely many codes, and that each campaign pays one publisher.

| Theorem | States |
|---|---|
| `SplitIsExact` | cut and net are naturals that add up to the gross |
| `TypeCorrect` | `Spec => [](TypeOK /\ RequestsOK)`, of `Attribution` |
| `BudgetsHold` | `Spec => []NoOverdraft` |
| `LocksAreEnough` | `Spec => []LocksProtect` |
| `RewardedOnce` | `Spec => []OneRewardPerEvidence` |
| `NothingBurned` | `Spec => []EvidenceSpentIffPaid` |
| `VoidedCodesStayDead` | `Spec => VoidedCodeIsDead` |
| `MoneyPathKeepsPromise` | `Spec => KeepsPromise`, the refinement of `Rewards` |
| `BalancesCacheTheLedger` | `Spec => []BooksAgree` |
| `EveryMovementBalances` | `Spec => []RefsBalance` |
| `OnePricePerReward` | `Spec => []ChargedOnePrice` |
| `FundingTypeCorrect` | `Spec => []TypeOK`, of `Funding` |
| `PaidIffCredited` | `Spec => []CreditedIffCompleted` |
| `FundingKeepsDeposits` | `Spec => KeepsDeposits`, the refinement of `Deposits` |
| `InboxHearsOnce` | `Spec => []AuditedOnce` |
| `AnsweredIsDone` | `Spec => []AcknowledgedIsDone` |
| `WithdrawalsTypeCorrect` | `Spec => []TypeOK`, of `Withdrawals` |
| `WithdrawalsKeepPurse` | `Spec => KeepsPurse`, the refinement of `Purse` |
| `AskedForIsCovered` | `Spec => []QueueCovered` |
| `EachDecidedOnce` | `Spec => []DecidedOnce` |
| `PairRuleHolds` | `PriceSpec => []PriceTypeOK`, of `Negotiation`: every pair in force and every pair proposed is valid |
| `PricesMoveByConsent` | `PriceSpec => PriceMovesByConsent` |
| `LoneOverridesStand` | `PriceSpec => LoneOverrideStands` |
| `SuspensionsHold` | `PriceSpec => SuspensionHolds` |
| `CouponsScannedOnce` | `Spec => []TypeOK`, of `Issuance` |
| `OrdersHaveOneCode` | `Spec => []OneCodePerOrder` |
| `VoidsAreFinal` | `Spec => VoidIsFinal` |
| `CampaignsHavePartners` | `Spec => []TypeOK`, of `Accounts` |
| `DeletedOrgsHaveNothing` | `Spec => []NoOrphans` |
| `ConsoleTypeCorrect` | `Spec => []TypeOK`, of `Console` |
| `EditCreditsOnce` | `Spec => []SameEditFundsOnce` |
| `LimiterTypeCorrect` | `LimiterSpec => []LimiterTypeOK` |
| `LimitsHold` | `LimiterSpec => []DegradesToInstances` |
| `LocksExclude` | `Spec => []TypeOK`, of `LockOrder`: no two hold locks that exclude each other |
| `OnlyTwoPairsLockUp` | `Spec => []OnlyKnownDeadlocks` |

The money path. `OneRewardPerEvidence` is not inductive: from a state where a
scan is open and already rewarded a second reward follows. It needs
`EvidenceSpentIffPaid`, which ties the flags to the rewards; that in turn is
kept only because a request that holds its row finds the flag as it read it,
which is `LocksProtect`; and that needs to know that a request in flight is a
well-formed record (`TypeOK`, `RequestsOK`). The inductive invariant is

    Inv == TypeOK /\ RequestsOK /\ LocksProtect /\ EvidenceSpentIffPaid
             /\ OneRewardPerEvidence

with one lemma for each kind of step: a request that only enters or leaves
moves no evidence, a commit changes only the row it holds, so what every other
holder found on its own row stands (`HeldApart`, `CommitKeepsAlone`), and a
settings change waits for locked codes (`ManageWaitsForCodes`).

`NoOverdraft` is inductive with the types: a payout's gross is covered by the
budget it is taken from and its net and cut are not negative (`SplitIsExact`).
The refinement adds `OwnScans` (a request in flight carries the publisher of
its scan), `NoOverdraft` and `OneRewardPerEvidence` in the next state, which
gives that the mapping of redemptions to rewards merges no two of them.

Funding. `CreditedIffCompleted` is inductive with the types: a payment that is
pending has nothing posted under its reference (`PendingIsFresh`), no other
movement has that reference (`RefsDiffer`), and the one transaction that
completes it posts both legs. The refinement needs just that, for the fresh
identity, and `BudgetsCovered` for the floor, which its own guard preserves.

`AuditedOnce` counts the workers on their way to the audit entry. Counting
them needs that they are finitely many (`HeardOnce`), which is so although
`Workers` may not be: a payment has none until the one step that completes it,
which brings one, and no other step brings any. `AcknowledgedIsDone` needs the
same of the answers that are still held back behind an audit entry
(`AnswersBacked`): told of a credit, the payment is completed and its reference
posted; told of anything, it is decided. Entries stay, a decided payment stays decided
(`DecidedStays`), and a key names its movement at any time (`KeysAreTimeless`).

The books. `Total` is a sum over a set of entries, and a step adds two or three
of them at once. `SumProofs` gives what that needs: the library's sum exists,
does not depend on the order, and grows by what an element contributes. Each is
an induction over the subsets of a finite set; the library's induction theorems
take a predicate as a parameter, but that strict inclusion of finite sets is
well founded is a theorem without one, and `Induct` states the induction for a
set of good subsets. What makes the sums of a movement stay as they are is that
its reference is its own: the inductive invariant

    Kept == RefsKnown /\ RefsBalance /\ BooksAgree /\ AllCharged

on top of `Inv` says what every reference in the ledger was for (`RefsKnown`: a
funding before this one, a reward, or the upgrade of a reward that was
confirmed), so that the reference of the next movement is fresh; and what the
budget paid under the two references of a reward (`Charged`): one price at
once, or a guest fee and what was missing up to a price.

Withdrawals. `Sound == TypeOK /\ PaidAlone`: a row that is being paid is held
by one payer, so it is still requested when it is paid. A sum over the queue
shrinks and grows by one row (`QueueShrinks`, `QueueGrows`, from `SumProofs`),
and with that every step is one of `Purse` or a stutter. `QueueCovered` follows
from that refinement: it says that `free` is not negative, which each step of
`Purse` keeps. `DecidedOnce` is strengthened as `AuditedOnce` is.

Negotiation. That the pair in force is valid needs that every request in
flight would write a valid pair: the types say so of what a patch resolves to.
`LoneOverrideStands` needs that an override which no proposal crossed leaves no
offer open (`OverruledIsGone`), so that the compare-and-set, which compares the
proposal and nothing else, cannot match; for which a decision must be about an
offer that was there when it was read (`DecidesOffers`). That nothing is left
open is so because what an uncrossed patch read of the offer is still good when
it writes: one that is open now was open then (`UncrossedSee`).
`OfferInv == PriceTypeOK /\ OverruledIsGone /\ UncrossedSee /\ DecidesOffers`.

Issuance. `OneCodePerOrder` speaks of rows and of answers. The invariant says
that rows pair orders and codes one to one (`OneByOne`), that an answer was a
row when it was given and rows are not deleted (`told \subseteq refs`), and
that a request that goes on after a read names a row (`RequestsNameRows`).
`VoidIsFinal` needs `HeldAreValid`: a claim that holds a code's row holds one
that is not voided, because every void waits for the row.
`IssueInv == TypeOK /\ IssueRows /\ HeldAreValid`.

Accounts. `NoOrphans` needs to know what a request that was let in may rely on
when it goes on: rows that were entered stay entered, or are deleted and known
to be (`RequestsLetIn`). `TenantInv == TypeOK /\ NoOrphans /\ RequestsLetIn`.

Console. A top-up is known to the ledger by the budget it starts from and the
one it ends at (`Key`), and `SameEditFundsOnce` speaks of pages and targets.
The two fit because a page, once rendered, shows one budget. `Inv` says that
some function from renderings to budgets agrees with every row on a page or in
a dialog and every call of a save, whichever tab it came from, and that what
was credited for a rendering and a target is posted under the key of the two.

Rate limiter. `DegradesToInstances` speaks of the last window's worth of ticks
and says nothing of how the grants are spread over them, so it is not
inductive: the next window may start with everything granted in one tick.
`WindowOK` says it for each shorter span: what a counter let in within the last
`k` ticks is at most what its present window let in and one more limit, and no
more than what the present window let in when that has lasted for `k` ticks or
more. A key in Redis whose PEXPIRE was lost has a window that does not age
(`RedisOK`); an entry of a process is over one tick later than its `reset`
says, for the comparison is strict (`BucketOK`).
`LimiterInv == LimiterTypeOK /\ RedisOK /\ \A i \in Instances : BucketOK(i)`.

Lock order. `Inv == TypeOK /\ Slots /\ MatchesHold /\ InstallsBound`. A match
takes its first lock where `Begin` tests for it, and from then on its scan
stays open (`MatchesHold`), since whatever would consume it needs the row.
That no third mix of requests deadlocks is then a statement about heights.
`Height` gives each request, by how many of its locks it has, a number that
stands for what it may wait for next: lowest the platform's cut, then a
publisher, the budget of a credit, the outside of an adjustment, the budget of
a payout, the outside of a webhook, the codes of a kill, and highest a request
that holds nothing. `PositionOK` says of
every request, lock for lock, what a holder of a row may be at
(`HolderOK`) and what a waiter may wait for (`WaiterOK`), and from the two
follows `Descends`: whoever waits stands above whom it waits for, unless the
two are one of the known pairs. So if none of those behind a worker is in such
a pair, everyone it waits for, and everyone they wait for, is below it, and it
is not one of them. `Behind` is written as the smallest closed set, and not by
recursion, so that this can be said (`BehindCloses`, `BehindIsLeast`).

The proof also shows that both pairs are needed: an earlier `Conflict`, in which
a key share waited for nothing, satisfied `OnlyKnownDeadlocks` for TLC although a
purchase never met a match, and it was here that it did not fit.

Every invariant of the passing runs is stated by a theorem, and every action
property and refinement. Left to TLC is liveness, which is out of the prover's
reach: `ReportedIsDecided`, `RequestsEnd`, `RefusalsEnd`, `BusyEnds` and
`SuspendedStopsEarning`. What the recursive definitions compute is not proved
for all inputs either, but for the sums, whose equations `SumProofs` derives.

## Findings

| Run | What the documentation says | What the code does |
|---|---|---|
| `rename_reopens` | USER_GUIDE 553: renaming an ended campaign leaves it `ended`; portal.service 238-239; the dialog itself, dialogs.ts 271: "Ending is permanent." | the Edit dialog sends the status of the row it was opened on with every save (dialogs.ts 350-353): a campaign ended since then is active again |

More disagreements with the documentation were met while modelling. None has a
run; all but the first under "Of partnerships", whose steps are given, follow
from one or two statements of the code.

On the money path:

- `confirm` never reads the campaign's status and pays the held-back part of a
  paused or ended campaign (USER_GUIDE 538-544: no new payouts).
- With a rate below the guest fee already paid, a confirm moves nothing and
  lowers the row's `coins` under what was spent (SYSTEM_DESIGN 362-363,
  portal.service 423: `coins` is what the budget spent).
- The cuts of a guest fee and of its upgrade are floored one by one, and the
  platform can lose a coin (SYSTEM_DESIGN 887-889: the same in one or in two).
- A claim sent again finds its evidence spent and is refused before the replay
  is looked for (SYSTEM_DESIGN 1270, USER_GUIDE 2028: the answer is replayed).
- A claim that read the status before a pause, and waits for the budget, pays
  after it (USER_GUIDE 543: pausing stops spending now).
- A purchase claim queues for the row of its scan, through its foreign key,
  while a first open holds it (USER_GUIDE 2011: no two claims queue on a scan).
  The two may deadlock, and so may an adjustment with a funding or a webhook of
  the same campaign; `OnlyKnownDeadlocks` says that these are all among the
  requests of `LockOrder`.

Of campaigns, codes and scans:

- An ended campaign can be set active by either status patch (USER_GUIDE 540,
  SYSTEM_DESIGN 337: ended is permanent).
- A patch or a key rotation that was let in before an org is offboarded lands
  after it (USER_GUIDE 1271), and a code inserted while its campaign is killed
  is not voided (USER_GUIDE 1282).
- Scans of a suspended org's partnerships still succeed, as nothing on the way
  of a scan reads the org (USER_GUIDE 1269).
- A void that races with a claim may answer that the code was not redeemed
  (SYSTEM_DESIGN 686-687, DEMO 436-438), and an issue that is sent again after a
  pause is answered 404 and not the code.
- An `auto` exit of the hand-off page is recorded for a scan whose claim was
  carried by a tap in the 340 ms of the exit, by a page opened again, or
  before a limit refused `/go` (SYSTEM_DESIGN 612-613, USER_GUIDE 1077).

Of money in and out:

- A success delivered after a failure of one payment is answered `completed`,
  `replay: true`, whatever the row says (payments.service 103-108), and credits
  nothing (USER_GUIDE 2036: the replay answer is always reconstructed from the
  stored row; 620: a signed webhook credits once). `AcknowledgedIsDone`
  therefore says of a replay only that the payment is decided.
- A payment whose charge completed another payment before is never decided by
  that charge; it stays pending, as a checkout the provider never confirmed
  would (USER_GUIDE 604-605).
- A keyed clawback that is sent again may be told "below zero" although it was
  applied: the floor is tested before the key (admin.repository 333).
- Two fundings without a key in one millisecond share a reference, and the
  second is refused (USER_GUIDE 579: without a key each is a new credit).
- A second, meant top-up from the same page to the same budget has the key of
  the first: it is swallowed and announced as done (dialogs.ts 357-358).
- A process that dies after an adjustment's commit leaves no audit entry
  (USER_GUIDE 1256).
- That the balance dropped below a requested withdrawal, which is answered 400
  (USER_GUIDE 1182, 1192), cannot happen while `QueueCovered` holds.

Of partnerships:

- An override may be undone by a click on a stale proposal (admin.service
  155-157: any rate override must clear an open proposal, or a stale accept
  would win; USER_GUIDE 485, 1231, 1284: a tenant cannot undo an admin decision
  that way). The proposal is cleared if the row had one when the override read
  it. The steps, all in `Negotiation`: `BeginPatch` reads a row without an
  offer, `Propose` writes one, `BeginDecide` reads it, `Patch` moves the price
  and leaves the offer, and `Decide` finds the offer it expects and puts its
  price in. `LoneOverrideStands` excepts an override that is crossed so;
  without that exception TLC finds these steps.
- The click that accepts a proposal names no price (Partnerships.tsx 59-78,
  portal.service 129): one that was revised before the click arrives is accepted
  as revised (USER_GUIDE 473, 484, 1406).
- Neither `findOpenProposal` nor `decideRates` asks for the status, so a
  suspended partnership can be repriced (USER_GUIDE 486: it is refused).
- A patch of the status alone writes all rates as it read them
  (admin.service 150-170), and undoes an acceptance, or another override, that
  came in between.
- Two patches of an org's App Clip id and slug are each checked against the
  row as read (portal.service 374-385), and leave one without the other.

## What is not modelled

- The hand-off page, the store links and the app-site association
  (`public/interstitial.ts`, parts of `public.controller.ts`,
  `common/attribution.ts`): planned, see below.
- Login and the password reset: a read, and an UPDATE that tests and clears
  the token; they touch nothing another component reads.
- Approval of a publisher, and the columns of an org that a patch writes
  without reading (name, destinations, bonuses).
- Request validation, QR rendering, restyling of a code, analytics and signals
  reports, observability, hashing, signing: sequential code or library calls
  without state another component reads.
- The other pages of the frontend (rendering, and single calls), the seed and
  the end-to-end script (clients of the API).
- Redis losing its data, which is Redis being new: a shorter window once.
- The reconciliation sweep, which looks for what `BooksAgree` excludes.

The map of `PROJECT.json` covers the statements that change state and the
guards before them. Most of the remaining lines of the repository are
rendering (the pages, the hand-off page's style, QR codes, charts) or shapes
(DTOs, types, answers).

In `Attribution`, offboarding appears only through its effects on one campaign
and one partnership (`SetCampaignStatus`, `KillCampaign`, `PatchPartnership`);
as one transaction it is in `Accounts`.

## The plan

Done: `LedgerBook`, `Attribution`, `Rewards`; `Funding`, `Deposits`;
`Withdrawals`, `Purse`; `Negotiation`; `Issuance`; `Accounts`; `RateLimiter`;
`LockOrder`; `Console`; and the proofs listed above.

Left, in order:

1. `Handoff`: one scan from the code to the first open, by App Clip, Play's
   referrer, deep link or the hand-off page with its two exits, `/go` and `/i`.
   Properties: what a scan's record says of the exit stands once an install is
   bound; a page that was shown is left; a claim on the pasteboard was tapped.
2. The editor of the QR studio: saves that overlap while another code is
   selected.
