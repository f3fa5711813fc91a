------------------------------- MODULE Issuance -------------------------------
(***************************************************************************)
(* The codes of one engagement campaign: the booking system mints one for  *)
(* every order and voids it when the order is refunded, over an API whose  *)
(* calls it repeats (partner/issue.controller.ts); the promoter prints and *)
(* voids others by hand; an admin kills the campaign or brings a code      *)
(* back; and passengers scan and claim all the while.                      *)
(*                                                                         *)
(* A handler reads first and writes in a later statement.  A claim is one  *)
(* transaction that holds the row of its code from its read to its commit, *)
(* and every UPDATE of that row waits for it.                              *)
(***************************************************************************)
EXTENDS FiniteSets, Naturals

CONSTANTS
    Orders,         \* issued_ref: the purchases of the booking system
    Coupons,        \* codes to mint for them
    Printed,        \* codes to print by hand
    Requests,
    MaxScans        \* bound: scans of a printed code

Codes == Coupons \cup Printed

ASSUME IssuanceAssumption ==
    /\ Coupons \cap Printed = {}
    /\ Cardinality(Coupons) >= Cardinality(Orders)
    /\ MaxScans \in Nat \ {0}

VARIABLES
    open,           \* the campaign and its partnership are both active
    refs,           \* <<order, code>>: the rows with an issued_ref
    printed,        \* the rows without
    voided,         \* codes voided
    uses,           \* qr_codes.uses
    paid,           \* codes with an engagement redemption
    claiming,       \* codes whose row a claim holds
    req,            \* what each request is in the middle of
    told            \* history: <<order, code>> answered to the booking system

vars == <<open, refs, printed, voided, uses, paid, claiming, req, told>>
-------------------------------------------------------------------------------
Minted == {by[2] : by \in refs} \cup printed
CodeFor(o) == CHOOSE q \in Coupons : <<o, q>> \in refs

Idle == [step |-> "idle"]
Go(r, next) == req' = [req EXCEPT ![r] = next]

(* Mutation: the claim locks the scan, and the code it only reads. *)
NeverLocked(q) == FALSE

Locked(q) == q \in claiming
-------------------------------------------------------------------------------
(* POST /v1/issue                                                          *)

BeginIssue(r, o) ==
    /\ req[r] = Idle
    /\ open
    /\ Go(r, [step |-> "create", order |-> o])
    /\ UNCHANGED <<open, refs, printed, voided, uses, paid, claiming, told>>

(* Mutation: looked for, and minted when not found, by two statements. *)
MintAnew(r, q) ==
    /\ req[r].step = "create" /\ q \in Coupons \ Minted
    /\ refs' = refs \cup {<<req[r].order, q>>}
    /\ told' \in {told, told \cup {<<req[r].order, q>>}}
    /\ Go(r, Idle)
    /\ UNCHANGED <<open, printed, voided, uses, paid, claiming>>

(* The first call with this reference; its answer may be lost.  The code   *)
(* is drawn at random; one that is taken already is left out.              *)
Mint(r, q) ==
    /\ req[r].step = "create" /\ q \in Coupons \ Minted
    /\ \A by \in refs : by[1] # req[r].order
    /\ refs' = refs \cup {<<req[r].order, q>>}
    /\ told' \in {told, told \cup {<<req[r].order, q>>}}
    /\ Go(r, Idle)
    /\ UNCHANGED <<open, printed, voided, uses, paid, claiming>>

(* P2002: the reference is taken. *)
Collide(r) ==
    /\ req[r].step = "create"
    /\ \E by \in refs : by[1] = req[r].order
    /\ Go(r, [req[r] EXCEPT !.step = "prior"])
    /\ UNCHANGED <<open, refs, printed, voided, uses, paid, claiming, told>>

(* The code minted first is answered again, voided or not. *)
Replay(r) ==
    /\ req[r].step = "prior"
    /\ told' = told \cup {<<req[r].order, CodeFor(req[r].order)>>}
    /\ Go(r, Idle)
    /\ UNCHANGED <<open, refs, printed, voided, uses, paid, claiming>>
-------------------------------------------------------------------------------
(* POST /v1/issue/void                                                     *)

(* find: whatever the campaign's status.  A voided code is answered as such. *)
BeginVoid(r, o) ==
    /\ req[r] = Idle
    /\ \E by \in refs : by[1] = o
    /\ LET q == CodeFor(o) IN
        IF q \in voided
        THEN UNCHANGED req
        ELSE Go(r, [step |-> "void", code |-> q])
    /\ UNCHANGED <<open, refs, printed, voided, uses, paid, claiming, told>>

Void(r) ==
    /\ req[r].step = "void"
    /\ ~Locked(req[r].code)
    /\ voided' = voided \cup {req[r].code}
    /\ Go(r, Idle)
    /\ UNCHANGED <<open, refs, printed, uses, paid, claiming, told>>
-------------------------------------------------------------------------------
(* handleScan                                                              *)

BeginScan(r, q) ==
    /\ req[r] = Idle
    /\ q \in Minted \ voided
    /\ open
    /\ Go(r, [step |-> "use", code |-> q])
    /\ UNCHANGED <<open, refs, printed, voided, uses, paid, claiming, told>>

(* Mutation: the uses are tested where the code is read. *)
UsesAny(q) == uses[q] < MaxScans

(* NOT voided, and uses < max_uses: one for a coupon. *)
UsesLeft(q) == uses[q] < IF q \in Coupons THEN 1 ELSE MaxScans

(* The code's expiry, which the statement also tests, is a refusal like any. *)
Scan(r) ==
    LET q == req[r].code IN
    /\ req[r].step = "use"
    /\ ~Locked(q)
    /\ \/ q \notin voided /\ UsesLeft(q) /\ uses' = [uses EXCEPT ![q] = @ + 1]
       \/ UNCHANGED uses
    /\ Go(r, Idle)
    /\ UNCHANGED <<open, refs, printed, voided, paid, claiming, told>>
-------------------------------------------------------------------------------
(* claimCode and the transaction around it.                                *)

BeginClaim(q) ==
    /\ q \notin claiming
    /\ q \in Minted \ voided /\ uses[q] > 0
    /\ open
    /\ claiming' = claiming \cup {q}
    /\ UNCHANGED <<open, refs, printed, voided, uses, paid, req, told>>

(* Paid, or rolled back for the budget or a redemption that is there. *)
EndClaim(q) ==
    /\ q \in claiming
    /\ claiming' = claiming \ {q}
    /\ paid' \in {paid, paid \cup {q}}
    /\ UNCHANGED <<open, refs, printed, voided, uses, req, told>>
-------------------------------------------------------------------------------
(* The promoter's portal and the admin.                                    *)

(* createQr: on a campaign of any status. *)
CreateQr(q) ==
    /\ q \in Printed \ printed
    /\ printed' = printed \cup {q}
    /\ UNCHANGED <<open, refs, voided, uses, paid, claiming, req, told>>

(* voidQr: any code of its own. *)
VoidQr(q) ==
    /\ q \in Minted /\ ~Locked(q)
    /\ voided' = voided \cup {q}
    /\ UNCHANGED <<open, refs, printed, uses, paid, claiming, req, told>>

(* patchQr: the admin brings a code back.  The same patch may write the    *)
(* limit and the expiry of the code; the limit is fixed in this model.     *)
Unvoid(q) ==
    /\ q \in voided /\ ~Locked(q)
    /\ voided' = voided \ {q}
    /\ UNCHANGED <<open, refs, printed, uses, paid, claiming, req, told>>

(* The status of the campaign or the partnership is patched. *)
SetStatus(active) ==
    /\ open' = active
    /\ UNCHANGED <<refs, printed, voided, uses, paid, claiming, req, told>>

(* killCampaign: one transaction, which waits for the claims under way. *)
KillCampaign ==
    /\ \A q \in Minted \ voided : ~Locked(q)
    /\ open' = FALSE
    /\ voided' = voided \cup Minted
    /\ UNCHANGED <<refs, printed, uses, paid, claiming, req, told>>

(* A process that dies answers nothing. *)
Crash(r) ==
    /\ req[r] # Idle
    /\ Go(r, Idle)
    /\ UNCHANGED <<open, refs, printed, voided, uses, paid, claiming, told>>
-------------------------------------------------------------------------------
Init ==
    /\ open = TRUE
    /\ refs = {} /\ printed = {} /\ voided = {} /\ paid = {} /\ claiming = {}
    /\ uses = [q \in Codes |-> 0]
    /\ req = [r \in Requests |-> Idle]
    /\ told = {}

Continue(r) ==
    \/ \E q \in Coupons : Mint(r, q)
    \/ Collide(r) \/ Replay(r) \/ Void(r) \/ Scan(r)

Next ==
    \/ \E r \in Requests :
        \/ \E o \in Orders : BeginIssue(r, o) \/ BeginVoid(r, o)
        \/ \E q \in Codes : BeginScan(r, q)
        \/ Continue(r) \/ Crash(r)
    \/ \E q \in Codes :
        BeginClaim(q) \/ EndClaim(q) \/ CreateQr(q) \/ VoidQr(q) \/ Unvoid(q)
    \/ \E active \in BOOLEAN : SetStatus(active)
    \/ KillCampaign

Spec == Init /\ [][Next]_vars
-------------------------------------------------------------------------------
(* Properties.                                                             *)

RequestOK(t) ==
    \/ t = Idle
    \/ t \in [step : {"create", "prior"}, order : Orders]
    \/ t \in [step : {"void"}, code : Coupons]
    \/ t \in [step : {"use"}, code : Codes]

(* Every variable holds what its column may hold; a coupon was scanned at    *)
(* most once, whoever scans it at the same time (public.controller.ts        *)
(* 182-190, issue.controller.ts 70), unless an admin raises its limit.       *)
TypeOK ==
    /\ open \in BOOLEAN
    /\ refs \subseteq Orders \X Coupons /\ printed \subseteq Printed
    /\ voided \subseteq Minted /\ paid \subseteq Minted /\ claiming \subseteq Minted
    /\ uses \in [Codes -> 0 .. MaxScans] /\ \A q \in Coupons : uses[q] <= 1
    /\ DOMAIN req = Requests /\ \A r \in Requests : RequestOK(req[r])

(* However often and however concurrently an order is issued, every answer   *)
(* names one code, and no other order's (issue.controller.ts 29-32, 70-92).  *)
OneCodePerOrder ==
    \A a, b \in refs \cup told : a[1] = b[1] <=> a[2] = b[2]

(* Once a code is voided, which is before the void is answered, it earns     *)
(* nothing more, the claims under way at the time included, until an admin  *)
(* brings it back (issue.controller.ts 110-126, partner.repository.ts       *)
(* 185-200).                                                                *)
VoidIsFinal == [][voided \cap paid' \subseteq paid]_vars
===============================================================================
