----------------------------- MODULE PortalProofs -----------------------------
(***************************************************************************)
(* Theorems about what promoters and publishers do on their own, each for  *)
(* any number of requests in flight: issuing and voiding codes (Issuance,  *)
(* any orders and codes), and agreeing on a price (Negotiation, any        *)
(* partnerships and rates).  The two share this module and no state.       *)
(***************************************************************************)
EXTENDS Issuance, Negotiation, TLAPS
-------------------------------------------------------------------------------
(* The codes of a campaign. *)

(* issued_ref is unique within its campaign, and so is a code. *)
OneByOne == \A a, b \in refs : a[1] = b[1] <=> a[2] = b[2]

(* A collision was with a row, a void is of a code, and rows are not deleted. *)
NamesARow(t) ==
    /\ t.step = "prior" => \E by \in refs : by[1] = t.order
    /\ t.step = "void" => t.code \in Minted
RequestsNameRows == \A r \in Requests : NamesARow(req[r])

(* A void waits for the row: no claim holds a code that is voided. *)
HeldAreValid == claiming \cap voided = {}

IssueRows == OneByOne /\ told \subseteq refs /\ RequestsNameRows
IssueInv == TypeOK /\ IssueRows /\ HeldAreValid
-------------------------------------------------------------------------------
LEMMA RowPair ==
    ASSUME refs \subseteq Orders \X Coupons, NEW by \in refs
    PROVE  by[1] \in Orders /\ by[2] \in Coupons /\ by = <<by[1], by[2]>>
OBVIOUS

(* The code looked up for an order that has one is the one minted for it. *)
LEMMA CodeForRow ==
    ASSUME refs \subseteq Orders \X Coupons, NEW o, \E by \in refs : by[1] = o
    PROVE  CodeFor(o) \in Coupons /\ <<o, CodeFor(o)>> \in refs
<1>1. PICK by \in refs : by[1] = o
  OBVIOUS
<1>2. by[2] \in Coupons /\ <<o, by[2]>> \in refs
  BY <1>1, RowPair
<1> QED  BY <1>2 DEF CodeFor

LEMMA IssueIdle == RequestOK(Idle) /\ Idle.step = "idle" /\ NamesARow(Idle)
BY DEF RequestOK, Idle, NamesARow

LEMMA IssueInFlight ==
    ASSUME TypeOK, NEW r \in Requests
    PROVE  /\ req[r].step \in {"create", "prior"} =>
                req[r] \in [step : {"create", "prior"}, order : Orders]
           /\ req[r].step = "void" => req[r].code \in Coupons
           /\ req[r].step = "use" => req[r].code \in Codes
<1>1. RequestOK(req[r])
  BY DEF TypeOK
<1>2. CASE req[r] = Idle
  BY <1>2, IssueIdle
<1>3. CASE req[r] \in [step : {"create", "prior"}, order : Orders]
  BY <1>3
<1>4. CASE req[r] \in [step : {"void"}, code : Coupons]
  BY <1>4
<1>5. CASE req[r] \in [step : {"use"}, code : Codes]
  BY <1>5
<1> QED  BY <1>1, <1>2, <1>3, <1>4, <1>5 DEF RequestOK

(* A request that moves on leaves the others as they are, and names a row   *)
(* that is there and stays.                                                 *)
LEMMA IssueGoes ==
    ASSUME IssueInv, NEW r \in Requests, NEW t, RequestOK(t), Go(r, t), NamesARow(t),
           refs \subseteq refs', printed \subseteq printed'
    PROVE  /\ DOMAIN req' = Requests /\ \A s \in Requests : RequestOK(req[s])'
           /\ RequestsNameRows'
<1>1. /\ DOMAIN req' = Requests /\ req'[r] = t
      /\ \A s \in Requests \ {r} : req'[s] = req[s]
  BY DEF Go, IssueInv, TypeOK
<1>2. \A s \in Requests : RequestOK(req[s])'
  BY <1>1 DEF IssueInv, TypeOK, RequestOK
<1>3. RequestsNameRows'
  <2>1. Minted \subseteq Minted'
    BY DEF Minted
  <2> QED  BY <1>1, <2>1 DEF IssueInv, IssueRows, RequestsNameRows, NamesARow
<1> QED  BY <1>1, <1>2, <1>3

LEMMA IssueStays ==
    ASSUME IssueInv, UNCHANGED req, refs \subseteq refs', printed \subseteq printed'
    PROVE  /\ DOMAIN req' = Requests /\ \A s \in Requests : RequestOK(req[s])'
           /\ RequestsNameRows'
<1>1. \A s \in Requests : RequestOK(req[s])'
  BY DEF IssueInv, TypeOK, RequestOK
<1>2. Minted \subseteq Minted'
  BY DEF Minted
<1> QED  BY <1>1, <1>2 DEF IssueInv, TypeOK, IssueRows, RequestsNameRows, NamesARow
-------------------------------------------------------------------------------
LEMMA IssueInit == Init => IssueInv
<1> SUFFICES ASSUME Init PROVE IssueInv
  OBVIOUS
<1>1. TypeOK
  <2>1. uses \in [Codes -> 0 .. MaxScans] /\ \A q \in Coupons : uses[q] <= 1
    BY IssuanceAssumption DEF Init, Codes
  <2> QED  BY <2>1, IssueIdle DEF Init, TypeOK, Minted
<1>2. IssueRows
  BY IssueIdle DEF Init, IssueRows, OneByOne, RequestsNameRows, NamesARow
<1> QED  BY <1>1, <1>2 DEF Init, IssueInv, HeldAreValid

LEMMA IssueStep == IssueInv /\ [Next]_vars => IssueInv'
<1> SUFFICES ASSUME IssueInv, [Next]_vars PROVE IssueInv'
  OBVIOUS
<1> DEFINE ReqInv == /\ DOMAIN req' = Requests /\ \A s \in Requests : RequestOK(req[s])'
                     /\ RequestsNameRows'
(* Steps that only move a request on. *)
<1>1. ASSUME NEW r \in Requests, NEW t, RequestOK(t), Go(r, t), NamesARow(t),
             UNCHANGED <<open, refs, printed, voided, uses, paid, claiming, told>>
      PROVE  IssueInv'
  <2>1. ReqInv
    BY <1>1, IssueGoes
  <2> QED  BY <1>1, <2>1 DEF IssueInv, TypeOK, IssueRows, OneByOne, HeldAreValid, Minted
<1>2. ASSUME NEW r \in Requests, NEW o \in Orders, BeginIssue(r, o) PROVE IssueInv'
  <2> DEFINE t == [step |-> "create", order |-> o]
  <2>1. RequestOK(t) /\ NamesARow(t)
    BY DEF RequestOK, NamesARow
  <2> HIDE DEF t
  <2> QED  BY <1>1, <1>2, <2>1 DEF BeginIssue, t
<1>3. ASSUME NEW r \in Requests, NEW o \in Orders, BeginVoid(r, o) PROVE IssueInv'
  <2>1. CodeFor(o) \in Coupons
    BY <1>3, CodeForRow DEF BeginVoid, IssueInv, TypeOK
  <2> DEFINE t == [step |-> "void", code |-> CodeFor(o)]
  <2>2. RequestOK(t) /\ NamesARow(t)
    <3>1. <<o, CodeFor(o)>> \in refs
      BY <1>3, CodeForRow DEF BeginVoid, IssueInv, TypeOK
    <3>2. CodeFor(o) \in Minted
      BY <3>1 DEF Minted
    <3> QED  BY <2>1, <3>2 DEF RequestOK, NamesARow
  <2>3. CASE UNCHANGED req
    BY <1>3, <2>3, IssueStays
       DEF BeginVoid, IssueInv, TypeOK, IssueRows, OneByOne, HeldAreValid, Minted
  <2> QED  BY <1>1, <1>3, <2>2, <2>3 DEF BeginVoid, t
<1>4. ASSUME NEW r \in Requests, NEW q \in Codes, BeginScan(r, q) PROVE IssueInv'
  <2> DEFINE t == [step |-> "use", code |-> q]
  <2>1. RequestOK(t) /\ NamesARow(t)
    BY DEF RequestOK, NamesARow
  <2> HIDE DEF t
  <2> QED  BY <1>1, <1>4, <2>1 DEF BeginScan, t
<1>5. ASSUME NEW r \in Requests, Collide(r) PROVE IssueInv'
  <2> DEFINE t == [req[r] EXCEPT !.step = "prior"]
  <2>1. req[r] \in [step : {"create", "prior"}, order : Orders]
    BY <1>5, IssueInFlight DEF Collide, IssueInv
  <2>2. RequestOK(t) /\ NamesARow(t)
    BY <1>5, <2>1 DEF RequestOK, NamesARow, Collide
  <2> HIDE DEF t
  <2> QED  BY <1>1, <1>5, <2>2 DEF Collide, t
<1>6. ASSUME NEW r \in Requests, Crash(r) PROVE IssueInv'
  BY <1>1, <1>6, IssueIdle DEF Crash
(* Steps that write. *)
<1>7. ASSUME NEW r \in Requests, NEW q \in Coupons, Mint(r, q) PROVE IssueInv'
  <2> DEFINE row == <<req[r].order, q>>
  <2>1. req[r].order \in Orders /\ q \in Coupons
    BY <1>7, IssueInFlight DEF Mint, IssueInv
  <2>2. refs' = refs \cup {row} /\ told' \subseteq told \cup {row}
    BY <1>7 DEF Mint
  <2>3. ReqInv
    BY <1>7, <2>2, IssueGoes, IssueIdle DEF Mint
  <2>4. refs' \subseteq Orders \X Coupons /\ told' \subseteq refs'
    BY <2>1, <2>2 DEF IssueInv, TypeOK, IssueRows
  <2>5. \A by \in refs : by[1] # req[r].order /\ by[2] # q
    BY <1>7 DEF Mint, Minted
  <2>6. OneByOne'
    BY <2>2, <2>5 DEF IssueInv, IssueRows, OneByOne
  <2>7. Minted \subseteq Minted'
    BY <1>7, <2>2 DEF Mint, Minted
  <2> QED  BY <1>7, <2>3, <2>4, <2>6, <2>7 DEF Mint, IssueInv, TypeOK, IssueRows, HeldAreValid
<1>8. ASSUME NEW r \in Requests, Replay(r) PROVE IssueInv'
  <2>1. \E by \in refs : by[1] = req[r].order
    BY <1>8 DEF Replay, IssueInv, IssueRows, RequestsNameRows, NamesARow
  <2>2. <<req[r].order, CodeFor(req[r].order)>> \in refs
    BY <2>1, CodeForRow DEF IssueInv, TypeOK
  <2>3. ReqInv
    BY <1>8, IssueGoes, IssueIdle DEF Replay
  <2> QED  BY <1>8, <2>2, <2>3
           DEF Replay, IssueInv, TypeOK, IssueRows, OneByOne, HeldAreValid, Minted
<1>9. ASSUME NEW r \in Requests, Void(r) PROVE IssueInv'
  <2>1. ReqInv
    BY <1>9, IssueGoes, IssueIdle DEF Void
  <2>2. req[r].code \in Minted
    BY <1>9 DEF Void, IssueInv, IssueRows, RequestsNameRows, NamesARow
  <2> QED  BY <1>9, <2>1, <2>2
           DEF Void, Locked, IssueInv, TypeOK, IssueRows, OneByOne, HeldAreValid, Minted
<1>10. ASSUME NEW r \in Requests, Scan(r) PROVE IssueInv'
  <2>1. req[r].code \in Codes
    BY <1>10, IssueInFlight DEF Scan, IssueInv
  <2>2. ReqInv
    BY <1>10, IssueGoes, IssueIdle DEF Scan
  <2>3. uses' \in [Codes -> 0 .. MaxScans] /\ \A q \in Coupons : uses'[q] <= 1
    <3> DEFINE q == req[r].code
    <3>1. CASE uses' = [uses EXCEPT ![q] = @ + 1] /\ UsesLeft(q)
      <4>1. uses[q] + 1 \in 0 .. MaxScans /\ (q \in Coupons => uses[q] + 1 <= 1)
        BY <2>1, <3>1, IssuanceAssumption DEF UsesLeft, IssueInv, TypeOK
      <4> QED  BY <2>1, <3>1, <4>1 DEF IssueInv, TypeOK
    <3>2. CASE UNCHANGED uses
      BY <3>2 DEF IssueInv, TypeOK
    <3> QED  BY <1>10, <3>1, <3>2 DEF Scan
  <2> QED  BY <1>10, <2>2, <2>3
           DEF Scan, IssueInv, TypeOK, IssueRows, OneByOne, HeldAreValid, Minted
<1>11. ASSUME UNCHANGED <<refs, req, uses, told>>, printed \subseteq printed',
              printed' \subseteq Printed, open' \in BOOLEAN, paid' \subseteq Minted,
              claiming' \subseteq Minted, voided' \subseteq Minted,
              claiming' \cap voided' = {}
       PROVE  IssueInv'
  <2>1. Minted \subseteq Minted'
    BY <1>11 DEF Minted
  <2>2. ReqInv
    BY <1>11, IssueStays
  <2> QED  BY <1>11, <2>1, <2>2 DEF IssueInv, TypeOK, IssueRows, OneByOne, HeldAreValid
<1>12. ASSUME NEW q \in Codes, \/ BeginClaim(q) \/ EndClaim(q) \/ CreateQr(q)
                               \/ VoidQr(q) \/ Unvoid(q)
       PROVE  IssueInv'
  BY <1>11, <1>12
     DEF BeginClaim, EndClaim, CreateQr, VoidQr, Unvoid, Locked, IssueInv, TypeOK, HeldAreValid
<1>13. ASSUME NEW active \in BOOLEAN, SetStatus(active) PROVE IssueInv'
  BY <1>11, <1>13 DEF SetStatus, IssueInv, TypeOK, HeldAreValid
<1>14. CASE KillCampaign
  BY <1>11, <1>14 DEF KillCampaign, Locked, IssueInv, TypeOK, HeldAreValid
<1>15. CASE UNCHANGED vars
  BY <1>11, <1>15 DEF vars, IssueInv, TypeOK, HeldAreValid
<1> QED  BY <1>2, <1>3, <1>4, <1>5, <1>6, <1>7, <1>8, <1>9, <1>10, <1>12, <1>13, <1>14,
            <1>15 DEF Next, Continue
-------------------------------------------------------------------------------
LEMMA IssueAlways == Spec => []IssueInv
BY IssueInit, IssueStep, PTL DEF Spec

(* Every column holds what it may hold, and a coupon is scanned at most     *)
(* once (public.controller.ts 182-190).                                     *)
THEOREM CouponsScannedOnce == Spec => []TypeOK
<1>1. IssueInv => TypeOK
  BY DEF IssueInv
<1> QED  BY <1>1, IssueAlways, PTL

(* However often an order is issued, it has one code, and the code is no    *)
(* other order's (issue.controller.ts 70-92).                               *)
THEOREM OrdersHaveOneCode == Spec => []OneCodePerOrder
<1>1. IssueInv => OneCodePerOrder
  BY DEF IssueInv, IssueRows, OneByOne, OneCodePerOrder
<1> QED  BY <1>1, IssueAlways, PTL

(* A voided code earns nothing: a void waits for the claim that holds the   *)
(* row, and a claim that comes later reads the void (partner.repository.ts  *)
(* 185-200).                                                                *)
THEOREM VoidsAreFinal == Spec => VoidIsFinal
<1>1. IssueInv /\ [Next]_vars => [voided \cap paid' \subseteq paid]_vars
  <2> SUFFICES ASSUME IssueInv, Next PROVE voided \cap paid' \subseteq paid
    BY DEF vars
  <2>1. ASSUME NEW q \in Codes, EndClaim(q) PROVE voided \cap paid' \subseteq paid
    BY <2>1 DEF EndClaim, IssueInv, HeldAreValid
  <2>2. CASE UNCHANGED paid
    BY <2>2
  <2> QED  BY <2>1, <2>2
           DEF Next, Continue, BeginIssue, BeginVoid, BeginScan, Mint, Collide, Replay,
               Void, Scan, Crash, BeginClaim, CreateQr, VoidQr, Unvoid, SetStatus,
               KillCampaign
<1> QED  BY <1>1, IssueAlways, PTL DEF Spec, VoidIsFinal
-------------------------------------------------------------------------------
(* The price of a partnership. *)

(* An override no proposal crossed leaves no offer open, which is all that   *)
(* stops the late click: the statement behind it compares the offer and     *)
(* nothing else.                                                            *)
OverruledIsGone == \A p \in Partnerships : p \in overruled => offer[p] = NoOffer

(* It does so because what it read of the offer is still good: one that is  *)
(* open now was open then.                                                  *)
Sees(t, p) == t.op = "patch" /\ t.partnership = p /\ offer[p] # NoOffer => t.open
UncrossedSee ==
    \A w \in Workers \ crossed, p \in Partnerships : Sees(tx[w], p)

(* A decision is about an offer that was there. *)
Decides(t) == t.op = "decide" => t.expected # NoOffer
DecidesOffers == \A w \in Workers : Decides(tx[w])

OfferInv == PriceTypeOK /\ OverruledIsGone /\ UncrossedSee /\ DecidesOffers
-------------------------------------------------------------------------------
(* Lemmas about cards. *)

LEMMA CardRates ==
    ASSUME NEW card \in Cards
    PROVE  card.coin \in CoinRates /\ card.guest \in GuestRates /\ ValidCard(card)
BY DEF Cards

(* A patch resolved against a card names rates somebody may name, so that   *)
(* once the pair is judged valid it is a card.                              *)
LEMMA ResolvedIsCard ==
    ASSUME NEW patch \in Patches, NEW card \in Cards, ValidCard(Resolve(patch, card))
    PROVE  Resolve(patch, card) \in Cards
<1>1. /\ patch.coin \in CoinRates \cup {Unsent}
      /\ patch.guest \in GuestRates \cup {Unsent}
  BY DEF Patches
<1>2. Resolve(patch, card) \in [coin : CoinRates, guest : GuestRates]
  BY <1>1, CardRates DEF Resolve, Card
<1> QED  BY <1>2 DEF Cards

(* What a worker starts is well typed, and its slot is the only one touched. *)
LEMMA OfferGoes ==
    ASSUME PriceTypeOK, NEW w \in Workers, NEW t, HandlerOK(t), GoOn(w, t)
    PROVE  /\ DOMAIN tx' = Workers /\ \A v \in Workers : HandlerOK(tx'[v])
           /\ crossed' \subseteq Workers
BY DEF PriceTypeOK, GoOn

LEMMA OfferInFlight ==
    ASSUME PriceTypeOK, NEW w \in Workers, NEW p \in Partnerships
    PROVE  /\ Writing(w, "propose", p) => tx[w].card \in Cards
           /\ Writing(w, "decide", p) => tx[w].expected \in Cards
           /\ Writing(w, "patch", p) =>
                /\ Patched(tx[w]) \in Cards
                /\ tx[w].to \in Statuses \cup {Unsent}
                /\ tx[w].open \in BOOLEAN
<1>1. HandlerOK(tx[w])
  BY DEF PriceTypeOK
<1>2. CASE tx[w] = Free
  BY <1>2 DEF Writing, Free
<1>3. ASSUME NEW q \in Partnerships, NEW card \in Cards, tx[w] = Proposing(q, card)
      PROVE  tx[w].op = "propose" /\ tx[w].card \in Cards
  BY <1>3 DEF Proposing
<1>4. Writing(w, "propose", p) => tx[w].card \in Cards
  <2>1. tx[w].op = "propose" /\ tx[w] # Free =>
            \E q \in Partnerships, card \in Cards : tx[w] = Proposing(q, card)
    BY <1>1 DEF HandlerOK
  <2> QED  BY <1>2, <1>3, <2>1 DEF Writing
<1>5. Writing(w, "decide", p) => tx[w].expected \in Cards
  <2>1. CASE tx[w].op = "decide"
    <3>1. tx[w] \in [op : {"decide"}, partnership : Partnerships, accept : BOOLEAN,
                     expected : Cards]
      BY <1>1, <1>3, <2>1 DEF HandlerOK, Free
    <3> QED  BY <3>1
  <2> QED  BY <2>1 DEF Writing
<1>6. Writing(w, "patch", p) =>
            /\ Patched(tx[w]) \in Cards
            /\ tx[w].to \in Statuses \cup {Unsent}
            /\ tx[w].open \in BOOLEAN
  <2>1. CASE tx[w].op = "patch"
    <3>1. /\ tx[w] \in [op : {"patch"}, partnership : Partnerships, patch : Patches,
                     to : Statuses \cup {Unsent}, read : Cards, open : BOOLEAN]
          /\ Patched(tx[w]) \in Cards
      BY <1>1, <1>3, <2>1 DEF HandlerOK, Free
    <3> QED  BY <3>1
  <2> QED  BY <2>1 DEF Writing
<1> QED  BY <1>4, <1>5, <1>6

LEMMA OfferIdle == HandlerOK(Free) /\ Decides(Free) /\ \A p \in Partnerships : Sees(Free, p)
BY DEF HandlerOK, Decides, Sees, Free

(* Nor does a request that is over, or another than a decision, unsettle    *)
(* what the others decide.                                                  *)
LEMMA OfferDecides ==
    ASSUME OfferInv, NEW w \in Workers, NEW t, Decides(t), GoOn(w, t)
    PROVE  DecidesOffers'
BY DEF OfferInv, PriceTypeOK, GoOn, DecidesOffers, Decides

(* A request that begins sees what is open, one that is over has nothing to *)
(* see, and no other comes to miss an offer while none is made.             *)
LEMMA OfferSeen ==
    ASSUME OfferInv, NEW w \in Workers, NEW t, GoOn(w, t),
           \A p \in Partnerships : Sees(t, p),
           \A p \in Partnerships : offer'[p] = offer[p] \/ offer'[p] = NoOffer
    PROVE  UncrossedSee'
<1> SUFFICES ASSUME NEW v \in Workers \ crossed', NEW p \in Partnerships
             PROVE  Sees(tx[v], p)'
  BY DEF UncrossedSee
<1>1. CASE v = w
  BY <1>1 DEF OfferInv, PriceTypeOK, GoOn, Sees
<1>2. CASE v # w
  BY <1>2 DEF OfferInv, PriceTypeOK, GoOn, UncrossedSee, Sees
<1> QED  BY <1>1, <1>2
-------------------------------------------------------------------------------
LEMMA OfferInit == PriceInit => OfferInv
BY DEF PriceInit, OfferInv, PriceTypeOK, OverruledIsGone, Statuses, HandlerOK, UncrossedSee,
        Sees, DecidesOffers, Decides, Free

(* A step that only begins or ends a request. *)
LEMMA OfferBegins ==
    ASSUME OfferInv, NEW w \in Workers, NEW t, HandlerOK(t), Decides(t), GoOn(w, t),
           \A p \in Partnerships : Sees(t, p),
           UNCHANGED <<status, price, offer, overruled>>
    PROVE  OfferInv'
<1>1. /\ DOMAIN tx' = Workers /\ \A v \in Workers : HandlerOK(tx'[v])
      /\ crossed' \subseteq Workers
  BY OfferGoes DEF OfferInv
<1>2. \A v \in Workers : HandlerOK(tx[v])'
  BY <1>1 DEF HandlerOK
<1>3. DecidesOffers'
  BY OfferDecides
<1>4. UncrossedSee'
  BY OfferSeen
<1> QED  BY <1>1, <1>2, <1>3, <1>4 DEF OfferInv, PriceTypeOK, OverruledIsGone

LEMMA OfferStep == OfferInv /\ [PriceNext]_priceVars => OfferInv'
<1> SUFFICES ASSUME OfferInv, [PriceNext]_priceVars PROVE OfferInv'
  OBVIOUS
<1> USE DEF OfferInv
<1>1. ASSUME NEW p \in Partnerships, Accept(p) PROVE OfferInv'
  <2>1. \A v \in Workers : HandlerOK(tx[v])'
    BY <1>1 DEF Accept, PriceTypeOK, HandlerOK
  <2>2. DecidesOffers'
    BY <1>1 DEF Accept, DecidesOffers, Decides
  <2>3. UncrossedSee'
    BY <1>1 DEF Accept, UncrossedSee, Sees
  <2> QED  BY <1>1, <2>1, <2>2, <2>3 DEF Accept, PriceTypeOK, OverruledIsGone, Statuses
<1>2. ASSUME NEW w \in Workers, NEW p \in Partnerships, NEW patch \in Patches,
             BeginPropose(w, p, patch)
      PROVE  OfferInv'
  <2> DEFINE card == Resolve(patch, price[p])
  <2>1. card \in Cards
    BY <1>2, ResolvedIsCard DEF BeginPropose, PriceTypeOK
  <2>2. HandlerOK(Proposing(p, card)) /\ Decides(Proposing(p, card))
    BY <2>1 DEF HandlerOK, Decides, Proposing
  <2>3. \A q \in Partnerships : Sees(Proposing(p, card), q)
    BY DEF Sees, Proposing
  <2> QED  BY <1>2, <2>2, <2>3, OfferBegins DEF BeginPropose
<1>3. ASSUME NEW w \in Workers, NEW p \in Partnerships, NEW patch \in Patches,
             NEW to \in Statuses \cup {Unsent}, BeginPatch(w, p, patch, to)
      PROVE  OfferInv'
  <2>1. Resolve(patch, price[p]) \in Cards
    BY <1>3, ResolvedIsCard DEF BeginPatch, PriceTypeOK
  <2>2. HandlerOK(Patching(p, patch, to)) /\ Decides(Patching(p, patch, to))
    BY <2>1 DEF HandlerOK, Decides, Patching, Patched, PriceTypeOK
  <2>3. \A q \in Partnerships : Sees(Patching(p, patch, to), q)
    BY DEF Sees, Patching
  <2> QED  BY <1>3, <2>2, <2>3, OfferBegins DEF BeginPatch
<1>4. ASSUME NEW w \in Workers, NEW p \in Partnerships, NEW accept \in BOOLEAN,
             BeginDecide(w, p, accept)
      PROVE  OfferInv'
  <2>1. HandlerOK(Deciding(p, accept)) /\ Decides(Deciding(p, accept))
    BY <1>4 DEF HandlerOK, Decides, Deciding, BeginDecide, PriceTypeOK
  <2>2. \A q \in Partnerships : Sees(Deciding(p, accept), q)
    BY DEF Sees, Deciding
  <2> QED  BY <1>4, <2>1, <2>2, OfferBegins DEF BeginDecide
<1>5. ASSUME NEW w \in Workers, NEW p \in Partnerships, Propose(w, p) PROVE OfferInv'
  <2>1. tx' = [tx EXCEPT ![w] = Free] /\ \A v \in Workers : tx'[v] = tx[v] \/ tx'[v] = Free
    BY <1>5 DEF Propose, PriceTypeOK
  <2>2. \A v \in Workers : HandlerOK(tx[v])'
    BY <2>1, OfferIdle DEF PriceTypeOK, HandlerOK
  <2>3. DecidesOffers'
    BY <2>1, OfferIdle DEF DecidesOffers, Decides
  <2>4. UncrossedSee'
    <3> SUFFICES ASSUME NEW v \in Workers \ crossed', NEW q \in Partnerships
                 PROVE  Sees(tx[v], q)'
      BY DEF UncrossedSee
    <3>1. CASE tx'[v] = Free
      BY <3>1 DEF Sees, Free
    <3>2. CASE tx'[v] = tx[v] /\ q = p
      BY <1>5, <3>2 DEF Propose, Sees, Writing
    <3>3. CASE tx'[v] = tx[v] /\ q # p
      BY <1>5, <3>3 DEF Propose, Sees, UncrossedSee, PriceTypeOK
    <3> QED  BY <2>1, <3>1, <3>2, <3>3
  <2>5. DOMAIN tx' = Workers /\ crossed' \subseteq Workers
    BY <1>5 DEF Propose, PriceTypeOK
  <2>6. offer' \in [Partnerships -> Cards \cup {NoOffer}]
    BY <1>5, OfferInFlight DEF Propose, PriceTypeOK
  <2>7. overruled' \subseteq Partnerships /\ OverruledIsGone'
    BY <1>5 DEF Propose, PriceTypeOK, OverruledIsGone
  <2> QED  BY <1>5, <2>2, <2>3, <2>4, <2>5, <2>6, <2>7 DEF Propose, PriceTypeOK
<1>6. ASSUME NEW w \in Workers, NEW p \in Partnerships, Decide(w, p) PROVE OfferInv'
  <2>1. \A v \in Workers : HandlerOK(tx[v])'
    BY <1>6, OfferGoes, OfferIdle DEF Decide, HandlerOK
  <2>2. DOMAIN tx' = Workers /\ crossed' \subseteq Workers
    BY <1>6, OfferGoes, OfferIdle DEF Decide
  <2>3. DecidesOffers'
    BY <1>6, OfferDecides, OfferIdle DEF Decide
  <2>4. UncrossedSee'
    BY <1>6, OfferSeen, OfferIdle DEF Decide, PriceTypeOK
  <2> QED  BY <1>6, <2>1, <2>2, <2>3, <2>4, OfferInFlight DEF Decide, PriceTypeOK, OverruledIsGone
<1>7. ASSUME NEW w \in Workers, NEW p \in Partnerships, LookAgain(w, p) PROVE OfferInv'
  BY <1>7, OfferBegins, OfferIdle DEF LookAgain
<1>8. ASSUME NEW w \in Workers, NEW p \in Partnerships, Patch(w, p) PROVE OfferInv'
  <2>1. \A v \in Workers : HandlerOK(tx[v])'
    BY <1>8, OfferGoes, OfferIdle DEF Patch, HandlerOK
  <2>2. DOMAIN tx' = Workers /\ crossed' \subseteq Workers
    BY <1>8, OfferGoes, OfferIdle DEF Patch
  <2>3. /\ Patched(tx[w]) \in Cards /\ tx[w].open \in BOOLEAN
        /\ tx[w].to \in Statuses \cup {Unsent}
    BY <1>8, OfferInFlight DEF Patch
  <2>4. price' \in [Partnerships -> Cards] /\ status' \in [Partnerships -> Statuses]
    BY <1>8, <2>3 DEF Patch, PriceTypeOK
  <2>5. offer' \in [Partnerships -> Cards \cup {NoOffer}]
    BY <1>8, <2>3 DEF Patch, PriceTypeOK
  <2>6. overruled' \subseteq Partnerships
    BY <1>8 DEF Patch, PriceTypeOK
  <2>7. OverruledIsGone'
    <3>1. CASE Reprices(tx[w]) /\ w \notin crossed
      <4>1. offer[p] # NoOffer => tx[w].open
        BY <1>8, <3>1 DEF Patch, Writing, UncrossedSee, Sees
      <4>2. offer'[p] = NoOffer
        BY <1>8, <3>1, <4>1 DEF Patch, PriceTypeOK, ClearsOffer
      <4> QED  BY <1>8, <4>2 DEF Patch, PriceTypeOK, OverruledIsGone
    <3>2. CASE ~(Reprices(tx[w]) /\ w \notin crossed)
      BY <1>8, <3>2 DEF Patch, PriceTypeOK, OverruledIsGone
    <3> QED  BY <3>1, <3>2
  <2>8. DecidesOffers'
    BY <1>8, OfferDecides, OfferIdle DEF Patch
  <2>9. UncrossedSee'
    BY <1>8, OfferSeen, OfferIdle DEF Patch, PriceTypeOK
  <2> QED  BY <2>1, <2>2, <2>4, <2>5, <2>6, <2>7, <2>8, <2>9 DEF PriceTypeOK
<1>9. ASSUME NEW w \in Workers, Fail(w) PROVE OfferInv'
  BY <1>9, OfferBegins, OfferIdle DEF Fail
<1>10. CASE UNCHANGED priceVars
  BY <1>10 DEF priceVars, PriceTypeOK, OverruledIsGone, HandlerOK, UncrossedSee, Sees,
       DecidesOffers, Decides
<1> QED  BY <1>1, <1>2, <1>3, <1>4, <1>5, <1>6, <1>7, <1>8, <1>9, <1>10 DEF PriceNext
-------------------------------------------------------------------------------
LEMMA OfferAlways == PriceSpec => []OfferInv
BY OfferInit, OfferStep, PTL DEF PriceSpec

(* Every price in force and every price proposed keeps the pair rule,       *)
(* whatever partial patches and proposals are under way (rates.ts 24-45).   *)
THEOREM PairRuleHolds == PriceSpec => []PriceTypeOK
<1>1. OfferInv => PriceTypeOK
  BY DEF OfferInv
<1> QED  BY <1>1, OfferAlways, PTL

(* Only an override or the acceptance of the offer now open moves a price   *)
(* (portal.repository.ts 207-212).                                          *)
THEOREM PricesMoveByConsent == PriceSpec => PriceMovesByConsent
<1> DEFINE Moves(p) ==
        \/ price'[p] = price[p]
        \/ Overriding(p)
        \/ Accepting(p) /\ price'[p] = offer[p] /\ offer'[p] = NoOffer
<1>1. OfferInv /\ [PriceNext]_priceVars => [\A p \in Partnerships : Moves(p)]_priceVars
  <2> SUFFICES ASSUME OfferInv, PriceNext, NEW p \in Partnerships PROVE Moves(p)
    BY DEF priceVars
  <2>1. ASSUME NEW w \in Workers, NEW q \in Partnerships, Decide(w, q) PROVE Moves(p)
    <3>1. CASE p = q /\ tx[w].accept
      <4>1. tx[w] # Free /\ tx'[w] = Free
        BY <2>1 DEF Decide, Writing, Free, GoOn, OfferInv, PriceTypeOK
      <4>2. Accepting(p)
        BY <2>1, <3>1, <4>1 DEF Accepting, Decide
      <4> QED  BY <2>1, <3>1, <4>2 DEF Decide, OfferInv, PriceTypeOK
    <3>2. CASE p # q \/ ~tx[w].accept
      BY <2>1, <3>2 DEF Decide, OfferInv, PriceTypeOK
    <3> QED  BY <3>1, <3>2
  <2>2. ASSUME NEW w \in Workers, NEW q \in Partnerships, Patch(w, q) PROVE Moves(p)
    <3>1. CASE p = q
      <4>1. tx[w] # Free /\ tx'[w] = Free
        BY <2>2 DEF Patch, Writing, Free, GoOn, OfferInv, PriceTypeOK
      <4> QED  BY <2>2, <3>1, <4>1 DEF Overriding, Patch
    <3> QED  BY <2>2, <3>1 DEF Patch, OfferInv, PriceTypeOK
  <2>3. CASE UNCHANGED price
    BY <2>3
  <2> QED  BY <2>1, <2>2, <2>3
           DEF PriceNext, Accept, BeginPropose, BeginPatch, BeginDecide, Propose,
               LookAgain, Fail
<1> QED  BY <1>1, OfferAlways, PTL DEF PriceSpec, PriceMovesByConsent

(* The price an override put in stands when no proposal landed between its  *)
(* read and its write, until somebody proposes anew: whoever had read the   *)
(* offer it found open comes too late (admin.service.ts 155-170).           *)
THEOREM LoneOverridesStand == PriceSpec => LoneOverrideStands
<1> DEFINE Stands(p) == price'[p] # price[p] => Overriding(p)
<1>1. OfferInv /\ [PriceNext]_priceVars => [\A p \in overruled : Stands(p)]_priceVars
  <2> SUFFICES ASSUME OfferInv, PriceNext, NEW p \in overruled, price'[p] # price[p]
               PROVE  Overriding(p)
    BY DEF priceVars
  <2>0. p \in Partnerships
    BY DEF OfferInv, PriceTypeOK
  <2>1. offer[p] = NoOffer
    BY <2>0 DEF OfferInv, OverruledIsGone
  <2>2. ASSUME NEW w \in Workers, NEW q \in Partnerships, Decide(w, q) PROVE FALSE
    <3>1. p = q
      BY <2>0, <2>2 DEF Decide, OfferInv, PriceTypeOK
    <3>2. tx[w].expected # NoOffer
      BY <2>2 DEF Decide, Writing, OfferInv, DecidesOffers, Decides
    <3> QED  BY <2>1, <2>2, <3>1, <3>2 DEF Decide
  <2>3. ASSUME NEW w \in Workers, NEW q \in Partnerships, Patch(w, q) PROVE Overriding(p)
    <3>1. p = q
      BY <2>0, <2>3 DEF Patch, OfferInv, PriceTypeOK
    <3>2. tx[w] # Free /\ tx'[w] = Free
      BY <2>3 DEF Patch, Writing, Free, GoOn, OfferInv, PriceTypeOK
    <3> QED  BY <2>3, <3>1, <3>2 DEF Overriding, Patch
  <2> QED  BY <2>2, <2>3
           DEF PriceNext, Accept, BeginPropose, BeginPatch, BeginDecide, Propose,
               LookAgain, Fail
<1> QED  BY <1>1, OfferAlways, PTL DEF PriceSpec, LoneOverrideStands

(* A suspension is lifted by an admin's patch that says so, and by nothing  *)
(* else (portal.repository.ts 180-188).                                     *)
THEOREM SuspensionsHold == PriceSpec => SuspensionHolds
<1> DEFINE Holds(p) ==
        status[p] = "suspended" /\ status'[p] # "suspended"
            => \E w \in Workers : Writing(w, "patch", p) /\ tx[w].to = status'[p]
<1>1. OfferInv /\ [PriceNext]_priceVars => [\A p \in Partnerships : Holds(p)]_priceVars
  <2> SUFFICES ASSUME OfferInv, PriceNext, NEW p \in Partnerships,
                      status[p] = "suspended", status'[p] # "suspended"
               PROVE  \E w \in Workers : Writing(w, "patch", p) /\ tx[w].to = status'[p]
    BY DEF priceVars
  <2>1. ASSUME NEW w \in Workers, NEW q \in Partnerships, Patch(w, q)
        PROVE  Writing(w, "patch", p) /\ tx[w].to = status'[p]
    BY <2>1 DEF Patch, OfferInv, PriceTypeOK
  <2>2. ASSUME NEW q \in Partnerships, Accept(q) PROVE FALSE
    BY <2>2 DEF Accept, OfferInv, PriceTypeOK
  <2> QED  BY <2>1, <2>2
           DEF PriceNext, BeginPropose, BeginPatch, BeginDecide, Propose, Decide,
               LookAgain, Fail
<1> QED  BY <1>1, OfferAlways, PTL DEF PriceSpec, SuspensionHolds
===============================================================================
