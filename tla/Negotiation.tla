----------------------------- MODULE Negotiation ------------------------------
(***************************************************************************)
(* The price of a partnership: the promoter proposes, the publisher        *)
(* decides, and an admin may override either while they talk.              *)
(*                                                                         *)
(* Every handler reads the row, decides, and writes it in a statement of   *)
(* its own with no lock between; a worker is in the middle of one such     *)
(* request, with the row it read.  The engagement rate and the grace days  *)
(* travel with the pair and bring no rule of their own.                    *)
(***************************************************************************)
EXTENDS Integers

CONSTANTS
    Partnerships, Workers,
    CoinRates,      \* coin rates somebody may name
    GuestRates,     \* guest rates somebody may name
    NoOffer,        \* proposed_* are NULL
    Unsent          \* a field the body does not carry

Statuses == {"pending", "active", "suspended"}

Card(coin, guest) == [coin |-> coin, guest |-> guest]
(* guest_rate cannot exceed coin_rate. *)
ValidCard(card) == card.guest <= card.coin
Cards == {card \in [coin : CoinRates, guest : GuestRates] : ValidCard(card)}

ASSUME NegotiationAssumption ==
    /\ CoinRates \subseteq Nat \ {0} /\ GuestRates \subseteq Nat
    /\ NoOffer \notin Cards
    /\ Unsent \notin CoinRates /\ Unsent \notin GuestRates /\ Unsent \notin Statuses

VARIABLES
    status,         \* partnerships.status
    price,          \* coin_rate and guest_rate: what payouts read
    offer,          \* proposed_coin_rate and proposed_guest_rate
    overruled,      \* history: whose price an uncrossed override moved last, no proposal since
    crossed,        \* history: whose patch has had a proposal land on its row since it read it
    tx              \* what each worker is in the middle of

priceVars == <<status, price, offer, overruled, crossed, tx>>
-------------------------------------------------------------------------------
Patches == [coin : CoinRates \cup {Unsent}, guest : GuestRates \cup {Unsent}]

(* validateRates: the whole set after the patch, judged as a pair. *)
Resolve(patch, current) ==
    Card(IF patch.coin = Unsent THEN current.coin ELSE patch.coin,
         IF patch.guest = Unsent THEN current.guest ELSE patch.guest)

Free == [op |-> "none"]
Proposing(p, card) == [op |-> "propose", partnership |-> p, card |-> card]
Deciding(p, accept) ==
    [op |-> "decide", partnership |-> p, accept |-> accept, expected |-> offer[p]]
Patching(p, patch, to) ==
    [op |-> "patch", partnership |-> p, patch |-> patch, to |-> to, read |-> price[p],
     open |-> offer[p] # NoOffer]

GoOn(w, t) == tx' = [tx EXCEPT ![w] = t] /\ crossed' = crossed \ {w}

(* Where a request in flight is about to write. *)
Writing(w, op, p) == tx[w].op = op /\ tx[w].partnership = p
-------------------------------------------------------------------------------
(* Mutation: accepting as an undo for a suspension. *)
AcceptAnew(p) ==
    /\ status[p] # "active"
    /\ status' = [status EXCEPT ![p] = "active"]
    /\ UNCHANGED <<price, offer, overruled, crossed, tx>>

(* acceptPartnership: the status is in the WHERE. *)
Accept(p) ==
    /\ status[p] = "pending"
    /\ status' = [status EXCEPT ![p] = "active"]
    /\ UNCHANGED <<price, offer, overruled, crossed, tx>>

(* proposeRates: an active partnership, a valid pair, another price. *)
BeginPropose(w, p, patch) ==
    LET card == Resolve(patch, price[p]) IN
    /\ tx[w] = Free
    /\ status[p] = "active"
    /\ ValidCard(card) /\ card # price[p]
    /\ GoOn(w, Proposing(p, card))
    /\ UNCHANGED <<status, price, offer, overruled>>

(* updateProposal: by id, whatever the row has become. *)
Propose(w, p) ==
    /\ Writing(w, "propose", p)
    /\ offer' = [offer EXCEPT ![p] = tx[w].card]
    /\ overruled' = overruled \ {p}
    /\ tx' = [tx EXCEPT ![w] = Free]
    /\ crossed' = crossed \cup {v \in Workers : Writing(v, "patch", p)}
    /\ UNCHANGED <<status, price>>

(* The click names no price: findOpenProposal takes the one now open, and    *)
(* does not ask for the status.                                             *)
BeginDecide(w, p, accept) ==
    /\ tx[w] = Free
    /\ offer[p] # NoOffer
    /\ GoOn(w, Deciding(p, accept))
    /\ UNCHANGED <<status, price, offer, overruled>>

(* Mutation: the proposal is written as it was read, by id. *)
DecideBlindly(w, p) ==
    /\ Writing(w, "decide", p)
    /\ price' = IF tx[w].accept THEN [price EXCEPT ![p] = tx[w].expected] ELSE price
    /\ offer' = [offer EXCEPT ![p] = NoOffer]
    /\ GoOn(w, Free)
    /\ UNCHANGED <<status, overruled>>

(* decideRates: applied where the proposal is still the one read. *)
Decide(w, p) ==
    /\ Writing(w, "decide", p)
    /\ offer[p] = tx[w].expected
    /\ price' = IF tx[w].accept THEN [price EXCEPT ![p] = tx[w].expected] ELSE price
    /\ offer' = [offer EXCEPT ![p] = NoOffer]
    /\ GoOn(w, Free)
    /\ UNCHANGED <<status, overruled>>

(* Otherwise: the proposal changed, reload and look again. *)
LookAgain(w, p) ==
    /\ Writing(w, "decide", p)
    /\ offer[p] # tx[w].expected
    /\ GoOn(w, Free)
    /\ UNCHANGED <<status, price, offer, overruled>>

(* patchPartnership, up to the write. *)
BeginPatch(w, p, patch, to) ==
    /\ tx[w] = Free
    /\ ValidCard(Resolve(patch, price[p]))
    /\ GoOn(w, Patching(p, patch, to))
    /\ UNCHANGED <<status, price, offer, overruled>>

(* Mutation: only the fields the body carries are written. *)
PatchedFieldByField(t) == Resolve(t.patch, price[t.partnership])

(* Every rate is written, resolved against the row that was read. *)
Patched(t) == Resolve(t.patch, t.read)

(* repriced: against the row that was read. *)
Reprices(t) == Patched(t) # t.read

(* Mutation: an override that moves the price leaves the proposal open. *)
KeepsOffer(t) == FALSE

(* proposal_cleared: an offer that was open when the row was read. *)
ClearsOffer(t) == Reprices(t) /\ t.open

(* updatePartnership: by id. *)
Patch(w, p) ==
    /\ Writing(w, "patch", p)
    /\ price' = [price EXCEPT ![p] = Patched(tx[w])]
    /\ status' = IF tx[w].to = Unsent THEN status ELSE [status EXCEPT ![p] = tx[w].to]
    /\ offer' = IF ClearsOffer(tx[w]) THEN [offer EXCEPT ![p] = NoOffer] ELSE offer
    /\ overruled' = CASE ~Reprices(tx[w]) -> overruled
                      [] Reprices(tx[w]) /\ w \in crossed -> overruled \ {p}
                      [] Reprices(tx[w]) /\ w \notin crossed -> overruled \cup {p}
    /\ GoOn(w, Free)

(* A process that dies writes nothing. *)
Fail(w) ==
    /\ tx[w] # Free
    /\ GoOn(w, Free)
    /\ UNCHANGED <<status, price, offer, overruled>>

-------------------------------------------------------------------------------
(* requestPartnership: a valid card, waiting for the publisher. *)
PriceInit ==
    /\ status = [p \in Partnerships |-> "pending"]
    /\ price \in [Partnerships -> Cards]
    /\ offer = [p \in Partnerships |-> NoOffer]
    /\ overruled = {}
    /\ crossed = {}
    /\ tx = [w \in Workers |-> Free]

PriceNext ==
    \/ \E p \in Partnerships : Accept(p)
    \/ \E w \in Workers, p \in Partnerships :
        \/ \E patch \in Patches :
            \/ BeginPropose(w, p, patch)
            \/ \E to \in Statuses \cup {Unsent} : BeginPatch(w, p, patch, to)
        \/ \E accept \in BOOLEAN : BeginDecide(w, p, accept)
        \/ Propose(w, p) \/ Decide(w, p) \/ LookAgain(w, p) \/ Patch(w, p)
    \/ \E w \in Workers : Fail(w)

PriceSpec == PriceInit /\ [][PriceNext]_priceVars
-------------------------------------------------------------------------------
(* Properties.                                                             *)

HandlerOK(t) ==
    \/ t = Free
    \/ \E p \in Partnerships, card \in Cards : t = Proposing(p, card)
    \/ /\ t.op = "decide"
       /\ t \in [op : {"decide"}, partnership : Partnerships, accept : BOOLEAN,
                 expected : Cards]
    \/ /\ t.op = "patch"
       /\ t \in [op : {"patch"}, partnership : Partnerships, patch : Patches,
                 to : Statuses \cup {Unsent}, read : Cards, open : BOOLEAN]
       /\ Patched(t) \in Cards

(* The price in force and the price proposed are each a pair that keeps the *)
(* rule, however many partial patches, proposals and acceptances are under  *)
(* way at once: each writes the whole pair it validated (rates.ts 24-45,    *)
(* admin.service.ts 152-165), so the CHECK of the database never fires.     *)
PriceTypeOK ==
    /\ status \in [Partnerships -> Statuses]
    /\ price \in [Partnerships -> Cards]
    /\ offer \in [Partnerships -> Cards \cup {NoOffer}]
    /\ overruled \subseteq Partnerships
    /\ crossed \subseteq Workers
    /\ DOMAIN tx = Workers /\ \A w \in Workers : HandlerOK(tx[w])

(* An admin's patch is landing on p. *)
Overriding(p) == \E w \in Workers : Writing(w, "patch", p) /\ tx'[w] # tx[w]

(* A publisher is accepting the proposal open on p, which its click has read. *)
Accepting(p) ==
    \E w \in Workers :
        /\ Writing(w, "decide", p) /\ tx[w].accept /\ tx[w].expected = offer[p]
        /\ tx'[w] # tx[w]

(* Nobody but an admin moves the price, save by accepting a proposal that is *)
(* open now, number for number as the click read it, and that uses it up: a *)
(* proposal revised or withdrawn in between is not applied, nor twice       *)
(* (portal.repository.ts 207-212).  What an admin's patch does to the price *)
(* is not its subject.                                                      *)
PriceMovesByConsent ==
    [][\A p \in Partnerships :
            \/ price'[p] = price[p]
            \/ Overriding(p)
            \/ Accepting(p) /\ price'[p] = offer[p] /\ offer'[p] = NoOffer]_priceVars

(* An override that no proposal crosses between its read and its write      *)
(* stands: nothing accepted afterwards was proposed before it, whoever had  *)
(* read what was open then, and the price moves by another patch of an      *)
(* admin or when somebody proposes anew (admin.service.ts 155-170).  The    *)
(* comment there says it of any override, and the code does not do that: a  *)
(* proposal that lands between the read and the write of an override stays  *)
(* open after it, and a click that has read it puts its price in.           *)
LoneOverrideStands ==
    [][\A p \in overruled : price'[p] # price[p] => Overriding(p)]_priceVars

(* Only an admin who says so lifts a suspension, whoever else writes the    *)
(* row meanwhile (portal.repository.ts 183-190, schema.prisma 110-112).     *)
SuspensionHolds ==
    [][\A p \in Partnerships :
            status[p] = "suspended" /\ status'[p] # "suspended"
                => \E w \in Workers : Writing(w, "patch", p) /\ tx[w].to = status'[p]]_priceVars
===============================================================================
