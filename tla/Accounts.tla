------------------------------- MODULE Accounts -------------------------------
(***************************************************************************)
(* Tenants and what they may do: orgs sign up, are suspended, reinstated,  *)
(* offboarded and deleted by an admin, while their own requests enter      *)
(* partnerships, run campaigns and claim rewards.                          *)
(*                                                                         *)
(* A request is let in by AuthGuard (a session) or orgFromKey (an API key) *)
(* with a read of the org's row, and goes on with statements of its own:   *)
(* an admin may act in between.  One campaign stands for those of a        *)
(* partnership, and one scan for those not claimed yet; a scan's own races *)
(* are the subject of Attribution.                                         *)
(***************************************************************************)
CONSTANTS Promoters, Publishers, Workers

Orgs == Promoters \cup Publishers
Pairs == Promoters \X Publishers

ASSUME AccountsAssumption == Promoters \cap Publishers = {}

VARIABLES
    org,            \* whether the row is there, and orgs.suspended
    keyed,          \* orgs whose api_key_hash is not NULL
    partnership,    \* partnerships.status of each pair
    campaign,       \* campaigns.status
    scanned,        \* pairs with a scan nobody has claimed
    req             \* what each worker is in the middle of

vars == <<org, keyed, partnership, campaign, scanned, req>>
-------------------------------------------------------------------------------
Partners(o) == {a \in Pairs : o \in {a[1], a[2]}}
HasHistory(o) == \E a \in Partners(o) : partnership[a] # "none"

Idle == [op |-> "none"]
Go(w, next) == req' = [req EXCEPT ![w] = next]
Doing(w, op) == req[w].op = op

(* AuthGuard: the row is there and not suspended, on every request. *)
HasSession(o) == org[o] = "live"

(* Mutation: the hash alone finds the org. *)
HashMatches(o) == o \in keyed

(* orgFromKey: the hash, and not suspended. *)
HoldsKey(o) == o \in keyed /\ org[o] = "live"
-------------------------------------------------------------------------------
(* The tenants.                                                            *)

Signup(o) ==
    /\ org[o] = "none"
    /\ org' = [org EXCEPT ![o] = "live"]
    /\ keyed' = keyed \cup {o}
    /\ UNCHANGED <<partnership, campaign, scanned, req>>

(* requestPartnership: the publisher is eligible (every one is taken as      *)
(* approved); then the row is inserted.                                     *)
BeginRequest(w, a) ==
    /\ req[w] = Idle
    /\ HasSession(a[1]) /\ org[a[2]] = "live"
    /\ Go(w, [op |-> "request", pair |-> a])
    /\ UNCHANGED <<org, keyed, partnership, campaign, scanned>>

(* Mutation: nothing ties the row to its orgs. *)
PairFreeAndUntied(a) == partnership[a] = "none"

(* One per pair, and both orgs are still there: UNIQUE and the foreign keys. *)
PairFree(a) == partnership[a] = "none" /\ \A o \in {a[1], a[2]} : org[o] # "deleted"

(* createPartnership; a violated constraint is answered and changes nothing. *)
CreatePartnership(w) ==
    LET a == req[w].pair IN
    /\ Doing(w, "request")
    /\ partnership' = IF PairFree(a) THEN [partnership EXCEPT ![a] = "pending"] ELSE partnership
    /\ Go(w, Idle)
    /\ UNCHANGED <<org, keyed, campaign, scanned>>

(* acceptPartnership, behind the guard. *)
BeginAccept(w, a) ==
    /\ req[w] = Idle /\ HasSession(a[2])
    /\ Go(w, [op |-> "accept", pair |-> a])
    /\ UNCHANGED <<org, keyed, partnership, campaign, scanned>>

Accept(w) ==
    LET a == req[w].pair IN
    /\ Doing(w, "accept")
    /\ partnership' = IF partnership[a] = "pending"
                      THEN [partnership EXCEPT ![a] = "active"] ELSE partnership
    /\ Go(w, Idle)
    /\ UNCHANGED <<org, keyed, campaign, scanned>>

(* Mutation: the partnership is not asked for. *)
BeginCampaignUnasked(w, a) ==
    /\ req[w] = Idle /\ HasSession(a[1])
    /\ campaign[a] = "none"
    /\ Go(w, [op |-> "campaign", pair |-> a])
    /\ UNCHANGED <<org, keyed, partnership, campaign, scanned>>

(* createCampaign: an active partnership is found; then it is inserted. *)
BeginCampaign(w, a) ==
    /\ req[w] = Idle /\ HasSession(a[1])
    /\ partnership[a] = "active" /\ campaign[a] = "none"
    /\ Go(w, [op |-> "campaign", pair |-> a])
    /\ UNCHANGED <<org, keyed, partnership, campaign, scanned>>

CreateCampaign(w) ==
    /\ Doing(w, "campaign")
    /\ campaign' = [campaign EXCEPT ![req[w].pair] = "active"]
    /\ Go(w, Idle)
    /\ UNCHANGED <<org, keyed, partnership, scanned>>

(* patchCampaign: any status, whatever the row has become. *)
BeginPatchCampaign(w, a, status) ==
    /\ req[w] = Idle /\ HasSession(a[1])
    /\ campaign[a] # "none"
    /\ Go(w, [op |-> "patch", pair |-> a, status |-> status])
    /\ UNCHANGED <<org, keyed, partnership, campaign, scanned>>

PatchCampaign(w) ==
    /\ Doing(w, "patch")
    /\ campaign' = [campaign EXCEPT ![req[w].pair] = req[w].status]
    /\ Go(w, Idle)
    /\ UNCHANGED <<org, keyed, partnership, scanned>>

BeginRotate(w, o) ==
    /\ req[w] = Idle /\ HasSession(o)
    /\ Go(w, [op |-> "rotate", org |-> o])
    /\ UNCHANGED <<org, keyed, partnership, campaign, scanned>>

(* rotateKey: by id, a row that is there. *)
Rotate(w) ==
    LET o == req[w].org IN
    /\ Doing(w, "rotate")
    /\ keyed' = IF org[o] = "deleted" THEN keyed ELSE keyed \cup {o}
    /\ Go(w, Idle)
    /\ UNCHANGED <<org, partnership, campaign, scanned>>
-------------------------------------------------------------------------------
(* Scans and claims.                                                       *)

(* handleScan asks the campaign and the partnership, and neither org. *)
Scan(a) ==
    /\ campaign[a] = "active" /\ partnership[a] = "active"
    /\ scanned' = scanned \cup {a}
    /\ UNCHANGED <<org, keyed, partnership, campaign, req>>

BeginClaim(w, a) ==
    /\ req[w] = Idle /\ HoldsKey(a[2])
    /\ Go(w, [op |-> "claim", pair |-> a])
    /\ UNCHANGED <<org, keyed, partnership, campaign, scanned>>

(* claim, as one transaction: what it asks is asked again, but for the key. *)
Claim(w) ==
    LET a == req[w].pair IN
    /\ Doing(w, "claim")
    /\ \/ campaign[a] = "active" /\ partnership[a] = "active" /\ scanned' = scanned \ {a}
       \/ UNCHANGED scanned
    /\ Go(w, Idle)
    /\ UNCHANGED <<org, keyed, partnership, campaign>>
-------------------------------------------------------------------------------
(* The admins.                                                             *)

(* patchOrg: the partnerships and campaigns are left as they are. *)
SetSuspended(o, suspended) ==
    /\ org[o] \in {"live", "suspended"}
    /\ org' = [org EXCEPT ![o] = IF suspended THEN "suspended" ELSE "live"]
    /\ UNCHANGED <<keyed, partnership, campaign, scanned, req>>

(* rotateKey of the console: any tenant's, suspended or not. *)
RotateFor(o) ==
    /\ org[o] \in {"live", "suspended"}
    /\ keyed' = keyed \cup {o}
    /\ UNCHANGED <<org, partnership, campaign, scanned, req>>

(* offboard: the three in one transaction. *)
Offboard(o) ==
    /\ org[o] \in {"live", "suspended"}
    /\ org' = [org EXCEPT ![o] = "suspended"]
    /\ keyed' = keyed \ {o}
    /\ campaign' = [a \in Pairs |->
            IF a \in Partners(o) /\ campaign[a] # "none" THEN "ended" ELSE campaign[a]]
    /\ UNCHANGED <<partnership, scanned, req>>

(* deleteOrg counts what the org has to its name ... *)
BeginDelete(w, o) ==
    /\ req[w] = Idle
    /\ org[o] \in {"live", "suspended"} /\ ~HasHistory(o)
    /\ Go(w, [op |-> "delete", org |-> o])
    /\ UNCHANGED <<org, keyed, partnership, campaign, scanned>>

(* ON DELETE RESTRICT. *)
Deletable(o) == ~HasHistory(o)

(* ... and deletes it, where nothing refers to it. *)
Delete(w) ==
    LET o == req[w].org IN
    /\ Doing(w, "delete")
    /\ IF Deletable(o)
       THEN org' = [org EXCEPT ![o] = "deleted"] /\ keyed' = keyed \ {o}
       ELSE UNCHANGED <<org, keyed>>
    /\ Go(w, Idle)
    /\ UNCHANGED <<partnership, campaign, scanned>>

(* patchPartnership and setCampaignStatus, of the console. *)
SetPartnership(a, status) ==
    /\ partnership[a] # "none"
    /\ partnership' = [partnership EXCEPT ![a] = status]
    /\ UNCHANGED <<org, keyed, campaign, scanned, req>>

SetCampaign(a, status) ==
    /\ campaign[a] # "none"
    /\ campaign' = [campaign EXCEPT ![a] = status]
    /\ UNCHANGED <<org, keyed, partnership, scanned, req>>
-------------------------------------------------------------------------------
Init ==
    /\ org = [o \in Orgs |-> "none"]
    /\ keyed = {}
    /\ partnership = [a \in Pairs |-> "none"]
    /\ campaign = [a \in Pairs |-> "none"]
    /\ scanned = {}
    /\ req = [w \in Workers |-> Idle]

PartnershipStatuses == {"pending", "active", "suspended"}
CampaignStatuses == {"active", "paused", "ended"}

Begin(w) ==
    \/ \E a \in Pairs :
        \/ BeginRequest(w, a) \/ BeginAccept(w, a) \/ BeginCampaign(w, a) \/ BeginClaim(w, a)
        \/ \E status \in CampaignStatuses : BeginPatchCampaign(w, a, status)
    \/ \E o \in Orgs : BeginRotate(w, o) \/ BeginDelete(w, o)

Continue(w) ==
    \/ CreatePartnership(w) \/ Accept(w) \/ CreateCampaign(w) \/ PatchCampaign(w)
    \/ Rotate(w) \/ Claim(w) \/ Delete(w)

Next ==
    \/ \E w \in Workers : Begin(w) \/ Continue(w)
    \/ \E o \in Orgs :
        \/ Signup(o) \/ RotateFor(o) \/ Offboard(o)
        \/ \E suspended \in BOOLEAN : SetSuspended(o, suspended)
    \/ \E a \in Pairs :
        \/ Scan(a)
        \/ \E status \in PartnershipStatuses : SetPartnership(a, status)
        \/ \E status \in CampaignStatuses : SetCampaign(a, status)

Spec == Init /\ [][Next]_vars
-------------------------------------------------------------------------------
(* Properties.                                                             *)

RequestOK(t) ==
    \/ t = Idle
    \/ t \in [op : {"request", "accept", "campaign", "claim"}, pair : Pairs]
    \/ t \in [op : {"patch"}, pair : Pairs, status : CampaignStatuses]
    \/ t \in [op : {"rotate", "delete"}, org : Orgs]

(* Every variable holds what its column may hold, and a campaign belongs to  *)
(* a partnership that is there.                                             *)
TypeOK ==
    /\ org \in [Orgs -> {"none", "live", "suspended", "deleted"}]
    /\ keyed \subseteq Orgs
    /\ partnership \in [Pairs -> PartnershipStatuses \cup {"none"}]
    /\ campaign \in [Pairs -> CampaignStatuses \cup {"none"}]
    /\ \A a \in Pairs : campaign[a] # "none" => partnership[a] # "none"
    /\ scanned \subseteq Pairs
    /\ DOMAIN req = Workers /\ \A w \in Workers : RequestOK(req[w])

(* An org that was deleted has no partnership, though one may be requested   *)
(* between the count and the delete, and an org deleted between the check   *)
(* and the request (admin.repository.ts 235-263, portal.repository.ts        *)
(* 155-162).                                                                *)
NoOrphans ==
    \A o \in Orgs : org[o] \in {"none", "deleted"} => ~HasHistory(o) /\ o \notin keyed

(* A claim for the scan of a is paid. *)
Earned(a) == a \in scanned /\ a \notin scanned'

(* A publisher that stays suspended is, after the claims let in before, paid *)
(* no more (api-key.ts 26-28, USER_GUIDE.md 1269).                          *)
SuspendedStopsEarning ==
    \A p \in Publishers :
        <>[](org[p] = "suspended") => <>[][\A a \in Partners(p) : ~Earned(a)]_vars
===============================================================================
