----------------------------- MODULE AccessProofs -----------------------------
(***************************************************************************)
(* Theorems about who is let in: tenants, their keys and what a request    *)
(* may rely on once it is in (Accounts, any orgs and any number of         *)
(* requests), and how often anybody is (RateLimiter, any limit, window and *)
(* number of instances).  The two share this module and no state.          *)
(***************************************************************************)
EXTENDS Accounts, RateLimiter, TLAPS
-------------------------------------------------------------------------------
(* The tenants. *)

(* What a request saw before it was let in does not come undone: an org, or *)
(* a partnership, once entered has a row or had one.                        *)
LetIn(t) ==
    /\ t.op = "request" => \A o \in {t.pair[1], t.pair[2]} : org[o] # "none"
    /\ t.op \in {"campaign", "patch"} => partnership[t.pair] # "none"
    /\ t.op = "rotate" => org[t.org] # "none"
RequestsLetIn == \A w \in Workers : LetIn(req[w])

TenantInv == TypeOK /\ NoOrphans /\ RequestsLetIn

(* Rows that were entered stay entered. *)
Entered ==
    /\ \A o \in Orgs : org[o] # "none" => org'[o] # "none"
    /\ \A a \in Pairs : partnership[a] # "none" => partnership'[a] # "none"
-------------------------------------------------------------------------------
LEMMA PairOrgs ==
    ASSUME NEW a \in Pairs
    PROVE  a[1] \in Orgs /\ a[2] \in Orgs
BY DEF Pairs, Orgs

LEMMA TenantIdle == RequestOK(Idle) /\ LetIn(Idle)
BY DEF RequestOK, LetIn, Idle

LEMMA TenantInFlight ==
    ASSUME TypeOK, NEW w \in Workers
    PROVE  /\ req[w].op \in {"request", "accept", "campaign", "claim", "patch"} =>
                req[w].pair \in Pairs
           /\ req[w].op = "patch" => req[w].status \in CampaignStatuses
           /\ req[w].op \in {"rotate", "delete"} => req[w].org \in Orgs
<1>1. RequestOK(req[w])
  BY DEF TypeOK
<1>2. CASE req[w] = Idle
  BY <1>2 DEF Idle
<1>3. CASE req[w] \in [op : {"request", "accept", "campaign", "claim"}, pair : Pairs]
  BY <1>3
<1>4. CASE req[w] \in [op : {"patch"}, pair : Pairs, status : CampaignStatuses]
  BY <1>4
<1>5. CASE req[w] \in [op : {"rotate", "delete"}, org : Orgs]
  BY <1>5
<1> QED  BY <1>1, <1>2, <1>3, <1>4, <1>5 DEF RequestOK

LEMMA TenantGoes ==
    ASSUME TenantInv, Entered, NEW w \in Workers, NEW t, Go(w, t), RequestOK(t), LetIn(t)
    PROVE  /\ DOMAIN req' = Workers /\ \A v \in Workers : RequestOK(req[v])'
           /\ RequestsLetIn'
<1>1. DOMAIN req' = Workers /\ \A v \in Workers : req'[v] = IF v = w THEN t ELSE req[v]
  BY DEF Go, TenantInv, TypeOK
<1>2. \A v \in Workers : RequestOK(req'[v]) /\ LetIn(req'[v])
  BY <1>1 DEF TenantInv, TypeOK, RequestsLetIn
<1>3. \A v \in Workers : RequestOK(req[v])'
  BY <1>2 DEF RequestOK
<1>4. RequestsLetIn'
  <2> SUFFICES ASSUME NEW v \in Workers PROVE LetIn(req[v])'
    BY DEF RequestsLetIn
  <2> DEFINE s == IF v = w THEN t ELSE req[v]
  <2>1. RequestOK(s) /\ LetIn(s)
    BY DEF TenantInv, TypeOK, RequestsLetIn
  <2>2. req'[v] = s
    BY <1>1
  <2> HIDE DEF s
  <2>3. /\ s.op \in {"request", "campaign", "patch"} => s.pair \in Pairs
        /\ s.op = "rotate" => s.org \in Orgs
    BY <2>1 DEF RequestOK, Idle
  <2> QED  BY <2>1, <2>2, <2>3, PairOrgs DEF LetIn, Entered
<1> QED  BY <1>1, <1>3, <1>4

LEMMA TenantStays ==
    ASSUME TenantInv, Entered, UNCHANGED req
    PROVE  /\ DOMAIN req' = Workers /\ \A v \in Workers : RequestOK(req[v])'
           /\ RequestsLetIn'
<1>1. \A v \in Workers : RequestOK(req[v])'
  BY DEF TenantInv, TypeOK, RequestOK
<1>2. RequestsLetIn'
  <2> SUFFICES ASSUME NEW v \in Workers PROVE LetIn(req[v])'
    BY DEF RequestsLetIn
  <2>1. LetIn(req[v]) /\ RequestOK(req[v])
    BY DEF TenantInv, TypeOK, RequestsLetIn
  <2>2. /\ req[v].op \in {"request", "campaign", "patch"} => req[v].pair \in Pairs
        /\ req[v].op = "rotate" => req[v].org \in Orgs
    BY <2>1 DEF RequestOK, Idle
  <2> QED  BY <2>1, <2>2, PairOrgs DEF LetIn, Entered
<1> QED  BY <1>1, <1>2 DEF TenantInv, TypeOK

LEMMA TenantInit == Init => TenantInv
BY TenantIdle DEF Init, TenantInv, TypeOK, NoOrphans, HasHistory, Partners, RequestsLetIn

(* What remains once the requests are seen to: the rows. *)
TenantRows ==
    /\ org \in [Orgs -> {"none", "live", "suspended", "deleted"}]
    /\ keyed \subseteq Orgs
    /\ partnership \in [Pairs -> PartnershipStatuses \cup {"none"}]
    /\ campaign \in [Pairs -> CampaignStatuses \cup {"none"}]
    /\ \A a \in Pairs : campaign[a] # "none" => partnership[a] # "none"
    /\ scanned \subseteq Pairs

LEMMA RowsOf == TenantInv => TenantRows
BY DEF TenantInv, TypeOK, TenantRows
-------------------------------------------------------------------------------
(* The beginning of a request touches no row. *)
LEMMA TenantBegins ==
    ASSUME TenantInv, NEW w \in Workers, Begin(w)
    PROVE  TenantInv'
<1>1. \E t : Go(w, t) /\ RequestOK(t) /\ LetIn(t)
  <2>1. ASSUME NEW a \in Pairs, BeginRequest(w, a)
        PROVE  \E t : Go(w, t) /\ RequestOK(t) /\ LetIn(t)
    <3> DEFINE t == [op |-> "request", pair |-> a]
    <3>1. RequestOK(t) /\ LetIn(t)
      BY <2>1 DEF BeginRequest, HasSession, RequestOK, LetIn
    <3> QED  BY <2>1, <3>1 DEF BeginRequest
  <2>2. ASSUME NEW a \in Pairs, BeginAccept(w, a)
        PROVE  \E t : Go(w, t) /\ RequestOK(t) /\ LetIn(t)
    <3> DEFINE t == [op |-> "accept", pair |-> a]
    <3>1. RequestOK(t) /\ LetIn(t)
      BY DEF RequestOK, LetIn
    <3> QED  BY <2>2, <3>1 DEF BeginAccept
  <2>3. ASSUME NEW a \in Pairs, BeginCampaign(w, a)
        PROVE  \E t : Go(w, t) /\ RequestOK(t) /\ LetIn(t)
    <3> DEFINE t == [op |-> "campaign", pair |-> a]
    <3>1. RequestOK(t) /\ LetIn(t)
      BY <2>3 DEF BeginCampaign, RequestOK, LetIn
    <3> QED  BY <2>3, <3>1 DEF BeginCampaign
  <2>4. ASSUME NEW a \in Pairs, BeginClaim(w, a)
        PROVE  \E t : Go(w, t) /\ RequestOK(t) /\ LetIn(t)
    <3> DEFINE t == [op |-> "claim", pair |-> a]
    <3>1. RequestOK(t) /\ LetIn(t)
      BY DEF RequestOK, LetIn
    <3> QED  BY <2>4, <3>1 DEF BeginClaim
  <2>5. ASSUME NEW a \in Pairs, NEW to \in CampaignStatuses,
               BeginPatchCampaign(w, a, to)
        PROVE  \E t : Go(w, t) /\ RequestOK(t) /\ LetIn(t)
    <3> DEFINE t == [op |-> "patch", pair |-> a, status |-> to]
    <3>1. RequestOK(t) /\ LetIn(t)
      BY <2>5 DEF BeginPatchCampaign, RequestOK, LetIn, TenantInv, TypeOK
    <3> QED  BY <2>5, <3>1 DEF BeginPatchCampaign
  <2>6. ASSUME NEW o \in Orgs, BeginRotate(w, o)
        PROVE  \E t : Go(w, t) /\ RequestOK(t) /\ LetIn(t)
    <3> DEFINE t == [op |-> "rotate", org |-> o]
    <3>1. RequestOK(t) /\ LetIn(t)
      BY <2>6 DEF BeginRotate, HasSession, RequestOK, LetIn
    <3> QED  BY <2>6, <3>1 DEF BeginRotate
  <2>7. ASSUME NEW o \in Orgs, BeginDelete(w, o)
        PROVE  \E t : Go(w, t) /\ RequestOK(t) /\ LetIn(t)
    <3> DEFINE t == [op |-> "delete", org |-> o]
    <3>1. RequestOK(t) /\ LetIn(t)
      BY DEF RequestOK, LetIn
    <3> QED  BY <2>7, <3>1 DEF BeginDelete
  <2> QED  BY <2>1, <2>2, <2>3, <2>4, <2>5, <2>6, <2>7 DEF Begin
<1>2. UNCHANGED <<org, keyed, partnership, campaign, scanned>>
  BY DEF Begin, BeginRequest, BeginAccept, BeginCampaign, BeginClaim,
         BeginPatchCampaign, BeginRotate, BeginDelete
<1>3. Entered
  BY <1>2 DEF Entered
<1>4. /\ DOMAIN req' = Workers /\ \A v \in Workers : RequestOK(req[v])'
      /\ RequestsLetIn'
  BY <1>1, <1>3, TenantGoes
<1> QED  BY <1>2, <1>4 DEF TenantInv, TypeOK, NoOrphans, HasHistory, Partners

(* A request goes on, or somebody acts at once: the rows stay in order. *)
LEMMA TenantFinishes ==
    ASSUME TenantInv, TenantRows', NoOrphans', Entered,
           UNCHANGED req \/ \E w \in Workers : Go(w, Idle)
    PROVE  TenantInv'
<1>1. /\ DOMAIN req' = Workers /\ \A v \in Workers : RequestOK(req[v])'
      /\ RequestsLetIn'
  BY TenantGoes, TenantStays, TenantIdle
<1> QED  BY <1>1 DEF TenantInv, TenantRows, TypeOK

LEMMA TenantStep == TenantInv /\ [Next]_vars => TenantInv'
<1> SUFFICES ASSUME TenantInv, [Next]_vars PROVE TenantInv'
  OBVIOUS
<1>0. TenantRows
  BY RowsOf
<1>1. ASSUME NEW w \in Workers, Begin(w) PROVE TenantInv'
  BY <1>1, TenantBegins
<1>2. ASSUME NEW w \in Workers, CreatePartnership(w) PROVE TenantInv'
  <2> DEFINE a == req[w].pair
  <2>1. a \in Pairs /\ a[1] \in Orgs /\ a[2] \in Orgs
    BY <1>2, TenantInFlight, PairOrgs DEF CreatePartnership, Doing, TenantInv
  <2>2. \A o \in {a[1], a[2]} : org[o] # "none"
    BY <1>2 DEF CreatePartnership, Doing, TenantInv, RequestsLetIn, LetIn
  <2>3. NoOrphans'
    <3>1. CASE PairFree(a) /\ partnership' = [partnership EXCEPT ![a] = "pending"]
      BY <1>2, <2>1, <2>2, <3>1
         DEF CreatePartnership, TenantInv, NoOrphans, HasHistory, Partners, PairFree,
             TypeOK
    <3>2. CASE UNCHANGED partnership
      BY <1>2, <3>2 DEF CreatePartnership, TenantInv, NoOrphans, HasHistory, Partners
    <3> QED  BY <1>2, <3>1, <3>2 DEF CreatePartnership
  <2>4. TenantRows' /\ Entered
    BY <1>0, <1>2, <2>1 DEF CreatePartnership, TenantRows, Entered, PartnershipStatuses
  <2> QED  BY <1>2, <2>3, <2>4, TenantFinishes DEF CreatePartnership
<1>3. ASSUME NEW w \in Workers, Accept(w) PROVE TenantInv'
  <2>1. req[w].pair \in Pairs
    BY <1>3, TenantInFlight DEF Accept, Doing, TenantInv
  <2>2. TenantRows' /\ Entered
    BY <1>0, <1>3, <2>1 DEF Accept, TenantRows, Entered, PartnershipStatuses
  <2>3. \A b \in Pairs : partnership'[b] # "none" => partnership[b] # "none"
    BY <1>0, <1>3, <2>1 DEF Accept, TenantRows
  <2>4. NoOrphans'
    BY <1>3, <2>3 DEF Accept, TenantInv, NoOrphans, HasHistory, Partners
  <2> QED  BY <1>3, <2>2, <2>4, TenantFinishes DEF Accept
<1>4. ASSUME NEW w \in Workers, CreateCampaign(w) PROVE TenantInv'
  <2>1. req[w].pair \in Pairs
    BY <1>4, TenantInFlight DEF CreateCampaign, Doing, TenantInv
  <2>2. partnership[req[w].pair] # "none"
    BY <1>4 DEF CreateCampaign, Doing, TenantInv, RequestsLetIn, LetIn
  <2>3. TenantRows' /\ Entered
    BY <1>0, <1>4, <2>1, <2>2 DEF CreateCampaign, TenantRows, Entered, CampaignStatuses
  <2>4. NoOrphans'
    BY <1>4 DEF CreateCampaign, TenantInv, NoOrphans, HasHistory, Partners
  <2> QED  BY <1>4, <2>3, <2>4, TenantFinishes DEF CreateCampaign
<1>5. ASSUME NEW w \in Workers, PatchCampaign(w) PROVE TenantInv'
  <2>1. req[w].pair \in Pairs /\ req[w].status \in CampaignStatuses
    BY <1>5, TenantInFlight DEF PatchCampaign, Doing, TenantInv
  <2>2. partnership[req[w].pair] # "none"
    BY <1>5 DEF PatchCampaign, Doing, TenantInv, RequestsLetIn, LetIn
  <2>3. TenantRows' /\ Entered
    BY <1>0, <1>5, <2>1, <2>2 DEF PatchCampaign, TenantRows, Entered
  <2>4. NoOrphans'
    BY <1>5 DEF PatchCampaign, TenantInv, NoOrphans, HasHistory, Partners
  <2> QED  BY <1>5, <2>3, <2>4, TenantFinishes DEF PatchCampaign
<1>6. ASSUME NEW w \in Workers, Rotate(w) PROVE TenantInv'
  <2>1. req[w].org \in Orgs /\ org[req[w].org] # "none"
    BY <1>6, TenantInFlight DEF Rotate, Doing, TenantInv, RequestsLetIn, LetIn
  <2>2. TenantRows' /\ Entered
    BY <1>0, <1>6, <2>1 DEF Rotate, TenantRows, Entered
  <2>3. NoOrphans'
    BY <1>6, <2>1 DEF Rotate, TenantInv, NoOrphans, HasHistory, Partners
  <2> QED  BY <1>6, <2>2, <2>3, TenantFinishes DEF Rotate
<1>7. ASSUME NEW w \in Workers, Claim(w) PROVE TenantInv'
  <2>1. TenantRows' /\ Entered
    BY <1>0, <1>7 DEF Claim, TenantRows, Entered
  <2>2. NoOrphans'
    BY <1>7 DEF Claim, TenantInv, NoOrphans, HasHistory, Partners
  <2> QED  BY <1>7, <2>1, <2>2, TenantFinishes DEF Claim
<1>8. ASSUME NEW w \in Workers, Delete(w) PROVE TenantInv'
  <2>1. req[w].org \in Orgs
    BY <1>8, TenantInFlight DEF Delete, Doing, TenantInv
  <2>2. TenantRows' /\ Entered
    BY <1>0, <1>8, <2>1 DEF Delete, TenantRows, Entered
  <2>3. NoOrphans'
    BY <1>0, <1>8, <2>1
       DEF Delete, Deletable, TenantInv, NoOrphans, HasHistory, Partners, TenantRows
  <2> QED  BY <1>8, <2>2, <2>3, TenantFinishes DEF Delete
<1>9. ASSUME NEW o \in Orgs, Signup(o) \/ RotateFor(o) PROVE TenantInv'
  <2>1. TenantRows' /\ Entered
    BY <1>0, <1>9 DEF Signup, RotateFor, TenantRows, Entered
  <2>2. NoOrphans'
    BY <1>0, <1>9
       DEF Signup, RotateFor, TenantInv, NoOrphans, HasHistory, Partners, TenantRows
  <2> QED  BY <1>9, <2>1, <2>2, TenantFinishes DEF Signup, RotateFor
<1>10. ASSUME NEW o \in Orgs, Offboard(o) PROVE TenantInv'
  <2>1. TenantRows' /\ Entered
    BY <1>0, <1>10 DEF Offboard, TenantRows, Entered, CampaignStatuses
  <2>2. NoOrphans'
    BY <1>0, <1>10 DEF Offboard, TenantInv, NoOrphans, HasHistory, Partners, TenantRows
  <2> QED  BY <1>10, <2>1, <2>2, TenantFinishes DEF Offboard
<1>11. ASSUME NEW o \in Orgs, NEW suspended \in BOOLEAN, SetSuspended(o, suspended)
       PROVE  TenantInv'
  <2>1. TenantRows' /\ Entered
    BY <1>0, <1>11 DEF SetSuspended, TenantRows, Entered
  <2>2. NoOrphans'
    BY <1>0, <1>11 DEF SetSuspended, TenantInv, NoOrphans, HasHistory, Partners, TenantRows
  <2> QED  BY <1>11, <2>1, <2>2, TenantFinishes DEF SetSuspended
<1>12. ASSUME NEW a \in Pairs, Scan(a) PROVE TenantInv'
  <2>1. TenantRows' /\ Entered
    BY <1>0, <1>12 DEF Scan, TenantRows, Entered
  <2>2. NoOrphans'
    BY <1>12 DEF Scan, TenantInv, NoOrphans, HasHistory, Partners
  <2> QED  BY <1>12, <2>1, <2>2, TenantFinishes DEF Scan
<1>13. ASSUME NEW a \in Pairs, NEW to \in PartnershipStatuses, SetPartnership(a, to)
       PROVE  TenantInv'
  <2>1. TenantRows' /\ Entered
    BY <1>0, <1>13 DEF SetPartnership, TenantRows, Entered, PartnershipStatuses
  <2>2. \A b \in Pairs : partnership'[b] # "none" => partnership[b] # "none"
    BY <1>0, <1>13 DEF SetPartnership, TenantRows
  <2>3. NoOrphans'
    BY <1>13, <2>2 DEF SetPartnership, TenantInv, NoOrphans, HasHistory, Partners
  <2> QED  BY <1>13, <2>1, <2>3, TenantFinishes DEF SetPartnership
<1>14. ASSUME NEW a \in Pairs, NEW to \in CampaignStatuses, SetCampaign(a, to)
       PROVE  TenantInv'
  <2>1. TenantRows' /\ Entered
    BY <1>0, <1>14 DEF SetCampaign, TenantRows, Entered
  <2>2. NoOrphans'
    BY <1>14 DEF SetCampaign, TenantInv, NoOrphans, HasHistory, Partners
  <2> QED  BY <1>14, <2>1, <2>2, TenantFinishes DEF SetCampaign
<1>15. CASE UNCHANGED vars
  <2>1. TenantRows' /\ NoOrphans' /\ Entered
    BY <1>0, <1>15 DEF vars, TenantInv, NoOrphans, HasHistory, Partners, TenantRows, Entered
  <2> QED  BY <1>15, <2>1, TenantFinishes DEF vars
<1> QED  BY <1>1, <1>2, <1>3, <1>4, <1>5, <1>6, <1>7, <1>8, <1>9, <1>10, <1>11, <1>12,
            <1>13, <1>14, <1>15 DEF Next, Continue
-------------------------------------------------------------------------------
LEMMA TenantAlways == Spec => []TenantInv
BY TenantInit, TenantStep, PTL DEF Spec

(* Every column holds what it may hold, and a campaign is of a partnership  *)
(* that is there, though the one is asked for before the other is entered   *)
(* (portal.service.ts, createCampaign).                                     *)
THEOREM CampaignsHavePartners == Spec => []TypeOK
<1>1. TenantInv => TypeOK
  BY DEF TenantInv
<1> QED  BY <1>1, TenantAlways, PTL

(* A deleted org has no partnership and no key, whatever was requested or   *)
(* rotated between the count and the delete (admin.repository.ts 235-263).  *)
THEOREM DeletedOrgsHaveNothing == Spec => []NoOrphans
<1>1. TenantInv => NoOrphans
  BY DEF TenantInv
<1> QED  BY <1>1, TenantAlways, PTL
-------------------------------------------------------------------------------
(* The limiter. *)

(* What a counter that stands at n granted since it started. *)
Spent(n) == IF n > Limit THEN Limit ELSE n

(* A window that started `since` ticks ago and stands at n: what it granted  *)
(* is all there is of the last ticks, and what came before it is one window *)
(* more at most.                                                            *)
WindowOK(c, n, since) ==
    \A k \in 1 .. Window :
        /\ granted[c][k] <= Spent(n) + Limit
        /\ k <= since => granted[c][k] <= Spent(n)

(* A key without a TTL has started and does not age; a window armed late is  *)
(* older than its TTL says, never younger.                                  *)
RedisOK ==
    WindowOK("redis", counter.n, IF counter.left = NoTtl THEN 0 ELSE Window - counter.left)

(* An instance's window lasts a tick longer, for b.reset < now.              *)
BucketOK(i) ==
    IF Expired(bucket[i])
    THEN \A k \in 1 .. Window : granted[i][k] <= Limit
    ELSE WindowOK(i, bucket[i].n, Window - bucket[i].left)

LimiterInv == LimiterTypeOK /\ RedisOK /\ \A i \in Instances : BucketOK(i)
-------------------------------------------------------------------------------
(* Lemmas about one counter. *)

LEMMA Positive == Limit \in Nat /\ Window \in Nat /\ Limit > 0 /\ Window > 0
BY LimiterAssumption

LEMMA CountsAre ==
    ASSUME LimiterTypeOK, NEW c \in Counters, NEW k \in 1 .. Window
    PROVE  granted[c][k] \in Nat
BY DEF LimiterTypeOK

(* One more request leaves a counter where it may be, and what it grants is  *)
(* what it counts below the limit.                                          *)
LEMMA BumpCounts ==
    ASSUME NEW n \in 0 .. Limit + 1
    PROVE  /\ Bump(n) \in 1 .. Limit + 1
           /\ Bump(n) > Limit => Spent(Bump(n)) = Limit /\ Spent(n) = Limit
           /\ Bump(n) <= Limit => Spent(Bump(n)) = Spent(n) + 1
           /\ Spent(n) \in 0 .. Limit
BY Positive DEF Bump, Spent

LEMMA GrantType ==
    ASSUME LimiterTypeOK, NEW c \in Counters, NEW n, Grant(c, n)
    PROVE  granted' \in [Counters -> [1 .. Window -> Nat]]
<1>1. [k \in 1 .. Window |-> granted[c][k] + 1] \in [1 .. Window -> Nat]
  BY CountsAre
<1> QED  BY <1>1 DEF Grant, LimiterTypeOK

(* The grant of one counter is none of the others. *)
LEMMA GrantElsewhere ==
    ASSUME LimiterTypeOK, NEW c \in Counters, NEW n, Grant(c, n), NEW d \in Counters, d # c
    PROVE  granted'[d] = granted[d]
BY DEF Grant, LimiterTypeOK

(* A request that a window under way counts. *)
LEMMA GrantInWindow ==
    ASSUME LimiterTypeOK, NEW c \in Counters, NEW n \in 0 .. Limit + 1, NEW since \in Int,
           WindowOK(c, n, since), Grant(c, Bump(n)), NEW k \in 1 .. Window
    PROVE  /\ granted'[c][k] <= Spent(Bump(n)) + Limit
           /\ k <= since => granted'[c][k] <= Spent(Bump(n))
<1>1. granted[c][k] \in Nat /\ Spent(n) \in 0 .. Limit
  BY CountsAre, BumpCounts
<1>2. CASE Bump(n) > Limit
  BY <1>1, <1>2, BumpCounts, Positive DEF Grant, WindowOK
<1>3. CASE Bump(n) <= Limit
  <2>1. ~(Bump(n) > Limit)
    BY <1>3, BumpCounts, Positive
  <2>2. granted'[c][k] = granted[c][k] + 1
    BY <2>1 DEF Grant, LimiterTypeOK
  <2>3. Spent(Bump(n)) = Spent(n) + 1
    BY <1>3, BumpCounts
  <2> QED  BY <1>1, <2>2, <2>3, Positive DEF WindowOK
<1> QED  BY <1>2, <1>3, BumpCounts, Positive

(* A request that opens a window finds at most one full window behind it.    *)
LEMMA GrantInNewWindow ==
    ASSUME LimiterTypeOK, NEW c \in Counters, \A k \in 1 .. Window : granted[c][k] <= Limit,
           Grant(c, 1), NEW k \in 1 .. Window
    PROVE  granted'[c][k] <= Spent(1) + Limit
<1>1. granted[c][k] \in Nat
  BY CountsAre
<1>2. ~(1 > Limit) /\ Spent(1) = 1
  BY Positive DEF Spent
<1>3. granted'[c][k] = granted[c][k] + 1
  BY <1>2 DEF Grant, LimiterTypeOK
<1> QED  BY <1>1, <1>2, <1>3, Positive

(* A tick forgets, and makes no window younger. *)
LEMMA TickInWindow ==
    ASSUME LimiterTypeOK, Tick, NEW c \in Counters, NEW n \in 0 .. Limit + 1, NEW since \in Int,
           WindowOK(c, n, since), NEW k \in 1 .. Window
    PROVE  /\ granted'[c][k] <= Spent(n) + Limit
           /\ k <= since + 1 => granted'[c][k] <= Spent(n)
<1>1. granted'[c][k] = IF k = 1 THEN 0 ELSE granted[c][k - 1]
  BY DEF Tick, Aged
<1>2. Spent(n) \in 0 .. Limit
  BY BumpCounts
<1>3. CASE k = 1
  BY <1>1, <1>2, <1>3, Positive
<1>4. CASE k # 1
  <2>1. k - 1 \in 1 .. Window
    BY <1>4, Positive
  <2> QED  BY <1>1, <1>4, <2>1 DEF WindowOK
<1> QED  BY <1>3, <1>4
-------------------------------------------------------------------------------
LEMMA LimiterInitInv == LimiterInit => LimiterInv
<1> SUFFICES ASSUME LimiterInit PROVE LimiterInv
  OBVIOUS
<1>1. LimiterTypeOK
  BY Positive DEF LimiterInit, LimiterTypeOK, Absent, NoBucket, NoTtl, Unasked
<1>2. \A c \in Counters, k \in 1 .. Window : granted[c][k] = 0
  BY DEF LimiterInit
<1>3. RedisOK
  BY <1>2, Positive DEF LimiterInit, RedisOK, WindowOK, Spent, Absent, NoTtl, Counters
<1>4. ASSUME NEW i \in Instances PROVE BucketOK(i)
  BY <1>2, Positive DEF LimiterInit, BucketOK, Expired, NoBucket, Counters
<1> QED  BY <1>1, <1>3, <1>4 DEF LimiterInv

(* A step that neither asks Redis nor lets time pass moves nothing in it.    *)
LEMMA RedisUntouched ==
    ASSUME RedisOK, counter' = counter, granted'["redis"] = granted["redis"]
    PROVE  RedisOK'
BY DEF RedisOK, WindowOK

LEMMA BucketUntouched ==
    ASSUME NEW i \in Instances, BucketOK(i), bucket'[i] = bucket[i], granted'[i] = granted[i]
    PROVE  BucketOK(i)'
BY DEF BucketOK, WindowOK, Expired

(* PEXPIRE leaves the value: what the key granted is what it granted.        *)
LEMMA ArmedOK ==
    ASSUME LimiterTypeOK, RedisOK, counter' = Armed, granted'["redis"] = granted["redis"]
    PROVE  /\ RedisOK'
           /\ counter' \in [n : 0 .. Limit + 1, left : 0 .. Window]
           /\ counter'.n = 0 => counter' = Absent
<1>1. CASE counter' = counter
  BY <1>1, RedisUntouched DEF LimiterTypeOK
<1>2. CASE counter.n # 0 /\ counter.left = NoTtl /\ counter' = [counter EXCEPT !.left = Window]
  <2>1. counter'.n = counter.n /\ counter'.left = Window
    BY <1>2 DEF LimiterTypeOK
  <2>2. counter' \in [n : 0 .. Limit + 1, left : 0 .. Window]
    BY <1>2, Positive DEF LimiterTypeOK
  <2>3. RedisOK'
    BY <1>2, <2>1, Positive DEF RedisOK, WindowOK, NoTtl
  <2> QED  BY <1>2, <2>1, <2>2, <2>3
<1> QED  BY <1>1, <1>2 DEF Armed

LEMMA CountLocallyOK ==
    ASSUME LimiterTypeOK, NEW i \in Instances, BucketOK(i), CountLocally(i)
    PROVE  /\ bucket' \in [Instances -> [n : 0 .. Limit + 1, left : -1 .. Window]]
           /\ granted' \in [Counters -> [1 .. Window -> Nat]]
           /\ BucketOK(i)'
           /\ \A j \in Instances \ {i} : bucket'[j] = bucket[j]
           /\ \A d \in Counters \ {i} : granted'[d] = granted[d]
<1>1. i \in Counters /\ bucket[i] \in [n : 0 .. Limit + 1, left : -1 .. Window]
  BY DEF Counters, LimiterTypeOK
<1>2. CASE Expired(bucket[i])
  <2>1. bucket' = [bucket EXCEPT ![i] = [n |-> 1, left |-> Window]] /\ Grant(i, 1)
    BY <1>2 DEF CountLocally
  <2>2. bucket'[i] = [n |-> 1, left |-> Window]
    BY <2>1 DEF LimiterTypeOK
  <2>3. \A k \in 1 .. Window : granted'[i][k] <= Spent(1) + Limit
    BY <1>1, <1>2, <2>1, GrantInNewWindow DEF BucketOK
  <2>4. BucketOK(i)'
    BY <2>2, <2>3, Positive DEF BucketOK, WindowOK, Expired
  <2>5. bucket' \in [Instances -> [n : 0 .. Limit + 1, left : -1 .. Window]]
    BY <2>1, Positive DEF LimiterTypeOK
  <2> QED  BY <1>1, <2>1, <2>4, <2>5, GrantType, GrantElsewhere DEF LimiterTypeOK
<1>3. CASE ~Expired(bucket[i])
  <2>1. bucket' = [bucket EXCEPT ![i].n = Bump(@)] /\ Grant(i, Bump(bucket[i].n))
    BY <1>3 DEF CountLocally, LimiterTypeOK
  <2>2. /\ bucket'[i].n = Bump(bucket[i].n) /\ bucket'[i].left = bucket[i].left
        /\ bucket'[i] \in [n : 0 .. Limit + 1, left : -1 .. Window]
    BY <1>1, <2>1, BumpCounts DEF LimiterTypeOK
  <2>3. WindowOK(i, bucket[i].n, Window - bucket[i].left)
    BY <1>3 DEF BucketOK
  <2>4. \A k \in 1 .. Window :
            /\ granted'[i][k] <= Spent(Bump(bucket[i].n)) + Limit
            /\ k <= Window - bucket[i].left => granted'[i][k] <= Spent(Bump(bucket[i].n))
    BY <1>1, <2>1, <2>3, GrantInWindow, Positive
  <2>5. BucketOK(i)'
    BY <1>3, <2>2, <2>4 DEF BucketOK, WindowOK, Expired
  <2>6. bucket' \in [Instances -> [n : 0 .. Limit + 1, left : -1 .. Window]]
    BY <2>1, <2>2 DEF LimiterTypeOK
  <2> QED  BY <1>1, <2>1, <2>5, <2>6, GrantType, GrantElsewhere DEF LimiterTypeOK
<1> QED  BY <1>2, <1>3
-------------------------------------------------------------------------------
LEMMA LimiterStepInv == LimiterInv /\ [LimiterNext]_limiterVars => LimiterInv'
<1> SUFFICES ASSUME LimiterInv, [LimiterNext]_limiterVars PROVE LimiterInv'
  OBVIOUS
<1> USE DEF LimiterInv
<1>0. "redis" \in Counters /\ Instances = Counters \ {"redis"}
  BY LimiterAssumption DEF Counters
<1>1. ASSUME NEW r \in Requests, Incr(r) PROVE LimiterInv'
  <2>1. counter.n \in 0 .. Limit + 1 /\ counter.left \in 0 .. Window
    BY DEF LimiterTypeOK
  <2>2. /\ counter' = [counter EXCEPT !.n = Bump(counter.n)]
        /\ counter'.n = Bump(counter.n) /\ counter'.left = counter.left
        /\ Grant("redis", Bump(counter.n))
        /\ heard' = [heard EXCEPT ![r] = Bump(counter.n)] /\ UNCHANGED <<up, bucket>>
    BY <1>1 DEF Incr, LimiterTypeOK
  <2>3. counter' \in [n : 0 .. Limit + 1, left : 0 .. Window] /\ counter'.n # 0
    BY <2>1, <2>2, BumpCounts DEF LimiterTypeOK
  <2>4. granted' \in [Counters -> [1 .. Window -> Nat]]
    BY <1>0, <2>2, GrantType
  <2>5. LimiterTypeOK'
    BY <2>1, <2>2, <2>3, <2>4, BumpCounts DEF LimiterTypeOK
  <2>6. RedisOK'
    <3> DEFINE since == IF counter.left = NoTtl THEN 0 ELSE Window - counter.left
    <3>1. since \in Int /\ WindowOK("redis", counter.n, since)
      BY <2>1, Positive DEF RedisOK
    <3>2. since' = since
      BY <2>2
    <3> HIDE DEF since
    <3>3. \A k \in 1 .. Window :
            /\ granted'["redis"][k] <= Spent(Bump(counter.n)) + Limit
            /\ k <= since => granted'["redis"][k] <= Spent(Bump(counter.n))
      BY <1>0, <2>1, <2>2, <3>1, GrantInWindow
    <3> QED  BY <2>2, <3>2, <3>3 DEF RedisOK, WindowOK, since
  <2>7. ASSUME NEW i \in Instances PROVE BucketOK(i)'
    BY <1>0, <2>2, GrantElsewhere, BucketUntouched
  <2> QED  BY <2>5, <2>6, <2>7
<1>2. ASSUME NEW r \in Requests, Reply(r) PROVE LimiterInv'
  <2>1. RedisOK' /\ counter' \in [n : 0 .. Limit + 1, left : 0 .. Window]
                 /\ (counter'.n = 0 => counter' = Absent)
    BY <1>2, ArmedOK DEF Reply
  <2>2. LimiterTypeOK'
    BY <1>2, <2>1, Positive DEF Reply, LimiterTypeOK, Unasked
  <2>3. ASSUME NEW i \in Instances PROVE BucketOK(i)'
    BY <1>2, BucketUntouched DEF Reply
  <2> QED  BY <2>1, <2>2, <2>3
<1>3. ASSUME NEW r \in Requests, Fallback(r) PROVE LimiterInv'
  <2>1. PICK i \in Instances : i = InstanceOf[r]
    BY LimiterAssumption
  <2>2. CountLocally(i) /\ BucketOK(i) /\ (counter' = counter \/ counter' = Armed)
    BY <1>3, <2>1 DEF Fallback
  <2>3. /\ bucket' \in [Instances -> [n : 0 .. Limit + 1, left : -1 .. Window]]
        /\ granted' \in [Counters -> [1 .. Window -> Nat]]
        /\ BucketOK(i)'
        /\ \A j \in Instances \ {i} : bucket'[j] = bucket[j]
        /\ \A d \in Counters \ {i} : granted'[d] = granted[d]
    BY <2>2, CountLocallyOK
  <2>4. granted'["redis"] = granted["redis"]
    BY <1>0, <2>3
  <2>5. RedisOK' /\ counter' \in [n : 0 .. Limit + 1, left : 0 .. Window]
                 /\ (counter'.n = 0 => counter' = Absent)
    BY <2>2, <2>4, ArmedOK, RedisUntouched DEF LimiterTypeOK
  <2>6. LimiterTypeOK'
    BY <1>3, <2>3, <2>5, Positive DEF Fallback, LimiterTypeOK, Unasked
  <2>7. ASSUME NEW j \in Instances PROVE BucketOK(j)'
    BY <1>0, <2>3, BucketUntouched
  <2> QED  BY <2>5, <2>6, <2>7
<1>4. ASSUME NEW i \in Instances, Sweep(i) PROVE LimiterInv'
  <2>1. LimiterTypeOK' /\ RedisOK'
    BY <1>4, Positive, RedisUntouched DEF Sweep, LimiterTypeOK, NoBucket
  <2>2. ASSUME NEW j \in Instances PROVE BucketOK(j)'
    <3>1. CASE j = i
      BY <1>4, <3>1 DEF Sweep, LimiterTypeOK, BucketOK, Expired, NoBucket
    <3>2. CASE j # i
      BY <1>4, <3>2, BucketUntouched DEF Sweep, LimiterTypeOK
    <3> QED  BY <3>1, <3>2
  <2> QED  BY <2>1, <2>2
<1>5. ASSUME NEW there \in BOOLEAN, Redis(there) PROVE LimiterInv'
  <2>1. LimiterTypeOK' /\ RedisOK'
    BY <1>5, RedisUntouched DEF Redis, LimiterTypeOK
  <2>2. ASSUME NEW j \in Instances PROVE BucketOK(j)'
    BY <1>5, BucketUntouched DEF Redis
  <2> QED  BY <2>1, <2>2
<1>6. CASE Tick
  <2>1. /\ counter \in [n : 0 .. Limit + 1, left : 0 .. Window]
        /\ bucket \in [Instances -> [n : 0 .. Limit + 1, left : -1 .. Window]]
        /\ granted' = [c \in Counters |-> Aged(granted[c])]
    BY <1>6 DEF Tick, LimiterTypeOK
  <2>2. granted' \in [Counters -> [1 .. Window -> Nat]]
    <3>1. ASSUME NEW c \in Counters PROVE Aged(granted[c]) \in [1 .. Window -> Nat]
      BY CountsAre, Positive DEF Aged
    <3> QED  BY <2>1, <3>1
  <2>3. counter' \in [n : 0 .. Limit + 1, left : 0 .. Window]
        /\ (counter'.n = 0 => counter' = Absent)
    BY <1>6, <2>1, Positive DEF Tick, LimiterTypeOK, Absent, NoTtl
  <2>4. bucket' \in [Instances -> [n : 0 .. Limit + 1, left : -1 .. Window]]
    BY <1>6, <2>1, Positive DEF Tick, Expired
  <2>5. LimiterTypeOK'
    BY <1>6, <2>2, <2>3, <2>4 DEF Tick, LimiterTypeOK
  <2>6. RedisOK'
    <3> DEFINE since == IF counter.left = NoTtl THEN 0 ELSE Window - counter.left
    <3>1. since \in Int /\ WindowOK("redis", counter.n, since)
      BY <2>1, Positive DEF RedisOK
    <3>2. \A k \in 1 .. Window :
            /\ granted'["redis"][k] <= Spent(counter.n) + Limit
            /\ k <= since + 1 => granted'["redis"][k] <= Spent(counter.n)
      <4> HIDE DEF since
      <4> QED  BY <1>0, <1>6, <2>1, <3>1, TickInWindow
    <3>3. CASE counter.left = 1
      <4>1. counter' = Absent /\ since + 1 = Window
        BY <1>6, <3>3, Positive DEF Tick, NoTtl
      <4>2. \A k \in 1 .. Window : granted'["redis"][k] <= Spent(counter.n)
        BY <3>2, <4>1
      <4>3. Spent(counter.n) \in 0 .. Limit
        BY <2>1, BumpCounts
      <4>4. \A k \in 1 .. Window : granted'["redis"][k] <= Limit
        BY <1>0, <2>2, <4>2, <4>3, Positive
      <4>5. Spent(0) = 0
        BY Positive DEF Spent
      <4> QED  BY <4>1, <4>4, <4>5, Positive DEF RedisOK, WindowOK, Absent, NoTtl
    <3>4. CASE counter.left = NoTtl
      <4>1. counter' = counter
        BY <1>6, <3>4 DEF Tick, NoTtl
      <4> QED  BY <3>2, <3>4, <4>1 DEF RedisOK, WindowOK
    <3>5. CASE counter.left # 1 /\ counter.left # NoTtl
      <4>1. counter'.n = counter.n /\ counter'.left = counter.left - 1
        BY <1>6, <2>1, <3>5 DEF Tick
      <4>2. since + 1 = Window - counter'.left /\ counter'.left # NoTtl
        BY <2>1, <3>5, <4>1, Positive DEF NoTtl
      <4> QED  BY <3>2, <4>1, <4>2 DEF RedisOK, WindowOK
    <3> QED  BY <3>3, <3>4, <3>5
  <2>7. ASSUME NEW i \in Instances PROVE BucketOK(i)'
    <3>1. i \in Counters /\ bucket[i] \in [n : 0 .. Limit + 1, left : -1 .. Window]
      BY <1>0, <2>1
    <3>2. CASE Expired(bucket[i])
      <4>1. bucket'[i] = bucket[i]
        BY <1>6, <3>2 DEF Tick
      <4>2. \A k \in 1 .. Window : granted[i][k] <= Limit
        BY <3>2 DEF BucketOK
      <4>3. \A k \in 1 .. Window : granted'[i][k] <= Limit
        BY <2>1, <3>1, <4>2, Positive DEF Aged
      <4> QED  BY <3>2, <4>1, <4>3 DEF BucketOK, Expired
    <3>3. CASE ~Expired(bucket[i])
      <4>1. bucket'[i].n = bucket[i].n /\ bucket'[i].left = bucket[i].left - 1
        BY <1>6, <3>1, <3>3 DEF Tick
      <4>2. WindowOK(i, bucket[i].n, Window - bucket[i].left)
        BY <3>3 DEF BucketOK
      <4>3. \A k \in 1 .. Window :
                /\ granted'[i][k] <= Spent(bucket[i].n) + Limit
                /\ k <= Window - bucket[i].left + 1 => granted'[i][k] <= Spent(bucket[i].n)
        BY <1>6, <3>1, <4>2, TickInWindow, Positive
      <4>4. CASE bucket[i].left = 0
        <5>1. Spent(bucket[i].n) \in 0 .. Limit
          BY <3>1, BumpCounts
        <5>2. \A k \in 1 .. Window : granted'[i][k] <= Spent(bucket[i].n)
          BY <4>3, <4>4, Positive
        <5>3. \A k \in 1 .. Window : granted'[i][k] <= Limit
          BY <2>2, <3>1, <5>1, <5>2, Positive
        <5> QED  BY <4>1, <4>4, <5>3 DEF BucketOK, Expired
      <4>5. CASE bucket[i].left # 0
        <5>1. ~Expired(bucket'[i])
          BY <3>1, <3>3, <4>1, <4>5 DEF Expired
        <5>2. Window - bucket'[i].left = Window - bucket[i].left + 1
          BY <3>1, <4>1, Positive
        <5> QED  BY <4>1, <4>3, <5>1, <5>2 DEF BucketOK, WindowOK, Expired
      <4> QED  BY <4>4, <4>5
    <3> QED  BY <3>2, <3>3
  <2> QED  BY <2>5, <2>6, <2>7
<1>7. CASE UNCHANGED limiterVars
  BY <1>7, RedisUntouched, BucketUntouched DEF limiterVars, LimiterTypeOK
<1> QED  BY <1>1, <1>2, <1>3, <1>4, <1>5, <1>6, <1>7 DEF LimiterNext
-------------------------------------------------------------------------------
LEMMA LimiterAlways == LimiterSpec => []LimiterInv
BY LimiterInitInv, LimiterStepInv, PTL DEF LimiterSpec

(* Every variable holds what it may hold, and a key of Redis that counts     *)
(* nothing is not there (security.ts 36-39).                                *)
THEOREM LimiterTypeCorrect == LimiterSpec => []LimiterTypeOK
<1>1. LimiterInv => LimiterTypeOK
  BY DEF LimiterInv
<1> QED  BY <1>1, LimiterAlways, PTL

(* No counter grants more than two full windows in the time of one, however  *)
(* Redis fails and whichever PEXPIRE is lost (security.ts 20-28, 44-57).    *)
THEOREM LimitsHold == LimiterSpec => []DegradesToInstances
<1>1. LimiterInv => DegradesToInstances
  <2> SUFFICES ASSUME LimiterInv, NEW c \in Counters PROVE granted[c][Window] <= 2 * Limit
    BY DEF DegradesToInstances
  <2>1. Window \in 1 .. Window /\ granted[c][Window] \in Nat
    BY CountsAre, Positive DEF LimiterInv
  <2>2. CASE c = "redis"
    <3>1. Spent(counter.n) \in 0 .. Limit
      BY BumpCounts DEF LimiterInv, LimiterTypeOK
    <3> QED  BY <2>1, <2>2, <3>1, Positive DEF LimiterInv, RedisOK, WindowOK
  <2>3. ASSUME NEW i \in Instances, c = i PROVE granted[c][Window] <= 2 * Limit
    <3>1. Spent(bucket[i].n) \in 0 .. Limit
      BY BumpCounts DEF LimiterInv, LimiterTypeOK
    <3> QED  BY <2>1, <2>3, <3>1, Positive DEF LimiterInv, BucketOK, WindowOK
  <2> QED  BY <2>2, <2>3 DEF Counters
<1> QED  BY <1>1, LimiterAlways, PTL
===============================================================================
