------------------------------- MODULE Rewards --------------------------------
(***************************************************************************)
(* What the platform promises about money, with no requests, locks or      *)
(* installs in it: a reward is granted at most once for what it rewards,   *)
(* is paid out of a budget that covers it to the publisher of its          *)
(* campaign, less the platform's cut, all at one instant; one that was     *)
(* granted in part may once be made full.                                  *)
(***************************************************************************)
EXTENDS Integers

CONSTANTS Campaigns, Publishers, Scans, Users,
    PublisherOf,    \* [Campaigns -> Publishers]
    CampaignOf,     \* [Scans -> Campaigns]
    CodeOf          \* the code each scan is of

VARIABLES budget, earned, fees, outside, rewards

vars == <<budget, earned, fees, outside, rewards>>

AllRewards ==
    [kind : {"acquisition", "engagement"}, scan : Scans, user : Users, full : BOOLEAN]

(* An acquisition is one scan becoming one user of the campaign, an         *)
(* engagement is one code.                                                  *)
Conflicts(r1, r2) ==
    /\ r1.kind = r2.kind
    /\ IF r1.kind = "acquisition"
       THEN \/ r1.scan = r2.scan
            \/ CampaignOf[r1.scan] = CampaignOf[r2.scan] /\ r1.user = r2.user
       ELSE CodeOf[r1.scan] = CodeOf[r2.scan]

(* Some gross leaves the budget of c, a cut of it stays with the platform.  *)
Pays(c) ==
    LET gross == budget[c] - budget'[c]
        cut == fees' - fees
    IN  /\ 0 <= cut /\ cut <= gross /\ gross <= budget[c]
        /\ budget' = [budget EXCEPT ![c] = @ - gross]
        /\ fees' = fees + cut
        /\ earned' = [earned EXCEPT ![PublisherOf[c]] = @ + gross - cut]
        /\ UNCHANGED outside

Grant(r) ==
    /\ \A other \in rewards : ~Conflicts(r, other)
    /\ rewards' = rewards \cup {r}
    /\ Pays(CampaignOf[r.scan])

MakeFull(r) ==
    /\ r \in rewards /\ ~r.full
    /\ rewards' = (rewards \ {r}) \cup {[r EXCEPT !.full = TRUE]}
    /\ Pays(CampaignOf[r.scan])

(* Coins come in from outside, or go back. *)
Fund(c) ==
    LET coins == budget'[c] - budget[c] IN
    /\ budget[c] + coins >= 0
    /\ budget' = [budget EXCEPT ![c] = @ + coins]
    /\ outside' = outside - coins
    /\ UNCHANGED <<earned, fees, rewards>>

Init ==
    /\ \A c \in Campaigns : budget[c] >= 0
    /\ earned = [p \in Publishers |-> 0]
    /\ fees = 0
    /\ rewards = {}

Next ==
    \/ \E r \in AllRewards : Grant(r) \/ MakeFull(r)
    \/ \E c \in Campaigns : Fund(c)

Spec == Init /\ [][Next]_vars
===============================================================================
