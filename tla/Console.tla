-------------------------------- MODULE Console -------------------------------
(***************************************************************************)
(* The promoter's campaign page: the Edit dialog of                        *)
(* frontend/app/dashboard/dialogs.ts, the three calls a save fans out into *)
(* and what the API makes of them, while claims spend the budget and an    *)
(* admin or another tab changes the status.                                *)
(*                                                                         *)
(* A tab shows the campaign as it was when the page was rendered, and a    *)
(* dialog keeps that row however old it gets.  Saving does not disable     *)
(* Edit, so a tab may have several saves under way; each is a sequence of  *)
(* calls, any of which may fail before or after the server has applied it. *)
(***************************************************************************)
EXTENDS Integers, Sequences

CONSTANTS
    Tabs, Saves,
    Targets,        \* budgets somebody may type
    NoDialog,
    FirstBudget,    \* the budget the campaign was created with
    MaxBudget,      \* bound: coins in the budget
    MaxLoads        \* bound: times a page is rendered

Statuses == {"active", "paused", "ended"}
Loads == 1 .. MaxLoads

ASSUME ConsoleAssumption ==
    /\ MaxBudget \in Nat /\ MaxLoads \in Nat \ {0}
    /\ Targets \subseteq 0 .. MaxBudget
    /\ FirstBudget \in 0 .. MaxBudget

VARIABLES
    status, budget, \* campaigns.status, and the balance of its account
    posted,         \* refs of the ledger: the keys a top-up was posted under
    page,           \* the campaign as each tab shows it
    loads,          \* how often a page was rendered
    dialog,         \* the row each tab's dialog was opened on
    save,           \* what each save is in the middle of
    busy,           \* each tab's busy flag
    credits         \* history: top-ups credited, by page and target

server == <<status, budget, posted, credits>>
tabs == <<page, loads, dialog>>
vars == <<status, budget, posted, credits, page, loads, dialog, save, busy>>
-------------------------------------------------------------------------------
Row(n) == [status |-> status, budget |-> budget, load |-> n]

(* What a save has left to send, first call first; Idle has no save.        *)
Idle == [tab |-> NoDialog, calls |-> <<>>]
Patch(row, chosen) == [call |-> "patch", status |-> chosen, touched |-> chosen # row.status]
TopUp(row, target) == [call |-> "fund", from |-> row.budget, to |-> target, load |-> row.load]
Rates == [call |-> "rates"]

(* The three calls of editCampaign: the status is sent whether or not it    *)
(* was touched, coins when the budget was raised, the rate when it changed. *)
Calls(row, chosen, target, reprice) ==
    <<Patch(row, chosen)>>
        \o (IF target = row.budget THEN <<>> ELSE <<TopUp(row, target)>>)
        \o (IF reprice THEN <<Rates>> ELSE <<>>)

Sending(a, call) == save[a].calls # <<>> /\ Head(save[a].calls).call = call
Continue(a) == save' = [save EXCEPT ![a].calls = Tail(@)] /\ UNCHANGED busy

(* Mutation: a key for every save. *)
KeyOfSave(a) == <<a, Head(save[a].calls).to>>

(* edit:<the budget on the page>:<the budget typed> *)
Key(a) == LET c == Head(save[a].calls) IN <<c.from, c.to>>

(* Mutation: the flag is reset after the calls, where an error never comes. *)
SettleOnSuccess(a) ==
    /\ save' = [save EXCEPT ![a] = Idle]
    /\ busy' = [busy EXCEPT ![save[a].tab] = @ /\ save[a].calls # <<>>]

(* act: the message is shown and the flag reset, however the calls went. *)
Settle(a) ==
    /\ save' = [save EXCEPT ![a] = Idle]
    /\ busy' = [busy EXCEPT ![save[a].tab] = FALSE]
-------------------------------------------------------------------------------
(* The tab.                                                                *)

(* The page is rendered: on navigation, or by router.refresh after a save. *)
Render(t) ==
    /\ loads < MaxLoads
    /\ loads' = loads + 1
    /\ page' = [page EXCEPT ![t] = Row(loads + 1)]
    /\ UNCHANGED <<dialog, save, busy, server>>

(* Edit: the dialog holds the row the page shows; nothing disables it. *)
OpenEdit(t) ==
    /\ dialog[t] = NoDialog
    /\ dialog' = [dialog EXCEPT ![t] = page[t]]
    /\ UNCHANGED <<page, loads, save, busy, server>>

Cancel(t) ==
    /\ dialog[t] # NoDialog
    /\ dialog' = [dialog EXCEPT ![t] = NoDialog]
    /\ UNCHANGED <<page, loads, save, busy, server>>

(* The dialog is confirmed and the calls begin. *)
Begin(t, a, chosen, target, reprice) ==
    /\ save[a] = Idle
    /\ save' = [save EXCEPT ![a] =
            [tab |-> t, calls |-> Calls(dialog[t], chosen, target, reprice)]]
    /\ busy' = [busy EXCEPT ![t] = TRUE]
    /\ dialog' = [dialog EXCEPT ![t] = NoDialog]
    /\ UNCHANGED <<page, loads, server>>

(* Mutation: only a negative budget is refused. *)
EditDownwards(t, a, chosen, target, reprice) ==
    dialog[t] # NoDialog /\ Begin(t, a, chosen, target, reprice)

(* editCampaign: a budget below the one on the page is refused before       *)
(* anything is sent.                                                        *)
Edit(t, a, chosen, target, reprice) ==
    /\ dialog[t] # NoDialog
    /\ target >= dialog[t].budget
    /\ Begin(t, a, chosen, target, reprice)
-------------------------------------------------------------------------------
(* The calls, as the API applies them; each may fail instead.              *)

(* patchCampaign: any status over any other. *)
PatchCampaign(a) ==
    /\ Sending(a, "patch")
    /\ status' = Head(save[a].calls).status
    /\ Continue(a)
    /\ UNCHANGED <<budget, posted, credits, tabs>>

Credit(a) ==
    LET c == Head(save[a].calls) IN
    /\ Key(a) \notin posted
    /\ budget + (c.to - c.from) <= MaxBudget
    /\ budget' = budget + (c.to - c.from)
    /\ posted' = posted \cup {Key(a)}
    /\ credits' = [credits EXCEPT ![<<c.load, c.to>>] = @ + 1]

(* fundCampaign: the second use of a key is swallowed and answered alike. *)
Fund(a) ==
    /\ Sending(a, "fund")
    /\ \/ Credit(a)
       \/ Key(a) \in posted /\ UNCHANGED <<budget, posted, credits>>
    /\ Continue(a)
    /\ UNCHANGED <<status, tabs>>

(* The same, with the answer lost on the way back. *)
FundLost(a) ==
    /\ Sending(a, "fund")
    /\ Credit(a)
    /\ Settle(a)
    /\ UNCHANGED <<status, tabs>>

(* The rate in the dialog is a proposal, and is made last. *)
ProposeRates(a) ==
    /\ Sending(a, "rates")
    /\ Continue(a)
    /\ UNCHANGED <<server, tabs>>

(* A call is refused, or lost before it was applied (what came before stays *)
(* done), or none is left and the success is announced.  Either way the     *)
(* save is over; the page is rendered again in its own time.                *)
Finish(a) ==
    /\ save[a] # Idle
    /\ Settle(a)
    /\ UNCHANGED <<server, tabs>>
-------------------------------------------------------------------------------
(* The rest of the world.                                                  *)

(* A claim is paid. *)
Spend ==
    /\ status = "active" /\ budget > 0
    /\ budget' = budget - 1
    /\ UNCHANGED <<status, posted, credits, tabs, save, busy>>

(* The admin's kill switch. *)
KillCampaign ==
    /\ status' = "ended"
    /\ UNCHANGED <<budget, posted, credits, tabs, save, busy>>
-------------------------------------------------------------------------------
Init ==
    /\ status = "active" /\ budget = FirstBudget
    /\ posted = {}
    /\ page = [t \in Tabs |-> Row(1)]
    /\ loads = 1
    /\ dialog = [t \in Tabs |-> NoDialog]
    /\ save = [a \in Saves |-> Idle]
    /\ busy = [t \in Tabs |-> FALSE]
    /\ credits = [by \in Loads \X Targets |-> 0]

Answer(a) ==
    \/ PatchCampaign(a) \/ Fund(a) \/ FundLost(a) \/ ProposeRates(a) \/ Finish(a)

Next ==
    \/ \E t \in Tabs :
        \/ Render(t) \/ OpenEdit(t) \/ Cancel(t)
        \/ \E a \in Saves, chosen \in Statuses, target \in Targets, reprice \in BOOLEAN :
                Edit(t, a, chosen, target, reprice)
    \/ \E a \in Saves : Answer(a)
    \/ Spend \/ KillCampaign

Spec == Init /\ [][Next]_vars

(* A browser settles every call it has sent, one way or the other. *)
FairSpec == Spec /\ \A a \in Saves : WF_vars(Answer(a))
-------------------------------------------------------------------------------
(* Properties.                                                             *)

CallOK(c) ==
    CASE c.call = "patch" -> c.status \in Statuses /\ c.touched \in BOOLEAN
      [] c.call = "fund"  -> c.load \in Loads /\ c.to \in Targets /\ c.from < c.to
      [] c.call = "rates" -> TRUE

(* Every variable holds what the page, the store or the column may hold,    *)
(* and no save takes coins out (dialogs.ts 327-330).                        *)
TypeOK ==
    /\ status \in Statuses /\ budget \in 0 .. MaxBudget
    /\ loads \in Loads
    /\ \A t \in Tabs : page[t].load \in Loads /\ (dialog[t] = NoDialog \/ dialog[t].load \in Loads)
    /\ \A a \in Saves : \A i \in DOMAIN save[a].calls : CallOK(save[a].calls[i])
    /\ busy \in [Tabs -> BOOLEAN]
    /\ credits \in [Loads \X Targets -> Nat]

(* The same edit of the same page credits once, however often it is saved:  *)
(* again while the first is under way, again after an error, and after an   *)
(* answer that was lost when the coins were already in (dialogs.ts 353-360).*)
SameEditFundsOnce == \A by \in Loads \X Targets : credits[by] <= 1

(* The buttons come back: a tab that is busy stops being so, whichever of   *)
(* the calls failed (CampaignsClient.tsx 31-42).                            *)
BusyEnds == \A t \in Tabs : busy[t] ~> ~busy[t]
-------------------------------------------------------------------------------
(* What the documentation says and the code does not do. *)

(* USER_GUIDE.md 553: renaming an ended campaign leaves it ended.  The       *)
(* dialog sends the status the page was rendered with, so a campaign ended   *)
(* since then is set going again by a save that left the status alone.       *)
RenameLeavesEnded ==
    [][\A a \in Saves :
            Sending(a, "patch") /\ ~Head(save[a].calls).touched /\ status = "ended"
                => status' = "ended"]_vars
===============================================================================
