----------------------------- MODULE ConsoleProofs -----------------------------
(***************************************************************************)
(* Theorems about Console, for any tabs, saves, budgets somebody may type  *)
(* and renderings of the page.                                             *)
(*                                                                         *)
(* A top-up is known to the ledger by the budget it starts from and the    *)
(* one it ends at, and not by the page it was typed on.  That the two are  *)
(* as good as the page is because a page, once rendered, shows one budget: *)
(* the inductive invariant says there is a budget for every rendering that *)
(* all the rows and calls that came of it agree on, and that what was      *)
(* credited is posted under it.                                            *)
(***************************************************************************)
EXTENDS Console, TLAPS

Budgets == 0 .. MaxBudget

(* What pages and dialogs hold after n renderings, each of which showed its *)
(* budget in shown.                                                         *)
RowsOf(shown, n) ==
    {row \in [status : Statuses, budget : Budgets, load : 1 .. n] : row.budget = shown[row.load]}

(* What a save may have left to send. *)
TopUpsOf(shown, n) ==
    {c \in [call : {"fund"}, from : Budgets, to : Targets, load : 1 .. n] :
        c.from = shown[c.load] /\ c.from < c.to}
CallsOf(shown, n) ==
    [call : {"patch"}, status : Statuses, touched : BOOLEAN] \cup {Rates} \cup TopUpsOf(shown, n)
SavesOf(shown, n) == [tab : Tabs \cup {NoDialog}, calls : Seq(CallsOf(shown, n))]

(* Every row and every call agrees with the renderings. *)
Agrees(shown) ==
    /\ page \in [Tabs -> RowsOf(shown, loads)]
    /\ dialog \in [Tabs -> RowsOf(shown, loads) \cup {NoDialog}]
    /\ save \in [Saves -> SavesOf(shown, loads)]

(* What was credited on a page's behalf is posted under its key. *)
CreditsPosted(shown) ==
    \A l \in Loads, to \in Targets :
        \/ credits[<<l, to>>] = 0
        \/ credits[<<l, to>>] = 1 /\ l <= loads /\ <<shown[l], to>> \in posted

StoreOK ==
    /\ status \in Statuses /\ budget \in Budgets
    /\ loads \in Loads
    /\ busy \in [Tabs -> BOOLEAN]
    /\ credits \in [Loads \X Targets -> Nat]

Shows == [Loads -> Budgets]
Inv == StoreOK /\ \E shown \in Shows : Agrees(shown) /\ CreditsPosted(shown)

-------------------------------------------------------------------------------
(* Rows, calls and what they become when the page is rendered again. *)

LEMMA Bounds ==
    /\ MaxBudget \in Nat /\ MaxLoads \in Nat /\ MaxLoads >= 1
    /\ Targets \subseteq Budgets /\ FirstBudget \in Budgets
BY ConsoleAssumption DEF Budgets

LEMMA SeqGrows ==
    ASSUME NEW S, NEW T, S \subseteq T, NEW s \in Seq(S)
    PROVE  s \in Seq(T)
OBVIOUS

(* A rendering changes nothing about what was rendered before. *)
LEMMA RowsStay ==
    ASSUME NEW n \in Nat, NEW shown, NEW next, \A l \in 1 .. n : next[l] = shown[l]
    PROVE  /\ RowsOf(shown, n) \subseteq RowsOf(next, n + 1)
           /\ CallsOf(shown, n) \subseteq CallsOf(next, n + 1)
           /\ SavesOf(shown, n) \subseteq SavesOf(next, n + 1)
<1>1. 1 .. n \subseteq 1 .. (n + 1)
  OBVIOUS
<1>2. RowsOf(shown, n) \subseteq RowsOf(next, n + 1)
  BY <1>1 DEF RowsOf
<1>3. CallsOf(shown, n) \subseteq CallsOf(next, n + 1)
  BY <1>1 DEF CallsOf, TopUpsOf
<1>4. \A s \in Seq(CallsOf(shown, n)) : s \in Seq(CallsOf(next, n + 1))
  BY <1>3, SeqGrows
<1> QED  BY <1>2, <1>3, <1>4 DEF SavesOf

(* What the dialog sends about a row agrees with the row. *)
LEMMA CallsAgree ==
    ASSUME NEW shown, NEW n \in Nat, NEW row \in RowsOf(shown, n), NEW chosen \in Statuses,
           NEW target \in Targets, NEW reprice \in BOOLEAN, target >= row.budget
    PROVE  Calls(row, chosen, target, reprice) \in Seq(CallsOf(shown, n))
<1> DEFINE S == CallsOf(shown, n)
           first == <<Patch(row, chosen)>>
           second == IF target = row.budget THEN <<>> ELSE <<TopUp(row, target)>>
           third == IF reprice THEN <<Rates>> ELSE <<>>
<1>1. Patch(row, chosen) \in S
  BY DEF CallsOf, Patch
<1>2. target # row.budget => TopUp(row, target) \in S
  <2>1. /\ row.budget \in Int /\ target \in Int /\ row.budget \in Budgets /\ row.load \in 1 .. n
        /\ row.budget = shown[row.load]
    BY Bounds DEF RowsOf, Budgets
  <2>2. target # row.budget => row.budget < target
    BY <2>1
  <2> QED  BY <2>1, <2>2 DEF CallsOf, TopUpsOf, TopUp
<1>3. Rates \in S
  BY DEF CallsOf
<1> HIDE DEF S
<1>4. first \in Seq(S) /\ second \in Seq(S) /\ third \in Seq(S)
  BY <1>1, <1>2, <1>3
<1> HIDE DEF first, second, third
<1>5. first \o second \o third \in Seq(S)
  BY <1>4
<1> QED  BY <1>5 DEF S, first, second, third, Calls

(* The next call of a save, and what is left when it is answered. *)
LEMMA NextCall ==
    ASSUME NEW shown, Agrees(shown), NEW a \in Saves, NEW call, Sending(a, call)
    PROVE  /\ Head(save[a].calls) \in CallsOf(shown, loads)
           /\ Head(save[a].calls).call = call
           /\ Continue(a) => save' \in [Saves -> SavesOf(shown, loads)]
<1>1. save[a].calls \in Seq(CallsOf(shown, loads)) /\ save[a].calls # <<>>
  BY DEF Agrees, SavesOf, Sending
<1>2. /\ Head(save[a].calls) \in CallsOf(shown, loads)
      /\ Tail(save[a].calls) \in Seq(CallsOf(shown, loads))
  BY <1>1
<1>3. Continue(a) => save' \in [Saves -> SavesOf(shown, loads)]
  BY <1>2 DEF Continue, Agrees, SavesOf
<1> QED  BY <1>2, <1>3 DEF Sending

LEMMA Settled ==
    ASSUME NEW shown, Agrees(shown), StoreOK, NEW a \in Saves, Settle(a)
    PROVE  save' \in [Saves -> SavesOf(shown, loads)] /\ busy' \in [Tabs -> BOOLEAN]
<1>1. Idle \in SavesOf(shown, loads)
  BY DEF Idle, SavesOf
<1> QED  BY <1>1 DEF Settle, Agrees, StoreOK

-------------------------------------------------------------------------------
(* Every step keeps the invariant. *)

LEMMA InvInit == Init => Inv
<1> SUFFICES ASSUME Init  PROVE Inv
  OBVIOUS
<1> DEFINE shown == [l \in Loads |-> FirstBudget]
<1>1. StoreOK
  BY Bounds DEF Init, StoreOK, Statuses, Loads
<1>2. shown \in Shows
  BY Bounds DEF Shows
<1>3. 1 \in Loads /\ loads = 1
  BY Bounds DEF Init, Loads
<1>4. Row(1) \in RowsOf(shown, loads)
  BY <1>1, <1>3, Bounds DEF Init, Row, RowsOf, Statuses
<1>5. Idle \in SavesOf(shown, loads)
  BY DEF Idle, SavesOf
<1>6. Agrees(shown)
  BY <1>4, <1>5 DEF Init, Agrees
<1>7. CreditsPosted(shown)
  BY DEF Init, CreditsPosted
<1> QED  BY <1>1, <1>2, <1>6, <1>7 DEF Inv

LEMMA RenderKeeps ==
    ASSUME Inv, NEW t \in Tabs, Render(t)
    PROVE  Inv'
<1>1. PICK shown \in Shows : Agrees(shown) /\ CreditsPosted(shown)
  BY DEF Inv
<1>2. loads \in Nat /\ loads + 1 \in Loads /\ loads' = loads + 1
  BY Bounds DEF Inv, StoreOK, Render, Loads
<1>3. PICK next : next = [shown EXCEPT ![loads + 1] = budget]
  OBVIOUS
<1>4. /\ next \in Shows /\ next[loads + 1] = budget
      /\ \A l \in Loads : l # loads + 1 => next[l] = shown[l]
  BY <1>2, <1>3 DEF Shows, Inv, StoreOK
<1>5. \A l \in 1 .. loads : next[l] = shown[l]
  BY <1>2, <1>4, Bounds DEF Loads
<1>6. Row(loads + 1) \in RowsOf(next, loads')
  BY <1>2, <1>4 DEF RowsOf, Row, Inv, StoreOK
<1>7. /\ RowsOf(shown, loads) \subseteq RowsOf(next, loads')
      /\ SavesOf(shown, loads) \subseteq SavesOf(next, loads')
  BY <1>2, <1>5, RowsStay
<1>8. Agrees(next)'
  BY <1>1, <1>6, <1>7 DEF Agrees, Render
<1>9. CreditsPosted(next)'
  <2> SUFFICES ASSUME NEW l \in Loads, NEW to \in Targets
               PROVE  \/ credits'[<<l, to>>] = 0
                      \/ credits'[<<l, to>>] = 1 /\ l <= loads' /\ <<next[l], to>> \in posted'
    BY DEF CreditsPosted
  <2>1. UNCHANGED <<credits, posted>>
    BY DEF Render, server
  <2>2. ASSUME l <= loads  PROVE next[l] = shown[l] /\ l <= loads'
    BY <1>2, <1>4, <2>2 DEF Loads
  <2> QED  BY <1>1, <2>1, <2>2 DEF CreditsPosted
<1>10. StoreOK'
  BY <1>2 DEF Inv, StoreOK, Render, server
<1> QED  BY <1>4, <1>8, <1>9, <1>10 DEF Inv, Shows

LEMMA DialogKeeps ==
    ASSUME Inv, NEW t \in Tabs, OpenEdit(t) \/ Cancel(t)
    PROVE  Inv'
<1>1. PICK shown \in Shows : Agrees(shown) /\ CreditsPosted(shown)
  BY DEF Inv
<1>2. Agrees(shown)'
  BY <1>1 DEF OpenEdit, Cancel, Agrees
<1> QED  BY <1>1, <1>2 DEF Inv, StoreOK, CreditsPosted, OpenEdit, Cancel, server, Shows

LEMMA EditKeeps ==
    ASSUME Inv, NEW t \in Tabs, NEW a \in Saves, NEW chosen \in Statuses, NEW target \in Targets,
           NEW reprice \in BOOLEAN, Edit(t, a, chosen, target, reprice)
    PROVE  Inv'
<1>1. PICK shown \in Shows : Agrees(shown) /\ CreditsPosted(shown)
  BY DEF Inv
<1>2. dialog[t] \in RowsOf(shown, loads) /\ target >= dialog[t].budget /\ loads \in Nat
  BY <1>1, Bounds DEF Edit, Agrees, Inv, StoreOK, Loads
<1>3. Calls(dialog[t], chosen, target, reprice) \in Seq(CallsOf(shown, loads))
  BY <1>2, CallsAgree
<1>4. save' \in [Saves -> SavesOf(shown, loads)]
  BY <1>1, <1>3 DEF Edit, Begin, Agrees, SavesOf
<1>5. /\ dialog' \in [Tabs -> RowsOf(shown, loads) \cup {NoDialog}]
      /\ busy' \in [Tabs -> BOOLEAN]
      /\ UNCHANGED <<page, loads, status, budget, posted, credits>>
  BY <1>1 DEF Edit, Begin, Agrees, Inv, StoreOK, server
<1>6. Agrees(shown)'
  BY <1>1, <1>4, <1>5 DEF Agrees
<1> QED  BY <1>1, <1>5, <1>6 DEF Inv, StoreOK, CreditsPosted, Shows

(* A credit is the first under its key, and so the first for its page and   *)
(* target.                                                                  *)
LEMMA CreditKeeps ==
    ASSUME StoreOK, NEW shown \in Shows, Agrees(shown), CreditsPosted(shown), NEW a \in Saves,
           Sending(a, "fund"), Credit(a), UNCHANGED loads
    PROVE  /\ budget' \in Budgets
           /\ credits' \in [Loads \X Targets -> Nat]
           /\ CreditsPosted(shown)'
<1>1. PICK c \in TopUpsOf(shown, loads) : c = Head(save[a].calls)
  <2>1. /\ Head(save[a].calls) \in CallsOf(shown, loads)
        /\ Head(save[a].calls).call = "fund"
    BY NextCall
  <2> QED  BY <2>1 DEF CallsOf, Rates
<1>2. /\ c.load \in Loads /\ c.load <= loads /\ c.to \in Targets
      /\ c.from \in Budgets /\ c.to \in Budgets /\ c.from < c.to
      /\ c.from = shown[c.load]
  BY Bounds DEF TopUpsOf, StoreOK, Loads
<1> DEFINE key == <<c.from, c.to>>
<1>3. /\ key \notin posted
      /\ budget + (c.to - c.from) <= MaxBudget
      /\ budget' = budget + (c.to - c.from)
      /\ posted' = posted \cup {key}
      /\ credits' = [credits EXCEPT ![<<c.load, c.to>>] = @ + 1]
  BY <1>1 DEF Credit, Key
<1>4. budget' \in Budgets
  BY <1>2, <1>3, Bounds DEF StoreOK, Budgets
<1>5. credits[<<c.load, c.to>>] = 0
  BY <1>2, <1>3 DEF CreditsPosted
<1>6. \A l \in Loads, to \in Targets :
        credits'[<<l, to>>] = IF l = c.load /\ to = c.to THEN 1 ELSE credits[<<l, to>>]
  BY <1>2, <1>3, <1>5 DEF StoreOK
<1>7. credits' \in [Loads \X Targets -> Nat]
  BY <1>2, <1>3 DEF StoreOK
<1>8. CreditsPosted(shown)'
  <2> SUFFICES ASSUME NEW l \in Loads, NEW to \in Targets
               PROVE  \/ credits'[<<l, to>>] = 0
                      \/ credits'[<<l, to>>] = 1 /\ l <= loads' /\ <<shown[l], to>> \in posted'
    BY DEF CreditsPosted
  <2>1. CASE l = c.load /\ to = c.to
    BY <1>2, <1>3, <1>6, <2>1
  <2>2. CASE ~(l = c.load /\ to = c.to)
    <3>1. credits'[<<l, to>>] = credits[<<l, to>>]
      BY <1>6, <2>2
    <3> QED  BY <1>3, <3>1 DEF CreditsPosted
  <2> QED  BY <2>1, <2>2
<1> QED  BY <1>4, <1>7, <1>8

LEMMA AnswerKeeps ==
    ASSUME Inv, NEW a \in Saves, Answer(a)
    PROVE  Inv'
<1>1. PICK shown \in Shows : Agrees(shown) /\ CreditsPosted(shown)
  BY DEF Inv
<1>2. ASSUME save' \in [Saves -> SavesOf(shown, loads)], busy' \in [Tabs -> BOOLEAN],
             UNCHANGED tabs, status' \in Statuses, budget' \in Budgets,
             credits' \in [Loads \X Targets -> Nat], CreditsPosted(shown)'
      PROVE  Inv'
  <2>1. Agrees(shown)'
    BY <1>1, <1>2 DEF Agrees, tabs
  <2>2. StoreOK'
    BY <1>2 DEF Inv, StoreOK, tabs
  <2> QED  BY <1>2, <2>1, <2>2 DEF Inv, Shows
<1>3. CASE PatchCampaign(a)
  <2>1. Head(save[a].calls) \in CallsOf(shown, loads) /\ Head(save[a].calls).call = "patch"
    BY <1>1, <1>3, NextCall DEF PatchCampaign
  <2>2. Head(save[a].calls).status \in Statuses
    BY <2>1 DEF CallsOf, Rates, TopUpsOf
  <2>3. save' \in [Saves -> SavesOf(shown, loads)]
    BY <1>1, <1>3, NextCall DEF PatchCampaign
  <2>4. CreditsPosted(shown)'
    BY <1>1, <1>3 DEF PatchCampaign, CreditsPosted, tabs
  <2> QED  BY <1>2, <1>3, <2>2, <2>3, <2>4 DEF PatchCampaign, Continue, Inv, StoreOK
<1>4. ASSUME Sending(a, "fund"), Credit(a), UNCHANGED <<status, tabs>>,
             save' \in [Saves -> SavesOf(shown, loads)], busy' \in [Tabs -> BOOLEAN]
      PROVE  Inv'
  BY <1>1, <1>2, <1>4, CreditKeeps DEF Inv, StoreOK, tabs
<1>5. ASSUME UNCHANGED <<server, tabs>>,
             save' \in [Saves -> SavesOf(shown, loads)], busy' \in [Tabs -> BOOLEAN]
      PROVE  Inv'
  <2>1. CreditsPosted(shown)'
    BY <1>1, <1>5 DEF CreditsPosted, server, tabs
  <2> QED  BY <1>2, <1>5, <2>1 DEF Inv, StoreOK, server
<1>6. CASE Fund(a)
  <2>1. save' \in [Saves -> SavesOf(shown, loads)] /\ busy' \in [Tabs -> BOOLEAN]
    BY <1>1, <1>6, NextCall DEF Fund, Continue, Inv, StoreOK
  <2> QED  BY <1>4, <1>5, <1>6, <2>1 DEF Fund, server
<1>7. CASE FundLost(a)
  BY <1>1, <1>4, <1>7, Settled DEF FundLost, Inv
<1>8. CASE ProposeRates(a)
  <2>1. save' \in [Saves -> SavesOf(shown, loads)] /\ busy' \in [Tabs -> BOOLEAN]
    BY <1>1, <1>8, NextCall DEF ProposeRates, Continue, Inv, StoreOK
  <2> QED  BY <1>5, <1>8, <2>1 DEF ProposeRates
<1>9. CASE Finish(a)
  BY <1>1, <1>5, <1>9, Settled DEF Finish, Inv
<1> QED  BY <1>3, <1>6, <1>7, <1>8, <1>9 DEF Answer

LEMMA WorldKeeps ==
    ASSUME Inv, Spend \/ KillCampaign \/ UNCHANGED vars
    PROVE  Inv'
<1>1. PICK shown \in Shows : Agrees(shown) /\ CreditsPosted(shown)
  BY DEF Inv
<1>2. Agrees(shown)' /\ CreditsPosted(shown)'
  BY <1>1 DEF Spend, KillCampaign, vars, tabs, Agrees, CreditsPosted
<1>3. StoreOK'
  BY Bounds DEF Inv, StoreOK, Spend, KillCampaign, vars, tabs, Statuses, Budgets
<1> QED  BY <1>2, <1>3 DEF Inv, Shows

LEMMA InvStep == Inv /\ [Next]_vars => Inv'
BY RenderKeeps, DialogKeeps, EditKeeps, AnswerKeeps, WorldKeeps DEF Next

LEMMA InvAlways == Spec => []Inv
BY InvInit, InvStep, PTL DEF Spec

(* The page, the store and every call hold what they may, and no save takes *)
(* coins out of the campaign.                                               *)
THEOREM ConsoleTypeCorrect == Spec => []TypeOK
<1>1. Inv => TypeOK
  <2> SUFFICES ASSUME Inv  PROVE TypeOK
    OBVIOUS
  <2>1. PICK shown \in Shows : Agrees(shown)
    BY DEF Inv
  <2>2. 1 .. loads \subseteq Loads
    BY Bounds DEF Inv, StoreOK, Loads
  <2>3. \A t \in Tabs : page[t].load \in Loads /\ (dialog[t] = NoDialog \/ dialog[t].load \in Loads)
    BY <2>1, <2>2 DEF Agrees, RowsOf
  <2>4. \A c \in CallsOf(shown, loads) : CallOK(c)
    <3>1. \A c \in [call : {"patch"}, status : Statuses, touched : BOOLEAN] : CallOK(c)
      BY DEF CallOK
    <3>2. CallOK(Rates)
      BY DEF CallOK, Rates
    <3>3. \A c \in TopUpsOf(shown, loads) : CallOK(c)
      BY <2>2 DEF CallOK, TopUpsOf
    <3> QED  BY <3>1, <3>2, <3>3 DEF CallsOf
  <2>5. \A a \in Saves : \A i \in DOMAIN save[a].calls : CallOK(save[a].calls[i])
    <3>1. \A a \in Saves : save[a].calls \in Seq(CallsOf(shown, loads))
      BY <2>1 DEF Agrees, SavesOf
    <3> QED  BY <2>4, <3>1
  <2> QED  BY <2>3, <2>5 DEF Inv, StoreOK, Budgets, TypeOK
<1> QED  BY <1>1, InvAlways, PTL

(* The same edit of the same page credits once, from however many saves and *)
(* retries: all of them carry the one budget that page showed.              *)
THEOREM EditCreditsOnce == Spec => []SameEditFundsOnce
<1>1. Inv => SameEditFundsOnce
  <2> SUFFICES ASSUME Inv, NEW by \in Loads \X Targets  PROVE credits[by] <= 1
    BY DEF SameEditFundsOnce
  <2>1. PICK shown \in Shows : CreditsPosted(shown)
    BY DEF Inv
  <2>2. PICK l \in Loads, to \in Targets : by = <<l, to>>
    OBVIOUS
  <2>3. credits[<<l, to>>] = 0 \/ credits[<<l, to>>] = 1
    BY <2>1 DEF CreditsPosted
  <2> QED  BY <2>2, <2>3
<1> QED  BY <1>1, InvAlways, PTL
===============================================================================
