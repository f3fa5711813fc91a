--------------------------- MODULE WithdrawalsProofs ---------------------------
(***************************************************************************)
(* Theorems of Withdrawals, for any number of publishers, admins and       *)
(* requests: the columns hold what they may, what is asked for is covered, *)
(* a withdrawal is decided once, and what the code computes as free to be  *)
(* asked for is a purse.                                                   *)
(***************************************************************************)
EXTENDS Withdrawals, SumProofs

(* A row that is being paid is held by the one who pays it. *)
PaidAlone ==
    \A w, v \in Workers :
        tx[w].op = "pay" /\ tx[v].op = "pay" /\ tx[w].id = tx[v].id => w = v

Sound == TypeOK /\ PaidAlone

-------------------------------------------------------------------------------
(* Requests and rows. *)

LEMMA CoinsAreNat == \A coins \in Coins : coins \in Nat /\ coins > 0
BY WithdrawalsAssumption

(* What is known of a request in flight. *)
LEMMA RequestInFlight ==
    ASSUME TypeOK, NEW w \in Workers
    PROVE  /\ tx[w] # Idle => tx[w].op \in {"ask", "pay", "audit"}
           /\ tx[w].op = "ask" =>
                /\ tx[w] = Asking(tx[w].publisher, tx[w].coins)
                /\ tx[w].publisher \in Publishers /\ tx[w].coins \in Coins
                /\ tx[w].balance = balance[tx[w].publisher]
           /\ tx[w].op = "pay" =>
                /\ tx[w].id \in Ids /\ tx[w] = Paying(tx[w].id)
                /\ withdrawal[tx[w].id].status = "requested"
           /\ tx[w].op = "audit" =>
                /\ tx[w].id \in Ids /\ tx[w].action \in Actions
                /\ tx[w] = Auditing(tx[w].action, tx[w].id)
                /\ withdrawal[tx[w].id] # NoWithdrawal
<1>1. RequestOK(tx[w])
  BY DEF TypeOK
<1>2. CASE tx[w] = Idle
  BY <1>2 DEF Idle
<1>3. ASSUME NEW p \in Publishers, NEW coins \in Coins, tx[w] = Asking(p, coins)
      PROVE  /\ tx[w].op = "ask" /\ tx[w].publisher = p /\ tx[w].coins = coins
             /\ tx[w].balance = balance[p]
  BY <1>3 DEF Asking
<1>4. ASSUME NEW id \in Ids, tx[w] = Paying(id) /\ withdrawal[id].status = "requested"
      PROVE  tx[w].id = id /\ tx[w].op = "pay"
  BY <1>4 DEF Paying
<1>5. ASSUME NEW id \in Ids, NEW action \in Actions,
             tx[w] = Auditing(action, id) /\ withdrawal[id] # NoWithdrawal
      PROVE  tx[w].id = id /\ tx[w].action = action /\ tx[w].op = "audit"
  BY <1>5 DEF Auditing
<1> QED  BY <1>1, <1>2, <1>3, <1>4, <1>5 DEF RequestOK

(* A row is a withdrawal or is not there. *)
LEMMA RowShape ==
    ASSUME TypeOK, NEW id \in Ids
    PROVE  /\ withdrawal[id].status = "none" <=> withdrawal[id] = NoWithdrawal
           /\ withdrawal[id].status # "none" =>
                /\ withdrawal[id] \in Withdrawal
                /\ withdrawal[id].publisher \in Publishers /\ withdrawal[id].coins \in Coins
BY DEF TypeOK, Withdrawal, NoWithdrawal

(* One worker moves on. *)
LEMMA GoMoves ==
    ASSUME TypeOK, NEW w \in Workers, NEW t, Go(w, t)
    PROVE  /\ DOMAIN tx' = Workers
           /\ tx'[w] = t
           /\ \A v \in Workers : v # w => tx'[v] = tx[v]
BY DEF TypeOK, Go

-------------------------------------------------------------------------------
(* Types.                                                                   *)

(* A worker that does not move may still rely on what it did: the balance   *)
(* it has locked, the row it is paying, the row its audit entry is about.   *)
LEMMA RequestStands ==
    ASSUME TypeOK, NEW v \in Workers, tx'[v] = tx[v],
           tx[v].op = "ask" => balance'[tx[v].publisher] = balance[tx[v].publisher],
           tx[v].op = "pay" => withdrawal'[tx[v].id].status = "requested",
           tx[v].op = "audit" => withdrawal'[tx[v].id] # NoWithdrawal
    PROVE  RequestOK(tx[v])'
<1>1. RequestOK(tx[v])
  BY DEF TypeOK
<1>2. CASE tx[v] = Idle
  BY <1>2 DEF RequestOK, Idle
<1>3. CASE tx[v].op = "ask"
  <2> DEFINE p == tx[v].publisher
             coins == tx[v].coins
  <2>1. p \in Publishers /\ coins \in Coins /\ tx[v] = Asking(p, coins)
    BY <1>3, RequestInFlight
  <2>2. tx'[v] = [op |-> "ask", publisher |-> p, coins |-> coins, balance |-> balance'[p]]
    BY <1>3, <2>1 DEF Asking
  <2> HIDE DEF p, coins
  <2> QED  BY <2>1, <2>2 DEF RequestOK, Asking
<1>4. CASE tx[v].op = "pay"
  BY <1>4, RequestInFlight DEF RequestOK, Paying
<1>5. CASE tx[v].op = "audit"
  <2> DEFINE id == tx[v].id
             action == tx[v].action
  <2>1. /\ id \in Ids /\ action \in Actions /\ tx'[v] = Auditing(action, id)
        /\ withdrawal'[id] # NoWithdrawal
    BY <1>5, RequestInFlight
  <2> HIDE DEF id, action
  <2> QED  BY <2>1 DEF RequestOK, Auditing, NoWithdrawal
<1> QED  BY <1>1, <1>2, <1>3, <1>4, <1>5, RequestInFlight

(* A step of one worker that leaves the others what they rely on. *)
LEMMA StepType ==
    ASSUME TypeOK, NEW w \in Workers, NEW t, Go(w, t), RequestOK(t)',
           balance' \in [Publishers \cup {Payouts} -> Nat],
           withdrawal' \in [Ids -> Withdrawal \cup {NoWithdrawal}],
           audits' \in [Actions \X Ids -> Nat],
           UNCHANGED <<recent, earned>>,
           \A v \in Workers \ {w} :
                /\ tx[v].op = "ask" => balance'[tx[v].publisher] = balance[tx[v].publisher]
                /\ tx[v].op = "pay" => withdrawal'[tx[v].id].status = "requested",
           \A id \in Ids : withdrawal[id] # NoWithdrawal => withdrawal'[id] # NoWithdrawal
    PROVE  TypeOK'
<1>1. ASSUME NEW v \in Workers
      PROVE  RequestOK(tx[v])'
  <2>1. CASE v = w
    <3>1. tx'[v] = t
      BY <2>1, GoMoves
    <3> QED  BY <3>1 DEF RequestOK, Idle, Asking, Paying, Auditing, NoWithdrawal
  <2>2. CASE v # w
    BY <2>2, GoMoves, RequestInFlight, RequestStands
  <2> QED  BY <2>1, <2>2
<1> QED  BY <1>1, GoMoves DEF TypeOK

(* A credit needs the balance nobody has locked. *)
LEMMA EarnType ==
    ASSUME TypeOK, NEW p \in Publishers, Earn(p)
    PROVE  TypeOK'
<1>1. ASSUME NEW w \in Workers
      PROVE  RequestOK(tx[w])'
  <2>1. tx[w].op = "ask" => balance'[tx[w].publisher] = balance[tx[w].publisher]
    BY RequestInFlight DEF Earn, BalanceFree, TypeOK
  <2> QED  BY <2>1, RequestInFlight, RequestStands DEF Earn
<1>2. p # Payouts /\ MaxEarned \in Nat
  BY WithdrawalsAssumption
<1>3. /\ balance' \in [Publishers \cup {Payouts} -> Nat]
      /\ recent' \in [Publishers -> Nat]
      /\ earned' \in [Publishers -> 0 .. MaxEarned]
  BY <1>2 DEF TypeOK, Earn
<1> QED  BY <1>1, <1>3 DEF TypeOK, Earn

LEMMA SettleType ==
    ASSUME TypeOK, NEW p \in Publishers, Settle(p)
    PROVE  TypeOK'
<1>1. recent' \in [Publishers -> Nat]
  BY DEF TypeOK, Settle
<1>2. \A w \in Workers : RequestOK(tx[w])'
  BY RequestInFlight, RequestStands DEF Settle
<1> QED  BY <1>1, <1>2 DEF TypeOK, Settle

LEMMA BeginRequestType ==
    ASSUME TypeOK, NEW w \in Workers, NEW p \in Publishers, NEW coins \in Coins,
           BeginRequest(w, p, coins)
    PROVE  TypeOK'
<1> PICK t : t = Asking(p, coins)
  OBVIOUS
<1>1. Go(w, t) /\ UNCHANGED <<balance, recent, earned, withdrawal, audits>>
  BY DEF BeginRequest
<1>2. RequestOK(t)'
  BY <1>1 DEF RequestOK, Asking
<1>3. \A v \in Workers : tx[v].op = "pay" => withdrawal[tx[v].id].status = "requested"
  BY RequestInFlight
<1>4. \A id \in Ids : withdrawal[id] # NoWithdrawal => withdrawal'[id] # NoWithdrawal
  BY <1>1 DEF NoWithdrawal
<1>5. /\ balance' \in [Publishers \cup {Payouts} -> Nat]
      /\ withdrawal' \in [Ids -> Withdrawal \cup {NoWithdrawal}]
      /\ audits' \in [Actions \X Ids -> Nat]
  BY <1>1 DEF TypeOK, Withdrawal, NoWithdrawal
<1> QED  BY <1>1, <1>2, <1>3, <1>4, <1>5, StepType

LEMMA RequestType ==
    ASSUME TypeOK, NEW w \in Workers, NEW id \in Ids, Request(w, id)
    PROVE  TypeOK'
<1> DEFINE t == Auditing("withdrawal.request", id)
           p == tx[w].publisher
           coins == tx[w].coins
<1>1. /\ Go(w, t) /\ UNCHANGED <<balance, recent, earned, audits>>
      /\ withdrawal' = [withdrawal EXCEPT ![id] = Requested(p, coins)]
      /\ withdrawal[id] = NoWithdrawal
  BY DEF Request
<1>2. p \in Publishers /\ coins \in Coins
  BY RequestInFlight DEF Request
<1>3. Requested(p, coins) \in Withdrawal /\ Requested(p, coins) # NoWithdrawal
  BY <1>2 DEF Requested, Withdrawal, NoWithdrawal
<1>4. withdrawal' \in [Ids -> Withdrawal \cup {NoWithdrawal}]
  BY <1>1, <1>3 DEF TypeOK
<1>5. RequestOK(t)'
  BY <1>1, <1>3 DEF TypeOK, RequestOK, Auditing, NoWithdrawal, Actions
<1>6. ASSUME NEW v \in Workers, tx[v].op = "pay"
      PROVE  withdrawal'[tx[v].id].status = "requested"
  <2>1. withdrawal[tx[v].id].status = "requested" /\ tx[v].id # id
    BY <1>1, <1>6, RequestInFlight DEF NoWithdrawal
  <2> QED  BY <1>1, <1>6, <2>1, RequestInFlight DEF TypeOK
<1>7. \A i \in Ids : withdrawal[i] # NoWithdrawal => withdrawal'[i] # NoWithdrawal
  BY <1>1, <1>3 DEF TypeOK
<1> HIDE DEF t, p, coins
<1> QED  BY <1>1, <1>4, <1>5, <1>6, <1>7, StepType DEF TypeOK

(* A decision of a row that no other worker is paying. *)
LEMMA DecideType ==
    ASSUME TypeOK, NEW w \in Workers, NEW id \in Ids, NEW status \in {"paid", "rejected"},
           NEW action \in Actions, Go(w, Auditing(action, id)),
           withdrawal[id].status = "requested",
           withdrawal' = [withdrawal EXCEPT ![id].status = status],
           \A v \in Workers \ {w} :
                /\ tx[v].op = "ask" => balance'[tx[v].publisher] = balance[tx[v].publisher]
                /\ tx[v].op = "pay" => tx[v].id # id,
           balance' \in [Publishers \cup {Payouts} -> Nat],
           UNCHANGED <<recent, earned, audits>>
    PROVE  TypeOK'
<1> DEFINE t == Auditing(action, id)
<1>1. withdrawal[id] \in Withdrawal
  BY RowShape
<1>2. withdrawal'[id] \in Withdrawal /\ withdrawal'[id].status = status
  BY <1>1 DEF TypeOK, Withdrawal
<1>3. withdrawal'[id] # NoWithdrawal
  BY <1>2 DEF NoWithdrawal
<1>4. withdrawal' \in [Ids -> Withdrawal \cup {NoWithdrawal}]
  BY <1>2 DEF TypeOK
<1>5. RequestOK(t)'
  BY <1>3 DEF RequestOK, Auditing, NoWithdrawal
<1>6. \A i \in Ids : i # id => withdrawal'[i] = withdrawal[i]
  BY DEF TypeOK
<1>7. ASSUME NEW v \in Workers \ {w}, tx[v].op = "pay"
      PROVE  withdrawal'[tx[v].id].status = "requested"
  BY <1>6, <1>7, RequestInFlight
<1>8. \A i \in Ids : withdrawal[i] # NoWithdrawal => withdrawal'[i] # NoWithdrawal
  BY <1>3, <1>6
<1> HIDE DEF t
<1>9. Go(w, t)
  BY DEF t
<1> QED  BY <1>4, <1>5, <1>7, <1>8, <1>9, StepType DEF TypeOK

LEMMA PayType ==
    ASSUME Sound, NEW w \in Workers, Pay(w)
    PROVE  TypeOK'
<1> DEFINE id == tx[w].id
           p == withdrawal[id].publisher
           coins == withdrawal[id].coins
<1>1. TypeOK /\ PaidAlone
  BY DEF Sound
<1>2. id \in Ids /\ withdrawal[id].status = "requested"
  BY <1>1, RequestInFlight DEF Pay
<1>3. p \in Publishers /\ coins \in Nat /\ p # Payouts
  BY <1>1, <1>2, RowShape, CoinsAreNat, WithdrawalsAssumption
<1>4. /\ coins <= balance[p] /\ BalanceFree(p)
      /\ balance' = AfterPaying(p, coins)
      /\ withdrawal' = [withdrawal EXCEPT ![id].status = "paid"]
      /\ Go(w, Auditing("withdrawal.pay", id))
      /\ UNCHANGED <<recent, earned, audits>>
  BY DEF Pay, Covered
<1>5. balance' \in [Publishers \cup {Payouts} -> Nat]
  BY <1>1, <1>3, <1>4 DEF TypeOK, AfterPaying
<1>6. ASSUME NEW v \in Workers \ {w}, tx[v].op = "ask"
      PROVE  balance'[tx[v].publisher] = balance[tx[v].publisher]
  BY <1>1, <1>3, <1>4, <1>6, RequestInFlight, WithdrawalsAssumption
     DEF BalanceFree, AfterPaying, TypeOK
<1>7. \A v \in Workers \ {w} : tx[v].op = "pay" => tx[v].id # id
  BY <1>1 DEF PaidAlone, Pay
<1>8. "withdrawal.pay" \in Actions
  BY DEF Actions
<1> HIDE DEF id, p, coins
<1> QED  BY <1>1, <1>2, <1>4, <1>5, <1>6, <1>7, <1>8, DecideType

LEMMA RejectType ==
    ASSUME TypeOK, NEW w \in Workers, NEW id \in Ids, Reject(w, id)
    PROVE  TypeOK'
<1>1. /\ withdrawal[id].status = "requested" /\ tx[w] = Idle
      /\ withdrawal' = [withdrawal EXCEPT ![id].status = "rejected"]
      /\ Go(w, Auditing("withdrawal.reject", id))
      /\ UNCHANGED <<balance, recent, earned, audits>>
  BY DEF Reject
<1>2. \A v \in Workers \ {w} : tx[v].op = "pay" => tx[v].id # id
  BY DEF Reject, RowFree
<1>3. "withdrawal.reject" \in Actions /\ balance' \in [Publishers \cup {Payouts} -> Nat]
  BY <1>1 DEF Actions, TypeOK
<1> QED  BY <1>1, <1>2, <1>3, DecideType

(* The worker takes the row, or is done. *)
LEMMA RestType ==
    ASSUME TypeOK, NEW w \in Workers,
           RefuseRequest(w) \/ WriteAudit(w) \/ Fail(w) \/ \E id \in Ids : BeginPay(w, id)
    PROVE  TypeOK'
<1>1. PICK t : /\ Go(w, t) /\ UNCHANGED <<balance, recent, earned, withdrawal>>
               /\ \/ t = Idle
                  \/ \E id \in Ids : t = Paying(id) /\ withdrawal[id].status = "requested"
  BY DEF RefuseRequest, WriteAudit, Fail, BeginPay
<1>2. RequestOK(t)'
  BY <1>1 DEF RequestOK, Idle, Paying
<1>3. audits' \in [Actions \X Ids -> Nat]
  <2>1. CASE WriteAudit(w)
    <3>1. <<tx[w].action, tx[w].id>> \in Actions \X Ids
      BY <2>1, RequestInFlight DEF WriteAudit
    <3> QED  BY <2>1, <3>1 DEF WriteAudit, TypeOK
  <2>2. CASE audits' = audits
    BY <2>2 DEF TypeOK
  <2> QED  BY <2>1, <2>2 DEF RefuseRequest, Fail, BeginPay
<1>4. \A v \in Workers : tx[v].op = "pay" => withdrawal[tx[v].id].status = "requested"
  BY RequestInFlight
<1>5. /\ balance' \in [Publishers \cup {Payouts} -> Nat]
      /\ withdrawal' \in [Ids -> Withdrawal \cup {NoWithdrawal}]
      /\ \A id \in Ids : withdrawal[id] # NoWithdrawal => withdrawal'[id] # NoWithdrawal
  BY <1>1 DEF TypeOK, Withdrawal, NoWithdrawal
<1> QED  BY <1>1, <1>2, <1>3, <1>4, <1>5, StepType

LEMMA TypeInit == Init => TypeOK
<1> SUFFICES ASSUME Init PROVE TypeOK
  OBVIOUS
<1>1. \A w \in Workers : RequestOK(tx[w])
  BY DEF Init, RequestOK
<1>2. MaxEarned \in Nat
  BY WithdrawalsAssumption
<1> QED  BY <1>1, <1>2 DEF Init, TypeOK

-------------------------------------------------------------------------------
(* Rows that are being paid.                                                *)

(* Only BeginPay takes a row, and it takes a free one. *)
LEMMA PaidAloneGo ==
    ASSUME Sound, NEW w \in Workers, NEW t, Go(w, t),
           t.op = "pay" => RowFree(t.id)
    PROVE  PaidAlone'
BY GoMoves DEF Sound, PaidAlone, RowFree

LEMMA PaidAloneStep == Sound /\ [Next]_vars => PaidAlone'
<1> SUFFICES ASSUME Sound, [Next]_vars PROVE PaidAlone'
  OBVIOUS
<1>1. ASSUME NEW p \in Publishers, Earn(p) \/ Settle(p)
      PROVE  PaidAlone'
  BY <1>1 DEF Earn, Settle, Sound, PaidAlone
<1>2. ASSUME NEW w \in Workers,
             \/ \E p \in Publishers, coins \in Coins : BeginRequest(w, p, coins)
             \/ \E id \in Ids : BeginPay(w, id) \/ Reject(w, id)
             \/ Finish(w) \/ Fail(w)
      PROVE  PaidAlone'
  <2>1. \E t : Go(w, t) /\ (t.op = "pay" => RowFree(t.id))
    <3>1. ASSUME NEW p, NEW coins, BeginRequest(w, p, coins)
          PROVE  Go(w, Asking(p, coins)) /\ Asking(p, coins).op # "pay"
      BY <3>1 DEF BeginRequest, Asking
    <3>2. ASSUME NEW id, BeginPay(w, id)
          PROVE  Go(w, Paying(id)) /\ Paying(id).id = id /\ RowFree(id)
      BY <3>2 DEF BeginPay, Paying
    <3>3. ASSUME NEW id, Reject(w, id) \/ Request(w, id) \/ Pay(w)
          PROVE  \E t : Go(w, t) /\ t.op # "pay"
      <4>1. \A action, i : Auditing(action, i).op # "pay"
        BY DEF Auditing
      <4> QED  BY <3>3, <4>1 DEF Reject, Request, Pay
    <3>4. ASSUME RefuseRequest(w) \/ WriteAudit(w) \/ Fail(w)
          PROVE  Go(w, Idle) /\ Idle.op # "pay"
      BY <3>4 DEF RefuseRequest, WriteAudit, Fail, Idle
    <3> QED  BY <1>2, <3>1, <3>2, <3>3, <3>4 DEF Finish
  <2> QED  BY <2>1, PaidAloneGo
<1>3. CASE UNCHANGED vars
  BY <1>3 DEF vars, Sound, PaidAlone
<1> QED  BY <1>1, <1>2, <1>3 DEF Next

LEMMA TypeStep == Sound /\ [Next]_vars => TypeOK'
<1> SUFFICES ASSUME Sound, [Next]_vars PROVE TypeOK'
  OBVIOUS
<1>1. TypeOK
  BY DEF Sound
<1>2. CASE UNCHANGED vars
  BY <1>1, <1>2, RequestInFlight, RequestStands DEF vars, TypeOK
<1> QED
  BY <1>1, <1>2, EarnType, SettleType, BeginRequestType, RequestType, PayType, RejectType, RestType
     DEF Next, Finish

LEMMA SoundAlways == Spec => []Sound
<1>1. Init => Sound
  BY TypeInit DEF Init, Sound, PaidAlone, Idle
<1>2. Sound /\ [Next]_vars => Sound'
  BY TypeStep, PaidAloneStep DEF Sound
<1> QED  BY <1>1, <1>2, PTL DEF Spec

(* Every column holds what it may, and what the requests under way rely on  *)
(* holds to their end: the balance createWithdrawal read under its lock,    *)
(* the status payWithdrawal's UPDATE tested.                                *)
THEOREM WithdrawalsTypeCorrect == Spec => []TypeOK
BY SoundAlways, PTL DEF Sound

-------------------------------------------------------------------------------
(* What is queued.                                                          *)

LEMMA OpenIsFinite == \A p : IsFiniteSet(Open(p))
BY WithdrawalsAssumption, FS_Subset DEF Open

LEMMA OpenCoins ==
    ASSUME TypeOK, NEW p, NEW id \in Open(p)
    PROVE  withdrawal[id].coins \in Nat
BY RowShape, CoinsAreNat DEF Open

LEMMA QueuedIsNat ==
    ASSUME TypeOK, NEW p
    PROVE  Queued(p) \in Nat
<1> DEFINE f == [id \in Open(p) |-> withdrawal[id].coins]
<1>1. \A id \in Open(p) : f[id] \in Nat
  BY OpenCoins
<1> HIDE DEF f
<1>2. SumFunctionOnSet(f, Open(p)) \in Nat
  BY <1>1, OpenIsFinite, SumIsNat
<1> QED  BY <1>2 DEF f, Queued

LEMMA QueuedIsNatNext == TypeOK' => \A p \in Publishers : Queued(p)' \in Nat
<1> DEFINE Counted == \A p \in Publishers : Queued(p) \in Nat
<1>1. TypeOK => Counted
  BY QueuedIsNat
<1>2. Counted' => \A p \in Publishers : Queued(p)' \in Nat
  OBVIOUS
<1> HIDE DEF Counted
<1> QED  BY <1>1, <1>2, PTL

(* The queue of a publisher none of whose rows change is what it was. *)
LEMMA QueueStays ==
    ASSUME NEW p, Open(p)' = Open(p),
           \A id \in Open(p) : withdrawal'[id].coins = withdrawal[id].coins
    PROVE  Queued(p)' = Queued(p)
BY DEF Queued

(* A request adds its coins to its publisher's queue and to no other. *)
LEMMA QueueGrows ==
    ASSUME TypeOK, TypeOK', NEW id \in Ids, NEW p \in Publishers, NEW coins \in Coins,
           withdrawal[id] = NoWithdrawal,
           withdrawal' = [withdrawal EXCEPT ![id] = Requested(p, coins)]
    PROVE  /\ Queued(p)' = Queued(p) + coins
           /\ \A q \in Publishers \ {p} : Queued(q)' = Queued(q)
<1>1. /\ withdrawal'[id] = Requested(p, coins)
      /\ \A i \in Ids : i # id => withdrawal'[i] = withdrawal[i]
  BY DEF TypeOK
<1>2. \A q : id \notin Open(q)
  BY DEF Open, NoWithdrawal
<1>3. Open(p)' = Open(p) \cup {id}
  BY <1>1 DEF Open, Requested
<1>4. \A q \in Publishers \ {p} : Queued(q)' = Queued(q)
  <2> TAKE q \in Publishers \ {p}
  <2>1. Open(q)' = Open(q)
    BY <1>1, <1>2 DEF Open, Requested
  <2>2. \A i \in Open(q) : withdrawal'[i].coins = withdrawal[i].coins
    BY <1>1, <1>2 DEF Open
  <2> QED  BY <2>1, <2>2, QueueStays
<1> DEFINE f == [i \in Open(p) |-> withdrawal[i].coins]
           g == [i \in Open(p)' |-> withdrawal'[i].coins]
<1>5. \A i \in Open(p) : g[i] = f[i]
  <2>1. \A i \in Open(p) : i \in Ids /\ i # id
    BY <1>2 DEF Open
  <2> QED  BY <1>1, <1>3, <2>1
<1>6. g[id] = coins /\ \A i \in Open(p) \cup {id} : g[i] \in Int
  BY <1>1, <1>3, <1>5, OpenCoins, CoinsAreNat DEF Requested
<1>7. Queued(p) = SumFunctionOnSet(f, Open(p)) /\ Queued(p)' = SumFunctionOnSet(g, Open(p) \cup {id})
  BY <1>3 DEF Queued
<1> HIDE DEF f, g
<1>8. SumFunctionOnSet(g, Open(p) \cup {id}) = g[id] + SumFunctionOnSet(g, Open(p))
  BY <1>2, <1>6, OpenIsFinite, SumWith
<1>9. SumFunctionOnSet(g, Open(p)) = SumFunctionOnSet(f, Open(p))
  BY <1>5, OpenIsFinite, SumSame
<1>10. Queued(p)' = coins + Queued(p)
  BY <1>6, <1>7, <1>8, <1>9
<1> QED  BY <1>4, <1>10, QueuedIsNat, CoinsAreNat

(* A decision takes its coins out of its publisher's queue. *)
LEMMA QueueShrinks ==
    ASSUME TypeOK, TypeOK', NEW id \in Ids, NEW status, status # "requested",
           withdrawal[id].status = "requested",
           withdrawal' = [withdrawal EXCEPT ![id].status = status],
           NEW p, p = withdrawal[id].publisher, NEW coins, coins = withdrawal[id].coins
    PROVE  /\ Queued(p)' = Queued(p) - coins
           /\ \A q \in Publishers \ {p} : Queued(q)' = Queued(q)
<1>1. /\ withdrawal'[id].status = status
      /\ \A i \in Ids : i # id => withdrawal'[i] = withdrawal[i]
  BY RowShape DEF TypeOK, Withdrawal
<1>2. \A q \in Publishers \ {p} : id \notin Open(q)
  BY DEF Open
<1>3. Open(p)' = Open(p) \ {id}
  BY <1>1 DEF Open
<1>4. \A q \in Publishers \ {p} : Queued(q)' = Queued(q)
  <2> TAKE q \in Publishers \ {p}
  <2>1. Open(q)' = Open(q)
    BY <1>1, <1>2 DEF Open
  <2>2. \A i \in Open(q) : withdrawal'[i].coins = withdrawal[i].coins
    BY <1>1, <1>2 DEF Open
  <2> QED  BY <2>1, <2>2, QueueStays
<1> DEFINE f == [i \in Open(p) |-> withdrawal[i].coins]
           g == [i \in Open(p)' |-> withdrawal'[i].coins]
<1>5. id \in Open(p) /\ f[id] = coins
  BY DEF Open
<1>6. \A i \in Open(p) \ {id} : f[i] = g[i]
  BY <1>1, <1>3 DEF Open
<1>7. \A i \in Open(p) : f[i] \in Int
  BY OpenCoins
<1>8. Queued(p) = SumFunctionOnSet(f, Open(p)) /\ Queued(p)' = SumFunctionOnSet(g, Open(p) \ {id})
  BY <1>3 DEF Queued
<1> HIDE DEF f, g
<1>9. SumFunctionOnSet(f, Open(p)) = f[id] + SumFunctionOnSet(f, Open(p) \ {id})
  BY <1>5, <1>7, OpenIsFinite, SumWithout
<1>10. SumFunctionOnSet(f, Open(p) \ {id}) = SumFunctionOnSet(g, Open(p) \ {id})
  <2>1. IsFiniteSet(Open(p) \ {id})
    BY OpenIsFinite, FS_RemoveElement
  <2> QED  BY <1>6, <2>1, SumSame
<1>11. Queued(p) = coins + Queued(p)'
  BY <1>5, <1>8, <1>9, <1>10
<1>12. coins \in Nat /\ Queued(p)' \in Int
  <2>1. IsFiniteSet(Open(p) \ {id}) /\ \A i \in Open(p) \ {id} : g[i] \in Int
    BY <1>6, <1>7, OpenIsFinite, FS_RemoveElement
  <2>2. SumFunctionOnSet(g, Open(p) \ {id}) \in Int
    BY <2>1, SumIsInt
  <2> QED  BY <1>5, <1>8, <2>2, OpenCoins
<1>13. Queued(p)' = Queued(p) - coins
  BY <1>11, <1>12
<1> QED  BY <1>4, <1>13

-------------------------------------------------------------------------------
(* Withdrawals and Purse.                                                   *)

(* What is free to be asked for, as the code computes it. *)
Free == [p \in Publishers |-> Available(balance[p], p)]

LEMMA FreeIsInt ==
    ASSUME TypeOK
    PROVE  /\ Free = [p \in Publishers |-> Free[p]]
           /\ \A p \in Publishers : Free[p] \in Int /\ Free[p] = balance[p] - recent[p] - Queued(p)
BY QueuedIsNat DEF Free, Available, TypeOK

(* What is free follows the balances, the window and the queue. *)
LEMMA FreeNext ==
    ASSUME TypeOK'
    PROVE  /\ DOMAIN Free' = Publishers
           /\ \A p \in Publishers : Free'[p] = balance'[p] - recent'[p] - Queued(p)'
BY DEF Free, Available

(* A step that changes what is free for one publisher by so much. *)
LEMMA FreeMovesBy ==
    ASSUME TypeOK, TypeOK', NEW p \in Publishers, NEW n \in Int,
           balance'[p] - recent'[p] - Queued(p)' = balance[p] - recent[p] - Queued(p) + n,
           \A q \in Publishers \ {p} :
                balance'[q] = balance[q] /\ recent'[q] = recent[q] /\ Queued(q)' = Queued(q)
    PROVE  Free' = [Free EXCEPT ![p] = @ + n]
<1>1. /\ DOMAIN Free' = Publishers
      /\ \A q \in Publishers : Free'[q] = IF q = p THEN Free[q] + n ELSE Free[q]
  BY FreeNext, FreeIsInt
<1>2. Free' = [q \in Publishers |-> Free'[q]]
  BY DEF Free
<1> QED  BY <1>1, <1>2, FreeIsInt

LEMMA EarnPurse ==
    ASSUME TypeOK, TypeOK', NEW p \in Publishers, Earn(p)
    PROVE  Promise!Earn(p)
<1>1. UNCHANGED <<balance[Payouts], withdrawal>>
  BY WithdrawalsAssumption DEF Earn, TypeOK
<1>2. \A q : Queued(q)' = Queued(q)
  BY <1>1 DEF Queued, Open
<1>3. Free' = [Free EXCEPT ![p] = @ + 0]
  <2>1. balance'[p] - recent'[p] - Queued(p) = balance[p] - recent[p] - Queued(p) + 0
    BY QueuedIsNat DEF Earn, TypeOK
  <2> QED  BY <1>2, <2>1, FreeMovesBy DEF Earn, TypeOK
<1>4. Free' = Free
  BY <1>3, FreeIsInt
<1> QED  BY <1>1, <1>4 DEF Promise!Earn, Earn, Free

LEMMA SettlePurse ==
    ASSUME TypeOK, TypeOK', NEW p \in Publishers, Settle(p)
    PROVE  Promise!Settle(p)
<1>1. UNCHANGED <<balance, withdrawal>>
  BY DEF Settle
<1>2. \A q : Queued(q)' = Queued(q)
  BY <1>1 DEF Queued, Open
<1>3. Free' = [Free EXCEPT ![p] = @ + 1]
  <2>1. balance[p] - recent'[p] - Queued(p) = balance[p] - recent[p] - Queued(p) + 1
    BY QueuedIsNat DEF Settle, TypeOK
  <2> QED  BY <1>1, <1>2, <2>1, FreeMovesBy DEF Settle, TypeOK
<1> QED  BY <1>1, <1>3 DEF Promise!Settle, Settle, Free

(* createWithdrawal's test, against the balance it locked, is Ask's. *)
LEMMA RequestPurse ==
    ASSUME TypeOK, TypeOK', NEW w \in Workers, NEW id \in Ids, Request(w, id)
    PROVE  \E p \in Publishers : Promise!Ask(id, p)
<1> PICK p, coins : p = tx[w].publisher /\ coins = tx[w].coins
  OBVIOUS
<1>1. /\ p \in Publishers /\ coins \in Coins /\ coins \in Nat /\ coins > 0
      /\ tx[w].balance = balance[p]
  BY RequestInFlight, CoinsAreNat DEF Request
<1>2. /\ UNCHANGED <<balance, recent>> /\ withdrawal[id] = NoWithdrawal
      /\ coins <= Free[p]
      /\ withdrawal' = [withdrawal EXCEPT ![id] = Requested(p, coins)]
  BY <1>1 DEF Request, Free
<1>3. Queued(p)' = Queued(p) + coins /\ \A q \in Publishers \ {p} : Queued(q)' = Queued(q)
  BY <1>1, <1>2, QueueGrows
<1>4. Free' = [Free EXCEPT ![p] = @ + (-coins)]
  <2>1. balance[p] - recent[p] - Queued(p)' = balance[p] - recent[p] - Queued(p) + (-coins)
    BY <1>1, <1>3, QueuedIsNat DEF TypeOK
  <2> QED  BY <1>1, <1>2, <1>3, <2>1, FreeMovesBy
<1>5. /\ Free[p] \in Int /\ Free'[p] = Free[p] - coins /\ Free[p] - Free'[p] = coins
      /\ Free' = [Free EXCEPT ![p] = @ - coins]
  <2>1. Free[p] \in Int /\ p \in DOMAIN Free
    BY <1>1, FreeIsInt
  <2>2. Free[p] + (-coins) = Free[p] - coins /\ Free[p] - (Free[p] - coins) = coins
    BY <1>1, <2>1
  <2> QED  BY <1>4, <2>1, <2>2
<1>6. Promise!Ask(id, p)
  <2>1. Free[p] - Free'[p] > 0 /\ Free'[p] >= 0
    BY <1>1, <1>2, <1>5
  <2>2. withdrawal[id].status = "none" /\ UNCHANGED <<recent, balance[Payouts]>>
    BY <1>2 DEF NoWithdrawal
  <2> QED  BY <1>2, <1>5, <2>1, <2>2 DEF Promise!Ask, Requested, Free
<1> QED  BY <1>1, <1>6

LEMMA PayPurse ==
    ASSUME TypeOK, TypeOK', NEW w \in Workers, Pay(w)
    PROVE  \E p \in Publishers, id \in Ids : Promise!Decide(id, p, "paid")
<1> PICK id, p, coins : id = tx[w].id /\ p = withdrawal[id].publisher /\ coins = withdrawal[id].coins
  OBVIOUS
<1>1. id \in Ids /\ withdrawal[id].status = "requested"
  BY RequestInFlight DEF Pay
<1>2. p \in Publishers /\ p # Payouts /\ coins \in Nat
  BY <1>1, RowShape, CoinsAreNat, WithdrawalsAssumption
<1>3. /\ balance' = AfterPaying(p, coins) /\ UNCHANGED recent
      /\ withdrawal' = [withdrawal EXCEPT ![id].status = "paid"]
  BY DEF Pay
<1>4. /\ balance'[p] = balance[p] - coins /\ balance'[Payouts] = balance[Payouts] + coins
      /\ \A q \in Publishers \ {p} : balance'[q] = balance[q]
  BY <1>2, <1>3, WithdrawalsAssumption DEF AfterPaying, TypeOK
<1>5. Queued(p)' = Queued(p) - coins /\ \A q \in Publishers \ {p} : Queued(q)' = Queued(q)
  BY <1>1, <1>3, QueueShrinks
<1>6. Free' = [Free EXCEPT ![p] = @ + 0]
  <2>1. balance[p] \in Int /\ recent[p] \in Int /\ Queued(p) \in Int /\ recent'[p] = recent[p]
    BY <1>2, <1>3, QueuedIsNat DEF TypeOK
  <2>2. balance'[p] - recent'[p] - Queued(p)' = balance[p] - recent[p] - Queued(p) + 0
    BY <1>2, <1>4, <1>5, <2>1
  <2>3. \A q \in Publishers \ {p} :
            balance'[q] = balance[q] /\ recent'[q] = recent[q] /\ Queued(q)' = Queued(q)
    BY <1>3, <1>4, <1>5
  <2> QED  BY <1>2, <2>2, <2>3, FreeMovesBy
<1>7. Free' = Free
  BY <1>6, FreeIsInt
<1>8. Promise!Decide(id, p, "paid")
  BY <1>1, <1>3, <1>4, <1>7 DEF Promise!Decide, Free
<1> QED  BY <1>1, <1>2, <1>8

LEMMA RejectPurse ==
    ASSUME TypeOK, TypeOK', NEW w \in Workers, NEW id \in Ids, Reject(w, id)
    PROVE  \E p \in Publishers : Promise!Decide(id, p, "rejected")
<1> PICK p, coins : p = withdrawal[id].publisher /\ coins = withdrawal[id].coins
  OBVIOUS
<1>1. /\ withdrawal[id].status = "requested" /\ UNCHANGED <<balance, recent>>
      /\ withdrawal' = [withdrawal EXCEPT ![id].status = "rejected"]
  BY DEF Reject
<1>2. p \in Publishers /\ coins \in Nat
  BY <1>1, RowShape, CoinsAreNat
<1>3. Queued(p)' = Queued(p) - coins /\ \A q \in Publishers \ {p} : Queued(q)' = Queued(q)
  BY <1>1, QueueShrinks
<1>4. Free' = [Free EXCEPT ![p] = @ + coins]
  <2>1. balance[p] - recent[p] - Queued(p)' = balance[p] - recent[p] - Queued(p) + coins
    BY <1>2, <1>3, QueuedIsNat DEF TypeOK
  <2> QED  BY <1>1, <1>2, <1>3, <2>1, FreeMovesBy
<1>5. Promise!Decide(id, p, "rejected")
  BY <1>1, <1>4 DEF Promise!Decide, Free
<1> QED  BY <1>2, <1>5

(* Every other step leaves what the purse speaks of. *)
LEMMA PurseStutters ==
    UNCHANGED <<balance, recent, withdrawal>> => UNCHANGED (Promise!vars)
<1> SUFFICES ASSUME UNCHANGED <<balance, recent, withdrawal>> PROVE UNCHANGED (Promise!vars)
  OBVIOUS
<1>1. Free' = Free
  BY DEF Free, Available, Queued, Open
<1> QED  BY <1>1 DEF Promise!vars, Free

LEMMA PurseStep == TypeOK /\ TypeOK' /\ [Next]_vars => [Promise!Next]_(Promise!vars)
<1> SUFFICES ASSUME TypeOK, TypeOK', [Next]_vars PROVE [Promise!Next]_(Promise!vars)
  OBVIOUS
<1>1. ASSUME NEW p \in Publishers, Earn(p) \/ Settle(p)
      PROVE  Promise!Next
  BY <1>1, EarnPurse, SettlePurse DEF Promise!Next
<1>2. ASSUME NEW w \in Workers, Pay(w) \/ \E id \in Ids : Request(w, id) \/ Reject(w, id)
      PROVE  Promise!Next
  BY <1>2, PayPurse, RequestPurse, RejectPurse DEF Promise!Next
<1>3. ASSUME NEW w \in Workers,
             \/ \E p \in Publishers, coins \in Coins : BeginRequest(w, p, coins)
             \/ \E id \in Ids : BeginPay(w, id)
             \/ RefuseRequest(w) \/ WriteAudit(w) \/ Fail(w)
      PROVE  UNCHANGED <<balance, recent, withdrawal>>
  BY <1>3 DEF BeginRequest, BeginPay, RefuseRequest, WriteAudit, Fail
<1>4. CASE UNCHANGED vars
  BY <1>4, PurseStutters DEF vars
<1> QED  BY <1>1, <1>2, <1>3, <1>4, PurseStutters DEF Next, Finish

(* What is free starts at nothing. *)
LEMMA PurseInit == Init => Promise!Init
<1> SUFFICES ASSUME Init PROVE Promise!Init
  OBVIOUS
<1>1. \A p : Open(p) = {}
  BY DEF Init, Open, NoWithdrawal
<1>2. \A p : Queued(p) = 0
  BY <1>1, SumOfNone DEF Queued
<1>3. \A p \in Publishers : Available(balance[p], p) = 0
  BY <1>2 DEF Init, Available
<1> QED  BY <1>3 DEF Init, Promise!Init, NoWithdrawal

(* The withdrawals of the code are a purse: a credit is held for its        *)
(* window and then free, free coins are asked for once, and a request is    *)
(* decided once, paid out in full or given back to what is free.            *)
THEOREM WithdrawalsKeepPurse == Spec => KeepsPurse
<1>1. TypeOK /\ [Next]_vars /\ TypeOK' => [Promise!Next]_(Promise!vars)
  BY PurseStep
<1> QED  BY <1>1, PurseInit, WithdrawalsTypeCorrect, PTL DEF Spec, KeepsPurse, Promise!Spec

(* What the purse does never takes what is free below zero. *)
LEMMA CoveredStep ==
    ASSUME TypeOK, TypeOK', QueueCovered, [Promise!Next]_(Promise!vars)
    PROVE  QueueCovered'
<1>1. \A p \in Publishers : Free[p] \in Nat
  BY FreeIsInt, QueuedIsNat DEF QueueCovered, TypeOK
<1>2. SUFFICES \A p \in Publishers : Free'[p] >= 0
  <2>1. ASSUME NEW p \in Publishers
        PROVE  /\ Free'[p] = balance'[p] - recent'[p] - Queued(p)'
               /\ balance'[p] \in Int /\ recent'[p] \in Int /\ Queued(p)' \in Int
    <3> QED  BY FreeNext, QueuedIsNatNext DEF TypeOK
  <2> QED  BY <2>1 DEF QueueCovered
<1> SUFFICES ASSUME NEW q \in Publishers PROVE Free'[q] >= 0
  OBVIOUS
<1>3. CASE UNCHANGED Free
  BY <1>1, <1>3
<1>4. ASSUME NEW p \in Publishers, NEW n \in Nat, Free' = [Free EXCEPT ![p] = @ + n]
      PROVE  Free'[q] >= 0
  BY <1>1, <1>4, FreeIsInt
<1>5. ASSUME NEW p \in Publishers, Promise!Earn(p) \/ Promise!Settle(p)
      PROVE  Free'[q] >= 0
  BY <1>3, <1>4, <1>5 DEF Promise!Earn, Promise!Settle, Free
<1>6. ASSUME NEW p \in Publishers, NEW id \in Ids, Promise!Ask(id, p)
      PROVE  Free'[q] >= 0
  <2>1. Free'[p] >= 0 /\ Free' = [Free EXCEPT ![p] = @ - (Free[p] - Free'[p])]
    BY <1>6 DEF Promise!Ask, Free
  <2> QED  BY <1>1, <2>1, FreeIsInt
<1>7. ASSUME NEW p \in Publishers, NEW id \in Ids, NEW status, Promise!Decide(id, p, status)
      PROVE  Free'[q] >= 0
  <2>1. withdrawal[id].coins \in Nat
    BY <1>7, RowShape, CoinsAreNat DEF Promise!Decide
  <2> QED  BY <1>3, <1>4, <1>7, <2>1 DEF Promise!Decide, Free
<1> QED  BY <1>3, <1>5, <1>6, <1>7 DEF Promise!Next, Promise!vars, Free

(* What has left the settlement window covers all that is asked for, so no  *)
(* payment is refused for cover: the test createWithdrawal makes against    *)
(* one locked balance is enough for every request of that publisher.       *)
THEOREM AskedForIsCovered == Spec => []QueueCovered
<1>1. Init => QueueCovered
  <2> SUFFICES ASSUME Init PROVE QueueCovered
    OBVIOUS
  <2>1. \A p : Queued(p) = 0
    BY SumOfNone DEF Init, Open, NoWithdrawal, Queued
  <2> QED  BY <2>1 DEF Init, QueueCovered
<1>2. TypeOK /\ TypeOK' /\ QueueCovered /\ [Next]_vars => QueueCovered'
  BY PurseStep, CoveredStep
<1> QED  BY <1>1, <1>2, WithdrawalsTypeCorrect, PTL DEF Spec

-------------------------------------------------------------------------------
(* Decisions and what is told of them.                                      *)

Tellers(action, id) == {w \in Workers : tx[w] = Auditing(action, id)}

(* A decision is in the audit log, or on its way there, at most once, and   *)
(* only where the row says so.                                              *)
ToldOnce(action, status) ==
    \A id \in Ids :
        /\ IsFiniteSet(Tellers(action, id))
        /\ audits[<<action, id>>] + Cardinality(Tellers(action, id))
                <= IF withdrawal[id].status = status THEN 1 ELSE 0

(* The decisions, each under its name in the audit log. *)
Decisions == {<<"withdrawal.pay", "paid">>, <<"withdrawal.reject", "rejected">>}

LEMMA AuditIsNat ==
    ASSUME TypeOK, NEW action \in Actions, NEW id \in Ids
    PROVE  audits[<<action, id>>] \in Nat
BY DEF TypeOK

(* A step that writes no entry, sends no one to write it and leaves the     *)
(* decided rows decided.                                                    *)
LEMMA FewerTell ==
    ASSUME TypeOK, NEW action \in Actions, NEW status, ToldOnce(action, status),
           UNCHANGED audits,
           \A id \in Ids : Tellers(action, id)' \subseteq Tellers(action, id),
           \A id \in Ids : withdrawal[id].status = status => withdrawal'[id].status = status
    PROVE  ToldOnce(action, status)'
<1> SUFFICES ASSUME NEW id \in Ids
             PROVE  /\ IsFiniteSet(Tellers(action, id))'
                    /\ audits'[<<action, id>>] + Cardinality(Tellers(action, id)')
                            <= IF withdrawal'[id].status = status THEN 1 ELSE 0
  BY DEF ToldOnce
<1> DEFINE before == Tellers(action, id)
           after == Tellers(action, id)'
<1>1. IsFiniteSet(before) /\ after \subseteq before
  BY DEF ToldOnce
<1> HIDE DEF before, after
<1>2. /\ IsFiniteSet(after) /\ Cardinality(after) <= Cardinality(before)
      /\ Cardinality(before) \in Nat /\ Cardinality(after) \in Nat
  BY <1>1, FS_Subset, FS_CardinalityType
<1>3. audits[<<action, id>>] + Cardinality(before) <= IF withdrawal[id].status = status THEN 1 ELSE 0
  BY DEF ToldOnce, before
<1>4. audits[<<action, id>>] + Cardinality(after) <= IF withdrawal'[id].status = status THEN 1 ELSE 0
  BY <1>2, <1>3, AuditIsNat
<1> QED  BY <1>2, <1>4 DEF after

(* A step of one worker, who comes to tell of one row at most. *)
LEMMA GoTellers ==
    ASSUME TypeOK, NEW w \in Workers, NEW t, Go(w, t), NEW action, NEW id,
           t # Auditing(action, id)
    PROVE  Tellers(action, id)' = Tellers(action, id) \ {w}
BY GoMoves DEF Tellers, Auditing

(* An entry is written by one who was there to write it. *)
LEMMA WriteAuditTold ==
    ASSUME TypeOK, NEW action \in Actions, NEW status, ToldOnce(action, status),
           NEW w \in Workers, WriteAudit(w)
    PROVE  ToldOnce(action, status)'
<1> SUFFICES ASSUME NEW id \in Ids
             PROVE  /\ IsFiniteSet(Tellers(action, id))'
                    /\ audits'[<<action, id>>] + Cardinality(Tellers(action, id)')
                            <= IF withdrawal'[id].status = status THEN 1 ELSE 0
  BY DEF ToldOnce
<1> DEFINE before == Tellers(action, id)
           once == IF withdrawal[id].status = status THEN 1 ELSE 0
<1>1. IsFiniteSet(before) /\ audits[<<action, id>>] + Cardinality(before) <= once
  BY DEF ToldOnce
<1>2. Tellers(action, id)' = before \ {w} /\ withdrawal' = withdrawal
  <2>1. Idle # Auditing(action, id)
    BY DEF Idle, Auditing
  <2> QED  BY <2>1, GoTellers DEF WriteAudit
<1>3. w \in before <=> tx[w] = Auditing(action, id)
  BY DEF Tellers
<1> HIDE DEF before
<1>4. /\ IsFiniteSet(before \ {w}) /\ Cardinality(before) \in Nat
      /\ Cardinality(before \ {w})
            = IF w \in before THEN Cardinality(before) - 1 ELSE Cardinality(before)
  BY <1>1, FS_RemoveElement, FS_CardinalityType
<1>5. audits'[<<action, id>>]
        = IF w \in before THEN audits[<<action, id>>] + 1 ELSE audits[<<action, id>>]
  <2>1. tx[w] = Auditing(action, id) <=> tx[w].action = action /\ tx[w].id = id
    BY RequestInFlight DEF WriteAudit, Auditing
  <2>2. <<tx[w].action, tx[w].id>> = <<action, id>> <=> tx[w].action = action /\ tx[w].id = id
    OBVIOUS
  <2> QED  BY <1>3, <2>1, <2>2 DEF WriteAudit, TypeOK
<1>6. audits'[<<action, id>>] + Cardinality(before \ {w}) <= once
  BY <1>1, <1>4, <1>5, AuditIsNat
<1> QED  BY <1>2, <1>4, <1>6

(* A row is decided while nobody has told of it. *)
LEMMA DecideTold ==
    ASSUME TypeOK, NEW action \in Actions, NEW status, ToldOnce(action, status),
           NEW w \in Workers, NEW id \in Ids, NEW act, NEW decided,
           Go(w, Auditing(act, id)), UNCHANGED audits,
           act = action <=> decided = status, status # "requested",
           withdrawal[id].status = "requested",
           withdrawal' = [withdrawal EXCEPT ![id].status = decided]
    PROVE  ToldOnce(action, status)'
<1>1. /\ withdrawal'[id].status = decided
      /\ \A i \in Ids : i # id => withdrawal'[i] = withdrawal[i]
  BY RowShape DEF TypeOK, Withdrawal
<1>2. \A i \in Ids : Auditing(act, id) = Auditing(action, i) <=> act = action /\ i = id
  BY DEF Auditing
<1>3. CASE act # action
  <2>1. \A i \in Ids : Tellers(action, i)' \subseteq Tellers(action, i)
    BY <1>2, <1>3, GoTellers
  <2>2. \A i \in Ids : withdrawal[i].status = status => withdrawal'[i].status = status
    BY <1>1
  <2> QED  BY <2>1, <2>2, FewerTell
<1>4. CASE act = action
  <2> SUFFICES ASSUME NEW i \in Ids
               PROVE  /\ IsFiniteSet(Tellers(action, i))'
                      /\ audits'[<<action, i>>] + Cardinality(Tellers(action, i)')
                              <= IF withdrawal'[i].status = status THEN 1 ELSE 0
    BY DEF ToldOnce
  <2>1. /\ IsFiniteSet(Tellers(action, i))
        /\ audits[<<action, i>>] + Cardinality(Tellers(action, i))
                <= IF withdrawal[i].status = status THEN 1 ELSE 0
    BY DEF ToldOnce
  <2>2. Cardinality(Tellers(action, i)) \in Nat /\ audits[<<action, i>>] \in Nat
    BY <2>1, FS_CardinalityType, AuditIsNat
  <2>3. CASE i # id
    <3>1. Tellers(action, i)' = Tellers(action, i) \ {w}
      BY <1>2, <2>3, GoTellers
    <3>2. /\ IsFiniteSet(Tellers(action, i) \ {w})
          /\ Cardinality(Tellers(action, i) \ {w}) <= Cardinality(Tellers(action, i))
          /\ Cardinality(Tellers(action, i) \ {w}) \in Nat
      BY <2>1, FS_RemoveElement, FS_Subset, FS_CardinalityType
    <3> QED  BY <1>1, <2>1, <2>2, <2>3, <3>1, <3>2
  <2>4. CASE i = id
    <3>1. audits[<<action, i>>] = 0 /\ Cardinality(Tellers(action, i)) = 0
      BY <2>1, <2>2, <2>4
    <3>2. Tellers(action, i) = {}
      BY <2>1, <3>1, FS_EmptySet
    <3>3. Tellers(action, i)' = {w}
      BY <1>4, <2>4, <3>2, GoMoves DEF Tellers
    <3>4. IsFiniteSet({w}) /\ Cardinality({w}) = 1
      BY FS_Singleton
    <3> QED  BY <1>1, <1>4, <2>4, <3>1, <3>3, <3>4
  <2> QED  BY <2>3, <2>4
<1> QED  BY <1>3, <1>4

LEMMA ToldOnceStep ==
    ASSUME Sound, [Next]_vars, NEW action, NEW status, <<action, status>> \in Decisions,
           ToldOnce(action, status)
    PROVE  ToldOnce(action, status)'
<1>1. /\ TypeOK /\ action \in Actions /\ status # "requested" /\ status # "none"
      /\ action # "withdrawal.request"
      /\ "withdrawal.pay" = action <=> "paid" = status
      /\ "withdrawal.reject" = action <=> "rejected" = status
  BY DEF Sound, Decisions, Actions
<1>2. \A id : /\ Idle # Auditing(action, id) /\ \A i : Paying(i) # Auditing(action, id)
              /\ \A p, coins : Asking(p, coins) # Auditing(action, id)
              /\ \A i : Auditing("withdrawal.request", i) # Auditing(action, id)
  BY <1>1 DEF Idle, Paying, Asking, Auditing
<1>3. ASSUME NEW w \in Workers, NEW t, Go(w, t), \A id \in Ids : t # Auditing(action, id)
      PROVE  \A id \in Ids : Tellers(action, id)' \subseteq Tellers(action, id)
  BY <1>1, <1>3, GoTellers
<1>4. ASSUME UNCHANGED <<audits, tx, withdrawal>>
      PROVE  ToldOnce(action, status)'
  BY <1>1, <1>4, FewerTell DEF Tellers
<1>5. ASSUME NEW w \in Workers, NEW id \in Ids, Request(w, id)
      PROVE  ToldOnce(action, status)'
  <2>1. \A i \in Ids : withdrawal[i].status = status => withdrawal'[i].status = status
    BY <1>1, <1>5 DEF Request, TypeOK, NoWithdrawal
  <2>2. Go(w, Auditing("withdrawal.request", id)) /\ UNCHANGED audits
    BY <1>5 DEF Request
  <2> QED  BY <1>1, <1>2, <1>3, <2>1, <2>2, FewerTell
<1>6. ASSUME NEW w \in Workers, NEW id \in Ids, Reject(w, id)
      PROVE  ToldOnce(action, status)'
  BY <1>1, <1>6, DecideTold DEF Reject
<1>7. ASSUME NEW w \in Workers, Pay(w)
      PROVE  ToldOnce(action, status)'
  <2>1. \E id \in Ids : id = tx[w].id /\ withdrawal[id].status = "requested"
    BY <1>1, <1>7, RequestInFlight DEF Pay
  <2>2. PICK id \in Ids : /\ withdrawal[id].status = "requested"
                         /\ withdrawal' = [withdrawal EXCEPT ![id].status = "paid"]
                         /\ Go(w, Auditing("withdrawal.pay", id)) /\ UNCHANGED audits
    BY <1>7, <2>1 DEF Pay
  <2> QED  BY <1>1, <2>2, DecideTold
<1>8. ASSUME NEW w \in Workers, NEW t, Go(w, t), UNCHANGED <<audits, withdrawal>>,
             \A id \in Ids : t # Auditing(action, id)
      PROVE  ToldOnce(action, status)'
  BY <1>1, <1>3, <1>8, FewerTell
<1>9. ASSUME NEW w \in Workers,
             \/ \E p \in Publishers, coins \in Coins : BeginRequest(w, p, coins)
             \/ \E id \in Ids : BeginPay(w, id)
             \/ RefuseRequest(w) \/ Fail(w)
      PROVE  \E t : /\ Go(w, t) /\ UNCHANGED <<audits, withdrawal>>
                   /\ \A id \in Ids : t # Auditing(action, id)
  BY <1>2, <1>9 DEF BeginRequest, BeginPay, RefuseRequest, Fail
<1>10. ASSUME NEW w \in Workers, WriteAudit(w)
       PROVE  ToldOnce(action, status)'
  BY <1>1, <1>10, WriteAuditTold
<1> QED
  BY <1>4, <1>5, <1>6, <1>7, <1>8, <1>9, <1>10 DEF Next, Finish, vars, Earn, Settle

LEMMA ToldOnceInit ==
    ASSUME Init, NEW action, NEW status, <<action, status>> \in Decisions
    PROVE  ToldOnce(action, status)
<1>1. action \in Actions /\ status # "none"
  BY DEF Decisions, Actions
<1> SUFFICES ASSUME NEW id \in Ids
             PROVE  /\ IsFiniteSet(Tellers(action, id))
                    /\ audits[<<action, id>>] + Cardinality(Tellers(action, id))
                            <= IF withdrawal[id].status = status THEN 1 ELSE 0
  BY DEF ToldOnce
<1>2. Tellers(action, id) = {}
  BY DEF Init, Tellers, Idle, Auditing
<1>3. audits[<<action, id>>] = 0 /\ withdrawal[id].status # status
  BY <1>1 DEF Init, NoWithdrawal
<1> QED  BY <1>2, <1>3, FS_EmptySet

(* Of two admins and a retry, one decides: whatever the interleaving, the   *)
(* log tells at most once of a payment and of a rejection, and of neither   *)
(* unless the row says so; so it never tells of both.                       *)
THEOREM EachDecidedOnce == Spec => []DecidedOnce
<1> DEFINE Each == \A d \in Decisions : ToldOnce(d[1], d[2])
<1>1. Init => Each
  BY ToldOnceInit DEF Decisions
<1>2. Sound /\ Each /\ [Next]_vars => Each'
  <2> SUFFICES ASSUME Sound, Each, [Next]_vars, NEW d \in Decisions
               PROVE  ToldOnce(d[1], d[2])'
    OBVIOUS
  <2>1. <<d[1], d[2]>> \in Decisions
    BY DEF Decisions
  <2> QED  BY <2>1, ToldOnceStep
<1>3. Each => DecidedOnce
  BY DEF DecidedOnce, Decisions, ToldOnce, Tellers
<1> HIDE DEF Each
<1> QED  BY <1>1, <1>2, <1>3, SoundAlways, PTL DEF Spec
===============================================================================
