---------------------------- MODULE FundingProofs -----------------------------
(***************************************************************************)
(* Theorems about Funding, for any campaigns, payments, charges, keys and  *)
(* number of workers, and any bounds.                                      *)
(***************************************************************************)
EXTENDS Funding, FiniteSetTheorems, TLAPS

LEMMA AccountsDiffer ==
    /\ ExternalFunding \in Accounts
    /\ \A c \in Campaigns : CampaignAccount(c) \in Accounts /\ CampaignAccount(c) # ExternalFunding
    /\ \A c, d \in Campaigns : CampaignAccount(c) = CampaignAccount(d) => c = d
BY DEF Accounts, CampaignAccount, ExternalFunding

LEMMA RefsExist ==
    ASSUME now \in Times
    PROVE  /\ \A p \in Payments : PaymentRef(p) \in Refs
           /\ \A c \in Campaigns, key \in Keys \cup {NoKey} :
                FundRef(c, key) \in Refs /\ AdjustRef(c, key) \in Refs
BY DEF Refs, PaymentRef, FundRef, AdjustRef

(* No payment shares its reference with another, nor with a direct credit.  *)
LEMMA RefsDiffer ==
    /\ \A p, other : PaymentRef(p) = PaymentRef(other) => p = other
    /\ \A p, c, key : PaymentRef(p) # FundRef(c, key) /\ PaymentRef(p) # AdjustRef(c, key)
<1>1. \A p, other : PaymentRef(p) = PaymentRef(other) => p = other
  BY DEF PaymentRef
<1>2. \A p, c, k, op : <<"fund", p>> # <<op, c, k>>
  OBVIOUS
<1> QED  BY <1>1, <1>2 DEF PaymentRef, FundRef, AdjustRef

LEMMA MoveMoves ==
    ASSUME balance \in [Accounts -> Int], NEW c \in Campaigns, NEW coins \in Int, NEW ref,
           Move(c, coins, ref)
    PROVE  /\ balance' \in [Accounts -> Int]
           /\ balance'[CampaignAccount(c)] = balance[CampaignAccount(c)] + coins
           /\ balance'[ExternalFunding] = balance[ExternalFunding] - coins
           /\ \A d \in Campaigns : d # c => balance'[CampaignAccount(d)] = balance[CampaignAccount(d)]
           /\ entries' = entries \cup FundingEntries(c, coins, ref)
BY AccountsDiffer DEF Move, AfterFunding, Post

LEMMA MoveKeepsTypes ==
    ASSUME balance \in [Accounts -> Int],
           \A e \in entries : e.account \in Accounts /\ e.amount \in Int /\ e.ref \in Refs,
           NEW c \in Campaigns, NEW coins \in Int, NEW ref \in Refs, Move(c, coins, ref)
    PROVE  /\ balance' \in [Accounts -> Int]
           /\ \A e \in entries' : e.account \in Accounts /\ e.amount \in Int /\ e.ref \in Refs
<1>1. \A e \in FundingEntries(c, coins, ref) : e.account \in Accounts /\ e.amount \in Int /\ e.ref \in Refs
  BY AccountsDiffer DEF FundingEntries, Entry
<1> QED  BY <1>1, MoveMoves

-------------------------------------------------------------------------------
(* Every variable keeps its type. *)

LEMMA FundingInitType == Init => TypeOK
BY FundingAssumption
   DEF Init, TypeOK, RequestOK, Times

LEMMA RequestShapes ==
    ASSUME NEW t, RequestOK(t)
    PROVE  /\ t.op = "checkout" => t.campaign \in Campaigns /\ t.coins \in Coins
           /\ t.op = "webhook" => /\ t.payment \in Payments /\ t.charge \in Charges
                                  /\ payment[t.payment] # NoPayment
           /\ t.op = "audit" => t.ref \in Refs /\ t.answer \in Answers
BY DEF RequestOK, Idle, CheckoutRequest, WebhookRequest, AuditRequest

LEMMA CoinsAreInt ==
    /\ \A coins \in Coins : coins \in Nat /\ coins > 0
    /\ \A coins \in Adjustments : coins \in Int
BY FundingAssumption

(* What is left of a step's type once its own worker's next request is      *)
(* known: payments are never forgotten, so the others' requests stay good.  *)
LEMMA OthersStayOK ==
    ASSUME TypeOK, NEW w \in Workers, NEW t,
           tx' = [tx EXCEPT ![w] = t],
           \A p \in Payments : payment[p] # NoPayment => payment'[p] # NoPayment,
           RequestOK(t)'
    PROVE  DOMAIN tx' = Workers /\ \A v \in Workers : RequestOK(tx[v])'
<1>1. \A v \in Workers : tx'[v] = IF v = w THEN t ELSE tx[v]
  BY DEF TypeOK
<1>2. \A v \in Workers \ {w} : RequestOK(tx[v]) /\ tx'[v] = tx[v]
  BY <1>1 DEF TypeOK
<1>3. ASSUME NEW v \in Workers \ {w}  PROVE RequestOK(tx[v])'
  BY <1>2, <1>3 DEF RequestOK
<1>4. RequestOK(tx[w])'
  BY <1>1 DEF RequestOK
<1> QED  BY <1>3, <1>4 DEF TypeOK

(* The same for a step that touches no request. *)
LEMMA RequestsStayOK ==
    ASSUME TypeOK, UNCHANGED <<payment, tx>>
    PROVE  DOMAIN tx' = Workers /\ \A v \in Workers : RequestOK(tx[v])'
BY DEF TypeOK, RequestOK

LEMMA IdleOK == RequestOK(Idle)'
BY DEF RequestOK

LEMMA AuditOK ==
    ASSUME NEW ref \in Refs, NEW answer \in Answers
    PROVE  RequestOK(AuditRequest(ref, answer))'
BY DEF RequestOK

LEMMA AnswersExist ==
    /\ \A p \in Payments, a \in {"completed", "replay", "failed"} :
            Told("webhook", p, a) \in Answers
    /\ \A c \in Campaigns, key \in Keys \cup {NoKey}, a \in {"ok", "conflict"} :
            Told("fund", <<c, key>>, a) \in Answers
    /\ \A c \in Campaigns, key \in Keys \cup {NoKey}, a \in {"ok", "conflict", "below zero"} :
            Told("adjust", <<c, key>>, a) \in Answers
BY DEF Answers, Subjects, Told

LEMMA BeginCheckoutType ==
    ASSUME TypeOK, NEW w \in Workers, NEW c \in Campaigns, NEW coins \in Coins,
           BeginCheckout(w, c, coins)
    PROVE  TypeOK'
<1>1. RequestOK(CheckoutRequest(c, coins))'
  BY DEF RequestOK
<1>2. tx' = [tx EXCEPT ![w] = CheckoutRequest(c, coins)] /\ UNCHANGED payment
  BY DEF BeginCheckout, Enter
<1>3. DOMAIN tx' = Workers /\ \A v \in Workers : RequestOK(tx[v])'
  BY <1>1, <1>2, OthersStayOK
<1> QED  BY <1>3 DEF BeginCheckout, Enter, Silently, TypeOK, book

LEMMA CreatePaymentType ==
    ASSUME TypeOK, NEW w \in Workers, NEW p \in Payments, CreatePayment(w, p)
    PROVE  TypeOK'
<1> DEFINE row == [status |-> "pending", campaign |-> tx[w].campaign, coins |-> tx[w].coins,
                   charge |-> NoCharge]
<1>1. tx[w].campaign \in Campaigns /\ tx[w].coins \in Coins
  BY RequestShapes DEF TypeOK, CreatePayment
<1>2. row \in PaymentRows /\ row # NoPayment
  BY <1>1 DEF PaymentRows, NoPayment
<1>3. payment' = [payment EXCEPT ![p] = row] /\ tx' = [tx EXCEPT ![w] = Idle]
  BY DEF CreatePayment, Leave
<1> HIDE DEF row
<1>4. /\ payment' \in [Payments -> PaymentRows \cup {NoPayment}]
      /\ \A k \in Payments : payment[k] # NoPayment => payment'[k] # NoPayment
  BY <1>2, <1>3 DEF TypeOK
<1>5. DOMAIN tx' = Workers /\ \A v \in Workers : RequestOK(tx[v])'
  BY <1>3, <1>4, OthersStayOK, IdleOK
<1> QED  BY <1>4, <1>5 DEF CreatePayment, Silently, TypeOK, book

LEMMA DeliverType ==
    ASSUME TypeOK, NEW w \in Workers, NEW p \in Payments, NEW charge \in Charges,
           NEW outcome \in Outcomes, Deliver(w, p, charge, outcome)
    PROVE  TypeOK'
<1>1. tx' = [tx EXCEPT ![w] = WebhookRequest(p, charge, outcome)] /\ UNCHANGED payment
  BY DEF Deliver, Enter
<1>2. RequestOK(WebhookRequest(p, charge, outcome))'
  BY <1>1 DEF RequestOK, Deliver
<1>3. DOMAIN tx' = Workers /\ \A v \in Workers : RequestOK(tx[v])'
  BY <1>1, <1>2, OthersStayOK
<1> QED  BY <1>3 DEF Deliver, Enter, Silently, TypeOK, book

(* What a webhook does to its payment's row. *)
LEMMA RowKept ==
    ASSUME payment \in [Payments -> PaymentRows \cup {NoPayment}], NEW p \in Payments,
           payment[p] # NoPayment, NEW charge \in Charges, NEW status \in {"completed", "failed"},
           payment' = [payment EXCEPT ![p].status = status, ![p].charge = charge]
    PROVE  /\ payment' \in [Payments -> PaymentRows \cup {NoPayment}]
           /\ payment'[p] = [payment[p] EXCEPT !.status = status, !.charge = charge]
           /\ \A k \in Payments : k # p => payment'[k] = payment[k]
           /\ \A k \in Payments : payment[k] # NoPayment => payment'[k] # NoPayment
<1> DEFINE row == [payment[p] EXCEPT !.status = status, !.charge = charge]
<1>1. payment[p] \in PaymentRows
  OBVIOUS
<1>2. row \in PaymentRows /\ row # NoPayment
  BY <1>1 DEF PaymentRows, NoPayment
<1>3. payment' = [payment EXCEPT ![p] = row]
  OBVIOUS
<1> QED  BY <1>2, <1>3

LEMMA MarkFailedType ==
    ASSUME TypeOK, NEW w \in Workers, MarkFailed(w)
    PROVE  TypeOK'
<1>1. /\ tx[w].payment \in Payments /\ tx[w].charge \in Charges
      /\ payment[tx[w].payment] # NoPayment
  BY RequestShapes DEF TypeOK, MarkFailed, Delivering
<1>2. /\ payment' \in [Payments -> PaymentRows \cup {NoPayment}]
      /\ \A k \in Payments : payment[k] # NoPayment => payment'[k] # NoPayment
  <2>1. CASE payment[tx[w].payment].status = "pending"
    BY <1>1, <2>1, RowKept DEF MarkFailed, TypeOK
  <2>2. CASE payment[tx[w].payment].status # "pending"
    BY <2>2 DEF MarkFailed, TypeOK
  <2> QED  BY <2>1, <2>2
<1>3. told' \in Answers /\ tx' = [tx EXCEPT ![w] = Idle]
  BY <1>1, AnswersExist DEF MarkFailed, Answer, Leave
<1>4. DOMAIN tx' = Workers /\ \A v \in Workers : RequestOK(tx[v])'
  BY <1>2, <1>3, OthersStayOK, IdleOK
<1> QED  BY <1>2, <1>3, <1>4 DEF MarkFailed, TypeOK, book

LEMMA CompleteType ==
    ASSUME TypeOK, NEW w \in Workers, Complete(w)
    PROVE  TypeOK'
<1> DEFINE p == tx[w].payment
<1>1. p \in Payments /\ tx[w].charge \in Charges /\ payment[p] # NoPayment
  BY RequestShapes DEF TypeOK, Complete, Delivering
<1>2. /\ payment' \in [Payments -> PaymentRows \cup {NoPayment}]
      /\ \A k \in Payments : payment[k] # NoPayment => payment'[k] # NoPayment
  BY <1>1, RowKept DEF Complete, TypeOK
<1>3. PaymentRef(p) \in Refs /\ Told("webhook", p, "completed") \in Answers
  BY <1>1, RefsExist, AnswersExist DEF TypeOK
<1>4. payment[p].campaign \in Campaigns /\ payment[p].coins \in Int
  BY <1>1, CoinsAreInt DEF TypeOK, PaymentRows
<1>5. /\ balance' \in [Accounts -> Int]
      /\ \A e \in entries' : e.account \in Accounts /\ e.amount \in Int /\ e.ref \in Refs
  BY <1>3, <1>4, MoveKeepsTypes DEF Complete, TypeOK
<1>6. tx' = [tx EXCEPT ![w] = AuditRequest(PaymentRef(p), Told("webhook", p, "completed"))]
  BY DEF Complete, Enter
<1>7. DOMAIN tx' = Workers /\ \A v \in Workers : RequestOK(tx[v])'
  BY <1>2, <1>3, <1>6, OthersStayOK, AuditOK
<1> QED  BY <1>2, <1>5, <1>7 DEF Complete, Enter, Silently, TypeOK

LEMMA RedeliveredType ==
    ASSUME TypeOK, NEW w \in Workers, Redelivered(w)
    PROVE  TypeOK'
<1>1. tx[w].payment \in Payments
  BY RequestShapes DEF TypeOK, Redelivered, Delivering
<1>2. /\ told' \in Answers /\ tx' = [tx EXCEPT ![w] = Idle]
      /\ UNCHANGED <<campaign, payment, balance, entries, audits, now>>
  BY <1>1, AnswersExist DEF Redelivered, Answer, Leave, book
<1>3. DOMAIN tx' = Workers /\ \A v \in Workers : RequestOK(tx[v])'
  BY <1>2, OthersStayOK, IdleOK
<1> QED  BY <1>2, <1>3 DEF TypeOK

LEMMA MoveOnceType ==
    ASSUME TypeOK, NEW w \in Workers, NEW c \in Campaigns, NEW coins \in Int, NEW key,
           NEW ref \in Refs, NEW answer \in Answers, MoveOnce(w, c, coins, key, ref, answer)
    PROVE  TypeOK'
<1>1. /\ balance' \in [Accounts -> Int]
      /\ \A e \in entries' : e.account \in Accounts /\ e.amount \in Int /\ e.ref \in Refs
  <2>1. CASE Move(c, coins, ref)
    BY <2>1, MoveKeepsTypes DEF TypeOK
  <2>2. CASE UNCHANGED book
    BY <2>2 DEF TypeOK, book
  <2> QED  BY <2>1, <2>2 DEF MoveOnce
<1>2. /\ tx' = [tx EXCEPT ![w] = AuditRequest(ref, answer)] /\ told' = Nothing
      /\ UNCHANGED <<campaign, payment, audits, now>>
  BY DEF MoveOnce, Enter, Silently
<1>3. DOMAIN tx' = Workers /\ \A v \in Workers : RequestOK(tx[v])'
  BY <1>2, OthersStayOK, AuditOK
<1> QED  BY <1>1, <1>2, <1>3 DEF TypeOK

(* A refusal changes what is answered and nothing else. *)
LEMMA RefusalType ==
    ASSUME TypeOK, told' \in Answers, UNCHANGED <<campaign, payment, book, audits, now, tx>>
    PROVE  TypeOK'
<1>1. DOMAIN tx' = Workers /\ \A v \in Workers : RequestOK(tx[v])'
  BY RequestsStayOK
<1> QED  BY <1>1 DEF TypeOK, book

LEMMA CreditDirectlyType ==
    ASSUME TypeOK, NEW w \in Workers, CreditDirectly(w)
    PROVE  TypeOK'
<1>1. ASSUME NEW c \in Campaigns, NEW coins \in Coins, NEW key \in Keys \cup {NoKey},
             Fund(w, c, coins, key)
      PROVE  TypeOK'
  <2> DEFINE ok == Told("fund", <<c, key>>, "ok")
             conflict == Told("fund", <<c, key>>, "conflict")
  <2>1. /\ coins \in Int /\ FundRef(c, key) \in Refs
        /\ ok \in Answers /\ conflict \in Answers
    <3>1. coins \in Int
      BY CoinsAreInt
    <3>2. FundRef(c, key) \in Refs
      BY RefsExist DEF TypeOK
    <3> QED  BY <3>1, <3>2, AnswersExist
  <2>2. MoveOnce(w, c, coins, key, FundRef(c, key), ok) \/ Collide(key, FundRef(c, key), conflict)
    BY <1>1 DEF Fund
  <2> HIDE DEF ok, conflict
  <2>3. CASE MoveOnce(w, c, coins, key, FundRef(c, key), ok)
    BY <2>1, <2>3, MoveOnceType
  <2>4. CASE Collide(key, FundRef(c, key), conflict)
    BY <2>1, <2>4, RefusalType DEF Collide, Answer
  <2> QED  BY <2>2, <2>3, <2>4
<1>2. ASSUME NEW c \in Campaigns, NEW coins \in Adjustments, NEW key \in Keys \cup {NoKey},
             Adjust(w, c, coins, key) \/ RefuseAdjust(w, c, coins, key)
      PROVE  TypeOK'
  <2> DEFINE ok == Told("adjust", <<c, key>>, "ok")
             conflict == Told("adjust", <<c, key>>, "conflict")
             below == Told("adjust", <<c, key>>, "below zero")
  <2>1. /\ coins \in Int /\ AdjustRef(c, key) \in Refs
        /\ ok \in Answers /\ conflict \in Answers /\ below \in Answers
    BY CoinsAreInt, RefsExist, AnswersExist DEF TypeOK
  <2>2. \/ MoveOnce(w, c, coins, key, AdjustRef(c, key), ok)
        \/ Collide(key, AdjustRef(c, key), conflict)
        \/ Answer(below) /\ UNCHANGED <<campaign, payment, book, audits, now, tx>>
    BY <1>2 DEF Adjust, RefuseAdjust
  <2> HIDE DEF ok, conflict, below
  <2>3. CASE MoveOnce(w, c, coins, key, AdjustRef(c, key), ok)
    BY <2>1, <2>3, MoveOnceType
  <2>4. CASE Collide(key, AdjustRef(c, key), conflict)
    BY <2>1, <2>4, RefusalType DEF Collide, Answer
  <2>5. CASE Answer(below) /\ UNCHANGED <<campaign, payment, book, audits, now, tx>>
    BY <2>1, <2>5, RefusalType DEF Answer
  <2> QED  BY <2>2, <2>3, <2>4, <2>5
<1> QED  BY <1>1, <1>2 DEF CreditDirectly

LEMMA WriteAuditType ==
    ASSUME TypeOK, NEW w \in Workers, WriteAudit(w)
    PROVE  TypeOK'
<1>1. tx[w].ref \in Refs /\ tx[w].answer \in Answers
  BY RequestShapes DEF TypeOK, WriteAudit
<1>2. audits' \in [Refs -> 0 .. MaxAudits]
  BY <1>1, FundingAssumption DEF TypeOK, WriteAudit
<1>3. /\ told' \in Answers /\ tx' = [tx EXCEPT ![w] = Idle]
      /\ UNCHANGED <<campaign, payment, balance, entries, now>>
  BY <1>1 DEF WriteAudit, Answer, Leave, book
<1>4. DOMAIN tx' = Workers /\ \A v \in Workers : RequestOK(tx[v])'
  BY <1>3, OthersStayOK, IdleOK
<1> QED  BY <1>2, <1>3, <1>4 DEF TypeOK

LEMMA FailType ==
    ASSUME TypeOK, NEW w \in Workers, Fail(w)
    PROVE  TypeOK'
<1>1. /\ told' = Nothing /\ tx' = [tx EXCEPT ![w] = Idle]
      /\ UNCHANGED <<campaign, payment, balance, entries, audits, now>>
  BY DEF Fail, Leave, Silently, book
<1>2. DOMAIN tx' = Workers /\ \A v \in Workers : RequestOK(tx[v])'
  BY <1>1, OthersStayOK, IdleOK
<1> QED  BY <1>1, <1>2 DEF TypeOK

LEMMA TypeStep == TypeOK /\ [Next]_vars => TypeOK'
<1> SUFFICES ASSUME TypeOK, [Next]_vars  PROVE TypeOK'
  OBVIOUS
<1>1. ASSUME NEW w \in Workers, Pay(w)  PROVE TypeOK'
  BY <1>1, BeginCheckoutType, CreatePaymentType, DeliverType, MarkFailedType, CompleteType,
     RedeliveredType DEF Pay
<1>2. ASSUME NEW w \in Workers, CreditDirectly(w) \/ WriteAudit(w) \/ Fail(w)  PROVE TypeOK'
  BY <1>2, CreditDirectlyType, WriteAuditType, FailType
<1>3. ASSUME NEW c \in Campaigns, NEW status \in {"active", "paused", "ended"},
             SetCampaignStatus(c, status)
      PROVE  TypeOK'
  <2>1. DOMAIN tx' = Workers /\ \A v \in Workers : RequestOK(tx[v])'
    BY <1>3, RequestsStayOK DEF SetCampaignStatus
  <2> QED  BY <1>3, <2>1 DEF SetCampaignStatus, Silently, TypeOK, book
<1>4. CASE Tick
  <2>1. DOMAIN tx' = Workers /\ \A v \in Workers : RequestOK(tx[v])'
    BY <1>4, RequestsStayOK DEF Tick
  <2>2. now' \in Times
    BY <1>4, FundingAssumption DEF Tick, TypeOK, Times
  <2> QED  BY <1>4, <2>1, <2>2 DEF Tick, Silently, TypeOK, book
<1>5. CASE UNCHANGED vars
  <2>1. DOMAIN tx' = Workers /\ \A v \in Workers : RequestOK(tx[v])'
    BY <1>5, RequestsStayOK DEF vars
  <2> QED  BY <1>5, <2>1 DEF vars, TypeOK
<1> QED  BY <1>1, <1>2, <1>3, <1>4, <1>5 DEF Next

(* Every reachable state of the funding is well typed; a webhook in flight  *)
(* is about a payment that a checkout minted.                               *)
THEOREM FundingTypeCorrect == Spec => []TypeOK
BY FundingInitType, TypeStep, PTL DEF Spec

-------------------------------------------------------------------------------
(* A payment is completed exactly when it was credited. *)

(* A movement is what is posted under its reference, and only there.        *)
LEMMA OtherRefs ==
    ASSUME NEW old, NEW c, NEW coins, NEW ref
    PROVE  \A other : other # ref =>
                UnderRef(old \cup FundingEntries(c, coins, ref), other) = UnderRef(old, other)
BY DEF UnderRef, FundingEntries, Entry

LEMMA OwnRef ==
    ASSUME NEW old, NEW c, NEW coins, NEW ref, UnderRef(old, ref) = {}
    PROVE  UnderRef(old \cup FundingEntries(c, coins, ref), ref) = FundingEntries(c, coins, ref)
BY DEF UnderRef, FundingEntries, Entry

LEMMA OneRef ==
    ASSUME NEW c, NEW coins, NEW ref
    PROVE  /\ \A e \in FundingEntries(c, coins, ref) : e.ref = ref
           /\ \E e \in FundingEntries(c, coins, ref) : TRUE
BY DEF FundingEntries, Entry

(* Nothing is posted under the reference of a payment that is pending.      *)
LEMMA PendingIsFresh ==
    ASSUME CreditedIffCompleted, NEW p \in Payments, payment[p].status # "completed"
    PROVE  ~PostedUnder(PaymentRef(p))
BY DEF CreditedIffCompleted, PostedUnder, UnderRef

LEMMA CreditedInit == Init => CreditedIffCompleted
BY DEF Init, CreditedIffCompleted, UnderRef, NoPayment

(* Steps that post nothing and complete nothing.                            *)
LEMMA CreditedStutters ==
    ASSUME CreditedIffCompleted, UNCHANGED entries,
           \A p \in Payments :
                \/ payment'[p] = payment[p]
                \/ payment[p].status # "completed" /\ payment'[p].status # "completed"
    PROVE  CreditedIffCompleted'
BY DEF CreditedIffCompleted, UnderRef

(* A direct credit has a reference no payment has.                          *)
LEMMA DirectCredit ==
    ASSUME CreditedIffCompleted, NEW c, NEW coins, NEW ref, UNCHANGED payment,
           \A p \in Payments : PaymentRef(p) # ref,
           Move(c, coins, ref) \/ UNCHANGED book
    PROVE  CreditedIffCompleted'
<1>1. CASE Move(c, coins, ref)
  <2>1. \A p \in Payments : UnderRef(entries', PaymentRef(p)) = UnderRef(entries, PaymentRef(p))
    BY <1>1, OtherRefs DEF Move
  <2> QED  BY <2>1 DEF CreditedIffCompleted, PaymentRef, UnderRef
<1>2. CASE UNCHANGED book
  BY <1>2, CreditedStutters DEF book
<1> QED  BY <1>1, <1>2

LEMMA MarkFailedCredited ==
    ASSUME TypeOK, CreditedIffCompleted, NEW w \in Workers, MarkFailed(w)
    PROVE  CreditedIffCompleted'
<1> DEFINE p == tx[w].payment
<1>1. p \in Payments /\ tx[w].charge \in Charges /\ payment[p] # NoPayment
  BY RequestShapes DEF TypeOK, MarkFailed, Delivering
<1>2. UNCHANGED entries
  BY DEF MarkFailed, book
<1>3. CASE payment[p].status = "pending"
  <2>1. payment' = [payment EXCEPT ![p].status = "failed", ![p].charge = tx[w].charge]
    BY <1>3 DEF MarkFailed
  <2>2. /\ payment'[p] = [payment[p] EXCEPT !.status = "failed", !.charge = tx[w].charge]
        /\ \A k \in Payments : k # p => payment'[k] = payment[k]
    BY <1>1, <2>1, RowKept DEF TypeOK
  <2>3. payment[p] \in PaymentRows
    BY <1>1 DEF TypeOK
  <2>4. payment'[p].status = "failed"
    BY <2>2, <2>3 DEF PaymentRows
  <2> QED  BY <1>2, <1>3, <2>2, <2>4, CreditedStutters
<1>4. CASE payment[p].status # "pending"
  BY <1>2, <1>4, CreditedStutters DEF MarkFailed
<1> QED  BY <1>3, <1>4

LEMMA CompleteCredited ==
    ASSUME TypeOK, CreditedIffCompleted, NEW w \in Workers, Complete(w)
    PROVE  CreditedIffCompleted'
<1>1. /\ tx[w].payment \in Payments /\ tx[w].charge \in Charges
      /\ payment[tx[w].payment] # NoPayment
  BY RequestShapes DEF TypeOK, Complete, Delivering
<1>2. PICK p \in Payments, charge \in Charges : p = tx[w].payment /\ charge = tx[w].charge
  BY <1>1
<1>3. payment[p] # NoPayment /\ payment[p] \in PaymentRows
  BY <1>1, <1>2 DEF TypeOK
<1>4. PICK c \in Campaigns, coins \in Coins : c = payment[p].campaign /\ coins = payment[p].coins
  BY <1>3 DEF PaymentRows
<1>5. /\ payment[p].status = "pending"
      /\ payment' = [payment EXCEPT ![p].status = "completed", ![p].charge = charge]
      /\ entries' = entries \cup FundingEntries(c, coins, PaymentRef(p))
  BY <1>2, <1>4 DEF Complete, Move
<1>6. /\ payment'[p] = [payment[p] EXCEPT !.status = "completed", !.charge = charge]
      /\ \A k \in Payments : k # p => payment'[k] = payment[k]
  BY <1>3, <1>5, RowKept DEF TypeOK
<1>7. payment'[p].status = "completed" /\ payment'[p].campaign = c /\ payment'[p].coins = coins
  BY <1>3, <1>4, <1>6 DEF PaymentRows
<1>8. UnderRef(entries', PaymentRef(p)) = FundingEntries(c, coins, PaymentRef(p))
  <2>1. UnderRef(entries, PaymentRef(p)) = {}
    BY <1>5 DEF CreditedIffCompleted
  <2> QED  BY <1>5, <2>1, OwnRef
<1>9. \A k \in Payments : k # p => UnderRef(entries', PaymentRef(k)) = UnderRef(entries, PaymentRef(k))
  BY <1>5, OtherRefs, RefsDiffer
<1>10. ASSUME NEW k \in Payments
       PROVE  UnderRef(entries', PaymentRef(k)) =
                IF payment'[k].status = "completed"
                THEN FundingEntries(payment'[k].campaign, payment'[k].coins, PaymentRef(k))
                ELSE {}
  <2>1. CASE k = p
    BY <1>7, <1>8, <2>1
  <2>2. CASE k # p
    BY <1>6, <1>9, <2>2 DEF CreditedIffCompleted
  <2> QED  BY <2>1, <2>2
<1> QED  BY <1>10 DEF CreditedIffCompleted, UnderRef, FundingEntries, PaymentRef, CampaignAccount,
         ExternalFunding, Entry

(* Every step but the two that decide a payment.                            *)
LEMMA DirectlyCredited ==
    ASSUME CreditedIffCompleted, NEW w \in Workers, CreditDirectly(w)
    PROVE  CreditedIffCompleted'
<1>1. ASSUME NEW c, NEW coins, NEW key, NEW ref, NEW answer,
             ref = FundRef(c, key) \/ ref = AdjustRef(c, key),
             MoveOnce(w, c, coins, key, ref, answer) \/ Collide(key, ref, answer)
      PROVE  CreditedIffCompleted'
  <2>1. \A p \in Payments : PaymentRef(p) # ref
    BY <1>1, RefsDiffer
  <2>2. UNCHANGED payment /\ (Move(c, coins, ref) \/ UNCHANGED book)
    BY <1>1 DEF MoveOnce, Collide
  <2> QED  BY <2>1, <2>2, DirectCredit
<1>2. ASSUME NEW c \in Campaigns, NEW coins \in Coins, NEW key \in Keys \cup {NoKey},
             Fund(w, c, coins, key)
      PROVE  CreditedIffCompleted'
  <2>1. PICK ref : ref = FundRef(c, key)
    OBVIOUS
  <2> QED  BY <1>1, <1>2, <2>1 DEF Fund
<1>3. ASSUME NEW c \in Campaigns, NEW coins \in Adjustments, NEW key \in Keys \cup {NoKey},
             Adjust(w, c, coins, key)
      PROVE  CreditedIffCompleted'
  <2>1. PICK ref : ref = AdjustRef(c, key)
    OBVIOUS
  <2> QED  BY <1>1, <1>3, <2>1 DEF Adjust
<1>4. ASSUME NEW c \in Campaigns, NEW coins \in Adjustments, NEW key \in Keys \cup {NoKey},
             RefuseAdjust(w, c, coins, key)
      PROVE  CreditedIffCompleted'
  BY <1>4, CreditedStutters DEF RefuseAdjust, book
<1> QED  BY <1>2, <1>3, <1>4 DEF CreditDirectly

LEMMA CreatePaymentCredited ==
    ASSUME TypeOK, CreditedIffCompleted, NEW w \in Workers, NEW p \in Payments, CreatePayment(w, p)
    PROVE  CreditedIffCompleted'
<1>1. payment[p].status # "completed"
  BY DEF CreatePayment, NoPayment
<1>2. payment'[p].status = "pending" /\ \A k \in Payments : k # p => payment'[k] = payment[k]
  BY DEF CreatePayment, TypeOK
<1>3. UNCHANGED entries
  BY DEF CreatePayment, book
<1> QED  BY <1>1, <1>2, <1>3, CreditedStutters

LEMMA CreditedStep == TypeOK /\ CreditedIffCompleted /\ [Next]_vars => CreditedIffCompleted'
<1> SUFFICES ASSUME TypeOK, CreditedIffCompleted, [Next]_vars  PROVE CreditedIffCompleted'
  OBVIOUS
<1>1. CASE UNCHANGED <<payment, entries>>
  BY <1>1, CreditedStutters
<1>2. ASSUME NEW w \in Workers, Pay(w)  PROVE CreditedIffCompleted'
  <2>1. ASSUME NEW c \in Campaigns, NEW coins \in Coins, BeginCheckout(w, c, coins)
        PROVE  CreditedIffCompleted'
    BY <1>1, <2>1 DEF BeginCheckout, book
  <2>2. ASSUME NEW p \in Payments, NEW charge \in Charges, NEW outcome \in Outcomes,
               Deliver(w, p, charge, outcome)
        PROVE  CreditedIffCompleted'
    BY <1>1, <2>2 DEF Deliver, book
  <2>3. CASE Redelivered(w)
    BY <1>1, <2>3 DEF Redelivered, book
  <2> QED  BY <1>2, <2>1, <2>2, <2>3, CreatePaymentCredited, MarkFailedCredited, CompleteCredited DEF Pay
<1>3. ASSUME NEW w \in Workers, WriteAudit(w) \/ Fail(w)  PROVE CreditedIffCompleted'
  BY <1>1, <1>3 DEF WriteAudit, Fail, book
<1>4. ASSUME NEW c, NEW status, SetCampaignStatus(c, status)  PROVE CreditedIffCompleted'
  BY <1>1, <1>4 DEF SetCampaignStatus, book
<1>5. CASE Tick \/ UNCHANGED vars
  BY <1>1, <1>5 DEF Tick, vars, book
<1> QED  BY <1>2, <1>3, <1>4, <1>5, DirectlyCredited DEF Next

(* A payment is completed exactly when its coins are in the budget it was   *)
(* bought for, whatever the provider reports, how often and in which order. *)
THEOREM PaidIffCredited == Spec => []CreditedIffCompleted
BY FundingInitType, TypeStep, CreditedInit, CreditedStep, PTL DEF Spec

-------------------------------------------------------------------------------
(* Funding implements Deposits. *)

(* No budget is below zero: without it a credit might not lift it there.    *)
BudgetsCovered == \A c \in Campaigns : balance[CampaignAccount(c)] >= 0

(* A movement is a deposit when its reference is fresh and the budget       *)
(* stands it.                                                               *)
LEMMA MoveDeposits ==
    ASSUME TypeOK, NEW c \in Campaigns, NEW coins \in Int, NEW ref \in Refs,
           ~PostedUnder(ref), balance[CampaignAccount(c)] + coins >= 0, Move(c, coins, ref)
    PROVE  Promise!Deposit(ref, c)
<1> DEFINE budget == [k \in Campaigns |-> balance[CampaignAccount(k)]]
<1>1. balance \in [Accounts -> Int]
  BY DEF TypeOK
<1>2. /\ balance'[CampaignAccount(c)] = balance[CampaignAccount(c)] + coins
      /\ balance'[ExternalFunding] = balance[ExternalFunding] - coins
      /\ \A d \in Campaigns : d # c => balance'[CampaignAccount(d)] = balance[CampaignAccount(d)]
      /\ entries' = entries \cup FundingEntries(c, coins, ref)
  BY <1>1, MoveMoves
<1>3. budget[c] \in Int
  BY <1>1, AccountsDiffer
<1>4. budget' = [budget EXCEPT ![c] = @ + coins]
  BY <1>2
<1>5. budget'[c] - budget[c] = coins
  BY <1>2, <1>3
<1>6. ref \notin {e.ref : e \in entries}
  BY DEF PostedUnder
<1>7. {e.ref : e \in entries'} = {e.ref : e \in entries} \cup {ref}
  BY <1>2, OneRef
<1> QED  BY <1>2, <1>3, <1>4, <1>5, <1>6, <1>7 DEF Promise!Deposit

LEMMA DepositsStutter ==
    ASSUME UNCHANGED <<balance, entries>>
    PROVE  UNCHANGED Promise!vars
BY DEF Promise!vars

LEMMA DepositsInit == Init => Promise!Init
BY AccountsDiffer DEF Init, Promise!Init

(* What a step does to the promise. *)
Deposited == \E ref \in Refs, c \in Campaigns : Promise!Deposit(ref, c)
Unmoved == UNCHANGED <<balance, entries>>

LEMMA CompleteDeposits ==
    ASSUME TypeOK, CreditedIffCompleted, BudgetsCovered, NEW w \in Workers, Complete(w)
    PROVE  Deposited
<1>1. tx[w].payment \in Payments /\ payment[tx[w].payment] # NoPayment
  BY RequestShapes DEF TypeOK, Complete, Delivering
<1>2. PICK p \in Payments : p = tx[w].payment
  BY <1>1
<1>3. payment[p] \in PaymentRows
  BY <1>1, <1>2 DEF TypeOK
<1>4. PICK c \in Campaigns, coins \in Coins : c = payment[p].campaign /\ coins = payment[p].coins
  BY <1>3 DEF PaymentRows
<1>5. payment[p].status = "pending" /\ Move(c, coins, PaymentRef(p))
  BY <1>2, <1>4 DEF Complete
<1>6. ~PostedUnder(PaymentRef(p))
  BY <1>5, PendingIsFresh
<1>7. PaymentRef(p) \in Refs
  BY RefsExist DEF TypeOK
<1>8. coins \in Nat /\ coins \in Int
  BY CoinsAreInt
<1>9. balance[CampaignAccount(c)] \in Int /\ balance[CampaignAccount(c)] >= 0
  BY AccountsDiffer DEF TypeOK, BudgetsCovered
<1>10. balance[CampaignAccount(c)] + coins >= 0
  BY <1>8, <1>9
<1>11. PICK ref \in Refs : ref = PaymentRef(p)
  BY <1>7
<1> QED  BY <1>5, <1>6, <1>8, <1>10, <1>11, MoveDeposits DEF Deposited

LEMMA MoveOnceDeposits ==
    ASSUME TypeOK, NEW w, NEW c \in Campaigns, NEW coins \in Int, NEW key, NEW ref \in Refs,
           NEW answer, balance[CampaignAccount(c)] + coins >= 0,
           MoveOnce(w, c, coins, key, ref, answer) \/ Collide(key, ref, answer)
    PROVE  Deposited \/ Unmoved
<1>1. \/ ~PostedUnder(ref) /\ Move(c, coins, ref)
      \/ UNCHANGED book
  BY DEF MoveOnce, Collide
<1> QED  BY <1>1, MoveDeposits DEF Deposited, Unmoved, book

LEMMA DirectlyDeposits ==
    ASSUME TypeOK, BudgetsCovered, NEW w \in Workers, CreditDirectly(w)
    PROVE  Deposited \/ Unmoved
<1>1. \A c \in Campaigns : balance[CampaignAccount(c)] \in Int /\ balance[CampaignAccount(c)] >= 0
  BY AccountsDiffer DEF TypeOK, BudgetsCovered
<1>2. ASSUME NEW c \in Campaigns, NEW coins \in Coins, NEW key \in Keys \cup {NoKey},
             Fund(w, c, coins, key)
      PROVE  Deposited \/ Unmoved
  <2>1. coins \in Nat /\ coins \in Int
    BY CoinsAreInt
  <2>2. balance[CampaignAccount(c)] + coins >= 0
    BY <1>1, <2>1
  <2>3. PICK ref \in Refs : ref = FundRef(c, key)
    BY RefsExist DEF TypeOK
  <2> QED  BY <1>2, <2>1, <2>2, <2>3, MoveOnceDeposits DEF Fund
<1>3. ASSUME NEW c \in Campaigns, NEW coins \in Adjustments, NEW key \in Keys \cup {NoKey},
             Adjust(w, c, coins, key)
      PROVE  Deposited \/ Unmoved
  <2>1. coins \in Int
    BY CoinsAreInt
  <2>2. balance[CampaignAccount(c)] + coins >= 0
    BY <1>1, <1>3, <2>1 DEF Adjust, BelowZero
  <2>3. PICK ref \in Refs : ref = AdjustRef(c, key)
    BY RefsExist DEF TypeOK
  <2> QED  BY <1>3, <2>1, <2>2, <2>3, MoveOnceDeposits DEF Adjust
<1>4. ASSUME NEW c \in Campaigns, NEW coins \in Adjustments, NEW key \in Keys \cup {NoKey},
             RefuseAdjust(w, c, coins, key)
      PROVE  Deposited \/ Unmoved
  BY <1>4 DEF RefuseAdjust, Unmoved, book
<1> QED  BY <1>2, <1>3, <1>4 DEF CreditDirectly

LEMMA DepositsOrStays ==
    ASSUME TypeOK, CreditedIffCompleted, BudgetsCovered, [Next]_vars
    PROVE  Deposited \/ Unmoved
<1>1. ASSUME NEW w \in Workers, Pay(w)  PROVE Deposited \/ Unmoved
  <2>1. CASE Complete(w)
    BY <2>1, CompleteDeposits
  <2>2. CASE ~Complete(w)
    BY <1>1, <2>2
       DEF Pay, BeginCheckout, CreatePayment, Deliver, MarkFailed, Redelivered, Unmoved, book
  <2> QED  BY <2>1, <2>2
<1>2. ASSUME NEW w \in Workers, WriteAudit(w) \/ Fail(w)  PROVE Unmoved
  BY <1>2 DEF WriteAudit, Fail, Unmoved, book
<1>3. ASSUME NEW c, NEW status, SetCampaignStatus(c, status)  PROVE Unmoved
  BY <1>3 DEF SetCampaignStatus, Unmoved, book
<1>4. CASE Tick \/ UNCHANGED vars
  BY <1>4 DEF Tick, vars, Unmoved, book
<1> QED  BY <1>1, <1>2, <1>3, <1>4, DirectlyDeposits DEF Next

(* The guard of a deposit keeps every budget covered. *)
LEMMA CoveredStep ==
    ASSUME TypeOK, BudgetsCovered, Deposited \/ Unmoved
    PROVE  BudgetsCovered'
<1>1. CASE Unmoved
  BY <1>1 DEF Unmoved, BudgetsCovered
<1>2. CASE Deposited
  <2>1. PICK ref \in Refs, c \in Campaigns : Promise!Deposit(ref, c)
    BY <1>2 DEF Deposited
  <2> DEFINE budget == [k \in Campaigns |-> balance[CampaignAccount(k)]]
             coins == budget'[c] - budget[c]
  <2>2. budget[c] + coins >= 0 /\ budget' = [budget EXCEPT ![c] = @ + coins]
    BY <2>1 DEF Promise!Deposit
  <2>3. \A k \in Campaigns : budget[k] >= 0
    BY DEF BudgetsCovered
  <2>4. \A k \in Campaigns : budget'[k] = IF k = c THEN budget[c] + coins ELSE budget[k]
    BY <2>2
  <2>5. \A k \in Campaigns : budget'[k] >= 0
    <3> HIDE DEF coins, budget
    <3> QED  BY <2>2, <2>3, <2>4
  <2> QED  BY <2>5 DEF BudgetsCovered
<1> QED  BY <1>1, <1>2

LEMMA CoveredInit == Init => BudgetsCovered
BY AccountsDiffer DEF Init, BudgetsCovered

(* Funding implements Deposits: by whichever of the three ways coins come   *)
(* in, a movement lands whole, under a reference used once, and no budget   *)
(* is taken below zero.                                                     *)
THEOREM FundingKeepsDeposits == Spec => KeepsDeposits
<1>1. TypeOK /\ CreditedIffCompleted /\ BudgetsCovered /\ [Next]_vars => BudgetsCovered'
  BY DepositsOrStays, CoveredStep
<1>2. Spec => []BudgetsCovered
  BY <1>1, CoveredInit, FundingTypeCorrect, PaidIffCredited, PTL DEF Spec
<1>3. TypeOK /\ CreditedIffCompleted /\ BudgetsCovered /\ [Next]_vars
        => [Promise!Next]_(Promise!vars)
  BY DepositsOrStays, DepositsStutter DEF Deposited, Unmoved, Promise!Next
<1> QED  BY <1>2, <1>3, DepositsInit, FundingTypeCorrect, PaidIffCredited, PTL
         DEF Spec, KeepsDeposits, Promise!Spec
-------------------------------------------------------------------------------
(* What the inbox hears of a payment. *)

Writers(p) == {w \in Workers : tx[w].op = "audit" /\ tx[w].ref = PaymentRef(p)}

(* AuditedOnce, with what counting the writers needs. *)
HeardOnce ==
    \A p \in Payments :
        /\ IsFiniteSet(Writers(p))
        /\ audits[PaymentRef(p)] + Cardinality(Writers(p))
                <= IF payment[p].status = "completed" THEN 1 ELSE 0

LEMMA AuditIsNat ==
    ASSUME TypeOK, NEW p \in Payments
    PROVE  audits[PaymentRef(p)] \in Nat
BY RefsExist, FundingAssumption DEF TypeOK

(* A step that writes no entry, sends no one to write of a payment and      *)
(* leaves the completed ones completed.                                     *)
LEMMA FewerWrite ==
    ASSUME TypeOK, HeardOnce, UNCHANGED audits,
           \A p \in Payments : Writers(p)' \subseteq Writers(p),
           \A p \in Payments : payment[p].status = "completed" => payment'[p].status = "completed"
    PROVE  HeardOnce'
<1> SUFFICES ASSUME NEW p \in Payments
             PROVE  /\ IsFiniteSet(Writers(p))'
                    /\ audits'[PaymentRef(p)] + Cardinality(Writers(p)')
                            <= IF payment'[p].status = "completed" THEN 1 ELSE 0
  BY DEF HeardOnce, PaymentRef
<1> DEFINE before == Writers(p)
           after == Writers(p)'
<1>1. IsFiniteSet(before) /\ after \subseteq before
  BY DEF HeardOnce
<1>2. audits[PaymentRef(p)] + Cardinality(before) <= IF payment[p].status = "completed" THEN 1 ELSE 0
  BY DEF HeardOnce
<1> HIDE DEF before, after
<1>3. /\ IsFiniteSet(after) /\ Cardinality(after) <= Cardinality(before)
      /\ Cardinality(before) \in Nat /\ Cardinality(after) \in Nat
  BY <1>1, FS_Subset, FS_CardinalityType
<1>4. audits[PaymentRef(p)] + Cardinality(after) <= IF payment'[p].status = "completed" THEN 1 ELSE 0
  BY <1>2, <1>3, AuditIsNat
<1> QED  BY <1>3, <1>4 DEF after

(* A step of one worker, who does not come to write of the payment. *)
LEMMA WritersLeave ==
    ASSUME TypeOK, NEW w \in Workers, NEW t, tx' = [tx EXCEPT ![w] = t], NEW p,
           ~(t.op = "audit" /\ t.ref = PaymentRef(p))
    PROVE  Writers(p)' = Writers(p) \ {w}
<1>1. \A v \in Workers : tx'[v] = IF v = w THEN t ELSE tx[v]
  BY DEF TypeOK
<1> QED  BY <1>1 DEF Writers, PaymentRef

(* The entry is written by the one that was there to write it. *)
LEMMA WriteAuditHeard ==
    ASSUME TypeOK, HeardOnce, NEW w \in Workers, WriteAudit(w)
    PROVE  HeardOnce'
<1> SUFFICES ASSUME NEW p \in Payments
             PROVE  /\ IsFiniteSet(Writers(p))'
                    /\ audits'[PaymentRef(p)] + Cardinality(Writers(p)')
                            <= IF payment'[p].status = "completed" THEN 1 ELSE 0
  BY DEF HeardOnce, PaymentRef
<1> DEFINE before == Writers(p)
           once == IF payment[p].status = "completed" THEN 1 ELSE 0
<1>1. IsFiniteSet(before) /\ audits[PaymentRef(p)] + Cardinality(before) <= once
  BY DEF HeardOnce
<1>2. Writers(p)' = before \ {w} /\ payment' = payment
  <2>1. PICK t : t = Idle
    OBVIOUS
  <2>2. tx' = [tx EXCEPT ![w] = t] /\ ~(t.op = "audit" /\ t.ref = PaymentRef(p))
    BY <2>1 DEF WriteAudit, Leave, Idle
  <2>3. Writers(p)' = Writers(p) \ {w}
    BY <2>2, WritersLeave
  <2> QED  BY <2>3 DEF WriteAudit
<1>3. w \in before <=> tx[w].ref = PaymentRef(p)
  BY DEF Writers, WriteAudit
<1> HIDE DEF before
<1>4. /\ IsFiniteSet(before \ {w}) /\ Cardinality(before) \in Nat
      /\ Cardinality(before \ {w})
            = IF w \in before THEN Cardinality(before) - 1 ELSE Cardinality(before)
  BY <1>1, FS_RemoveElement, FS_CardinalityType
<1>5. audits'[PaymentRef(p)]
        = IF w \in before THEN audits[PaymentRef(p)] + 1 ELSE audits[PaymentRef(p)]
  BY <1>3, RefsExist DEF WriteAudit, TypeOK
<1>6. audits'[PaymentRef(p)] + Cardinality(before \ {w}) <= once
  BY <1>1, <1>4, <1>5, AuditIsNat
<1> QED  BY <1>2, <1>4, <1>6

(* A payment is completed while nobody has written of it. *)
LEMMA CompleteHeard ==
    ASSUME TypeOK, HeardOnce, NEW w \in Workers, Complete(w)
    PROVE  HeardOnce'
<1>1. /\ tx[w].payment \in Payments /\ tx[w].charge \in Charges
      /\ payment[tx[w].payment] # NoPayment
  BY RequestShapes DEF TypeOK, Complete, Delivering
<1>2. PICK p \in Payments, charge \in Charges : p = tx[w].payment /\ charge = tx[w].charge
  BY <1>1
<1>3. PICK t : t = AuditRequest(PaymentRef(p), Told("webhook", p, "completed"))
  OBVIOUS
<1>4. /\ payment[p].status = "pending"
      /\ payment' = [payment EXCEPT ![p].status = "completed", ![p].charge = charge]
      /\ tx' = [tx EXCEPT ![w] = t] /\ UNCHANGED audits
  BY <1>2, <1>3 DEF Complete, Enter
<1>5. /\ payment'[p] = [payment[p] EXCEPT !.status = "completed", !.charge = charge]
      /\ \A k \in Payments : k # p => payment'[k] = payment[k]
  BY <1>1, <1>2, <1>4, RowKept DEF TypeOK
<1>6. payment'[p].status = "completed"
  BY <1>1, <1>2, <1>5 DEF TypeOK, PaymentRows
<1>7. t.op = "audit" /\ t.ref = PaymentRef(p)
  BY <1>3 DEF AuditRequest
<1> SUFFICES ASSUME NEW k \in Payments
             PROVE  /\ IsFiniteSet(Writers(k))'
                    /\ audits'[PaymentRef(k)] + Cardinality(Writers(k)')
                            <= IF payment'[k].status = "completed" THEN 1 ELSE 0
  BY DEF HeardOnce, PaymentRef
<1>8. /\ IsFiniteSet(Writers(k))
      /\ audits[PaymentRef(k)] + Cardinality(Writers(k))
            <= IF payment[k].status = "completed" THEN 1 ELSE 0
  BY DEF HeardOnce
<1>9. Cardinality(Writers(k)) \in Nat /\ audits[PaymentRef(k)] \in Nat
  BY <1>8, FS_CardinalityType, AuditIsNat
<1>10. CASE k # p
  <2>1. Writers(k)' = Writers(k) \ {w}
    BY <1>4, <1>7, <1>10, RefsDiffer, WritersLeave
  <2>2. /\ IsFiniteSet(Writers(k) \ {w})
        /\ Cardinality(Writers(k) \ {w}) <= Cardinality(Writers(k))
        /\ Cardinality(Writers(k) \ {w}) \in Nat
    BY <1>8, FS_RemoveElement, FS_Subset, FS_CardinalityType
  <2>3. /\ audits' = audits /\ payment'[k] = payment[k]
    BY <1>4, <1>5, <1>10
  <2>4. audits[PaymentRef(k)] + Cardinality(Writers(k) \ {w})
            <= IF payment[k].status = "completed" THEN 1 ELSE 0
    BY <1>8, <1>9, <2>2
  <2> QED  BY <2>1, <2>2, <2>3, <2>4
<1>11. CASE k = p
  <2>1. audits[PaymentRef(k)] = 0 /\ Cardinality(Writers(k)) = 0
    BY <1>4, <1>8, <1>9, <1>11
  <2>2. Writers(k) = {}
    BY <1>8, <2>1, FS_EmptySet
  <2>3. Writers(k)' = {w}
    <3>1. \A v \in Workers : tx'[v] = IF v = w THEN t ELSE tx[v]
      BY <1>4 DEF TypeOK
    <3> QED  BY <1>7, <1>11, <2>2, <3>1 DEF Writers, PaymentRef
  <2>4. IsFiniteSet({w}) /\ Cardinality({w}) = 1
    BY FS_Singleton
  <2> QED  BY <1>4, <1>6, <1>11, <2>1, <2>3, <2>4
<1> QED  BY <1>10, <1>11

(* What a step does to the requests in flight: one worker's changes, to     *)
(* one that is not about a payment's entry, or nobody's.                    *)
LEMMA OtherStepHeard ==
    ASSUME TypeOK, HeardOnce, UNCHANGED audits,
           \/ UNCHANGED tx
           \/ \E w \in Workers : \E t :
                /\ tx' = [tx EXCEPT ![w] = t]
                /\ \A p \in Payments : ~(t.op = "audit" /\ t.ref = PaymentRef(p)),
           \A p \in Payments : payment[p].status = "completed" => payment'[p].status = "completed"
    PROVE  HeardOnce'
<1>1. CASE UNCHANGED tx
  BY <1>1, FewerWrite DEF Writers, PaymentRef
<1>2. ASSUME NEW w \in Workers, NEW t, tx' = [tx EXCEPT ![w] = t],
             \A p \in Payments : ~(t.op = "audit" /\ t.ref = PaymentRef(p))
      PROVE  HeardOnce'
  <2>1. ASSUME NEW p \in Payments  PROVE Writers(p)' \subseteq Writers(p)
    <3>1. Writers(p)' = Writers(p) \ {w}
      BY <1>2, WritersLeave
    <3> QED  BY <3>1
  <2> QED  BY <2>1, FewerWrite
<1> QED  BY <1>1, <1>2

LEMMA DecidedStays ==
    ASSUME TypeOK, [Next]_vars, NEW p \in Payments
    PROVE  /\ payment[p].status = "completed" => payment'[p].status = "completed"
           /\ payment[p].status \in {"completed", "failed"}
                => payment'[p].status \in {"completed", "failed"}
<1>1. CASE UNCHANGED payment
  BY <1>1
<1>2. ASSUME NEW w \in Workers, NEW k \in Payments, CreatePayment(w, k)
      PROVE  payment[p].status \in {"completed", "failed"} => payment'[p] = payment[p]
  BY <1>2 DEF CreatePayment, TypeOK, NoPayment
<1>3. ASSUME NEW w \in Workers, NEW status \in {"completed", "failed"}, NEW k, k = tx[w].payment,
             tx[w].op = "webhook", payment[k].status = "pending",
             payment' = [payment EXCEPT ![k].status = status, ![k].charge = tx[w].charge]
      PROVE  payment[p].status \in {"completed", "failed"} => payment'[p] = payment[p]
  <2>1. k \in Payments /\ tx[w].charge \in Charges /\ payment[k] # NoPayment
    BY <1>3, RequestShapes DEF TypeOK
  <2>2. PICK charge \in Charges : charge = tx[w].charge
    BY <2>1
  <2>3. p # k => payment'[p] = payment[p]
    BY <1>3, <2>1, <2>2, RowKept DEF TypeOK
  <2> QED  BY <1>3, <2>3
<1>4. ASSUME NEW w \in Workers, MarkFailed(w) \/ Complete(w), payment' # payment
      PROVE  payment[p].status \in {"completed", "failed"} => payment'[p] = payment[p]
  <2>1. PICK k : k = tx[w].payment
    OBVIOUS
  <2> QED  BY <1>3, <1>4, <2>1 DEF MarkFailed, Complete, Delivering
<1>5. ASSUME NEW w \in Workers, CreditDirectly(w) \/ WriteAudit(w) \/ Fail(w)
      PROVE  UNCHANGED payment
  BY <1>5 DEF CreditDirectly, Fund, Adjust, RefuseAdjust, MoveOnce, Collide, WriteAudit, Fail
<1>6. ASSUME NEW w \in Workers, Pay(w), UNCHANGED payment => FALSE
      PROVE  payment[p].status \in {"completed", "failed"} => payment'[p] = payment[p]
  BY <1>2, <1>4, <1>6 DEF Pay, BeginCheckout, Deliver, Redelivered
<1> QED  BY <1>1, <1>5, <1>6 DEF Next, SetCampaignStatus, Tick, vars
LEMMA HeardOnceInit == Init => HeardOnce
<1> SUFFICES ASSUME Init, NEW p \in Payments
             PROVE  /\ IsFiniteSet(Writers(p))
                    /\ audits[PaymentRef(p)] + Cardinality(Writers(p))
                            <= IF payment[p].status = "completed" THEN 1 ELSE 0
  BY DEF HeardOnce
<1>1. Writers(p) = {}
  BY DEF Init, Writers, Idle
<1>2. audits[PaymentRef(p)] = 0 /\ payment[p].status # "completed"
  BY DEF Init, NoPayment, Refs
<1> QED  BY <1>1, <1>2, FS_EmptySet

LEMMA HeardOnceStep == TypeOK /\ HeardOnce /\ [Next]_vars => HeardOnce'
<1> SUFFICES ASSUME TypeOK, HeardOnce, [Next]_vars  PROVE HeardOnce'
  OBVIOUS
<1>1. \A p \in Payments : payment[p].status = "completed" => payment'[p].status = "completed"
  BY DecidedStays
<1>2. ASSUME UNCHANGED <<audits, tx>>  PROVE HeardOnce'
  BY <1>1, <1>2, OtherStepHeard
<1>3. ASSUME NEW w \in Workers, NEW t, tx' = [tx EXCEPT ![w] = t], UNCHANGED audits,
             \A p \in Payments : ~(t.op = "audit" /\ t.ref = PaymentRef(p))
      PROVE  HeardOnce'
  BY <1>1, <1>3, OtherStepHeard
<1>4. ASSUME NEW w \in Workers, NEW t, tx' = [tx EXCEPT ![w] = t], UNCHANGED audits,
             t.op # "audit"
      PROVE  HeardOnce'
  BY <1>3, <1>4
<1>5. ASSUME NEW w \in Workers, Pay(w)  PROVE HeardOnce'
  <2>1. ASSUME ~Complete(w)
        PROVE  UNCHANGED audits /\ \E t : tx' = [tx EXCEPT ![w] = t] /\ t.op # "audit"
    BY <1>5, <2>1 DEF Pay, BeginCheckout, CreatePayment, Deliver, MarkFailed, Redelivered, Enter,
       Leave, Idle, CheckoutRequest, WebhookRequest
  <2> QED  BY <1>4, <2>1, CompleteHeard
<1>6. ASSUME NEW w \in Workers, NEW c, NEW coins, NEW key, NEW ref, NEW answer,
             ref = FundRef(c, key) \/ ref = AdjustRef(c, key),
             MoveOnce(w, c, coins, key, ref, answer)
      PROVE  HeardOnce'
  <2>1. PICK t : t = AuditRequest(ref, answer)
    OBVIOUS
  <2>2. t.ref = ref /\ \A p \in Payments : PaymentRef(p) # ref
    BY <1>6, <2>1, RefsDiffer DEF AuditRequest
  <2> QED  BY <1>3, <1>6, <2>1, <2>2 DEF MoveOnce, Enter
<1>7. ASSUME NEW w \in Workers, CreditDirectly(w)  PROVE HeardOnce'
  <2>1. ASSUME NEW c \in Campaigns, NEW coins \in Coins, NEW key \in Keys \cup {NoKey},
               Fund(w, c, coins, key)
        PROVE  HeardOnce'
    <3>1. PICK ref : ref = FundRef(c, key)
      OBVIOUS
    <3> QED  BY <1>2, <1>6, <2>1, <3>1 DEF Fund, Collide
  <2>2. ASSUME NEW c \in Campaigns, NEW coins \in Adjustments, NEW key \in Keys \cup {NoKey},
               Adjust(w, c, coins, key)
        PROVE  HeardOnce'
    <3>1. PICK ref : ref = AdjustRef(c, key)
      OBVIOUS
    <3> QED  BY <1>2, <1>6, <2>2, <3>1 DEF Adjust, Collide
  <2>3. ASSUME NEW c \in Campaigns, NEW coins \in Adjustments, NEW key \in Keys \cup {NoKey},
               RefuseAdjust(w, c, coins, key)
        PROVE  HeardOnce'
    BY <1>2, <2>3 DEF RefuseAdjust
  <2> QED  BY <1>7, <2>1, <2>2, <2>3 DEF CreditDirectly
<1>8. ASSUME NEW w \in Workers, Fail(w)  PROVE HeardOnce'
  <2>1. PICK t : t = Idle
    OBVIOUS
  <2>2. t.op # "audit"
    BY <2>1 DEF Idle
  <2> QED  BY <1>4, <1>8, <2>1, <2>2 DEF Fail, Leave
<1> QED  BY <1>2, <1>5, <1>7, <1>8, WriteAuditHeard DEF Next, SetCampaignStatus, Tick, vars

(* The inbox hears of a payment at most once, and of none that was not      *)
(* credited, from however many deliveries and in whatever order: only the   *)
(* one that finds the payment pending goes on to the audit entry.           *)
THEOREM InboxHearsOnce == Spec => []AuditedOnce
<1>1. HeardOnce => AuditedOnce
  BY DEF HeardOnce, AuditedOnce, Writers
<1> QED  BY <1>1, HeardOnceInit, HeardOnceStep, FundingTypeCorrect, PTL DEF Spec

-------------------------------------------------------------------------------
(* What is answered is done. *)

(* What answer a says is done. *)
Backed(a) ==
    /\ \A p \in Payments :
            /\ a = Told("webhook", p, "completed")
                    => payment[p].status = "completed" /\ PostedUnder(PaymentRef(p))
            /\ a \in {Told("webhook", p, "replay"), Told("webhook", p, "failed")}
                    => payment[p].status \in {"completed", "failed"}
    /\ \A c \in Campaigns, key \in Keys :
            /\ a = Told("fund", <<c, key>>, "ok") => PostedUnder(FundRef(c, key))
            /\ a = Told("adjust", <<c, key>>, "ok") => PostedUnder(AdjustRef(c, key))

(* The answers that have gone out, and those held back until the entry is   *)
(* written, are about what is committed.                                    *)
AnswersBacked ==
    /\ Backed(told)
    /\ \A w \in Workers : tx[w].op = "audit" => Backed(tx[w].answer)

LEMMA EntriesStay ==
    ASSUME [Next]_vars
    PROVE  entries \subseteq entries'
<1>1. ASSUME NEW c, NEW coins, NEW ref, Move(c, coins, ref) \/ UNCHANGED book
      PROVE  entries \subseteq entries'
  BY <1>1 DEF Move, book
<1>2. ASSUME NEW w \in Workers, Pay(w)  PROVE entries \subseteq entries'
  BY <1>1, <1>2
     DEF Pay, BeginCheckout, CreatePayment, Deliver, MarkFailed, Complete, Redelivered
<1>3. ASSUME NEW w \in Workers, CreditDirectly(w)  PROVE entries \subseteq entries'
  BY <1>1, <1>3 DEF CreditDirectly, Fund, Adjust, RefuseAdjust, MoveOnce, Collide
<1> QED  BY <1>2, <1>3 DEF Next, WriteAudit, Fail, SetCampaignStatus, Tick, vars, book

(* A key names its movement whatever the time. *)
LEMMA KeysAreTimeless ==
    ASSUME NEW c, NEW key \in Keys
    PROVE  FundRef(c, key)' = FundRef(c, key) /\ AdjustRef(c, key)' = AdjustRef(c, key)
BY FundingAssumption DEF FundRef, AdjustRef

LEMMA BackedStays ==
    ASSUME TypeOK, [Next]_vars, NEW a, Backed(a)
    PROVE  Backed(a)'
<1>1. entries \subseteq entries'
  BY EntriesStay
<1>2. \A p \in Payments :
        /\ payment[p].status = "completed" => payment'[p].status = "completed"
        /\ payment[p].status \in {"completed", "failed"}
                => payment'[p].status \in {"completed", "failed"}
        /\ PostedUnder(PaymentRef(p)) => PostedUnder(PaymentRef(p))'
  BY <1>1, DecidedStays DEF PostedUnder, PaymentRef
<1>3. \A c \in Campaigns, key \in Keys :
        /\ PostedUnder(FundRef(c, key)) => PostedUnder(FundRef(c, key))'
        /\ PostedUnder(AdjustRef(c, key)) => PostedUnder(AdjustRef(c, key))'
  BY <1>1, KeysAreTimeless DEF PostedUnder
<1> QED  BY <1>2, <1>3 DEF Backed, Told

LEMMA NothingIsBacked ==
    /\ Backed(Nothing)'
    /\ \A subject, answer : answer \notin {"ok", "completed", "replay", "failed"}
            => \A op : Backed(Told(op, subject, answer))'
BY DEF Backed, Nothing, Told

LEMMA WebhookBacked ==
    ASSUME NEW p \in Payments
    PROVE  /\ \A answer \in {"replay", "failed"} :
                payment'[p].status \in {"completed", "failed"} => Backed(Told("webhook", p, answer))'
           /\ payment'[p].status = "completed" /\ PostedUnder(PaymentRef(p))'
                => Backed(Told("webhook", p, "completed"))'
BY DEF Backed, Told, PaymentRef, PostedUnder

LEMMA CreditBacked ==
    ASSUME NEW c \in Campaigns, NEW key \in Keys \cup {NoKey}
    PROVE  /\ PostedUnder(FundRef(c, key))' => Backed(Told("fund", <<c, key>>, "ok"))'
           /\ PostedUnder(AdjustRef(c, key))' => Backed(Told("adjust", <<c, key>>, "ok"))'
BY DEF Backed, Told

(* The same once every answer of the step is known: what the caller was     *)
(* told, and what the worker who made it now holds back.                    *)
LEMMA StepBacked ==
    ASSUME TypeOK, [Next]_vars, AnswersBacked, Backed(told)',
           NEW w \in Workers, NEW t, tx' = [tx EXCEPT ![w] = t],
           t.op = "audit" => \E a : a = t.answer /\ Backed(a)'
    PROVE  AnswersBacked'
<1>1. \A v \in Workers : tx'[v] = IF v = w THEN t ELSE tx[v]
  BY DEF TypeOK
<1>2. ASSUME NEW v \in Workers, tx'[v].op = "audit"  PROVE Backed(tx[v].answer)'
  <2>1. PICK a : a = tx'[v].answer
    OBVIOUS
  <2>2. Backed(a)'
    BY <1>1, <1>2, <2>1, BackedStays DEF AnswersBacked
  <2> QED  BY <2>1, <2>2 DEF Backed
<1> QED  BY <1>2 DEF AnswersBacked

LEMMA RestBacked ==
    ASSUME TypeOK, [Next]_vars, AnswersBacked, UNCHANGED tx,
           told' = told \/ Backed(told)'
    PROVE  AnswersBacked'
<1>1. ASSUME NEW v \in Workers, tx'[v].op = "audit"  PROVE Backed(tx[v].answer)'
  <2>1. PICK a : a = tx[v].answer
    OBVIOUS
  <2>2. Backed(a)'
    BY <1>1, <2>1, BackedStays DEF AnswersBacked
  <2> QED  BY <2>1, <2>2 DEF Backed
<1>2. Backed(told)'
  <2>1. PICK a : a = told
    OBVIOUS
  <2>2. told' = told => Backed(a)'
    BY <2>1, BackedStays DEF AnswersBacked
  <2> QED  BY <2>1, <2>2 DEF Backed
<1> QED  BY <1>1, <1>2 DEF AnswersBacked
(* A delivery is answered once its payment is decided. *)
LEMMA PayBacked ==
    ASSUME TypeOK, [Next]_vars, AnswersBacked, NEW w \in Workers, Pay(w)
    PROVE  AnswersBacked'
<1>1. ASSUME told' = Nothing,
             NEW t, tx' = [tx EXCEPT ![w] = t], t.op # "audit"
      PROVE  AnswersBacked'
  <2>1. Backed(told)'
    BY <1>1, NothingIsBacked DEF Backed
  <2> QED  BY <1>1, <2>1, StepBacked
<1>2. CASE \/ \E c \in Campaigns, coins \in Coins : BeginCheckout(w, c, coins)
           \/ \E p \in Payments : CreatePayment(w, p)
           \/ \E p \in Payments, charge \in Charges, outcome \in Outcomes :
                Deliver(w, p, charge, outcome)
  <2>1. told' = Nothing /\ \E t : tx' = [tx EXCEPT ![w] = t] /\ t.op # "audit"
    BY <1>2 DEF BeginCheckout, CreatePayment, Deliver, Enter, Leave, Silently, Idle,
       CheckoutRequest, WebhookRequest
  <2> QED  BY <1>1, <2>1
<1>3. ASSUME tx[w].op = "webhook"
      PROVE  \E p \in Payments, charge \in Charges :
                /\ p = tx[w].payment /\ charge = tx[w].charge
                /\ payment[p] \in PaymentRows
  BY <1>3, RequestShapes DEF TypeOK
<1>4. ASSUME NEW p \in Payments, NEW answer \in {"replay", "failed"},
             told' = Told("webhook", p, answer),
             payment'[p].status \in {"completed", "failed"}, Leave(w)
      PROVE  AnswersBacked'
  <2>1. Backed(told)'
    BY <1>4, WebhookBacked DEF Backed
  <2>2. PICK t : t = Idle
    OBVIOUS
  <2> QED  BY <1>4, <2>1, <2>2, StepBacked DEF Leave, Idle
<1>5. CASE MarkFailed(w)
  <2>1. PICK p \in Payments, charge \in Charges :
            p = tx[w].payment /\ charge = tx[w].charge /\ payment[p] \in PaymentRows
    BY <1>3, <1>5 DEF MarkFailed, Delivering
  <2>2. payment'[p].status \in {"completed", "failed"}
    <3>1. CASE payment[p].status = "pending"
      <4>1. payment' = [payment EXCEPT ![p].status = "failed", ![p].charge = charge]
        BY <1>5, <2>1, <3>1 DEF MarkFailed
      <4>2. payment'[p] = [payment[p] EXCEPT !.status = "failed", !.charge = charge]
        BY <2>1, <4>1, RowKept DEF TypeOK, PaymentRows, NoPayment
      <4> QED  BY <2>1, <4>2 DEF PaymentRows
    <3>2. CASE payment[p].status # "pending"
      BY <1>5, <2>1, <3>2 DEF MarkFailed, PaymentRows
    <3> QED  BY <3>1, <3>2
  <2> QED  BY <1>4, <1>5, <2>1, <2>2 DEF MarkFailed, Answer
<1>6. CASE Redelivered(w)
  <2>1. PICK p \in Payments : p = tx[w].payment /\ payment[p] \in PaymentRows
    BY <1>3, <1>6 DEF Redelivered, Delivering
  <2>2. payment'[p].status \in {"completed", "failed"}
    BY <1>6, <2>1 DEF Redelivered, PaymentRows
  <2> QED  BY <1>4, <1>6, <2>1, <2>2 DEF Redelivered, Answer
<1>7. CASE Complete(w)
  <2>1. PICK p \in Payments, charge \in Charges :
            p = tx[w].payment /\ charge = tx[w].charge /\ payment[p] \in PaymentRows
    BY <1>3, <1>7 DEF Complete, Delivering
  <2>2. payment' = [payment EXCEPT ![p].status = "completed", ![p].charge = charge]
    BY <1>7, <2>1 DEF Complete
  <2>3. payment'[p].status = "completed"
    <3>1. payment'[p] = [payment[p] EXCEPT !.status = "completed", !.charge = charge]
      BY <1>7, <2>1, <2>2, RowKept DEF TypeOK, Complete, NoPayment
    <3> QED  BY <2>1, <3>1 DEF PaymentRows
  <2>4. PICK a, t : a = Told("webhook", p, "completed") /\ t = AuditRequest(PaymentRef(p), a)
    OBVIOUS
  <2>5. Backed(a)'
    <3>1. PICK c, coins : Move(c, coins, PaymentRef(p))
      BY <1>7, <2>1 DEF Complete
    <3>2. PostedUnder(PaymentRef(p))'
      BY <3>1, OneRef DEF Move, PostedUnder, PaymentRef
    <3> QED  BY <2>3, <2>4, <3>2, WebhookBacked DEF Backed
  <2>6. t.answer = a /\ tx' = [tx EXCEPT ![w] = t] /\ told' = Nothing
    BY <1>7, <2>1, <2>4 DEF Complete, Enter, Silently, AuditRequest
  <2>7. Backed(told)'
    BY <2>6, NothingIsBacked DEF Backed
  <2> QED  BY <2>5, <2>6, <2>7, StepBacked
<1> QED  BY <1>2, <1>5, <1>6, <1>7 DEF Pay

(* A direct credit is answered once it is in the books, whether this        *)
(* request posted it or an earlier one with its key.                        *)
LEMMA CreditDirectlyBacked ==
    ASSUME TypeOK, [Next]_vars, AnswersBacked, NEW w \in Workers, CreditDirectly(w)
    PROVE  AnswersBacked'
<1>1. ASSUME NEW op, NEW subject, NEW answer \in {"conflict", "below zero"},
             told' = Told(op, subject, answer), UNCHANGED tx
      PROVE  AnswersBacked'
  <2>1. answer \notin {"ok", "completed", "replay", "failed"}
    OBVIOUS
  <2>2. Backed(Told(op, subject, answer))'
    BY <2>1, NothingIsBacked
  <2>3. Backed(told)'
    BY <1>1, <2>2 DEF Backed
  <2> QED  BY <1>1, <2>3, RestBacked
<1>2. ASSUME NEW c, NEW coins, NEW key, NEW ref, NEW a, MoveOnce(w, c, coins, key, ref, a)
      PROVE  PostedUnder(ref)'
  BY <1>2, OneRef DEF MoveOnce, Move, PostedUnder, book
<1>3. ASSUME NEW c, NEW coins, NEW key, NEW ref, NEW a, MoveOnce(w, c, coins, key, ref, a),
             Backed(a)'
      PROVE  AnswersBacked'
  <2>1. PICK t : t = AuditRequest(ref, a)
    OBVIOUS
  <2>2. t.answer = a /\ tx' = [tx EXCEPT ![w] = t] /\ told' = Nothing
    BY <1>3, <2>1 DEF MoveOnce, Enter, Silently, AuditRequest
  <2>3. Backed(told)'
    BY <2>2, NothingIsBacked DEF Backed
  <2> QED  BY <1>3, <2>2, <2>3, StepBacked
<1>4. ASSUME NEW c \in Campaigns, NEW coins \in Coins, NEW key \in Keys \cup {NoKey},
             Fund(w, c, coins, key)
      PROVE  AnswersBacked'
  <2>1. PICK ref, a : ref = FundRef(c, key) /\ a = Told("fund", <<c, key>>, "ok")
    OBVIOUS
  <2>2. CASE MoveOnce(w, c, coins, key, ref, a)
    <3>1. PostedUnder(ref)' /\ FundRef(c, key)' = ref
      BY <1>2, <2>1, <2>2 DEF MoveOnce, FundRef
    <3>2. PostedUnder(FundRef(c, key))'
      BY <3>1 DEF PostedUnder
    <3>3. Backed(Told("fund", <<c, key>>, "ok"))'
      BY <3>2, CreditBacked
    <3>4. Backed(a)'
      BY <2>1, <3>3
    <3> QED  BY <1>3, <2>2, <3>4
  <2> QED  BY <1>1, <1>4, <2>1, <2>2 DEF Fund, Collide, Answer
<1>5. ASSUME NEW c \in Campaigns, NEW coins \in Adjustments, NEW key \in Keys \cup {NoKey},
             Adjust(w, c, coins, key)
      PROVE  AnswersBacked'
  <2>1. PICK ref, a : ref = AdjustRef(c, key) /\ a = Told("adjust", <<c, key>>, "ok")
    OBVIOUS
  <2>2. CASE MoveOnce(w, c, coins, key, ref, a)
    <3>1. PostedUnder(ref)' /\ AdjustRef(c, key)' = ref
      BY <1>2, <2>1, <2>2 DEF MoveOnce, AdjustRef
    <3>2. PostedUnder(AdjustRef(c, key))'
      BY <3>1 DEF PostedUnder
    <3>3. Backed(Told("adjust", <<c, key>>, "ok"))'
      BY <3>2, CreditBacked
    <3>4. Backed(a)'
      BY <2>1, <3>3
    <3> QED  BY <1>3, <2>2, <3>4
  <2> QED  BY <1>1, <1>5, <2>1, <2>2 DEF Adjust, Collide, Answer
<1> QED  BY <1>1, <1>4, <1>5 DEF CreditDirectly, RefuseAdjust, Answer

LEMMA BackedStep == TypeOK /\ AnswersBacked /\ [Next]_vars => AnswersBacked'
<1> SUFFICES ASSUME TypeOK, AnswersBacked, [Next]_vars  PROVE AnswersBacked'
  OBVIOUS
<1>1. told' = Nothing => Backed(told)'
  BY NothingIsBacked DEF Backed
<1>2. ASSUME NEW w \in Workers, WriteAudit(w)  PROVE AnswersBacked'
  <2>1. PICK a, t : a = tx[w].answer /\ t = Idle
    OBVIOUS
  <2>2. Backed(a)'
    BY <1>2, <2>1, BackedStays DEF AnswersBacked, WriteAudit
  <2>3. told' = a /\ tx' = [tx EXCEPT ![w] = t] /\ t.op # "audit"
    BY <1>2, <2>1 DEF WriteAudit, Answer, Leave, Idle
  <2>4. Backed(told)'
    BY <2>2, <2>3 DEF Backed
  <2> QED  BY <2>3, <2>4, StepBacked
<1>3. ASSUME NEW w \in Workers, Fail(w)  PROVE AnswersBacked'
  <2>1. PICK t : t = Idle
    OBVIOUS
  <2> QED  BY <1>1, <1>3, <2>1, StepBacked DEF Fail, Leave, Silently, Idle
<1>4. ASSUME UNCHANGED tx, told' = told \/ told' = Nothing  PROVE AnswersBacked'
  BY <1>1, <1>4, RestBacked
<1> QED  BY <1>2, <1>3, <1>4, PayBacked, CreditDirectlyBacked
         DEF Next, SetCampaignStatus, Tick, Silently, vars

LEMMA BackedInit == Init => AnswersBacked
BY DEF Init, AnswersBacked, Backed, Nothing, Told, Idle

(* What was answered need not be sent again: a payment the provider was     *)
(* told is credited is completed and its coins are in the books, and stays  *)
(* so, one it was told anything of is decided, and a movement a client was  *)
(* told of under its key is in the books.                                   *)
THEOREM AnsweredIsDone == Spec => []AcknowledgedIsDone
<1>1. AnswersBacked => AcknowledgedIsDone
  BY DEF AnswersBacked, Backed, AcknowledgedIsDone
<1> QED  BY <1>1, BackedInit, BackedStep, FundingTypeCorrect, PTL DEF Spec
===============================================================================
