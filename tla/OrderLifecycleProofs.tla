------------------------- MODULE OrderLifecycleProofs -------------------------
(***************************************************************************)
(* Theorems about OrderLifecycle, for any number of orders, items, riders, *)
(* threads, crashes and edits: types, compensation, then the path of an    *)
(* order: what a handler may do to the order document it writes (Follows), *)
(* what the handlers under way have seen (ThreadOK), and what follows for  *)
(* payments, riders and the group.  With them, OrderLifecycle implements   *)
(* OrderPromise; and what that promise is worth by itself.                 *)
(***************************************************************************)
EXTENDS OrderKeepsPromise, TLAPS

(* What the steps a thread and a document take do to their types.          *)

LEMMA PutType ==
    ASSUME order \in [Orders -> OrderDoc], NEW o, NEW doc,
           o \in Orders => doc \in OrderDoc,
           Put(o, doc)
    PROVE  order' \in [Orders -> OrderDoc]
BY DEF Put

LEMMA MovedType ==
    ASSUME order \in [Orders -> OrderDoc], NEW o \in Orders,
           NEW w \in WorkflowStatus
    PROVE  Moved(o, w) \in OrderDoc
<1>1. LegacyStatus(w) \in LegacyStatuses
    BY DEF WorkflowStatus, LegacyStatus, LegacyStatuses
<1>2. order[o] \in OrderDoc
    OBVIOUS
<1> QED
    BY <1>1, <1>2 DEF Moved, OrderDoc

LEMMA PutAt ==
    ASSUME order \in [Orders -> OrderDoc], NEW o \in Orders, NEW doc, Put(o, doc)
    PROVE  /\ order'[o] = doc
           /\ \A p \in Orders : p # o => order'[p] = order[p]
BY DEF Put

LEMMA MovedAt ==
    ASSUME order \in [Orders -> OrderDoc], NEW o \in Orders, NEW w
    PROVE  /\ Moved(o, w).ws = w
           /\ Moved(o, w).stock = order[o].stock
           /\ Moved(o, w).mode = order[o].mode
           /\ Moved(o, w).pay = order[o].pay
           /\ Moved(o, w).rider = order[o].rider
BY DEF Moved, OrderDoc

LEMMA IdleType == Idle \in ThreadState
BY DEF Idle, ThreadState, PC, NoEdit, EditBody

LEMMA GotoType ==
    ASSUME thread \in [Threads -> ThreadState], NEW t \in Threads,
           NEW pc \in PC \ {"skip"}, Goto(t, pc), thread[t].o \in Orders
    PROVE  thread' \in [Threads -> ThreadState]
BY DEF Goto, ThreadState

\* In the middle of a handler, except between two orders of a capture.
LEMMA WorkingType ==
    ASSUME thread \in [Threads -> ThreadState], NEW t \in Threads,
           ~At(t, "idle"), ~At(t, "capture")
    PROVE  thread[t].o \in Orders
BY DEF At, ThreadState

LEMMA BeginAt ==
    ASSUME thread \in [Threads -> ThreadState], NEW t \in Threads,
           NEW pc, NEW o, Begin(t, pc, o)
    PROVE  /\ thread'[t].pc = pc /\ thread'[t].o = o
           /\ \A u \in Threads : u # t => thread'[u] = thread[u]
BY DEF Begin, Idle

LEMMA FinishType ==
    ASSUME thread \in [Threads -> ThreadState], NEW t \in Threads, Finish(t)
    PROVE  thread' \in [Threads -> ThreadState]
BY IdleType DEF Finish

LEMMA BeginType ==
    ASSUME thread \in [Threads -> ThreadState], NEW t \in Threads,
           NEW pc \in PC \ {"skip"}, NEW o \in Orders, Begin(t, pc, o)
    PROVE  thread' \in [Threads -> ThreadState]
BY IdleType DEF Begin, ThreadState
-----------------------------------------------------------------------------
(* Type correctness.                                                       *)

LEMMA InitType == Init => TypeOK
<1> SUFFICES ASSUME Init PROVE TypeOK
    OBVIOUS
<1>1. ASSUME NEW mode \in Modes
      PROVE  PlacedOrder(mode) \in OrderDoc /\ PlacedGroup(mode) \in GroupDoc
    BY <1>1, ModesAssumption
       DEF PlacedOrder, PlacedGroup, OrderDoc, GroupDoc, WorkflowStatus,
           LegacyStatuses
<1>2. order \in [Orders -> OrderDoc] /\ group \in GroupDoc
    BY <1>1 DEF Init
<1>3. released \in [Orders -> [Items -> Nat]] /\ corrected \in [Orders -> [Items -> Nat]]
    BY DEF Init
<1>4. thread \in [Threads -> ThreadState]
    BY IdleType DEF Init
<1>5. paymentOpen \in BOOLEAN /\ offered \in SUBSET Orders
    BY DEF Init
<1>6. crashes \in 0 .. MaxCrashes /\ edits \in 0 .. MaxEdits
    BY BoundsAssumption DEF Init
<1> QED
    BY <1>2, <1>3, <1>4, <1>5, <1>6 DEF TypeOK

\* The requests that are one step, the deadlines and the payment.
LEMMA OneStepType ==
    ASSUME TypeOK,
           CreatePayment \/ \E o \in Orders : DeadlinePasses(o) \/ OneStepRequest(o)
    PROVE  TypeOK'
<1>1. CASE CreatePayment
    BY <1>1 DEF CreatePayment, TypeOK, Stock, Budgets
<1>2. CASE \E o \in Orders : DeadlinePasses(o) \/ OneStepRequest(o)
  <2>1. PICK o \in Orders : DeadlinePasses(o) \/ OneStepRequest(o)
      BY <1>2
  <2>2. [order[o] EXCEPT !.expired = TRUE] \in OrderDoc
      BY DEF TypeOK, OrderDoc
  <2>3. \A w \in WorkflowStatus : Moved(o, w) \in OrderDoc
      BY MovedType DEF TypeOK
  <2>4. order' \in [Orders -> OrderDoc]
      BY <2>1, <2>2, <2>3, PutType
         DEF DeadlinePasses, OneStepRequest, SellerAccept, MarkArrivedAtStore,
             ConfirmPickup, VerifyHandoffOtp, TypeOK, WorkflowStatus
  <2> QED
      BY <2>1, <2>4
         DEF DeadlinePasses, OneStepRequest, SellerAccept, MarkArrivedAtStore,
             ConfirmPickup, VerifyHandoffOtp, TypeOK, Stock, Budgets
<1> QED
    BY <1>1, <1>2

\* What a job starts, and what people send.
LEMMA StartType ==
    ASSUME TypeOK, NEW t \in Threads, NEW o \in Orders,
           JobStart(t, o) \/ Request(t, o)
    PROVE  TypeOK'
<1> USE DEF Stock, Budgets
<1>1. CASE \/ SellerTimeoutRead(t, o)
           \/ PaymentTimeoutFind(t, o)
           \/ OtpEndpointRead(t, o)
  <2>1. thread' \in [Threads -> ThreadState]
      BY <1>1, BeginType
         DEF SellerTimeoutRead, PaymentTimeoutFind, OtpEndpointRead, TypeOK, PC
  <2> QED
      BY <1>1, <2>1
         DEF SellerTimeoutRead, PaymentTimeoutFind, OtpEndpointRead, TypeOK
<1>2. CASE DeliveryTimeoutRead(t, o)
  <2>1. [Idle EXCEPT !.pc = "delivery_timeout", !.o = o,
                     !.seen = order[o].attempt] \in ThreadState
      BY IdleType DEF TypeOK, OrderDoc, ThreadState, PC
  <2> QED
      BY <1>2, <2>1 DEF DeliveryTimeoutRead, TypeOK
<1>3. CASE SellerReject(t, o) \/ CustomerCancel(t, o)
  <2>1. order' \in [Orders -> OrderDoc]
      BY <1>3, PutType, MovedType
         DEF SellerReject, CustomerCancel, TypeOK, WorkflowStatus
  <2>2. thread' \in [Threads -> ThreadState]
      BY <1>3, BeginType DEF SellerReject, CustomerCancel, TypeOK, PC
  <2> QED
      BY <1>3, <2>1, <2>2 DEF SellerReject, CustomerCancel, TypeOK
<1>4. CASE ProcessToDelivery(t, o)
  <2>1. Moved(o, "DELIVERY_SEARCH") \in OrderDoc
      BY MovedType DEF TypeOK, WorkflowStatus
  <2>2. [Moved(o, "DELIVERY_SEARCH") EXCEPT !.expired = FALSE,
                                            !.attempt = 1] \in OrderDoc
      BY <2>1 DEF OrderDoc
  <2>3. order' \in [Orders -> OrderDoc]
      BY <1>4, <2>2, PutType DEF ProcessToDelivery, TypeOK
  <2>4. thread' \in [Threads -> ThreadState]
      BY <1>4, BeginType DEF ProcessToDelivery, TypeOK, PC
  <2> QED
      BY <1>4, <2>3, <2>4 DEF ProcessToDelivery, TypeOK
<1>5. ASSUME NEW r \in Riders, DeliveryAccept(t, o, r)
      PROVE  TypeOK'
  <2>1. Moved(o, "DELIVERY_ASSIGNED") \in OrderDoc
      BY MovedType DEF TypeOK, WorkflowStatus
  <2>2. [Moved(o, "DELIVERY_ASSIGNED") EXCEPT !.rider = r] \in OrderDoc
      BY <2>1 DEF OrderDoc
  <2>3. order' \in [Orders -> OrderDoc]
      BY <1>5, <2>2, PutType DEF DeliveryAccept, TypeOK
  <2>4. thread' \in [Threads -> ThreadState]
      BY <1>5, BeginType DEF DeliveryAccept, TypeOK, PC
  <2> QED
      BY <1>5, <2>3, <2>4 DEF DeliveryAccept, TypeOK
<1>6. ASSUME NEW r \in Riders, SkipRead(t, o, r)
      PROVE  TypeOK'
  <2>1. [Idle EXCEPT !.pc = "skip", !.o = o, !.rider = r] \in ThreadState
      BY IdleType DEF ThreadState, PC
  <2> QED
      BY <1>6, <2>1 DEF SkipRead, TypeOK
<1>7. ASSUME NEW e \in Edits, EditRead(t, o, e)
      PROVE  TypeOK'
  <2> DEFINE its == IF e.status = "cancelled" /\ order[o].status # "cancelled"
                    THEN Items ELSE {}
  <2>1. ChangesOf(e, order[o]) \in EditBody
      BY EditsAssumption DEF ChangesOf, EditBody, TypeOK, OrderDoc
  <2>2. its \in SUBSET Items
      OBVIOUS
  <2> HIDE DEF its
  <2>3. [Idle EXCEPT !.pc = "correct", !.o = o, !.edit = ChangesOf(e, order[o]),
                     !.items = its] \in ThreadState
      BY IdleType, <2>1, <2>2 DEF ThreadState, PC
  <2>4. thread' \in [Threads -> ThreadState]
      BY <1>7, <2>3 DEF EditRead, TypeOK, its
  <2>5. edits' \in 0 .. MaxEdits
      BY <1>7, BoundsAssumption DEF EditRead, TypeOK
  <2> QED
      BY <1>7, <2>4, <2>5 DEF EditRead, TypeOK
<1> QED
    BY <1>1, <1>2, <1>3, <1>4, <1>5, <1>6, <1>7 DEF JobStart, Request

\* What a started handler goes on to do: the timeouts and the compensation.
LEMMA JobStepType ==
    ASSUME TypeOK, NEW t \in Threads,
           \/ SellerTimeoutCancel(t) \/ PaymentTimeoutCancel(t)
           \/ WidenSearch(t) \/ EscalateSearch(t) \/ Broadcast(t)
           \/ CompensateRead(t) \/ CompensateSave(t)
           \/ CountActive(t) \/ CloseGroup(t)
           \/ \E i \in Items : ReleaseItem(t, i)
    PROVE  TypeOK'
<1> DEFINE o == thread[t].o
<1> USE DEF Stock, Budgets
<1>w. o \in Orders
    BY WorkingType
       DEF SellerTimeoutCancel, PaymentTimeoutCancel, WidenSearch,
           EscalateSearch, Broadcast, CompensateRead, CompensateSave,
           CountActive, CloseGroup, ReleaseItem, At, TypeOK
<1>o. order[o] \in OrderDoc /\ Moved(o, "CANCELLED") \in OrderDoc
    BY <1>w, MovedType DEF TypeOK, WorkflowStatus
<1>1. CASE SellerTimeoutCancel(t) \/ PaymentTimeoutCancel(t)
  <2>1. order' \in [Orders -> OrderDoc]
      BY <1>1, <1>o, PutType
         DEF SellerTimeoutCancel, PaymentTimeoutCancel, TypeOK
  <2>2. thread' \in [Threads -> ThreadState]
      BY <1>1, <1>w, GotoType, FinishType
         DEF SellerTimeoutCancel, PaymentTimeoutCancel, TypeOK, PC
  <2> QED
      BY <1>1, <2>1, <2>2 DEF SellerTimeoutCancel, PaymentTimeoutCancel, TypeOK
<1>2. CASE WidenSearch(t) \/ EscalateSearch(t)
  <2>1. thread[t].seen + 1 \in Nat
      BY DEF TypeOK, ThreadState
  <2>2. /\ [order[o] EXCEPT !.expired = FALSE,
                                !.attempt = thread[t].seen + 1] \in OrderDoc
        /\ [order[o] EXCEPT !.expired = FALSE, !.escalated = TRUE,
                                !.attempt = thread[t].seen + 1] \in OrderDoc
      BY <1>o, <2>1 DEF OrderDoc
  <2>3. order' \in [Orders -> OrderDoc]
      BY <1>2, <2>2, PutType DEF WidenSearch, EscalateSearch, TypeOK
  <2>4. thread' \in [Threads -> ThreadState]
      BY <1>2, <1>w, GotoType, FinishType DEF WidenSearch, EscalateSearch, TypeOK, PC
  <2> QED
      BY <1>2, <2>3, <2>4 DEF WidenSearch, EscalateSearch, TypeOK
<1>3. CASE Broadcast(t)
  <2>1. thread' \in [Threads -> ThreadState]
      BY <1>3, FinishType DEF Broadcast, TypeOK
  <2> QED
      BY <1>3, <1>w, <2>1 DEF Broadcast, TypeOK
<1>4. CASE CompensateRead(t)
  <2>1. /\ [thread[t] EXCEPT !.pc = "count_active"] \in ThreadState
        /\ [thread[t] EXCEPT !.pc = "release", !.items = Items] \in ThreadState
      BY <1>w DEF TypeOK, ThreadState, PC
  <2> QED
      BY <1>4, <2>1 DEF CompensateRead, TypeOK
<1>5. CASE CompensateSave(t)
  <2>1. [order[o] EXCEPT !.stock = "RELEASED"] \in OrderDoc
      BY <1>o DEF OrderDoc
  <2>2. order' \in [Orders -> OrderDoc]
      BY <1>5, <2>1, PutType DEF CompensateSave, TypeOK
  <2>3. thread' \in [Threads -> ThreadState]
      BY <1>5, <1>w, GotoType DEF CompensateSave, TypeOK, PC
  <2> QED
      BY <1>5, <2>2, <2>3 DEF CompensateSave, TypeOK
<1>6. CASE CountActive(t) \/ CloseGroup(t)
  <2>1. thread' \in [Threads -> ThreadState]
      BY <1>6, <1>w, GotoType, FinishType DEF CountActive, CloseGroup, TypeOK, PC
  <2>2. group' \in GroupDoc
      BY <1>6 DEF CountActive, CloseGroup, TypeOK, GroupDoc
  <2> QED
      BY <1>6, <2>1, <2>2 DEF CountActive, CloseGroup, TypeOK
<1>7. ASSUME NEW i \in Items, ReleaseItem(t, i)
      PROVE  TypeOK'
  <2>1. released' \in [Orders -> [Items -> Nat]]
      BY <1>7, <1>w DEF ReleaseItem, TypeOK
  <2>2. [thread[t] EXCEPT !.items = thread[t].items \ {i}] \in ThreadState
      BY DEF TypeOK, ThreadState
  <2> QED
      BY <1>7, <2>1, <2>2 DEF ReleaseItem, TypeOK
<1> QED
    BY <1>1, <1>2, <1>3, <1>4, <1>5, <1>6, <1>7

\* ... the payment, the rider, the status edits and the crash.
LEMMA RequestStepType ==
    ASSUME TypeOK, NEW t \in Threads,
           \/ VerifyPayment(t) \/ \E o \in Orders : CaptureFinance(t, o)
           \/ CaptureMove(t) \/ CaptureGroup(t)
           \/ RetractOffer(t) \/ SkipSave(t) \/ OtpEndpointDeliver(t)
           \/ \E i \in Items : CorrectItem(t, i)
           \/ EditSave(t) \/ Crash(t)
    PROVE  TypeOK'
<1> DEFINE o == thread[t].o
<1> USE DEF Stock, Budgets
<1>t. thread[t] \in ThreadState
    BY DEF TypeOK
<1>w. At(t, "move") \/ At(t, "skip") \/ At(t, "otp_deliver") \/ At(t, "correct")
        => o \in Orders /\ order[o] \in OrderDoc
    BY WorkingType DEF At, TypeOK
<1>1. ASSUME NEW p \in Orders, CaptureFinance(t, p)
      PROVE  TypeOK'
  <2>1. [order[p] EXCEPT !.pay = "PAID"] \in OrderDoc
      BY DEF TypeOK, OrderDoc
  <2>2. order' \in [Orders -> OrderDoc]
      BY <1>1, <2>1, PutType DEF CaptureFinance, TypeOK
  <2>3. [thread[t] EXCEPT !.pc = "move", !.o = p,
                          !.rest = thread[t].rest \ {p}] \in ThreadState
      BY <1>t DEF ThreadState, PC
  <2> QED
      BY <1>1, <2>2, <2>3 DEF CaptureFinance, TypeOK
<1>2. CASE CaptureMove(t)
  <2>w. o \in Orders /\ order[o] \in OrderDoc
      BY <1>2, <1>w DEF CaptureMove
  <2>1. [order[o] EXCEPT !.ws = "SELLER_PENDING", !.expired = FALSE] \in OrderDoc
      BY <2>w DEF OrderDoc, WorkflowStatus
  <2>2. order' \in [Orders -> OrderDoc]
      BY <1>2, <2>1, PutType DEF CaptureMove, TypeOK
  <2>3. thread' \in [Threads -> ThreadState]
      BY <1>2, <2>w, GotoType DEF CaptureMove, TypeOK, PC
  <2> QED
      BY <1>2, <2>2, <2>3 DEF CaptureMove, TypeOK
<1>3. CASE CaptureGroup(t) \/ RetractOffer(t)
  <2>1. thread' \in [Threads -> ThreadState]
      BY <1>3, FinishType DEF CaptureGroup, RetractOffer, TypeOK
  <2> QED
      BY <1>3, <2>1 DEF CaptureGroup, RetractOffer, TypeOK, GroupDoc
<1>4. CASE SkipSave(t)
  <2>w. o \in Orders /\ order[o] \in OrderDoc
      BY <1>4, <1>w DEF SkipSave
  <2>1. order[o].skipped \cup {thread[t].rider} \in SUBSET Riders
      BY <1>4, <1>t, <2>w DEF SkipSave, At, ThreadState, OrderDoc
  <2>2. [order[o] EXCEPT !.skipped = @ \cup {thread[t].rider}] \in OrderDoc
      BY <2>w, <2>1 DEF OrderDoc
  <2>3. order' \in [Orders -> OrderDoc]
      BY <1>4, <2>2, PutType DEF SkipSave, TypeOK
  <2>4. thread' \in [Threads -> ThreadState]
      BY <1>4, FinishType DEF SkipSave, TypeOK
  <2> QED
      BY <1>4, <2>3, <2>4 DEF SkipSave, TypeOK
<1>5. CASE OtpEndpointDeliver(t)
  <2>1. Moved(o, "DELIVERED") \in OrderDoc
      BY <1>5, <1>w, MovedType DEF OtpEndpointDeliver, TypeOK, WorkflowStatus
  <2>2. order' \in [Orders -> OrderDoc]
      BY <1>5, <2>1, PutType DEF OtpEndpointDeliver, TypeOK
  <2>3. thread' \in [Threads -> ThreadState]
      BY <1>5, FinishType DEF OtpEndpointDeliver, TypeOK
  <2> QED
      BY <1>5, <2>2, <2>3 DEF OtpEndpointDeliver, TypeOK
<1>6. ASSUME NEW i \in Items, CorrectItem(t, i)
      PROVE  TypeOK'
  <2>w. o \in Orders
      BY <1>6, <1>w DEF CorrectItem
  <2>1. corrected' \in [Orders -> [Items -> Nat]]
      BY <1>6, <2>w DEF CorrectItem, TypeOK
  <2>2. [thread[t] EXCEPT !.items = thread[t].items \ {i}] \in ThreadState
      BY <1>t DEF ThreadState
  <2> QED
      BY <1>6, <2>1, <2>2 DEF CorrectItem, TypeOK
<1>7. CASE EditSave(t)
  <2> DEFINE e == thread[t].edit
             st == IF e.status = Keep THEN order[o].status ELSE e.status
             ri == IF e.rider = NoRider THEN order[o].rider ELSE e.rider
  <2>w. o \in Orders /\ order[o] \in OrderDoc
      BY <1>7, <1>w DEF EditSave
  <2>1. st \in LegacyStatuses /\ ri \in Riders \cup {NoRider}
      BY <1>t, <2>w DEF ThreadState, EditBody, OrderDoc
  <2> HIDE DEF st, ri
  <2>2. [order[o] EXCEPT !.status = st, !.rider = ri] \in OrderDoc
      BY <2>w, <2>1 DEF OrderDoc
  <2>3. order' \in [Orders -> OrderDoc]
      BY <1>7, <2>2, PutType DEF EditSave, TypeOK, st, ri
  <2>4. thread' \in [Threads -> ThreadState]
      BY <1>7, FinishType DEF EditSave, TypeOK
  <2> QED
      BY <1>7, <2>3, <2>4 DEF EditSave, TypeOK
<1>8. CASE Crash(t)
  <2>1. crashes' \in 0 .. MaxCrashes
      BY <1>8, BoundsAssumption DEF Crash, TypeOK
  <2> QED
      BY <1>8, <2>1, FinishType DEF Crash, TypeOK
<1>9. CASE VerifyPayment(t)
  <2>1. [Idle EXCEPT !.pc = "capture", !.rest = Orders] \in ThreadState
      BY IdleType DEF ThreadState, PC
  <2> QED
      BY <1>9, <2>1 DEF VerifyPayment, TypeOK
<1> QED
    BY <1>1, <1>2, <1>3, <1>4, <1>5, <1>6, <1>7, <1>8, <1>9

LEMMA NextType ==
    ASSUME TypeOK, [Next]_vars
    PROVE  TypeOK'
<1>1. CASE CreatePayment \/ \E o \in Orders : DeadlinePasses(o) \/ OneStepRequest(o)
    BY <1>1, OneStepType
<1>2. ASSUME NEW t \in Threads, NEW o \in Orders,
             JobStart(t, o) \/ Request(t, o)
      PROVE  TypeOK'
    BY <1>2, StartType
<1>3. ASSUME NEW t \in Threads, Continue(t) \/ Crash(t) \/ VerifyPayment(t)
      PROVE  TypeOK'
  <2>1. CASE Continue(t)
      BY <2>1, JobStepType, RequestStepType DEF Continue
  <2>2. CASE Crash(t) \/ VerifyPayment(t)
      BY <2>2, RequestStepType
  <2> QED
      BY <1>3, <2>1, <2>2
<1>4. CASE UNCHANGED vars
    BY <1>4 DEF vars, TypeOK
<1> QED
    BY <1>1, <1>2, <1>3, <1>4 DEF Next, Threads

\* Every document, counter and thread keeps its type under every interleaving.
THEOREM TypeCorrect == Spec => []TypeOK
<1> QED
    BY InitType, NextType, PTL DEF Spec
-----------------------------------------------------------------------------
(* The stock of a cancelled order.  Most steps are quiet: they give nothing*)
(* back, start no compensation and revive no order.                        *)

Quiet ==
    /\ released' = released
    /\ \A o \in Orders :
          /\ order'[o].stock = order[o].stock
          /\ order'[o].ws \in LiveStatus => order[o].ws \in LiveStatus
    /\ \A t \in Threads : thread'[t].pc \in {"compensate", "release"} =>
          thread'[t] = thread[t]

LEMMA QuietStep ==
    ASSUME CompensationInv, Quiet
    PROVE  CompensationInv'
<1>1. ASSUME NEW t \in Threads, NEW o \in Orders, Compensating(t, o)'
      PROVE  thread'[t] = thread[t] /\ Compensating(t, o)
    BY <1>1 DEF Quiet, Compensating
<1>2. ASSUME NEW t \in Threads, NEW o \in Orders, Compensating(t, o)'
      PROVE  /\ order'[o].ws \notin LiveStatus
             /\ \A u \in Threads : Compensating(u, o)' => u = t
             /\ \A i \in Items :
                   released'[o][i] =
                       IF At(t, "release")' /\ i \notin thread'[t].items
                       THEN 1 ELSE 0
    BY <1>1, <1>2 DEF Quiet, CompensationInv, At
<1>3. ReleaseOnce' /\ GoodsGivenBackNotLive' /\ ReservationHonest'
    BY DEF Quiet, CompensationInv, ReleaseOnce, GoodsGivenBackNotLive,
           ReservationHonest
<1> QED
    BY <1>2, <1>3 DEF CompensationInv

\* The four handlers that cancel: a live order has nothing given back and
\* nobody compensating it, so the thread that cancelled it is the first.
LEMMA CancelStep ==
    ASSUME TypeOK, CompensationInv, NEW t \in Threads, NEW o \in Orders,
           order[o].ws \in LiveStatus,
           Put(o, Moved(o, "CANCELLED")),
           thread' = [thread EXCEPT ![t] = thread'[t]],
           thread'[t].pc = "compensate", thread'[t].o = o,
           released' = released
    PROVE  CompensationInv'
<1>1. \A p \in Orders : p # o => order'[p] = order[p]
    BY DEF Put, TypeOK
<1>2. order'[o].ws = "CANCELLED" /\ order'[o].stock = order[o].stock
    BY DEF Put, Moved, TypeOK, OrderDoc
<1>3. \A u \in Threads : u # t => thread'[u] = thread[u]
    BY DEF TypeOK
<1>4. \A u \in Threads : ~Compensating(u, o)
    BY DEF CompensationInv
<1>5. \A i \in Items : released[o][i] = 0
    BY DEF CompensationInv, GoodsGivenBackNotLive
<1>6. ASSUME NEW u \in Threads, NEW p \in Orders, Compensating(u, p)'
      PROVE  /\ order'[p].ws \notin LiveStatus
             /\ \A v \in Threads : Compensating(v, p)' => v = u
             /\ \A i \in Items :
                   released'[p][i] =
                       IF At(u, "release")' /\ i \notin thread'[u].items
                       THEN 1 ELSE 0
  <2>1. CASE p = o
    <3>1. u = t
        BY <1>3, <1>4, <1>6, <2>1 DEF Compensating
    <3>2. \A v \in Threads : Compensating(v, p)' => v = u
        BY <1>3, <1>4, <2>1, <3>1 DEF Compensating
    <3>3. ~At(u, "release")'
        BY <3>1 DEF At
    <3> QED
        BY <1>2, <1>5, <2>1, <3>2, <3>3 DEF LiveStatus
  <2>2. CASE p # o
    <3>1. u # t /\ Compensating(u, p)
        BY <1>3, <1>6, <2>2 DEF Compensating
    <3>2. \A v \in Threads : Compensating(v, p)' => v = u
        BY <1>3, <2>2, <3>1 DEF Compensating, CompensationInv
    <3> QED
        BY <1>1, <1>3, <2>2, <3>1, <3>2 DEF CompensationInv, At
  <2> QED
      BY <2>1, <2>2
<1>7. ReleaseOnce' /\ GoodsGivenBackNotLive' /\ ReservationHonest'
    BY <1>1, <1>2 DEF CompensationInv, ReleaseOnce, GoodsGivenBackNotLive,
                      ReservationHonest, LiveStatus
<1> QED
    BY <1>6, <1>7 DEF CompensationInv

\* The three steps of a compensation that touch what the invariant is about.
LEMMA CompensateReadStep ==
    ASSUME TypeOK, CompensationInv, NEW t \in Threads, CompensateRead(t)
    PROVE  CompensationInv'
<1> DEFINE o == thread[t].o
<1>1. /\ order' = order /\ released' = released
      /\ \A u \in Threads : u # t => thread'[u] = thread[u]
      /\ thread[t].pc = "compensate" /\ thread'[t].o = o
    BY DEF CompensateRead, At, Stock, TypeOK, ThreadState
<1>2. \/ thread'[t].pc = "count_active"
      \/ thread'[t].pc = "release" /\ thread'[t].items = Items
    BY DEF CompensateRead, TypeOK, ThreadState
<1>3. ASSUME NEW u \in Threads, NEW p \in Orders, Compensating(u, p)'
      PROVE  /\ order'[p].ws \notin LiveStatus
             /\ \A v \in Threads : Compensating(v, p)' => v = u
             /\ \A i \in Items :
                   released'[p][i] =
                       IF At(u, "release")' /\ i \notin thread'[u].items
                       THEN 1 ELSE 0
  <2>1. \A v \in Threads : Compensating(v, p)' => Compensating(v, p)
      BY <1>1 DEF Compensating
  <2>2. \A v \in Threads : Compensating(v, p)' => v = u
      BY <1>3, <2>1 DEF CompensationInv
  <2>3. CASE u # t
      BY <1>1, <1>3, <2>1, <2>2, <2>3 DEF CompensationInv, At
  <2>4. CASE u = t
      BY <1>1, <1>2, <1>3, <2>1, <2>2, <2>4 DEF CompensationInv, At
  <2> QED
      BY <2>3, <2>4
<1> QED
    BY <1>1, <1>3 DEF CompensationInv, ReleaseOnce, GoodsGivenBackNotLive,
                      ReservationHonest

LEMMA ReleaseItemStep ==
    ASSUME TypeOK, CompensationInv, NEW t \in Threads, NEW i \in Items,
           ReleaseItem(t, i)
    PROVE  CompensationInv'
<1> DEFINE o == thread[t].o
<1>1. o \in Orders /\ Compensating(t, o) /\ thread[t].pc = "release"
    BY WorkingType DEF ReleaseItem, At, Compensating, TypeOK
<1>2. /\ order' = order
      /\ \A u \in Threads : u # t => thread'[u] = thread[u]
      /\ thread'[t].o = o /\ thread'[t].pc = "release"
      /\ thread'[t].items = thread[t].items \ {i}
    BY <1>1 DEF ReleaseItem, TypeOK, ThreadState
<1>3. released[o][i] = 0 /\ i \in thread[t].items
    BY <1>1 DEF ReleaseItem, CompensationInv
<1>4. /\ released'[o][i] = 1
      /\ \A p \in Orders, j \in Items :
            p # o \/ j # i => released'[p][j] = released[p][j]
    BY <1>1, <1>3 DEF ReleaseItem, TypeOK
<1>5. \A u \in Threads, p \in Orders : Compensating(u, p)' <=> Compensating(u, p)
    BY <1>1, <1>2 DEF Compensating
<1>6. ASSUME NEW u \in Threads, NEW p \in Orders, Compensating(u, p)'
      PROVE  /\ order'[p].ws \notin LiveStatus
             /\ \A v \in Threads : Compensating(v, p)' => v = u
             /\ \A j \in Items :
                   released'[p][j] =
                       IF At(u, "release")' /\ j \notin thread'[u].items
                       THEN 1 ELSE 0
  <2>1. CASE u = t
    <3>1. p = o
        BY <1>2, <1>6, <2>1 DEF Compensating
    <3> QED
        BY <1>1, <1>2, <1>3, <1>4, <1>5, <2>1, <3>1 DEF CompensationInv, At
  <2>2. CASE u # t
    <3>1. p # o
        BY <1>1, <1>5, <1>6, <2>2 DEF CompensationInv
    <3> QED
        BY <1>2, <1>4, <1>5, <1>6, <2>2, <3>1 DEF CompensationInv, At
  <2> QED
      BY <2>1, <2>2
<1>7. ReleaseOnce' /\ ReservationHonest'
    BY <1>2, <1>4 DEF CompensationInv, ReleaseOnce, ReservationHonest
<1>8. GoodsGivenBackNotLive'
    BY <1>1, <1>2, <1>4 DEF CompensationInv, GoodsGivenBackNotLive
<1> QED
    BY <1>6, <1>7, <1>8 DEF CompensationInv

LEMMA CompensateSaveStep ==
    ASSUME TypeOK, CompensationInv, NEW t \in Threads, CompensateSave(t)
    PROVE  CompensationInv'
<1> DEFINE o == thread[t].o
<1>1. o \in Orders /\ Compensating(t, o)
    BY WorkingType DEF CompensateSave, At, Compensating, TypeOK
<1>2. \A i \in Items : released[o][i] = 1
    BY <1>1 DEF CompensateSave, CompensationInv
<1>3. /\ released' = released
      /\ \A p \in Orders : order'[p].ws = order[p].ws
      /\ \A p \in Orders : p # o => order'[p] = order[p]
      /\ \A u \in Threads : u # t => thread'[u] = thread[u]
      /\ thread'[t].pc = "count_active"
    BY <1>1 DEF CompensateSave, Put, Goto, Stock, TypeOK, OrderDoc, ThreadState
<1>4. ASSUME NEW u \in Threads, NEW p \in Orders, Compensating(u, p)'
      PROVE  u # t /\ thread'[u] = thread[u] /\ Compensating(u, p)
    BY <1>3, <1>4 DEF Compensating
<1>5. ASSUME NEW u \in Threads, NEW p \in Orders, Compensating(u, p)'
      PROVE  /\ order'[p].ws \notin LiveStatus
             /\ \A v \in Threads : Compensating(v, p)' => v = u
             /\ \A i \in Items :
                   released'[p][i] =
                       IF At(u, "release")' /\ i \notin thread'[u].items
                       THEN 1 ELSE 0
    BY <1>3, <1>4, <1>5 DEF CompensationInv, At
<1>6. ReservationHonest'
    BY <1>2, <1>3 DEF CompensationInv, ReservationHonest
<1>7. ReleaseOnce' /\ GoodsGivenBackNotLive'
    BY <1>3 DEF CompensationInv, ReleaseOnce, GoodsGivenBackNotLive
<1> QED
    BY <1>5, <1>6, <1>7 DEF CompensationInv

\* Every other step is quiet.  First the ones that leave the threads alone ...
LEMMA OneStepQuiet ==
    ASSUME TypeOK,
           CreatePayment \/ \E o \in Orders : DeadlinePasses(o) \/ OneStepRequest(o)
    PROVE  Quiet
<1>1. CASE CreatePayment
    BY <1>1 DEF CreatePayment, Quiet, Stock
<1>2. ASSUME NEW o \in Orders, DeadlinePasses(o) \/ OneStepRequest(o)
      PROVE  Quiet
  <2>1. /\ order'[o].stock = order[o].stock
        /\ order'[o].ws \in LiveStatus => order[o].ws \in LiveStatus
        /\ \A p \in Orders : p # o => order'[p] = order[p]
    <3>1. CASE DeadlinePasses(o)
        BY <3>1, PutAt DEF DeadlinePasses, TypeOK, OrderDoc
    <3>2. CASE OneStepRequest(o)
        BY <3>2, PutAt, MovedAt
           DEF OneStepRequest, SellerAccept, MarkArrivedAtStore, ConfirmPickup,
               VerifyHandoffOtp, TypeOK, LiveStatus, WorkflowStatus
    <3> QED
        BY <1>2, <3>1, <3>2
  <2>2. released' = released /\ thread' = thread
      BY <1>2
         DEF DeadlinePasses, OneStepRequest, SellerAccept, MarkArrivedAtStore,
             ConfirmPickup, VerifyHandoffOtp, Stock
  <2> QED
      BY <2>1, <2>2 DEF Quiet
<1> QED
    BY <1>1, <1>2

\* ... then those of a thread: what it does to its own state and one order.
LEMMA ThreadQuiet ==
    ASSUME TypeOK, NEW t \in Threads,
           released' = released,
           \A u \in Threads : u # t => thread'[u] = thread[u],
           thread'[t].pc \notin {"compensate", "release"},
           \A o \in Orders :
              /\ order'[o].stock = order[o].stock
              /\ order'[o].ws \in LiveStatus => order[o].ws \in LiveStatus
    PROVE  Quiet
BY DEF Quiet

LEMMA StartQuiet ==
    ASSUME TypeOK, NEW t \in Threads, NEW o \in Orders,
           JobStart(t, o) \/ Request(t, o),
           ~SellerReject(t, o), ~CustomerCancel(t, o)
    PROVE  Quiet
<1>1. CASE JobStart(t, o) \/ OtpEndpointRead(t, o)
           \/ (\E r \in Riders : SkipRead(t, o, r))
           \/ (\E e \in Edits : EditRead(t, o, e))
  <2>1. /\ order' = order /\ released' = released
        /\ \A u \in Threads : u # t => thread'[u] = thread[u]
      BY <1>1
         DEF JobStart, SellerTimeoutRead, PaymentTimeoutFind,
             DeliveryTimeoutRead, OtpEndpointRead, SkipRead, EditRead, Begin,
             Stock, TypeOK
  <2>2. thread'[t].pc \in {"seller_timeout", "payment_timeout",
                            "delivery_timeout", "otp_deliver", "skip", "correct"}
    <3>1. CASE JobStart(t, o) \/ OtpEndpointRead(t, o)
        BY <3>1, BeginAt
           DEF JobStart, SellerTimeoutRead, PaymentTimeoutFind,
               DeliveryTimeoutRead, OtpEndpointRead, TypeOK, Idle
    <3>2. ASSUME NEW r \in Riders, SkipRead(t, o, r)
          PROVE  thread'[t].pc = "skip"
        BY <3>2 DEF SkipRead, TypeOK, Idle
    <3>3. ASSUME NEW e \in Edits, EditRead(t, o, e)
          PROVE  thread'[t].pc = "correct"
        BY <3>3 DEF EditRead, TypeOK, Idle
    <3> QED
        BY <1>1, <3>1, <3>2, <3>3
  <2> QED
      BY <2>1, <2>2, ThreadQuiet
<1>2. CASE ProcessToDelivery(t, o)
  <2>1. \A p \in Orders :
            /\ order'[p].stock = order[p].stock
            /\ order'[p].ws \in LiveStatus => order[p].ws \in LiveStatus
      BY <1>2 DEF ProcessToDelivery, Put, Moved, TypeOK, OrderDoc, LiveStatus,
                  WorkflowStatus
  <2>2. /\ released' = released
        /\ \A u \in Threads : u # t => thread'[u] = thread[u]
        /\ thread'[t].pc = "broadcast"
      BY <1>2, BeginAt DEF ProcessToDelivery, Stock, TypeOK
  <2> QED
      BY <2>1, <2>2, ThreadQuiet
<1>3. ASSUME NEW r \in Riders, DeliveryAccept(t, o, r)
      PROVE  Quiet
  <2>1. \A p \in Orders :
            /\ order'[p].stock = order[p].stock
            /\ order'[p].ws \in LiveStatus => order[p].ws \in LiveStatus
      BY <1>3 DEF DeliveryAccept, Put, Moved, TypeOK, OrderDoc, LiveStatus,
                  WorkflowStatus
  <2>2. /\ released' = released
        /\ \A u \in Threads : u # t => thread'[u] = thread[u]
        /\ thread'[t].pc = "retract"
      BY <1>3, BeginAt DEF DeliveryAccept, Stock, TypeOK
  <2> QED
      BY <2>1, <2>2, ThreadQuiet
<1> QED
    BY <1>1, <1>2, <1>3 DEF Request

LEMMA ContinueQuiet ==
    ASSUME TypeOK, NEW t \in Threads,
           \/ WidenSearch(t) \/ EscalateSearch(t) \/ Broadcast(t)
           \/ CountActive(t) \/ CloseGroup(t)
           \/ VerifyPayment(t) \/ (\E o \in Orders : CaptureFinance(t, o))
           \/ CaptureMove(t) \/ CaptureGroup(t)
           \/ RetractOffer(t) \/ SkipSave(t) \/ OtpEndpointDeliver(t)
           \/ (\E i \in Items : CorrectItem(t, i))
           \/ EditSave(t) \/ Crash(t)
    PROVE  Quiet
<1> DEFINE o == thread[t].o
<1> USE DEF Stock
<1>1. CASE WidenSearch(t) \/ EscalateSearch(t)
  <2>1. o \in Orders
      BY <1>1, WorkingType DEF WidenSearch, EscalateSearch, At, TypeOK
  <2>2. \A p \in Orders : /\ order'[p].stock = order[p].stock
                          /\ order'[p].ws = order[p].ws
    <3> DEFINE widened == [order[o] EXCEPT !.expired = FALSE,
                                           !.attempt = thread[t].seen + 1]
               escal == [order[o] EXCEPT !.expired = FALSE, !.escalated = TRUE,
                                         !.attempt = thread[t].seen + 1]
    <3>1. /\ widened.stock = order[o].stock /\ widened.ws = order[o].ws
          /\ escal.stock = order[o].stock /\ escal.ws = order[o].ws
        BY <2>1 DEF TypeOK, OrderDoc
    <3> HIDE DEF widened, escal
    <3>2. order' = order \/ Put(o, widened) \/ Put(o, escal)
        BY <1>1 DEF WidenSearch, EscalateSearch, widened, escal
    <3> QED
        BY <2>1, <3>1, <3>2 DEF Put, TypeOK
  <2>3. /\ released' = released
        /\ \A u \in Threads : u # t => thread'[u] = thread[u]
        /\ thread'[t].pc \in {"broadcast", "idle"}
      BY <1>1 DEF WidenSearch, EscalateSearch, Goto, Finish, Idle, TypeOK,
                  ThreadState
  <2> QED
      BY <2>2, <2>3, ThreadQuiet
<1>2. CASE CountActive(t)
  <2>1. /\ order' = order /\ released' = released
        /\ \A u \in Threads : u # t => thread'[u] = thread[u]
        /\ thread'[t].pc \in {"close_group", "idle"}
      BY <1>2 DEF CountActive, Goto, Finish, Idle, TypeOK, ThreadState
  <2> QED
      BY <2>1, ThreadQuiet
<1>3. CASE \/ Broadcast(t) \/ CloseGroup(t) \/ CaptureGroup(t)
           \/ RetractOffer(t) \/ Crash(t)
  <2>1. /\ order' = order /\ released' = released
        /\ \A u \in Threads : u # t => thread'[u] = thread[u]
        /\ thread'[t].pc = "idle"
      BY <1>3 DEF Broadcast, CloseGroup, CaptureGroup, RetractOffer, Crash,
                  Finish, Idle, TypeOK, ThreadState
  <2> QED
      BY <2>1, ThreadQuiet
<1>4. CASE VerifyPayment(t)
  <2>1. /\ order' = order /\ released' = released
        /\ \A u \in Threads : u # t => thread'[u] = thread[u]
        /\ thread'[t].pc = "capture"
      BY <1>4 DEF VerifyPayment, Idle, TypeOK, ThreadState
  <2> QED
      BY <2>1, ThreadQuiet
<1>5. ASSUME NEW p \in Orders, CaptureFinance(t, p)
      PROVE  Quiet
  <2>1. \A q \in Orders : /\ order'[q].stock = order[q].stock
                          /\ order'[q].ws = order[q].ws
      BY <1>5 DEF CaptureFinance, Put, TypeOK, OrderDoc
  <2>2. /\ released' = released
        /\ \A u \in Threads : u # t => thread'[u] = thread[u]
        /\ thread'[t].pc = "move"
      BY <1>5 DEF CaptureFinance, TypeOK, ThreadState
  <2> QED
      BY <2>1, <2>2, ThreadQuiet
<1>6. CASE CaptureMove(t)
  <2>1. o \in Orders
      BY <1>6, WorkingType DEF CaptureMove, At, TypeOK
  <2>2. \A p \in Orders :
            /\ order'[p].stock = order[p].stock
            /\ order'[p].ws \in LiveStatus => order[p].ws \in LiveStatus
    <3> DEFINE moved == [order[o] EXCEPT !.ws = "SELLER_PENDING",
                                         !.expired = FALSE]
    <3>1. moved.stock = order[o].stock
        BY <2>1 DEF TypeOK, OrderDoc
    <3> HIDE DEF moved
    <3>2. order' = order \/ (Put(o, moved) /\ order[o].ws = "CREATED")
        BY <1>6 DEF CaptureMove, moved
    <3> QED
        BY <2>1, <3>1, <3>2 DEF Put, TypeOK, LiveStatus, WorkflowStatus
  <2>3. /\ released' = released
        /\ \A u \in Threads : u # t => thread'[u] = thread[u]
        /\ thread'[t].pc = "capture"
      BY <1>6 DEF CaptureMove, Goto, TypeOK, ThreadState
  <2> QED
      BY <2>2, <2>3, ThreadQuiet
<1>7. CASE SkipSave(t) \/ OtpEndpointDeliver(t) \/ EditSave(t)
  <2>1. o \in Orders
      BY <1>7, WorkingType DEF SkipSave, OtpEndpointDeliver, EditSave, At, TypeOK
  <2>2. \A p \in Orders :
            /\ order'[p].stock = order[p].stock
            /\ order'[p].ws \in LiveStatus => order[p].ws \in LiveStatus
    <3>1. CASE SkipSave(t)
        BY <2>1, <3>1 DEF SkipSave, Put, TypeOK, OrderDoc
    <3>2. CASE OtpEndpointDeliver(t)
        BY <2>1, <3>2, PutAt, MovedAt DEF OtpEndpointDeliver, TypeOK, LiveStatus
    <3>3. CASE EditSave(t)
        BY <2>1, <3>3 DEF EditSave, Put, TypeOK, OrderDoc
    <3> QED
        BY <1>7, <3>1, <3>2, <3>3
  <2>3. /\ released' = released
        /\ \A u \in Threads : u # t => thread'[u] = thread[u]
        /\ thread'[t].pc = "idle"
      BY <1>7 DEF SkipSave, OtpEndpointDeliver, EditSave, Finish, Idle, TypeOK,
                  ThreadState
  <2> QED
      BY <2>2, <2>3, ThreadQuiet
<1>8. ASSUME NEW i \in Items, CorrectItem(t, i)
      PROVE  Quiet
  <2>1. /\ order' = order /\ released' = released
        /\ \A u \in Threads : u # t => thread'[u] = thread[u]
        /\ thread'[t].pc = "correct"
      BY <1>8 DEF CorrectItem, At, TypeOK, ThreadState
  <2> QED
      BY <2>1, ThreadQuiet
<1> QED
    BY <1>1, <1>2, <1>3, <1>4, <1>5, <1>6, <1>7, <1>8

LEMMA NextCompensation ==
    ASSUME TypeOK, CompensationInv, [Next]_vars
    PROVE  CompensationInv'
<1>1. CASE CreatePayment \/ \E o \in Orders : DeadlinePasses(o) \/ OneStepRequest(o)
    BY <1>1, OneStepQuiet, QuietStep
<1>2. ASSUME NEW t \in Threads, NEW o \in Orders,
             JobStart(t, o) \/ Request(t, o)
      PROVE  CompensationInv'
  <2>1. CASE SellerReject(t, o) \/ CustomerCancel(t, o)
    <3>1. /\ order[o].ws \in LiveStatus
          /\ Put(o, Moved(o, "CANCELLED")) /\ released' = released
        BY <2>1 DEF SellerReject, CustomerCancel, Stock, LiveStatus, WorkflowStatus
    <3>2. /\ thread' = [thread EXCEPT ![t] = thread'[t]]
          /\ thread'[t].pc = "compensate" /\ thread'[t].o = o
        BY <2>1 DEF SellerReject, CustomerCancel, Begin, Idle, TypeOK
    <3> QED
        BY <3>1, <3>2, CancelStep
  <2>2. CASE ~SellerReject(t, o) /\ ~CustomerCancel(t, o)
      BY <1>2, <2>2, StartQuiet, QuietStep
  <2> QED
      BY <2>1, <2>2
<1>3. ASSUME NEW t \in Threads, Continue(t) \/ Crash(t) \/ VerifyPayment(t)
      PROVE  CompensationInv'
  <2>1. CASE SellerTimeoutCancel(t) \/ PaymentTimeoutCancel(t)
    <3> DEFINE o == thread[t].o
    <3>1. o \in Orders
        BY <2>1, WorkingType
           DEF SellerTimeoutCancel, PaymentTimeoutCancel, At, TypeOK
    <3>2. released' = released
        BY <2>1 DEF SellerTimeoutCancel, PaymentTimeoutCancel, Stock
    <3>3. CASE /\ order[o].ws \in LiveStatus
               /\ Put(o, Moved(o, "CANCELLED")) /\ Goto(t, "compensate")
      <4>1. /\ thread' = [thread EXCEPT ![t] = thread'[t]]
            /\ thread'[t].pc = "compensate" /\ thread'[t].o = o
          BY <3>3 DEF Goto, TypeOK, ThreadState
      <4> QED
          BY <3>1, <3>2, <3>3, <4>1, CancelStep
    <3>4. CASE order' = order /\ Finish(t)
      <4>1. /\ \A u \in Threads : u # t => thread'[u] = thread[u]
            /\ thread'[t].pc = "idle"
          BY <3>4 DEF Finish, Idle, TypeOK, ThreadState
      <4> QED
          BY <3>2, <3>4, <4>1, ThreadQuiet, QuietStep
    <3> QED
        BY <2>1, <3>3, <3>4
           DEF SellerTimeoutCancel, PaymentTimeoutCancel, LiveStatus,
               WorkflowStatus
  <2>2. CASE CompensateRead(t) \/ CompensateSave(t)
             \/ \E i \in Items : ReleaseItem(t, i)
      BY <2>2, CompensateReadStep, CompensateSaveStep, ReleaseItemStep
  <2>3. CASE ~\/ SellerTimeoutCancel(t) \/ PaymentTimeoutCancel(t)
              \/ CompensateRead(t) \/ CompensateSave(t)
              \/ \E i \in Items : ReleaseItem(t, i)
      BY <1>3, <2>3, ContinueQuiet, QuietStep DEF Continue
  <2> QED
      BY <2>1, <2>2, <2>3
<1>4. CASE UNCHANGED vars
    BY <1>4, QuietStep DEF vars, Quiet
<1> QED
    BY <1>1, <1>2, <1>3, <1>4 DEF Next, Threads

LEMMA InitCompensation == Init => CompensationInv
<1> SUFFICES ASSUME Init PROVE CompensationInv
    OBVIOUS
<1>1. \A t \in Threads : thread[t].pc = "idle"
    BY DEF Init, Idle
<1>2. \A o \in Orders, i \in Items : released[o][i] = 0
    BY DEF Init
<1>3. \A o \in Orders : order[o].stock # "RELEASED"
    BY DEF Init, PlacedOrder
<1> QED
    BY <1>1, <1>2, <1>3
       DEF CompensationInv, Compensating, ReleaseOnce, GoodsGivenBackNotLive,
           ReservationHonest

\* However many timeouts, cancels, rejections, crashes and edits interleave,
\* at most one thread ever compensates an order, and it does so item by item.
THEOREM CompensationCorrect == Spec => []CompensationInv
<1>1. TypeOK /\ CompensationInv /\ [Next]_vars => (TypeOK /\ CompensationInv)'
    BY NextType, NextCompensation
<1> QED
    BY <1>1, InitType, InitCompensation, PTL DEF Spec

\* No unit of any order is ever given back twice by compensation.
THEOREM ReleasedOnce == Spec => []ReleaseOnce
<1>1. CompensationInv => ReleaseOnce
    BY DEF CompensationInv
<1> QED
    BY <1>1, CompensationCorrect, PTL

\* No unit of an order that is still being prepared or carried is on sale.
THEOREM NothingBackWhileLive == Spec => []GoodsGivenBackNotLive
<1>1. CompensationInv => GoodsGivenBackNotLive
    BY DEF CompensationInv
<1> QED
    BY <1>1, CompensationCorrect, PTL

\* An order whose reservation reads RELEASED has had every unit given back.
THEOREM ReservationCorrect == Spec => []ReservationHonest
<1>1. CompensationInv => ReservationHonest
    BY DEF CompensationInv
<1> QED
    BY <1>1, CompensationCorrect, PTL
-------------------------------------------------------------------------------
(* The path of an order.                                                   *)


\* No administrator assigns a rider by hand.
Riderless == \A e \in Edits : e.rider = NoRider

\* The path has not been left: no edit so far, or none that assigns a rider.
OnPath == edits = 0 \/ Riderless

\* An order with a rider is on its way to the customer, or has arrived.
Carried == {"DELIVERY_ASSIGNED", "PICKUP_READY", "OUT_FOR_DELIVERY", "DELIVERED"}

AllDead == \A o \in Orders : order[o].ws = "CANCELLED"

ThreadOK(th) ==
    /\ th.pc = "move" => order[th.o].pay = "PAID"
    /\ th.pc = "otp_deliver" => order[th.o].rider # NoRider
    /\ th.pc = "correct" => edits > 0 /\ (Riderless => th.edit.rider = NoRider)
    /\ th.pc = "close_group" => (edits = 0 => AllDead)
    /\ th.pc \in {"compensate", "release"} => (OnPath => order[th.o].ws = "CANCELLED")

PathInv ==
    /\ PaidBeforeSeller
    /\ \A t \in Threads : ThreadOK(thread[t])
    /\ OnPath => \A o \in Orders : order[o].rider # NoRider => order[o].ws \in Carried
    /\ edits = 0 => \A o \in Orders :
                        order[o].status = "cancelled" => order[o].ws = "CANCELLED"
    /\ GroupCancelledOnlyWhenDead
-----------------------------------------------------------------------------
(* What one write of a handler does to an order document.                  *)

\* Moves of the workflow that keep the rider.
Moves ==
    {<<"CREATED", "SELLER_PENDING">>, <<"CREATED", "CANCELLED">>,
     <<"SELLER_PENDING", "CANCELLED">>, <<"SELLER_PENDING", "SELLER_ACCEPTED">>,
     <<"SELLER_ACCEPTED", "DELIVERY_SEARCH">>, <<"DELIVERY_ASSIGNED", "PICKUP_READY">>,
     <<"DELIVERY_ASSIGNED", "OUT_FOR_DELIVERY">>, <<"PICKUP_READY", "OUT_FOR_DELIVERY">>,
     <<"OUT_FOR_DELIVERY", "DELIVERED">>}

Stays(old, new) ==
    /\ new.ws = old.ws
    /\ new.rider = old.rider \/ (new.rider # NoRider /\ ~OnPath)

GoesOn(old, new) ==
    /\ <<old.ws, new.ws>> \in Moves
    /\ new.rider = old.rider
    /\ old.ws = "CREATED" /\ new.ws = "SELLER_PENDING" => old.pay = "PAID"

GetsRider(old, new) ==
    /\ old.ws = "DELIVERY_SEARCH" /\ new.ws = "DELIVERY_ASSIGNED"
    /\ old.rider = NoRider /\ new.rider # NoRider

IsHandedOver(old, new) ==
    /\ new.ws = "DELIVERED"
    /\ new.rider = old.rider /\ old.rider # NoRider

Follows(old, new) ==
    /\ new.mode = old.mode
    /\ old.pay = "PAID" => new.pay = "PAID"
    /\ \/ new.status = old.status
       \/ edits > 0
       \/ new.status = "cancelled" => new.ws = "CANCELLED"
    /\ \/ Stays(old, new) \/ GoesOn(old, new)
       \/ GetsRider(old, new) \/ IsHandedOver(old, new)

\* A step writes one order at most.
OneFollows ==
    \/ order' = order
    \/ \E o \in Orders, doc \in OrderDoc : Put(o, doc) /\ Follows(order[o], doc)

\* A thread that the step leaves where it is, and as it is.
SameWork(u) ==
    /\ thread'[u].pc = thread[u].pc
    /\ thread'[u].o = thread[u].o /\ thread'[u].edit = thread[u].edit

Plain == PC \ {"move", "otp_deliver", "correct", "close_group", "compensate", "release"}

\* What every step of every handler amounts to.
PathStep ==
    /\ OneFollows
    /\ \A u \in Threads :
           SameWork(u) \/ thread'[u].pc \in Plain \/ ThreadOK(thread[u])'
    /\ edits' \in {edits, edits + 1}
    /\ \/ group' = group
       \/ group'.status # "CANCELLED"
       \/ \E t \in Threads : At(t, "close_group")

LEMMA FollowsOn ==
    ASSUME TypeOK, PathInv, OneFollows, NEW o \in Orders
    PROVE  \/ order'[o] = order[o]
           \/ Follows(order[o], order'[o])
BY DEF OneFollows, Put, TypeOK

LEMMA PathKept ==
    ASSUME TypeOK, PathInv, PathStep, edits' \in 0 .. MaxEdits
    PROVE  PathInv'
<1>e. edits \in Nat /\ edits' \in Nat /\ edits <= edits'
  BY BoundsAssumption DEF TypeOK, PathStep
<1>p. OnPath' => OnPath
  BY <1>e DEF OnPath
<1>f. \A o \in Orders : order'[o] = order[o] \/ Follows(order[o], order'[o])
  BY FollowsOn DEF PathStep
<1>t. \A o \in Orders : order[o] \in OrderDoc
  BY DEF TypeOK
<1>1. PaidBeforeSeller'
  <2> SUFFICES ASSUME NEW o \in Orders, order'[o].mode = "ONLINE",
                      order'[o].ws \in LiveStatus \ {"CREATED"}
               PROVE  order'[o].pay = "PAID"
    BY DEF PaidBeforeSeller
  <2>1. CASE order'[o] = order[o]
    BY <2>1 DEF PathInv, PaidBeforeSeller
  <2>2. CASE Follows(order[o], order'[o])
    <3>1. order[o].mode = "ONLINE" /\ (order[o].pay = "PAID" => order'[o].pay = "PAID")
      BY <2>2 DEF Follows
    <3>2. order[o].ws \in LiveStatus \ {"CREATED"} \/ order[o].pay = "PAID"
      BY <2>2 DEF Follows, Stays, GoesOn, GetsRider, IsHandedOver, Moves, LiveStatus,
                  WorkflowStatus
    <3> QED BY <3>1, <3>2 DEF PathInv, PaidBeforeSeller
  <2> QED BY <1>f, <2>1, <2>2
<1>2. OnPath' => \A o \in Orders : order'[o].rider # NoRider => order'[o].ws \in Carried
  <2> SUFFICES ASSUME OnPath, NEW o \in Orders, order'[o].rider # NoRider
               PROVE  order'[o].ws \in Carried
    BY <1>p
  <2>1. order[o].rider # NoRider => order[o].ws \in Carried
    BY DEF PathInv
  <2>2. CASE order'[o] = order[o]
    BY <2>1, <2>2
  <2>3. CASE Follows(order[o], order'[o])
    BY <2>1, <2>3 DEF Follows, Stays, GoesOn, GetsRider, IsHandedOver, Moves, Carried
  <2> QED BY <1>f, <2>2, <2>3
<1>3. ASSUME OnPath', NEW o \in Orders, order[o].ws = "CANCELLED"
      PROVE  order'[o].ws = "CANCELLED"
  <2>1. order[o].rider = NoRider
    BY <1>p, <1>3 DEF PathInv, Carried
  <2> QED BY <1>f, <1>3, <2>1 DEF Follows, Stays, GoesOn, GetsRider, IsHandedOver, Moves
<1>4. edits' = 0 => \A o \in Orders :
                        order'[o].status = "cancelled" => order'[o].ws = "CANCELLED"
  <2> SUFFICES ASSUME edits' = 0, NEW o \in Orders, order'[o].status = "cancelled"
               PROVE  order'[o].ws = "CANCELLED"
    OBVIOUS
  <2>1. edits = 0 /\ OnPath'
    BY <1>e DEF OnPath
  <2>2. CASE order[o].status = "cancelled"
    BY <1>3, <2>1, <2>2 DEF PathInv
  <2>3. CASE order[o].status # "cancelled"
    <3>1. order'[o] # order[o]
      BY <2>3
    <3>2. Follows(order[o], order'[o])
      BY <1>f, <3>1
    <3> QED BY <2>1, <2>3, <3>2, <1>e DEF Follows
  <2> QED BY <2>2, <2>3
<1>5. edits' = 0 /\ AllDead => AllDead'
  BY <1>3 DEF AllDead, OnPath
<1>6. \A t \in Threads : ThreadOK(thread[t])'
  <2> SUFFICES ASSUME NEW t \in Threads, SameWork(t)
               PROVE  ThreadOK(thread[t])'
    BY DEF PathStep, Plain, ThreadOK
  <2>1. ThreadOK(thread[t])
    BY DEF PathInv
  <2>2. At(t, "move") \/ At(t, "otp_deliver") => thread[t].o \in Orders
    BY WorkingType DEF At, TypeOK
  <2>3. At(t, "move") => order'[thread[t].o].pay = "PAID"
    BY <1>f, <2>1, <2>2 DEF At, ThreadOK, Follows
  <2>4. At(t, "otp_deliver") => order'[thread[t].o].rider # NoRider
    BY <1>f, <2>1, <2>2 DEF At, ThreadOK, Follows, Stays, GoesOn, GetsRider, IsHandedOver
  <2>5. At(t, "correct") => edits' > 0 /\ (Riderless => thread[t].edit.rider = NoRider)
    BY <1>e, <2>1 DEF At, ThreadOK
  <2>6. At(t, "close_group") => (edits' = 0 => AllDead')
    BY <1>e, <1>5, <2>1 DEF At, ThreadOK
  <2>7. Riderless' <=> Riderless
    BY DEF Riderless
  <2>8. thread[t].pc \in {"compensate", "release"} =>
            (OnPath' => order'[thread[t].o].ws = "CANCELLED")
    <3>1. thread[t].pc \in {"compensate", "release"} => thread[t].o \in Orders
      BY WorkingType DEF At, TypeOK
    <3> QED BY <1>3, <1>p, <2>1, <3>1 DEF ThreadOK
  <2> QED BY <2>3, <2>4, <2>5, <2>6, <2>7, <2>8 DEF At, ThreadOK, SameWork
<1>7. GroupCancelledOnlyWhenDead'
  <2> SUFFICES ASSUME edits' = 0, group'.status = "CANCELLED"
               PROVE  AllDead'
    BY DEF GroupCancelledOnlyWhenDead, AllDead
  <2>1. edits = 0
    BY <1>e
  <2>2. AllDead
    BY <2>1 DEF PathStep, PathInv, GroupCancelledOnlyWhenDead, AllDead, ThreadOK, At
  <2> QED BY <1>5, <2>2
<1> QED BY <1>1, <1>2, <1>4, <1>6, <1>7 DEF PathInv
-----------------------------------------------------------------------------
(* Every step is such a step.                                              *)

LEMMA WriteFollows ==
    ASSUME TypeOK, NEW o \in Orders, NEW doc, Put(o, doc), doc \in OrderDoc,
           Follows(order[o], doc)
    PROVE  OneFollows
BY DEF OneFollows

\* A document whose place in the workflow, rider and payment are left alone.
SameCourse(old, new) ==
    /\ new.mode = old.mode /\ (new.pay = old.pay \/ new.pay = "PAID")
    /\ new.ws = old.ws /\ new.rider = old.rider /\ new.status = old.status

LEMMA StaysFollows ==
    ASSUME NEW old, NEW new, SameCourse(old, new)
    PROVE  Follows(old, new)
BY DEF Follows, Stays, SameCourse

LEMMA MovedFollows ==
    ASSUME TypeOK, NEW o \in Orders, NEW w \in WorkflowStatus,
           \/ /\ <<order[o].ws, w>> \in Moves
              /\ order[o].ws # "CREATED" \/ w # "SELLER_PENDING"
           \/ w = "DELIVERED" /\ order[o].rider # NoRider
    PROVE  Follows(order[o], Moved(o, w)) /\ Moved(o, w) \in OrderDoc
<1>1. order[o] \in OrderDoc /\ Moved(o, w) \in OrderDoc
  BY MovedType DEF TypeOK
<1>2. /\ Moved(o, w).ws = w /\ Moved(o, w).mode = order[o].mode
      /\ Moved(o, w).pay = order[o].pay /\ Moved(o, w).rider = order[o].rider
  BY MovedAt DEF TypeOK
<1>3. Moved(o, w).status = LegacyStatus(w)
  BY <1>1 DEF Moved, OrderDoc
<1>4. LegacyStatus(w) = "cancelled" => w = "CANCELLED"
  BY DEF LegacyStatus, WorkflowStatus
<1>5. Stays(order[o], Moved(o, w)) \/ GoesOn(order[o], Moved(o, w))
      \/ IsHandedOver(order[o], Moved(o, w))
  BY <1>2 DEF GoesOn, IsHandedOver
<1> QED BY <1>1, <1>2, <1>3, <1>4, <1>5 DEF Follows

\* Where the thread of a step goes.
LEMMA PlainlyOn ==
    ASSUME TypeOK, NEW t \in Threads,
           \A u \in Threads : u # t => thread'[u] = thread[u],
           thread'[t].pc \in Plain \/ ThreadOK(thread[t])' \/ SameWork(t)
    PROVE  \A u \in Threads :
               SameWork(u) \/ thread'[u].pc \in Plain \/ ThreadOK(thread[u])'
BY DEF SameWork

LEMMA IdlePlain == Idle.pc = "idle" /\ "idle" \in Plain
BY DEF Idle, Plain, PC

LEMMA FinishPlain ==
    ASSUME TypeOK, NEW t \in Threads, Finish(t)
    PROVE  /\ \A u \in Threads : u # t => thread'[u] = thread[u]
           /\ thread'[t].pc \in Plain
BY IdlePlain DEF Finish, TypeOK

LEMMA GotoPlain ==
    ASSUME TypeOK, NEW t \in Threads, NEW pc, Goto(t, pc)
    PROVE  /\ \A u \in Threads : u # t => thread'[u] = thread[u]
           /\ thread'[t].pc = pc /\ thread'[t].o = thread[t].o
           /\ thread'[t].edit = thread[t].edit
BY DEF Goto, TypeOK, ThreadState

LEMMA OneStepPath ==
    ASSUME TypeOK, PathInv,
           CreatePayment \/ \E o \in Orders : DeadlinePasses(o) \/ OneStepRequest(o)
    PROVE  PathStep
<1>1. thread' = thread /\ group' = group /\ edits' = edits
  BY DEF CreatePayment, DeadlinePasses, OneStepRequest, SellerAccept,
         MarkArrivedAtStore, ConfirmPickup, VerifyHandoffOtp, Budgets
<1>2. OneFollows
  <2>1. CASE CreatePayment
    BY <2>1 DEF CreatePayment, OneFollows
  <2>2. ASSUME NEW o \in Orders, DeadlinePasses(o)
        PROVE  OneFollows
    <3> DEFINE doc == [order[o] EXCEPT !.expired = TRUE]
    <3>1. order[o] \in OrderDoc
      BY DEF TypeOK
    <3>2. doc \in OrderDoc /\ SameCourse(order[o], doc)
      BY <3>1 DEF OrderDoc, SameCourse
    <3>3. Put(o, doc)
      BY <2>2 DEF DeadlinePasses
    <3> HIDE DEF doc
    <3> QED BY <3>2, <3>3, StaysFollows, WriteFollows
  <2>3. ASSUME NEW o \in Orders, OneStepRequest(o)
        PROVE  OneFollows
    <3>1. ASSUME NEW w \in WorkflowStatus, Put(o, Moved(o, w)),
                 <<order[o].ws, w>> \in Moves, order[o].ws # "CREATED"
          PROVE  OneFollows
      BY <3>1, MovedFollows, WriteFollows
    <3> QED BY <2>3, <3>1 DEF OneStepRequest, SellerAccept, MarkArrivedAtStore,
                              ConfirmPickup, VerifyHandoffOtp, Moves, WorkflowStatus
  <2> QED BY <2>1, <2>2, <2>3
<1> QED BY <1>1, <1>2 DEF PathStep, SameWork

LEMMA StartPath ==
    ASSUME TypeOK, PathInv, NEW t \in Threads, NEW o \in Orders,
           JobStart(t, o) \/ Request(t, o)
    PROVE  PathStep
<1>b. ASSUME NEW pc \in Plain, Begin(t, pc, o), OneFollows, group' = group, edits' = edits
      PROVE  PathStep
  BY <1>b, BeginAt, PlainlyOn DEF PathStep, TypeOK
<1>1. CASE SellerTimeoutRead(t, o) \/ PaymentTimeoutFind(t, o)
  BY <1>1, <1>b DEF SellerTimeoutRead, PaymentTimeoutFind, Budgets, Plain, PC, OneFollows
<1>2. CASE DeliveryTimeoutRead(t, o) \/ \E r \in Riders : SkipRead(t, o, r)
  <2>1. /\ \A u \in Threads : u # t => thread'[u] = thread[u]
        /\ thread'[t].pc \in Plain
    <3>1. \A r : /\ [Idle EXCEPT !.pc = "delivery_timeout", !.o = o,
                                  !.seen = order[o].attempt].pc = "delivery_timeout"
                 /\ [Idle EXCEPT !.pc = "skip", !.o = o, !.rider = r].pc = "skip"
      BY DEF Idle
    <3>2. \E th : thread' = [thread EXCEPT ![t] = th] /\ th.pc \in {"delivery_timeout", "skip"}
      BY <1>2, <3>1 DEF DeliveryTimeoutRead, SkipRead
    <3> QED BY <3>2 DEF TypeOK, Plain, PC
  <2> QED BY <1>2, <2>1, PlainlyOn DEF DeliveryTimeoutRead, SkipRead, PathStep, OneFollows,
                                       Budgets
<1>3. CASE SellerReject(t, o) \/ CustomerCancel(t, o)
  <2>1. Put(o, Moved(o, "CANCELLED")) /\ order[o].ws = "SELLER_PENDING"
    BY <1>3 DEF SellerReject, CustomerCancel
  <2>2. OneFollows
    BY <2>1, MovedFollows, WriteFollows DEF Moves, WorkflowStatus
  <2>3. order'[o].ws = "CANCELLED"
    BY <2>1, PutAt, MovedAt DEF TypeOK
  <2>4. /\ thread'[t].pc = "compensate" /\ thread'[t].o = o
        /\ \A u \in Threads : u # t => thread'[u] = thread[u]
    BY <1>3, BeginAt DEF SellerReject, CustomerCancel, TypeOK
  <2>5. ThreadOK(thread[t])'
    BY <2>3, <2>4 DEF ThreadOK
  <2> QED BY <1>3, <2>2, <2>4, <2>5, PlainlyOn DEF SellerReject, CustomerCancel, Budgets,
                                                   PathStep
<1>4. CASE ProcessToDelivery(t, o)
  <2> DEFINE m == Moved(o, "DELIVERY_SEARCH")
             doc == [m EXCEPT !.expired = FALSE, !.attempt = 1]
  <2>1. m \in OrderDoc /\ Follows(order[o], m)
    BY <1>4, MovedFollows DEF ProcessToDelivery, Moves, WorkflowStatus
  <2>2. /\ doc \in OrderDoc
        /\ doc.mode = m.mode /\ doc.pay = m.pay /\ doc.ws = m.ws
        /\ doc.rider = m.rider /\ doc.status = m.status
    BY <2>1 DEF OrderDoc
  <2>3. Follows(order[o], doc)
    BY <2>1, <2>2 DEF Follows, Stays, GoesOn, GetsRider, IsHandedOver
  <2>4. OneFollows
    BY <1>4, <2>2, <2>3, WriteFollows DEF ProcessToDelivery
  <2> QED BY <1>4, <1>b, <2>4 DEF ProcessToDelivery, Budgets, Plain, PC
<1>5. ASSUME NEW r \in Riders, DeliveryAccept(t, o, r)
      PROVE  PathStep
  <2> DEFINE m == Moved(o, "DELIVERY_ASSIGNED")
             doc == [m EXCEPT !.rider = r]
  <2>1. /\ m \in OrderDoc /\ m.ws = "DELIVERY_ASSIGNED"
        /\ m.mode = order[o].mode /\ m.pay = order[o].pay
    BY MovedType, MovedAt DEF TypeOK, WorkflowStatus
  <2>s. m.status # "cancelled"
    <3>1. LegacyStatus("DELIVERY_ASSIGNED") = "confirmed"
      BY DEF LegacyStatus
    <3>2. order[o] \in OrderDoc
      BY DEF TypeOK
    <3> QED BY <3>1, <3>2 DEF Moved, OrderDoc
  <2>2. /\ doc \in OrderDoc /\ doc.ws = m.ws /\ doc.mode = m.mode /\ doc.pay = m.pay
        /\ doc.status = m.status /\ doc.rider = r
    BY <2>1 DEF OrderDoc
  <2>3. GetsRider(order[o], doc)
    BY <1>5, <2>1, <2>2, NoValuesAssumption DEF DeliveryAccept, GetsRider
  <2>4. Follows(order[o], doc)
    BY <2>1, <2>s, <2>2, <2>3 DEF Follows
  <2>5. OneFollows
    BY <1>5, <2>2, <2>4, WriteFollows DEF DeliveryAccept
  <2> QED BY <1>5, <1>b, <2>5 DEF DeliveryAccept, Budgets, Plain, PC
<1>6. CASE OtpEndpointRead(t, o)
  <2>1. /\ thread'[t].pc = "otp_deliver" /\ thread'[t].o = o /\ order' = order
        /\ order[o].rider # NoRider
        /\ \A u \in Threads : u # t => thread'[u] = thread[u]
    BY <1>6, BeginAt DEF OtpEndpointRead, TypeOK
  <2>2. ThreadOK(thread[t])'
    BY <2>1 DEF ThreadOK
  <2> QED BY <1>6, <2>1, <2>2, PlainlyOn DEF OtpEndpointRead, PathStep, OneFollows, Budgets
<1>7. ASSUME NEW e \in Edits, EditRead(t, o, e)
      PROVE  PathStep
  <2>1. /\ thread'[t].pc = "correct" /\ thread'[t].edit = ChangesOf(e, order[o])
        /\ \A u \in Threads : u # t => thread'[u] = thread[u]
    BY <1>7 DEF EditRead, Idle, TypeOK
  <2>2. Riderless => ChangesOf(e, order[o]).rider = NoRider
    BY DEF Riderless, ChangesOf
  <2>3. edits' = edits + 1 /\ edits' > 0
    BY <1>7, BoundsAssumption DEF EditRead, TypeOK
  <2>4. ThreadOK(thread[t])'
    BY <2>1, <2>2, <2>3 DEF ThreadOK, Riderless
  <2> QED BY <1>7, <2>1, <2>3, <2>4, PlainlyOn DEF EditRead, PathStep, OneFollows
<1> QED BY <1>1, <1>2, <1>3, <1>4, <1>5, <1>6, <1>7 DEF JobStart, Request
\* A handler that is not moving, delivering, editing or closing the group.
LEMMA JobStepPath ==
    ASSUME TypeOK, PathInv, NEW t \in Threads,
           \/ SellerTimeoutCancel(t) \/ PaymentTimeoutCancel(t)
           \/ WidenSearch(t) \/ EscalateSearch(t) \/ Broadcast(t)
           \/ CompensateRead(t) \/ CompensateSave(t)
           \/ CountActive(t) \/ CloseGroup(t)
           \/ \E i \in Items : ReleaseItem(t, i)
    PROVE  PathStep
<1> DEFINE o == thread[t].o
<1>w. o \in Orders /\ order[o] \in OrderDoc
  BY WorkingType
     DEF SellerTimeoutCancel, PaymentTimeoutCancel, WidenSearch, EscalateSearch, Broadcast,
         CompensateRead, CompensateSave, CountActive, CloseGroup, ReleaseItem, At, TypeOK
<1>g. ASSUME NEW pc, pc \in Plain, Goto(t, pc) \/ Finish(t), OneFollows,
             group' = group, edits' = edits
      PROVE  PathStep
  BY <1>g, GotoPlain, FinishPlain, PlainlyOn DEF PathStep
<1>s. ASSUME NEW doc \in OrderDoc, SameCourse(order[o], doc), Put(o, doc)
      PROVE  OneFollows
  BY <1>w, <1>s, StaysFollows, WriteFollows
<1>1. CASE SellerTimeoutCancel(t) \/ PaymentTimeoutCancel(t)
  <2>1. UNCHANGED <<group, edits>>
    BY <1>1 DEF SellerTimeoutCancel, PaymentTimeoutCancel, Budgets
  <2>2. CASE order' = order /\ Finish(t)
    BY <2>1, <2>2, FinishPlain, PlainlyOn DEF PathStep, OneFollows
  <2>3. CASE /\ Put(o, Moved(o, "CANCELLED")) /\ <<order[o].ws, "CANCELLED">> \in Moves
             /\ Goto(t, "compensate")
    <3>1. Follows(order[o], Moved(o, "CANCELLED")) /\ Moved(o, "CANCELLED") \in OrderDoc
      BY <1>w, <2>3, MovedFollows DEF WorkflowStatus
    <3>2. OneFollows
      BY <1>w, <2>3, <3>1, WriteFollows
    <3>3. order'[o].ws = "CANCELLED"
      BY <1>w, <2>3, PutAt, MovedAt DEF TypeOK
    <3>4. ThreadOK(thread[t])'
      BY <2>3, <3>3, GotoPlain DEF ThreadOK
    <3> QED BY <2>1, <2>3, <3>2, <3>4, GotoPlain, PlainlyOn DEF PathStep
  <2> QED BY <1>1, <2>2, <2>3 DEF SellerTimeoutCancel, PaymentTimeoutCancel, Moves
<1>2. CASE WidenSearch(t) \/ EscalateSearch(t)
  <2> DEFINE n == thread[t].seen + 1
             widened == [order[o] EXCEPT !.expired = FALSE, !.attempt = n]
             escal == [order[o] EXCEPT !.expired = FALSE, !.escalated = TRUE, !.attempt = n]
  <2>1. n \in Nat
    BY DEF TypeOK, ThreadState
  <2>2. widened \in OrderDoc /\ SameCourse(order[o], widened)
    BY <1>w, <2>1 DEF OrderDoc, SameCourse
  <2>3. escal \in OrderDoc /\ SameCourse(order[o], escal)
    BY <1>w, <2>1 DEF OrderDoc, SameCourse
  <2>4. order' = order \/ Put(o, widened) \/ Put(o, escal)
    BY <1>2 DEF WidenSearch, EscalateSearch
  <2> HIDE DEF widened, escal
  <2>5. OneFollows
    BY <1>s, <2>2, <2>3, <2>4 DEF OneFollows
  <2>6. "broadcast" \in Plain
    BY DEF Plain, PC
  <2> QED BY <1>2, <1>g, <2>5, <2>6 DEF WidenSearch, EscalateSearch, Budgets
<1>3. CASE Broadcast(t)
  <2>1. "idle" \in Plain
    BY DEF Plain, PC
  <2> QED BY <1>3, <1>g, <2>1 DEF Broadcast, OneFollows, Budgets
<1>4. CASE CompensateRead(t)
  <2>1. /\ \A u \in Threads : u # t => thread'[u] = thread[u]
        /\ thread'[t].pc \in {"count_active", "release"} /\ thread'[t].o = o
    BY <1>4 DEF CompensateRead, TypeOK, ThreadState
  <2>2. UNCHANGED <<order, group, edits>>
    BY <1>4 DEF CompensateRead, Budgets
  <2>3. ThreadOK(thread[t])
    BY DEF PathInv
  <2>4. ThreadOK(thread[t])'
    BY <1>4, <2>1, <2>2, <2>3 DEF ThreadOK, CompensateRead, At, OnPath, Riderless
  <2> QED BY <2>1, <2>2, <2>4, PlainlyOn DEF PathStep, OneFollows
<1>5. CASE CompensateSave(t)
  <2> DEFINE doc == [order[o] EXCEPT !.stock = "RELEASED"]
  <2>1. doc \in OrderDoc /\ SameCourse(order[o], doc)
    BY <1>w DEF OrderDoc, SameCourse
  <2>2. Put(o, doc)
    BY <1>5 DEF CompensateSave
  <2> HIDE DEF doc
  <2>3. OneFollows
    BY <1>s, <2>1, <2>2
  <2>4. Goto(t, "count_active") /\ UNCHANGED <<group, edits>>
    BY <1>5 DEF CompensateSave, Budgets
  <2>5. "count_active" \in Plain
    BY DEF Plain, PC
  <2> QED BY <1>g, <2>3, <2>4, <2>5
<1>6. CASE CountActive(t)
  <2>1. UNCHANGED <<order, group, edits>>
    BY <1>6 DEF CountActive, Budgets
  <2>2. CASE Active = {} /\ Goto(t, "close_group")
    <3>1. edits' = 0 => AllDead'
      BY <2>1, <2>2 DEF Active, AllDead, PathInv
    <3>2. ThreadOK(thread[t])'
      BY <2>2, <3>1, GotoPlain DEF ThreadOK
    <3> QED BY <2>1, <2>2, <3>2, GotoPlain, PlainlyOn DEF PathStep, OneFollows
  <2>3. CASE Finish(t)
    BY <2>1, <2>3, FinishPlain, PlainlyOn DEF PathStep, OneFollows
  <2> QED BY <1>6, <2>2, <2>3 DEF CountActive
<1>7. CASE CloseGroup(t)
  BY <1>7, FinishPlain, PlainlyOn DEF CloseGroup, PathStep, OneFollows, Budgets
<1>8. ASSUME NEW i \in Items, ReleaseItem(t, i)
      PROVE  PathStep
  <2>1. /\ \A u \in Threads : u # t => thread'[u] = thread[u]
        /\ SameWork(t)
    BY <1>8 DEF ReleaseItem, TypeOK, ThreadState, SameWork
  <2> QED BY <1>8, <2>1, PlainlyOn DEF ReleaseItem, PathStep, OneFollows, Budgets
<1> QED BY <1>1, <1>2, <1>3, <1>4, <1>5, <1>6, <1>7, <1>8

LEMMA RequestStepPath ==
    ASSUME TypeOK, PathInv, NEW t \in Threads,
           \/ VerifyPayment(t) \/ \E o \in Orders : CaptureFinance(t, o)
           \/ CaptureMove(t) \/ CaptureGroup(t)
           \/ RetractOffer(t) \/ SkipSave(t) \/ OtpEndpointDeliver(t)
           \/ \E i \in Items : CorrectItem(t, i)
           \/ EditSave(t) \/ Crash(t)
    PROVE  PathStep
<1> DEFINE o == thread[t].o
<1>w. At(t, "move") \/ At(t, "skip") \/ At(t, "otp_deliver") \/ At(t, "correct")
        => o \in Orders /\ order[o] \in OrderDoc
  BY WorkingType DEF At, TypeOK
<1>k. ThreadOK(thread[t])
  BY DEF PathInv
<1>1. CASE VerifyPayment(t)
  <2>1. /\ \A u \in Threads : u # t => thread'[u] = thread[u]
        /\ thread'[t].pc \in Plain
    BY <1>1 DEF VerifyPayment, Idle, TypeOK, Plain, PC
  <2> QED BY <1>1, <2>1, PlainlyOn DEF VerifyPayment, PathStep, OneFollows, Budgets
<1>2. ASSUME NEW p \in Orders, CaptureFinance(t, p)
      PROVE  PathStep
  <2> DEFINE doc == [order[p] EXCEPT !.pay = "PAID"]
  <2>0. order[p] \in OrderDoc
    BY DEF TypeOK
  <2>1. doc \in OrderDoc /\ SameCourse(order[p], doc) /\ doc.pay = "PAID"
    BY <2>0 DEF OrderDoc, SameCourse
  <2>2. Put(p, doc)
    BY <1>2 DEF CaptureFinance
  <2> HIDE DEF doc
  <2>3. OneFollows
    BY <2>1, <2>2, StaysFollows, WriteFollows
  <2>4. order'[p].pay = "PAID"
    BY <2>1, <2>2, PutAt DEF TypeOK
  <2>5. /\ \A u \in Threads : u # t => thread'[u] = thread[u]
        /\ thread'[t].pc = "move" /\ thread'[t].o = p
    BY <1>2 DEF CaptureFinance, TypeOK, ThreadState
  <2>6. ThreadOK(thread[t])'
    BY <2>4, <2>5 DEF ThreadOK
  <2> QED BY <1>2, <2>3, <2>5, <2>6, PlainlyOn DEF CaptureFinance, PathStep, Budgets
<1>3. CASE CaptureMove(t)
  <2> DEFINE doc == [order[o] EXCEPT !.ws = "SELLER_PENDING", !.expired = FALSE]
  <2>1. o \in Orders /\ order[o] \in OrderDoc /\ order[o].pay = "PAID"
    BY <1>3, <1>w, <1>k DEF CaptureMove, At, ThreadOK
  <2>2. /\ doc \in OrderDoc /\ doc.ws = "SELLER_PENDING" /\ doc.rider = order[o].rider
        /\ doc.mode = order[o].mode /\ doc.pay = order[o].pay
        /\ doc.status = order[o].status
    BY <2>1 DEF OrderDoc, WorkflowStatus
  <2>3. order' = order \/ (Put(o, doc) /\ order[o].ws = "CREATED")
    BY <1>3 DEF CaptureMove
  <2> HIDE DEF doc
  <2>4. order[o].ws = "CREATED" => Follows(order[o], doc)
    BY <2>1, <2>2 DEF Follows, GoesOn, Moves
  <2>5. OneFollows
    BY <2>1, <2>2, <2>3, <2>4, WriteFollows DEF OneFollows
  <2>6. Goto(t, "capture") /\ UNCHANGED <<group, edits>> /\ "capture" \in Plain
    BY <1>3 DEF CaptureMove, Budgets, Plain, PC
  <2> QED BY <2>5, <2>6, GotoPlain, PlainlyOn DEF PathStep
<1>4. CASE CaptureGroup(t)
  <2>1. group'.status # "CANCELLED"
    BY <1>4 DEF CaptureGroup
  <2> QED BY <1>4, <2>1, FinishPlain, PlainlyOn DEF CaptureGroup, PathStep, OneFollows, Budgets
<1>5. CASE RetractOffer(t) \/ Crash(t)
  BY <1>5, FinishPlain, PlainlyOn DEF RetractOffer, Crash, PathStep, OneFollows, Budgets
<1>6. CASE SkipSave(t)
  <2> DEFINE doc == [order[o] EXCEPT !.skipped = @ \cup {thread[t].rider}]
  <2>1. o \in Orders /\ order[o] \in OrderDoc
    BY <1>6, <1>w DEF SkipSave
  <2>2. order[o].skipped \cup {thread[t].rider} \in SUBSET Riders
    BY <1>6, <2>1 DEF SkipSave, At, TypeOK, ThreadState, OrderDoc
  <2>3. doc \in OrderDoc /\ SameCourse(order[o], doc)
    BY <2>1, <2>2 DEF OrderDoc, SameCourse
  <2>4. Put(o, doc)
    BY <1>6 DEF SkipSave
  <2> HIDE DEF doc
  <2>5. OneFollows
    BY <2>1, <2>3, <2>4, StaysFollows, WriteFollows
  <2> QED BY <1>6, <2>5, FinishPlain, PlainlyOn DEF SkipSave, PathStep, Budgets
<1>7. CASE OtpEndpointDeliver(t)
  <2>1. o \in Orders /\ order[o].rider # NoRider
    BY <1>7, <1>w, <1>k DEF OtpEndpointDeliver, At, ThreadOK
  <2>2. Put(o, Moved(o, "DELIVERED"))
    BY <1>7 DEF OtpEndpointDeliver
  <2>3. Follows(order[o], Moved(o, "DELIVERED")) /\ Moved(o, "DELIVERED") \in OrderDoc
    BY <2>1, MovedFollows DEF WorkflowStatus
  <2>4. OneFollows
    BY <2>1, <2>2, <2>3, WriteFollows
  <2> QED BY <1>7, <2>4, FinishPlain, PlainlyOn DEF OtpEndpointDeliver, PathStep, Budgets
<1>8. ASSUME NEW i \in Items, CorrectItem(t, i)
      PROVE  PathStep
  <2>1. /\ \A u \in Threads : u # t => thread'[u] = thread[u]
        /\ SameWork(t)
    BY <1>8 DEF CorrectItem, TypeOK, ThreadState, SameWork
  <2> QED BY <1>8, <2>1, PlainlyOn DEF CorrectItem, PathStep, OneFollows, Budgets
<1>9. CASE EditSave(t)
  <2> DEFINE e == thread[t].edit
             doc == [order[o] EXCEPT !.status = IF e.status = Keep THEN @ ELSE e.status,
                                     !.rider = IF e.rider = NoRider THEN @ ELSE e.rider]
  <2>1. o \in Orders /\ order[o] \in OrderDoc
    BY <1>9, <1>w DEF EditSave
  <2>2. e \in EditBody
    BY DEF TypeOK, ThreadState
  <2>3. edits > 0 /\ (Riderless => e.rider = NoRider)
    BY <1>9, <1>k DEF EditSave, At, ThreadOK
  <2>4. doc \in OrderDoc
    BY <2>1, <2>2 DEF OrderDoc, EditBody
  <2>5. /\ doc.ws = order[o].ws /\ doc.mode = order[o].mode /\ doc.pay = order[o].pay
        /\ doc.rider = IF e.rider = NoRider THEN order[o].rider ELSE e.rider
    BY <2>1 DEF OrderDoc
  <2>6. Put(o, doc)
    BY <1>9 DEF EditSave
  <2> HIDE DEF doc
  <2>7. edits # 0
    BY <2>3 DEF TypeOK
  <2>8. Follows(order[o], doc)
    BY <2>3, <2>5, <2>7 DEF Follows, Stays, OnPath
  <2>9. OneFollows
    BY <2>1, <2>4, <2>6, <2>8, WriteFollows
  <2> QED BY <1>9, <2>9, FinishPlain, PlainlyOn DEF EditSave, PathStep, Budgets
<1> QED BY <1>1, <1>2, <1>3, <1>4, <1>5, <1>6, <1>7, <1>8, <1>9

LEMMA EveryStep ==
    ASSUME TypeOK, PathInv, Next
    PROVE  PathStep
<1>1. CASE CreatePayment \/ \E o \in Orders : DeadlinePasses(o) \/ OneStepRequest(o)
  BY <1>1, OneStepPath
<1>2. ASSUME NEW t \in Threads, NEW o \in Orders, JobStart(t, o) \/ Request(t, o)
      PROVE  PathStep
  BY <1>2, StartPath
<1>3. ASSUME NEW t \in Threads, Continue(t) \/ Crash(t) \/ VerifyPayment(t)
      PROVE  PathStep
  BY <1>3, JobStepPath, RequestStepPath DEF Continue
<1> QED BY <1>1, <1>2, <1>3 DEF Next, Threads
-----------------------------------------------------------------------------
(* The theorems.                                                           *)

LEMMA InitPath == Init => PathInv
<1> SUFFICES ASSUME Init PROVE PathInv
  OBVIOUS
<1>1. \A t \in Threads : thread[t].pc = "idle"
  BY DEF Init, Idle
<1>2. \A o \in Orders : /\ order[o].rider = NoRider /\ order[o].status = "pending"
                        /\ order[o].mode = "ONLINE" => order[o].ws = "CREATED"
  BY DEF Init, PlacedOrder
<1>3. group.status # "CANCELLED"
  BY DEF Init, PlacedGroup
<1> QED BY <1>1, <1>2, <1>3 DEF PathInv, PaidBeforeSeller, ThreadOK, GroupCancelledOnlyWhenDead

LEMMA PathStutter ==
    ASSUME PathInv, UNCHANGED vars
    PROVE  PathInv'
<1>1. UNCHANGED <<order, group, thread, edits>>
  BY DEF vars
<1>2. AllDead' <=> AllDead
  BY <1>1 DEF AllDead
<1>3. OnPath' <=> OnPath
  BY <1>1 DEF OnPath, Riderless
<1>4. \A t \in Threads : ThreadOK(thread[t])'
  BY <1>1, <1>2, <1>3 DEF PathInv, ThreadOK, Riderless
<1> QED BY <1>1, <1>3, <1>4 DEF PathInv, PaidBeforeSeller, GroupCancelledOnlyWhenDead

\* Whatever interleaves, every write of every handler follows the order's path, and what
\* a handler has seen of an order still holds when it goes on.
THEOREM PathCorrect == Spec => []PathInv
<1>1. TypeOK /\ PathInv /\ [Next]_vars => PathInv'
  <2>1. ASSUME TypeOK, PathInv, Next PROVE PathInv'
    <3>1. TypeOK'
      BY <2>1, NextType
    <3> QED BY <2>1, <3>1, EveryStep, PathKept DEF TypeOK
  <2> QED BY <2>1, PathStutter
<1> QED BY <1>1, InitPath, TypeCorrect, PTL DEF Spec

\* handleOnlineOrderFinance, moveOrderToSellerPendingAfterPayment: a seller who works on an
\* ONLINE order works on a paid one, though paying and moving are two writes.
THEOREM SellersSeePaid == Spec => []PaymentInv
<1>1. PathInv => PaymentInv
  BY DEF PathInv, PaymentInv, ThreadOK, At
<1> QED BY <1>1, PathCorrect, PTL

\* compensateOrderCancellation: a group is closed behind its last order, though the orders
\* are counted in one step and the group is written in a later one.
THEOREM GroupsCloseLast == Spec => []GroupCancelledOnlyWhenDead
<1>1. PathInv => GroupCancelledOnlyWhenDead
  BY DEF PathInv
<1> QED BY <1>1, PathCorrect, PTL

\* deliveryAcceptAtomic: unless an administrator assigns riders, the first rider to accept
\* an order keeps it.
THEOREM FirstRiderWins ==
    ASSUME Riderless
    PROVE  Spec => FirstRiderKeeps
<1> DEFINE Keeps == \A o \in Orders :
                        order[o].rider # NoRider => order'[o].rider = order[o].rider
<1>1. TypeOK /\ PathInv /\ [Next]_vars => [Keeps]_vars
  <2>1. ASSUME TypeOK, PathInv, Next, NEW o \in Orders, order[o].rider # NoRider
        PROVE  order'[o].rider = order[o].rider
    <3>1. order'[o] = order[o] \/ Follows(order[o], order'[o])
      BY <2>1, EveryStep, FollowsOn DEF PathStep
    <3> QED BY <2>1, <3>1 DEF Follows, Stays, GoesOn, GetsRider, IsHandedOver, OnPath
  <2> QED BY <2>1
<1> QED BY <1>1, TypeCorrect, PathCorrect, PTL DEF Spec, FirstRiderKeeps

(* Refinement. *)

\* Steps that put no unit back and begin no edit.
Others ==
    /\ ~\E t \in Threads, i \in Items : ReleaseItem(t, i) \/ CorrectItem(t, i)
    /\ ~\E t \in RequestThreads, o \in Orders, e \in Edits : EditRead(t, o, e)

LEMMA OthersKeepStock ==
    ASSUME Next, Others
    PROVE  released' = released /\ corrected' = corrected /\ edits' = edits
<1> USE DEF Stock, Budgets
<1>1. CASE CreatePayment \/ \E o \in Orders : DeadlinePasses(o) \/ OneStepRequest(o)
  BY <1>1 DEF CreatePayment, DeadlinePasses, OneStepRequest, SellerAccept,
              MarkArrivedAtStore, ConfirmPickup, VerifyHandoffOtp
<1>2. ASSUME NEW t \in JobThreads, NEW o \in Orders, JobStart(t, o)
      PROVE  released' = released /\ corrected' = corrected /\ edits' = edits
  BY <1>2 DEF JobStart, SellerTimeoutRead, PaymentTimeoutFind, DeliveryTimeoutRead
<1>3. ASSUME NEW t \in RequestThreads, NEW o \in Orders, Request(t, o)
      PROVE  released' = released /\ corrected' = corrected /\ edits' = edits
  BY <1>3 DEF Others, Request, SellerReject, CustomerCancel, ProcessToDelivery,
              DeliveryAccept, SkipRead, OtpEndpointRead
<1>4. ASSUME NEW t \in Threads, Continue(t) \/ Crash(t) \/ VerifyPayment(t)
      PROVE  released' = released /\ corrected' = corrected /\ edits' = edits
  BY <1>4 DEF Others, Continue, SellerTimeoutCancel, PaymentTimeoutCancel, WidenSearch,
              EscalateSearch, Broadcast, CompensateRead, CompensateSave, CountActive,
              CloseGroup, CaptureFinance, CaptureMove, CaptureGroup,
              RetractOffer, SkipSave, OtpEndpointDeliver, EditSave, Crash, VerifyPayment
<1> QED BY <1>1, <1>2, <1>3, <1>4 DEF Next, Threads

\* Nothing is corrected before the first edit.
CorrectedInv == edits = 0 => \A o \in Orders, i \in Items : corrected[o][i] = 0

LEMMA CorrectedKept ==
    ASSUME TypeOK, PathInv, CorrectedInv, [Next]_vars
    PROVE  CorrectedInv'
<1>1. CASE Next /\ Others
  BY <1>1, OthersKeepStock DEF CorrectedInv
<1>2. ASSUME NEW t \in Threads, NEW i \in Items, ReleaseItem(t, i) PROVE CorrectedInv'
  BY <1>2 DEF ReleaseItem, Budgets, CorrectedInv
<1>3. ASSUME NEW t \in Threads, NEW i \in Items, CorrectItem(t, i) PROVE CorrectedInv'
  <2>1. edits > 0 /\ edits' = edits
    BY <1>3 DEF CorrectItem, Budgets, At, PathInv, ThreadOK
  <2> QED BY <2>1 DEF CorrectedInv, TypeOK
<1>4. ASSUME NEW t \in RequestThreads, NEW o \in Orders, NEW e \in Edits, EditRead(t, o, e)
      PROVE  CorrectedInv'
  BY <1>4 DEF EditRead, CorrectedInv, TypeOK
<1>5. CASE UNCHANGED vars
  BY <1>5 DEF vars, CorrectedInv
<1> QED BY <1>1, <1>2, <1>3, <1>4, <1>5 DEF Others

THEOREM CorrectedCorrect == Spec => []CorrectedInv
<1>1. Init => CorrectedInv
  BY DEF Init, CorrectedInv
<1> QED BY <1>1, CorrectedKept, TypeCorrect, PathCorrect, PTL DEF Spec

Phases == [o \in Orders |-> Phase(order[o].ws)]

\* What Follows means for the phase of an order on its path.
LEMMA PhaseMoves ==
    ASSUME NEW old \in OrderDoc, NEW new \in OrderDoc, Follows(old, new),
           old.rider # NoRider => old.ws \in Carried
    PROVE  \/ Phase(new.ws) = Phase(old.ws)
           \/ Phase(old.ws) = "unpaid" /\ Phase(new.ws) = "placed"
           \/ Phase(old.ws) = "placed" /\ Phase(new.ws) = "moving"
           \/ Phase(old.ws) = "moving" /\ Phase(new.ws) = "delivered"
           \/ Phase(old.ws) \in {"unpaid", "placed"} /\ Phase(new.ws) = "dropped"
<1>1. /\ Phase("CREATED") = "unpaid" /\ Phase("SELLER_PENDING") = "placed"
      /\ Phase("DELIVERED") = "delivered" /\ Phase("CANCELLED") = "dropped"
      /\ Phase("SELLER_ACCEPTED") = "moving" /\ Phase("DELIVERY_SEARCH") = "moving"
      /\ Phase("DELIVERY_ASSIGNED") = "moving" /\ Phase("PICKUP_READY") = "moving"
      /\ Phase("OUT_FOR_DELIVERY") = "moving"
  BY DEF Phase
<1>2. CASE Stays(old, new)
  BY <1>2 DEF Stays
<1>3. CASE GoesOn(old, new)
  BY <1>1, <1>3 DEF GoesOn, Moves
<1>4. CASE GetsRider(old, new)
  BY <1>1, <1>4 DEF GetsRider
<1>5. CASE IsHandedOver(old, new)
  BY <1>1, <1>5 DEF IsHandedOver, Carried
<1> QED BY <1>2, <1>3, <1>4, <1>5 DEF Follows

LEMMA WritesKeepPromise ==
    ASSUME Riderless, TypeOK, PathInv, OneFollows,
           released' = released, corrected' = corrected, edits' = edits
    PROVE  [Promise!Next]_Promise!vars
<1> USE DEF Returned
<1>1. CASE order' = order
  BY <1>1 DEF Promise!vars
<1>2. ASSUME NEW o \in Orders, NEW doc \in OrderDoc, Put(o, doc), Follows(order[o], doc)
      PROVE  [Promise!Next]_Promise!vars
  <2> DEFINE new == Phase(doc.ws)
  <2>1. order[o] \in OrderDoc /\ (order[o].rider # NoRider => order[o].ws \in Carried)
    BY DEF TypeOK, PathInv, OnPath
  <2>2. Phases' = [Phases EXCEPT ![o] = new]
    BY <1>2 DEF Phases, Put, TypeOK
  <2>3. Phases[o] = Phase(order[o].ws)
    BY DEF Phases
  <2>4. \/ new = Phases[o]
        \/ Phases[o] = "unpaid" /\ new = "placed"
        \/ Phases[o] = "placed" /\ new = "moving"
        \/ Phases[o] = "moving" /\ new = "delivered"
        \/ Phases[o] \in {"unpaid", "placed"} /\ new = "dropped"
    BY <1>2, <2>1, <2>3, PhaseMoves
  <2> HIDE DEF new
  <2>5. CASE new = Phases[o]
    <3>1. Phases' = Phases
      BY <2>2, <2>5 DEF Phases
    <3> QED BY <3>1 DEF Phases, Promise!vars
  <2>6. CASE new # Phases[o]
    <3>1. \/ Promise!Place(o) \/ Promise!Accept(o) \/ Promise!Deliver(o) \/ Promise!Drop(o)
      BY <2>2, <2>4, <2>6
         DEF Phases, Promise!Place, Promise!Accept, Promise!Deliver, Promise!Drop,
             Promise!Step
    <3> QED BY <3>1 DEF Promise!Next
  <2> QED BY <2>5, <2>6
<1> QED BY <1>1, <1>2 DEF OneFollows

\* One unit more is back on sale, by one of the two counters.
LEMMA OneMoreReturned ==
    ASSUME TypeOK, NEW o \in Orders, NEW i \in Items,
           \/ /\ released' = [released EXCEPT ![o][i] = @ + 1]
              /\ corrected' = corrected
           \/ /\ corrected' = [corrected EXCEPT ![o][i] = @ + 1]
              /\ released' = released
    PROVE  Returned' = [Returned EXCEPT ![o][i] = @ + 1]
<1>1. /\ released \in [Orders -> [Items -> Nat]]
      /\ corrected \in [Orders -> [Items -> Nat]]
  BY DEF TypeOK
<1>2. ASSUME NEW q \in Orders, NEW j \in Items
      PROVE  released'[q][j] + corrected'[q][j] =
                 IF q = o /\ j = i THEN released[q][j] + corrected[q][j] + 1
                 ELSE released[q][j] + corrected[q][j]
  <2>1. released[q][j] \in Nat /\ corrected[q][j] \in Nat
    BY <1>1
  <2>2. CASE released' = [released EXCEPT ![o][i] = @ + 1] /\ corrected' = corrected
    <3>1. released'[q][j] = IF q = o /\ j = i THEN released[q][j] + 1 ELSE released[q][j]
      BY <1>1, <2>2
    <3> QED BY <2>1, <2>2, <3>1
  <2>3. CASE corrected' = [corrected EXCEPT ![o][i] = @ + 1] /\ released' = released
    <3>1. corrected'[q][j] =
              IF q = o /\ j = i THEN corrected[q][j] + 1 ELSE corrected[q][j]
      BY <1>1, <2>3
    <3> QED BY <2>1, <2>3, <3>1
  <2> QED BY <2>2, <2>3
<1>3. Returned' = [q \in Orders |-> [j \in Items |->
                      IF q = o /\ j = i THEN Returned[q][j] + 1 ELSE Returned[q][j]]]
  BY <1>2 DEF Returned
<1>4. [Returned EXCEPT ![o][i] = @ + 1] =
          [q \in Orders |-> [j \in Items |->
              IF q = o /\ j = i THEN Returned[q][j] + 1 ELSE Returned[q][j]]]
  <2>1. /\ DOMAIN Returned = Orders
        /\ \A q \in Orders : Returned[q] = [j \in Items |-> Returned[q][j]]
    BY DEF Returned
  <2> QED BY <2>1 DEF Returned
<1> QED BY <1>3, <1>4

LEMMA ReleaseKeepsPromise ==
    ASSUME Riderless, TypeOK, PathInv, CompensationInv, CorrectedInv,
           NEW t \in Threads, NEW i \in Items, ReleaseItem(t, i)
    PROVE  Promise!Next
<1> DEFINE o == thread[t].o
<1>1. o \in Orders
  BY WorkingType DEF ReleaseItem, At, TypeOK
<1>2. order[o].ws = "CANCELLED"
  BY DEF ReleaseItem, At, PathInv, ThreadOK, OnPath
<1>3. Phases[o] = "dropped"
  BY <1>1, <1>2 DEF Phases, Phase
<1>4. released[o][i] = 0
  BY <1>1 DEF ReleaseItem, At, CompensationInv, Compensating
<1>5. Returned' = [Returned EXCEPT ![o][i] = @ + 1]
  BY <1>1, OneMoreReturned DEF ReleaseItem
<1>6. Phases' = Phases /\ edits' = edits
  BY DEF ReleaseItem, Phases, Budgets
<1>7. Promise!Return(o, i)
  BY <1>5, <1>6 DEF Promise!Return, Phases
<1>8. CASE edits = 0
  <2>1. Returned[o][i] = 0
    BY <1>1, <1>4, <1>8 DEF CorrectedInv, Returned
  <2> QED BY <1>1, <1>3, <1>7, <2>1 DEF Promise!GiveBack, Promise!Next, Phases
<1>9. CASE edits # 0
  <2>1. edits > 0
    BY <1>9 DEF TypeOK
  <2> QED BY <1>1, <1>7, <2>1 DEF Promise!Correct, Promise!Next
<1> QED BY <1>8, <1>9

LEMMA EditsKeepPromise ==
    ASSUME TypeOK, PathInv
    PROVE  /\ \A t \in Threads, i \in Items : CorrectItem(t, i) => Promise!Next
           /\ \A t \in RequestThreads, o \in Orders, e \in Edits :
                  EditRead(t, o, e) => Promise!Next
<1>1. ASSUME NEW t \in Threads, NEW i \in Items, CorrectItem(t, i) PROVE Promise!Next
  <2> DEFINE o == thread[t].o
  <2>1. o \in Orders
    BY <1>1, WorkingType DEF CorrectItem, At, TypeOK
  <2>2. Returned' = [Returned EXCEPT ![o][i] = @ + 1]
    BY <1>1, <2>1, OneMoreReturned DEF CorrectItem
  <2>3. Phases' = Phases /\ edits' = edits /\ edits > 0
    BY <1>1 DEF CorrectItem, Phases, Budgets, At, PathInv, ThreadOK
  <2>4. Promise!Correct(o, i)
    BY <2>2, <2>3 DEF Promise!Correct, Promise!Return, Phases
  <2> QED BY <2>1, <2>4 DEF Promise!Next
<1>2. ASSUME NEW t \in RequestThreads, NEW o \in Orders, NEW e \in Edits, EditRead(t, o, e)
      PROVE  Promise!Next
  <2>1. /\ Phases' = Phases /\ Returned' = Returned /\ edits' > 0
    BY <1>2 DEF EditRead, Stock, Phases, Returned, TypeOK
  <2> QED BY <2>1 DEF Promise!Edit, Promise!Next, Phases
<1> QED BY <1>1, <1>2

\* Crashes, timeouts and races included, the handlers keep the promise: an accepted order
\* is carried to the end, a dropped one stays dropped, and only its units come back, once,
\* until an administrator edits a status.
THEOREM LifecycleImplementsPromise ==
    ASSUME Riderless
    PROVE  Spec => PromiseKept
<1>1. Init => Promise!Init
  <2> SUFFICES ASSUME Init PROVE Promise!Init
    OBVIOUS
  <2>1. \A o \in Orders : order[o].ws \in {"CREATED", "SELLER_PENDING"}
    BY DEF Init, PlacedOrder
  <2>2. \A o \in Orders : Phase(order[o].ws) \in {"unpaid", "placed"}
    BY <2>1 DEF Phase
  <2>3. Returned = [o \in Orders |-> [i \in Items |-> 0]]
    BY DEF Init, Returned
  <2> QED BY <2>2, <2>3 DEF Init, Promise!Init
<1>2. TypeOK /\ PathInv /\ CompensationInv /\ CorrectedInv /\ [Next]_vars
          => [Promise!Next]_Promise!vars
  <2>1. ASSUME TypeOK, PathInv, CompensationInv, CorrectedInv, Next
        PROVE  [Promise!Next]_Promise!vars
    <3>1. CASE \E t \in Threads, i \in Items : ReleaseItem(t, i)
      BY <2>1, <3>1, ReleaseKeepsPromise
    <3>2. CASE Others
      BY <2>1, <3>2, OthersKeepStock, EveryStep, WritesKeepPromise DEF PathStep
    <3> QED BY <2>1, <3>1, <3>2, EditsKeepPromise DEF Others
  <2>2. CASE UNCHANGED vars
    BY <2>2 DEF vars, Promise!vars, Returned
  <2> QED BY <2>1, <2>2
<1> QED BY <1>1, <1>2, TypeCorrect, PathCorrect, CompensationCorrect, CorrectedCorrect, PTL
        DEF Spec, PromiseKept, Promise!Spec

\* What OrderPromise is worth, whoever keeps it: until a status is edited no unit comes
\* back twice, and none of an order that is still alive; and once accepted, delivered or
\* dropped an order does not turn back.
THEOREM PromiseHolds ==
    PromiseKept => []ReturnedOnce /\ AcceptedGoesOn
<1> DEFINE Edited == edits > 0
           Sound == /\ Phases \in [Orders -> Promise!Phases]
                    /\ Returned \in [Orders -> [Items -> Nat]]
                    /\ Edited \in BOOLEAN
                    /\ Edited \/ \A o \in Orders, i \in Items :
                          \/ Returned[o][i] = 0
                          \/ Returned[o][i] = 1 /\ Phases[o] = "dropped"
           Onward == \A o \in Orders :
                        /\ Phases[o] = "moving" => Phases'[o] \in {"moving", "delivered"}
                        /\ Phases[o] \in {"delivered", "dropped"} => Phases'[o] = Phases[o]
           Step == [Promise!Next]_Promise!vars
<1>1. Promise!Init => Sound
  <2> SUFFICES ASSUME Promise!Init PROVE Sound
    OBVIOUS
  <2>1. Phases \in [Orders -> {"unpaid", "placed"}]
    BY DEF Promise!Init, Phases
  <2>2. Returned = [o \in Orders |-> [i \in Items |-> 0]] /\ Edited = FALSE
    BY DEF Promise!Init
  <2> HIDE DEF Edited
  <2> QED BY <2>1, <2>2 DEF Promise!Phases
<1>2. Sound /\ Step => Sound' /\ Onward
  <2> SUFFICES ASSUME Sound, Step PROVE Sound' /\ Onward
    OBVIOUS
  <2>1. ASSUME NEW o \in Orders, NEW from, NEW to \in Promise!Phases,
               Promise!Step(o, from, to), to = "dropped" \/ "dropped" \notin from,
               \/ from \subseteq {"unpaid", "placed"}
               \/ from = {"moving"} /\ to = "delivered"
        PROVE  Sound' /\ Onward
    <3>1. /\ Phases[o] \in from /\ Phases' = [Phases EXCEPT ![o] = to]
          /\ Returned' = Returned /\ Edited' = Edited
      BY <2>1 DEF Promise!Step, Phases
    <3>2. /\ Phases' \in [Orders -> Promise!Phases] /\ Phases'[o] = to
          /\ \A q \in Orders : q # o => Phases'[q] = Phases[q]
      BY <2>1, <3>1
    <3> HIDE DEF Phases, Edited
    <3>3. Onward
      BY <2>1, <3>1, <3>2
    <3>4. Edited' \/ \A q \in Orders, i \in Items :
              \/ Returned'[q][i] = 0
              \/ Returned'[q][i] = 1 /\ Phases'[q] = "dropped"
      BY <2>1, <3>1, <3>2
    <3>5. Returned' \in [Orders -> [Items -> Nat]] /\ Edited' \in BOOLEAN
      BY <3>1
    <3> QED BY <3>2, <3>3, <3>4, <3>5
  <2>2. ASSUME NEW o \in Orders,
               Promise!Place(o) \/ Promise!Accept(o) \/ Promise!Deliver(o) \/ Promise!Drop(o)
        PROVE  Sound' /\ Onward
    <3>1. CASE Promise!Place(o)
      BY <3>1, <2>1 DEF Promise!Place, Promise!Phases
    <3>2. CASE Promise!Accept(o)
      BY <3>2, <2>1 DEF Promise!Accept, Promise!Phases
    <3>3. CASE Promise!Deliver(o)
      BY <3>3, <2>1 DEF Promise!Deliver, Promise!Phases
    <3>4. CASE Promise!Drop(o)
      BY <3>4, <2>1 DEF Promise!Drop, Promise!Phases
    <3> QED BY <2>2, <3>1, <3>2, <3>3, <3>4
  <2>3. ASSUME NEW o \in Orders, NEW i \in Items, Promise!Return(o, i),
               Edited \/ (Phases[o] = "dropped" /\ Returned[o][i] = 0)
        PROVE  Sound' /\ Onward
    <3>1. /\ Phases' = Phases /\ Edited' = Edited
          /\ Returned' = [Returned EXCEPT ![o][i] = @ + 1]
      BY <2>3 DEF Promise!Return, Phases
    <3> HIDE DEF Phases, Edited
    <3>2. /\ Returned' \in [Orders -> [Items -> Nat]] /\ Returned'[o][i] = Returned[o][i] + 1
          /\ \A q \in Orders, j \in Items :
                 q # o \/ j # i => Returned'[q][j] = Returned[q][j]
      BY <3>1
    <3>3. Edited' \/ \A q \in Orders, j \in Items :
              \/ Returned'[q][j] = 0
              \/ Returned'[q][j] = 1 /\ Phases'[q] = "dropped"
      <4>1. CASE Edited
        BY <3>1, <4>1
      <4>2. ASSUME ~Edited, NEW q \in Orders, NEW j \in Items
            PROVE  \/ Returned'[q][j] = 0
                   \/ Returned'[q][j] = 1 /\ Phases'[q] = "dropped"
        <5>1. CASE q = o /\ j = i
          BY <2>3, <3>1, <3>2, <4>2, <5>1
        <5>2. CASE q # o \/ j # i
          BY <3>1, <3>2, <4>2, <5>2
        <5> QED BY <5>1, <5>2
      <4> QED BY <4>1, <4>2
    <3> QED BY <3>1, <3>2, <3>3
  <2>4. ASSUME NEW o \in Orders, NEW i \in Items,
               Promise!GiveBack(o, i) \/ Promise!Correct(o, i)
        PROVE  Sound' /\ Onward
    <3>1. Promise!Return(o, i) /\ (Edited \/ (Phases[o] = "dropped" /\ Returned[o][i] = 0))
      BY <2>4 DEF Promise!GiveBack, Promise!Correct, Phases
    <3> QED BY <2>3, <3>1
  <2>5. CASE Promise!Edit
    <3>1. Phases' = Phases /\ Returned' = Returned /\ Edited' = TRUE
      BY <2>5 DEF Promise!Edit, Phases
    <3> HIDE DEF Phases, Edited
    <3> QED BY <3>1
  <2>6. CASE UNCHANGED Promise!vars
    <3>1. Phases' = Phases /\ Returned' = Returned /\ Edited' = Edited
      BY <2>6 DEF Promise!vars, Phases
    <3> HIDE DEF Phases, Edited
    <3> QED BY <3>1
  <2> QED BY <2>2, <2>4, <2>5, <2>6 DEF Promise!Next
<1>3. Sound => ReturnedOnce
  <2> SUFFICES ASSUME Sound, ~(edits > 0), NEW o \in Orders, NEW i \in Items
               PROVE  /\ Returned[o][i] <= 1
                      /\ order[o].ws \in LiveStatus => Returned[o][i] = 0
    BY DEF ReturnedOnce
  <2>1. order[o].ws \in LiveStatus => Phases[o] # "dropped"
    BY DEF LiveStatus, Phases, Phase
  <2> QED BY <2>1
<1>4. Onward => [\A o \in Orders :
                    LET was == Phase(order[o].ws)
                        is == Phase(order[o].ws)'
                    IN  /\ was = "moving" => is \in {"moving", "delivered"}
                        /\ was \in {"delivered", "dropped"} => is = was]_order
  BY DEF Phases
<1> HIDE DEF Sound, Onward
<1> QED BY <1>1, <1>2, <1>3, <1>4, PTL DEF PromiseKept, Promise!Spec, AcceptedGoesOn
\* Unless edits assign riders: no deadline, customer or seller moves an order that its
\* seller has accepted to CANCELLED, and nothing moves one that is DELIVERED or CANCELLED,
\* however the handlers overlap.
THEOREM AcceptedOrdersGoOn ==
    ASSUME Riderless
    PROVE  Spec => AcceptedGoesOn
BY LifecycleImplementsPromise, PromiseHolds, PTL
===============================================================================
