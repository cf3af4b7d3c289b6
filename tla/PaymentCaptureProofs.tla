------------------------- MODULE PaymentCaptureProofs -------------------------
(***************************************************************************)
(* For any number of payments, orders, keys, handlers and abandoned        *)
(* handlers: the types of PaymentCapture, that an order is credited once   *)
(* and only for money the gateway holds, however often an event is         *)
(* delivered, and that PaymentCapture implements PaymentPromise; and what  *)
(* that promise is worth by itself.                                        *)
(***************************************************************************)
EXTENDS PaymentKeepsPromise, TLAPS

Of(th) == [p |-> th.p, type |-> th.type]

\* What a handler in state th relies on, of the gateway g, the orders ord and the
\* events s that were sent.
Fits(th, g, ord, s) ==
    /\ th.pc = "find" => th.webhook /\ Of(th) \in s
    /\ th.pc \in {"save", "compare"} /\ th.next = "CAPTURED" => g[th.p] = "captured"
    /\ th.pc = "save" /\ ~th.webhook => th.next = "CAPTURED"
    /\ th.pc = "compare" => th.next = th.mem
    /\ th.pc \in {"effects", "commit", "move"} => g[th.p] = "captured"
    /\ th.pc = "commit" /\ th.snap.doc.pay = "PAID" => ord[th.o].pay = "PAID"
    /\ th.pc = "move" => ord[th.o].pay = "PAID"

ThreadsFit == \A t \in Threads : Fits(thread[t], gateway, order, sent)

\* The gateway reports on its orders only, and a capture only when it has captured.
EventsTrue ==
    \A e \in sent : /\ gateway[e.p] # "none"
                    /\ e.type # "payment.failed" => gateway[e.p] = "captured"

\* A gateway order and its Payment are created together.
Unborn == \A p \in Payments : payment[p].status = "NONE" => gateway[p] = "none"

PayInv ==
    /\ TypeOK
    /\ ThreadsFit /\ EventsTrue /\ Unborn
    /\ CreditedOnce /\ PaidMeansCaptured

\* Nothing a handler relies on is ever taken back.
Grows ==
    /\ \A p \in Payments : gateway[p] = "captured" => gateway'[p] = "captured"
    /\ \A o \in Orders : order[o].pay = "PAID" => order'[o].pay = "PAID"
    /\ sent \subseteq sent'

Record == [pc : PC, p : Payments \cup {NoPayment}, key : Keys \cup {NoKey},
           webhook : BOOLEAN, type : EventType, mem : PaymentStatus,
           next : PaymentStatus, rest : SUBSET Orders,
           o : Orders \cup {NoOrder}, snap : Snapshot]
-----------------------------------------------------------------------------
(* Handlers.                                                               *)

\* Membership in ThreadState, field by field.
LEMMA StateOf ==
    ASSUME NEW th \in Record,
           th.pc \notin {"idle", "create"} => th.p \in Payments,
           th.pc \in {"commit", "move"} => th.o \in Orders
    PROVE  th \in ThreadState
  BY DEF ThreadState, Record

LEMMA StateHas ==
    ASSUME NEW th \in ThreadState
    PROVE  /\ th \in Record
           /\ th.pc \notin {"idle", "create"} => th.p \in Payments
           /\ th.pc \in {"commit", "move"} => th.o \in Orders
  BY DEF ThreadState, Record

LEMMA IdleState == Idle \in ThreadState /\ Idle.pc = "idle" /\ ~Idle.webhook
<1>1. NoSnapshot \in Snapshot
  BY DEF NoSnapshot, Snapshot, OrderDoc
<1>2. Idle \in Record
  BY <1>1 DEF Idle, Record, PC, EventType, PaymentStatus
<1> QED BY <1>2, StateOf DEF Idle

\* A handler that stays where it is keeps what it relies on.
LEMMA StillFits ==
    ASSUME NEW th \in ThreadState, Grows, Fits(th, gateway, order, sent)
    PROVE  Fits(th, gateway', order', sent')
<1>1. /\ th.pc \notin {"idle", "create"} => th.p \in Payments
      /\ th.pc \in {"commit", "move"} => th.o \in Orders
  BY StateHas
<1> QED BY <1>1 DEF Grows, Fits

\* What a step that moves the handler t, to the state to, has to establish.
LEMMA Moves ==
    ASSUME PayInv, NEW t \in Threads, NEW to \in ThreadState,
           thread' = [thread EXCEPT ![t] = to],
           Grows,
           Fits(to, gateway', order', sent')
    PROVE  thread' \in [Threads -> ThreadState] /\ ThreadsFit'
<1>1. thread \in [Threads -> ThreadState]
  BY DEF PayInv, TypeOK
<1>2. thread' \in [Threads -> ThreadState] /\ thread'[t] = to
  BY <1>1
<1>3. \A u \in Threads : u # t => thread'[u] = thread[u]
  BY <1>1
<1>4. \A u \in Threads : Fits(thread[u], gateway, order, sent)
  BY DEF PayInv, ThreadsFit
<1>5. ThreadsFit'
  <2> SUFFICES ASSUME NEW u \in Threads
               PROVE  Fits(thread'[u], gateway', order', sent')
    BY DEF ThreadsFit
  <2>1. CASE u = t
    BY <2>1, <1>2
  <2>2. CASE u # t
    <3>1. thread[u] \in ThreadState /\ Fits(thread[u], gateway, order, sent)
      BY <1>1, <1>4
    <3>2. Fits(thread[u], gateway', order', sent')
      BY <3>1, StillFits
    <3> QED BY <3>2, <1>3, <2>2
  <2> QED BY <2>1, <2>2
<1> QED BY <1>2, <1>5

\* The same for a step that moves no handler.
LEMMA Stays ==
    ASSUME PayInv, Grows, thread' = thread
    PROVE  thread' \in [Threads -> ThreadState] /\ ThreadsFit'
<1>1. thread \in [Threads -> ThreadState]
  BY DEF PayInv, TypeOK
<1>2. ASSUME NEW u \in Threads
      PROVE  Fits(thread'[u], gateway', order', sent')
  <2>1. thread[u] \in ThreadState /\ Fits(thread[u], gateway, order, sent)
    BY <1>1 DEF PayInv, ThreadsFit
  <2> QED BY <2>1, StillFits
<1> QED BY <1>1, <1>2 DEF ThreadsFit, PayInv

\* A step that changes handlers only.
LEMMA OnlyThreads ==
    ASSUME PayInv, UNCHANGED <<payment, gateway, sent, Effects>>,
           crashes' \in 0 .. MaxCrashes,
           thread' \in [Threads -> ThreadState], ThreadsFit'
    PROVE  PayInv'
<1>1. TypeOK' /\ EventsTrue' /\ Unborn'
  BY DEF PayInv, TypeOK, EventsTrue, Unborn, Effects
<1>2. CreditedOnce' /\ PaidMeansCaptured'
  BY DEF PayInv, CreditedOnce, PaidMeansCaptured, Effects
<1> QED BY <1>1, <1>2 DEF PayInv

\* A handler that ends, whatever became of it.
LEMMA Ends ==
    ASSUME PayInv, NEW t \in Threads, Finish(t), Grows
    PROVE  thread' \in [Threads -> ThreadState] /\ ThreadsFit'
<1>1. Idle \in ThreadState /\ Idle.pc = "idle" /\ ~Idle.webhook
  BY IdleState
<1>2. Fits(Idle, gateway', order', sent')
  BY <1>1 DEF Fits
<1> QED BY <1>1, <1>2, Moves DEF Finish
-----------------------------------------------------------------------------
(* The steps.                                                              *)

LEMMA PayInit == Init => PayInv
<1> SUFFICES ASSUME Init PROVE PayInv
  OBVIOUS
<1>1. Idle \in ThreadState /\ Idle.pc = "idle" /\ ~Idle.webhook
  BY IdleState
<1>2. TypeOK
  <2>1. thread \in [Threads -> ThreadState]
    BY <1>1 DEF Init
  <2>2. payment \in [Payments -> PaymentDoc] /\ order \in [Orders -> OrderDoc]
    BY DEF Init, PaymentDoc, OrderDoc, PaymentStatus
  <2> QED BY <2>1, <2>2, CrashesAssumption DEF Init, TypeOK, Event, EventType
<1>3. ThreadsFit
  BY <1>1 DEF Init, ThreadsFit, Fits
<1>4. EventsTrue /\ Unborn /\ CreditedOnce
  BY DEF Init, EventsTrue, Unborn, CreditedOnce
<1>5. PaidMeansCaptured
  BY DEF Init, PaidMeansCaptured
<1> QED BY <1>2, <1>3, <1>4, <1>5 DEF PayInv

LEMMA GatewayStep ==
    ASSUME PayInv, NEW p \in Payments, AttemptFails(p) \/ AttemptCaptured(p)
    PROVE  PayInv'
<1>t. TypeOK /\ EventsTrue /\ Unborn /\ CreditedOnce /\ PaidMeansCaptured
  BY DEF PayInv
<1>1. CASE AttemptFails(p)
  <2> DEFINE e == [p |-> p, type |-> "payment.failed"]
  <2>1. e \in Event /\ e.type = "payment.failed" /\ e.p = p /\ gateway[p] = "open"
    BY <1>1 DEF AttemptFails, Event, EventType
  <2>2. Grows /\ thread' = thread
    BY <1>1 DEF AttemptFails, Grows, Effects
  <2>3. thread' \in [Threads -> ThreadState] /\ ThreadsFit'
    BY <2>2, Stays
  <2>4. sent' = sent \cup {e} /\ UNCHANGED <<payment, gateway, order, credited,
                                             wallet, group, crashes>>
    BY <1>1 DEF AttemptFails, Effects
  <2>5. TypeOK'
    BY <1>t, <2>1, <2>3, <2>4 DEF TypeOK
  <2>6. EventsTrue'
    BY <1>t, <2>1, <2>4 DEF EventsTrue
  <2>7. Unborn' /\ CreditedOnce' /\ PaidMeansCaptured'
    BY <1>t, <2>4 DEF Unborn, CreditedOnce, PaidMeansCaptured
  <2> QED BY <2>3, <2>5, <2>6, <2>7 DEF PayInv
<1>2. CASE AttemptCaptured(p)
  <2> DEFINE new == [p : {p}, type : {"payment.captured", "order.paid"}]
  <2>1. new \subseteq Event /\ \A e \in new : e.p = p
    BY DEF Event, EventType
  <2>2. /\ gateway' = [gateway EXCEPT ![p] = "captured"] /\ gateway[p] = "open"
        /\ sent' = sent \cup new
        /\ UNCHANGED <<payment, order, credited, wallet, group, thread, crashes>>
    BY <1>2 DEF AttemptCaptured, Effects
  <2>3. /\ gateway' \in [Payments -> {"none", "open", "captured"}]
        /\ gateway'[p] = "captured"
        /\ \A q \in Payments : q # p => gateway'[q] = gateway[q]
    BY <1>t, <2>2 DEF TypeOK
  <2>4. Grows
    BY <2>2, <2>3 DEF Grows
  <2>5. thread' \in [Threads -> ThreadState] /\ ThreadsFit'
    BY <2>2, <2>4, Stays
  <2>6. TypeOK'
    BY <1>t, <2>1, <2>2, <2>3, <2>5 DEF TypeOK
  <2>7. EventsTrue'
    BY <1>t, <2>1, <2>2, <2>3 DEF EventsTrue, TypeOK, Event
  <2>8. Unborn'
    BY <1>t, <2>2, <2>3 DEF Unborn
  <2>9. CreditedOnce' /\ PaidMeansCaptured'
    BY <1>t, <2>2, <2>3 DEF CreditedOnce, PaidMeansCaptured
  <2> QED BY <2>5, <2>6, <2>7, <2>8, <2>9 DEF PayInv
<1> QED BY <1>1, <1>2

\* A step that changes one order, by leaving its payment alone.
LEMMA OrderMoves ==
    ASSUME PayInv, NEW o \in Orders, NEW ws \in {"SELLER_PENDING", "CANCELLED"},
           ws = "SELLER_PENDING" => order[o].pay = "PAID",
           order' = [order EXCEPT ![o].ws = ws],
           UNCHANGED <<payment, gateway, sent, credited, wallet, group>>,
           crashes' \in 0 .. MaxCrashes,
           Grows => thread' \in [Threads -> ThreadState] /\ ThreadsFit'
    PROVE  PayInv'
<1>t. TypeOK /\ EventsTrue /\ Unborn /\ CreditedOnce /\ PaidMeansCaptured
  BY DEF PayInv
<1>1. order' \in [Orders -> OrderDoc]
  BY <1>t DEF TypeOK, OrderDoc
<1>2. \A q \in Orders : order'[q].pay = order[q].pay /\ (q # o => order'[q] = order[q])
  BY <1>t DEF TypeOK, OrderDoc
<1>3. order'[o].ws = ws
  BY <1>t DEF TypeOK, OrderDoc
<1>4. Grows
  BY <1>2 DEF Grows
<1>5. TypeOK' /\ EventsTrue' /\ Unborn'
  BY <1>t, <1>1, <1>4 DEF TypeOK, EventsTrue, Unborn
<1>6. CreditedOnce'
  BY <1>t, <1>2 DEF CreditedOnce
<1>7. PaidMeansCaptured'
  BY <1>t, <1>2, <1>3 DEF PaidMeansCaptured
<1> QED BY <1>4, <1>5, <1>6, <1>7 DEF PayInv

LEMMA CancelStep == ASSUME PayInv, NEW o \in Orders, OrderCancelled(o) PROVE PayInv'
<1>1. crashes' \in 0 .. MaxCrashes
  BY DEF PayInv, TypeOK, OrderCancelled
<1>2. Grows => thread' \in [Threads -> ThreadState] /\ ThreadsFit'
  BY Stays DEF OrderCancelled
<1> QED BY <1>1, <1>2, OrderMoves DEF OrderCancelled

\* The handlers' steps up to the save, and those that end a handler.
LEMMA EarlyStep ==
    ASSUME PayInv, NEW t \in Threads,
           \/ \E k \in Keys \cup {NoKey} : CreateCheck(t, k)
           \/ \E p \in Payments : VerifyPayment(t, p)
           \/ \E e \in sent : ReceiveWebhook(t, e)
           \/ FindPayment(t) \/ CompareStatus(t) \/ CreateThrows(t) \/ Crash(t)
    PROVE  PayInv'
<1> DEFINE th == thread[t]
<1>t. TypeOK /\ EventsTrue /\ Unborn /\ CreditedOnce /\ PaidMeansCaptured
  BY DEF PayInv
<1>i. Idle \in Record
  BY IdleState, StateHas
<1>s. th \in ThreadState /\ th \in Record
  BY <1>t, StateHas DEF TypeOK
<1>f. Fits(th, gateway, order, sent)
  BY DEF PayInv, ThreadsFit
<1>1. ASSUME NEW k \in Keys \cup {NoKey}, CreateCheck(t, k) PROVE PayInv'
  <2> DEFINE to == [Idle EXCEPT !.pc = "create", !.key = k]
  <2>1. to \in Record /\ to.pc = "create" /\ ~to.webhook
    BY <1>i DEF Idle, Record, PC
  <2>2. to \in ThreadState
    BY <2>1, StateOf
  <2>3. Grows /\ Fits(to, gateway', order', sent')
    BY <1>1, <2>1 DEF CreateCheck, Grows, Effects, Fits
  <2>4. thread' \in [Threads -> ThreadState] /\ ThreadsFit'
    BY <1>1, <2>1, <2>2, <2>3, Moves DEF CreateCheck, Start
  <2> QED BY <1>1, <1>t, <2>4, OnlyThreads DEF CreateCheck, TypeOK
<1>2. ASSUME NEW p \in Payments, VerifyPayment(t, p) PROVE PayInv'
  <2> DEFINE to == [Idle EXCEPT !.pc = "save", !.p = p, !.next = "CAPTURED",
                                !.mem = payment[p].status]
  <2>0. payment[p].status \in PaymentStatus
    <3>1. payment[p].status # "NONE"
      BY <1>2, <1>t DEF VerifyPayment, Unborn
    <3> QED BY <3>1, <1>t DEF TypeOK, PaymentDoc
  <2>1. to \in Record /\ to.pc = "save" /\ ~to.webhook /\ to.p = p /\ to.next = "CAPTURED"
    BY <1>i, <2>0 DEF Idle, Record, PC, PaymentStatus
  <2>2. to \in ThreadState
    BY <2>1, StateOf
  <2>3. Grows /\ Fits(to, gateway', order', sent')
    BY <1>2, <2>1 DEF VerifyPayment, Grows, Effects, Fits
  <2>4. thread' \in [Threads -> ThreadState] /\ ThreadsFit'
    BY <1>2, <2>1, <2>2, <2>3, Moves DEF VerifyPayment, Start
  <2> QED BY <1>2, <1>t, <2>4, OnlyThreads DEF VerifyPayment, TypeOK
<1>3. ASSUME NEW e \in sent, ReceiveWebhook(t, e) PROVE PayInv'
  <2> DEFINE to == [Idle EXCEPT !.pc = "find", !.p = e.p, !.webhook = TRUE, !.type = e.type]
  <2>0. e \in Event /\ e.p \in Payments /\ e.type \in EventType
        /\ e = [p |-> e.p, type |-> e.type]
    BY <1>t DEF TypeOK, Event
  <2>1. to \in Record /\ to.pc = "find" /\ to.webhook /\ to.p = e.p /\ to.type = e.type
    BY <1>i, <2>0 DEF Idle, Record, PC
  <2>2. to \in ThreadState
    BY <2>0, <2>1, StateOf
  <2>5. Of(to) = e
    BY <2>0, <2>1 DEF Of
  <2>6. sent' = sent
    BY <1>3 DEF ReceiveWebhook
  <2>3. Grows /\ Fits(to, gateway', order', sent')
    BY <1>3, <2>1, <2>5, <2>6 DEF ReceiveWebhook, Grows, Effects, Fits
  <2>4. thread' \in [Threads -> ThreadState] /\ ThreadsFit'
    BY <1>3, <2>1, <2>2, <2>3, <2>5, <2>6, Moves DEF ReceiveWebhook, Start
  <2>7. UNCHANGED <<payment, gateway, sent, order, credited, wallet, group, crashes>>
    BY <1>3 DEF ReceiveWebhook, Effects
  <2>8. TypeOK'
    BY <1>t, <2>0, <2>4, <2>6, <2>7 DEF TypeOK
  <2>9. EventsTrue' /\ Unborn' /\ CreditedOnce' /\ PaidMeansCaptured'
    BY <1>t, <2>7 DEF EventsTrue, Unborn, CreditedOnce, PaidMeansCaptured
  <2> QED BY <2>4, <2>8, <2>9 DEF PayInv
<1>4. CASE FindPayment(t)
  <2> DEFINE next == NextStatus(th.type)
             to == [th EXCEPT !.pc = "save", !.next = next, !.mem = payment[th.p].status]
  <2>g. Grows
    BY <1>4 DEF FindPayment, Grows, Effects
  <2>1. CASE CanTransitionPaymentStatus(payment[th.p].status, next)
    <3>1. th.pc = "find" /\ th.p \in Payments
      BY <1>4, <1>s, StateHas DEF FindPayment, At
    <3>2. th.webhook /\ Of(th) \in sent
      BY <3>1, <1>f DEF Fits
    <3>3. next \in PaymentStatus /\ (next = "CAPTURED" => gateway[th.p] = "captured")
      BY <3>2, <1>t DEF NextStatus, EventsTrue, Of, PaymentStatus
    <3>4. payment[th.p].status \in PaymentStatus
      <4>1. payment[th.p].status # "NONE"
        BY <3>1, <3>2, <1>t DEF EventsTrue, Of, Unborn
      <4> QED BY <3>1, <4>1, <1>t DEF TypeOK, PaymentDoc
    <3>5. /\ to \in Record /\ to.pc = "save" /\ to.p = th.p /\ to.webhook /\ to.next = next
          /\ Of(to) = Of(th)
      BY <1>s, <3>2, <3>3, <3>4 DEF Record, PC, Of
    <3>6. to \in ThreadState
      BY <3>1, <3>5, StateOf
    <3>7. Fits(to, gateway', order', sent')
      BY <1>4, <1>f, <3>2, <3>3, <3>5 DEF FindPayment, Fits
    <3>8. thread' = [thread EXCEPT ![t] = to]
      BY <1>4, <2>1, <1>t DEF FindPayment, TypeOK
    <3>9. thread' \in [Threads -> ThreadState] /\ ThreadsFit'
      BY <2>g, <3>2, <3>5, <3>6, <3>7, <3>8, Moves
    <3> QED BY <3>9, <1>4, <1>t, OnlyThreads DEF FindPayment, TypeOK
  <2>2. CASE ~CanTransitionPaymentStatus(payment[th.p].status, next)
    <3>1. thread' \in [Threads -> ThreadState] /\ ThreadsFit'
      BY <1>4, <2>2, <2>g, Ends DEF FindPayment
    <3> QED BY <3>1, <1>4, <1>t, OnlyThreads DEF FindPayment, TypeOK
  <2> QED BY <2>1, <2>2
<1>5. CASE CompareStatus(t)
  \* The two are the same by now, whatever they were.
  <2>1. th.next = th.mem
    BY <1>5, <1>f DEF CompareStatus, At, Fits
  <2>2. Grows /\ Finish(t)
    BY <1>5, <2>1 DEF CompareStatus, Grows, Effects
  <2>3. thread' \in [Threads -> ThreadState] /\ ThreadsFit'
    BY <2>2, Ends
  <2> QED BY <2>3, <1>5, <1>t, OnlyThreads DEF CompareStatus, TypeOK
<1>6. CASE CreateThrows(t) \/ Crash(t)
  <2>1. Grows /\ Finish(t) /\ UNCHANGED <<payment, gateway, sent, Effects>>
    BY <1>6 DEF CreateThrows, Crash, Grows, Effects
  <2>2. crashes' \in 0 .. MaxCrashes
    BY <1>6, <1>t, CrashesAssumption DEF CreateThrows, Crash, TypeOK
  <2>3. thread' \in [Threads -> ThreadState] /\ ThreadsFit'
    BY <2>1, Ends
  <2> QED BY <2>1, <2>2, <2>3, OnlyThreads
<1> QED BY <1>1, <1>2, <1>3, <1>4, <1>5, <1>6

\* A payment is created: a gateway order, and with it the document.
LEMMA CreateStep ==
    ASSUME PayInv, NEW t \in Threads, NEW p \in Payments, CreatePayment(t, p)
    PROVE  PayInv'
<1> DEFINE new == [status |-> "PENDING", key |-> thread[t].key]
<1>t. TypeOK /\ EventsTrue /\ Unborn /\ CreditedOnce /\ PaidMeansCaptured
  BY DEF PayInv
<1>1. thread[t] \in Record
  BY <1>t, StateHas DEF TypeOK
<1>2. new \in PaymentDoc /\ new.status = "PENDING"
  BY <1>1 DEF Record, PaymentDoc, PaymentStatus
<1>3. /\ payment' = [payment EXCEPT ![p] = new] /\ gateway' = [gateway EXCEPT ![p] = "open"]
      /\ Finish(t) /\ gateway[p] = "none"
      /\ UNCHANGED <<sent, order, credited, wallet, group, crashes>>
  BY <1>t DEF CreatePayment, Unborn, Effects
<1>4. /\ payment' \in [Payments -> PaymentDoc] /\ payment'[p] = new
      /\ gateway' \in [Payments -> {"none", "open", "captured"}] /\ gateway'[p] = "open"
      /\ \A q \in Payments : q # p => payment'[q] = payment[q] /\ gateway'[q] = gateway[q]
  BY <1>t, <1>2, <1>3 DEF TypeOK
<1>5. Grows
  BY <1>3, <1>4 DEF Grows
<1>6. thread' \in [Threads -> ThreadState] /\ ThreadsFit'
  BY <1>3, <1>5, Ends
<1>7. TypeOK'
  BY <1>t, <1>3, <1>4, <1>6 DEF TypeOK
<1>8. EventsTrue' /\ Unborn'
  BY <1>t, <1>2, <1>3, <1>4 DEF EventsTrue, Unborn, TypeOK, Event
<1>9. CreditedOnce' /\ PaidMeansCaptured'
  BY <1>t, <1>2, <1>3, <1>4 DEF CreditedOnce, PaidMeansCaptured
<1> QED BY <1>6, <1>7, <1>8, <1>9 DEF PayInv

\* A payment is saved, CAPTURED only if the gateway has captured it.
LEMMA SaveStep == ASSUME PayInv, NEW t \in Threads, SavePayment(t) PROVE PayInv'
<1> DEFINE th == thread[t]
           to == [th EXCEPT !.mem = th.next,
                            !.pc = IF th.webhook THEN "compare" ELSE "effects",
                            !.rest = Orders]
<1>t. TypeOK /\ EventsTrue /\ Unborn /\ CreditedOnce /\ PaidMeansCaptured
  BY DEF PayInv
<1>s. th \in ThreadState /\ th \in Record /\ th.pc = "save" /\ th.p \in Payments
  BY <1>t, StateHas DEF TypeOK, SavePayment, At
<1>f. Fits(th, gateway, order, sent)
  BY DEF PayInv, ThreadsFit
<1>1. /\ to \in Record /\ to.pc = IF th.webhook THEN "compare" ELSE "effects"
      /\ to.mem = th.next /\ to.next = th.next /\ to.p = th.p /\ to.webhook = th.webhook
      /\ Of(to) = Of(th)
  BY <1>s DEF Record, PC, Of
<1>2. to \in ThreadState
  <2>1. to.pc \notin {"idle", "create", "commit", "move"}
    BY <1>1
  <2> QED BY <1>s, <1>1, <2>1, StateOf
<1>3. /\ UNCHANGED <<gateway, sent, order, credited, wallet, group, crashes>>
      /\ payment' = IF th.mem = th.next THEN payment
                    ELSE [payment EXCEPT ![th.p].status = th.next]
      /\ thread' = [thread EXCEPT ![t] = to]
  BY <1>t DEF SavePayment, Effects, TypeOK
<1>4. Grows /\ Fits(to, gateway', order', sent')
  BY <1>s, <1>f, <1>1, <1>3 DEF Grows, Fits
<1>5. thread' \in [Threads -> ThreadState] /\ ThreadsFit'
  BY <1>1, <1>2, <1>3, <1>4, Moves
<1>6. th.next \in PaymentStatus /\ (th.next = "CAPTURED" => gateway[th.p] = "captured")
  BY <1>s, <1>f DEF Record, Fits
<1>7. /\ payment' \in [Payments -> PaymentDoc]
      /\ \A q \in Payments : IF th.mem # th.next /\ q = th.p
                            THEN payment'[q].status = th.next
                            ELSE payment'[q] = payment[q]
  <2>1. CASE th.mem = th.next
    BY <2>1, <1>t, <1>3 DEF TypeOK
  <2>2. CASE th.mem # th.next
    <3>1. [payment[th.p] EXCEPT !.status = th.next] \in PaymentDoc
      BY <1>t, <1>s, <1>6 DEF TypeOK, PaymentDoc
    <3>2. payment' \in [Payments -> PaymentDoc]
      BY <2>2, <3>1, <1>t, <1>3 DEF TypeOK
    <3>3. ASSUME NEW q \in Payments, q # th.p PROVE payment'[q] = payment[q]
      BY <2>2, <3>3, <1>t, <1>3 DEF TypeOK
    <3>4. payment'[th.p].status = th.next
      BY <2>2, <1>t, <1>s, <1>3 DEF TypeOK, PaymentDoc
    <3> QED BY <2>2, <3>2, <3>3, <3>4
  <2> QED BY <2>1, <2>2
<1>8. TypeOK' /\ EventsTrue'
  BY <1>t, <1>3, <1>5, <1>7 DEF TypeOK, EventsTrue
<1>9. Unborn'
  BY <1>t, <1>3, <1>6, <1>7 DEF Unborn, PaymentStatus
<1>10. CreditedOnce' /\ PaidMeansCaptured'
  BY <1>t, <1>3, <1>6, <1>7 DEF CreditedOnce, PaidMeansCaptured
<1> QED BY <1>5, <1>8, <1>9, <1>10 DEF PayInv

\* The side effects of a capture: the transaction, the move, the group.
LEMMA EffectStep ==
    ASSUME PayInv, NEW t \in Threads,
           \/ \E o \in Orders : FinanceRead(t, o)
           \/ FinanceCommit(t) \/ MoveOrder(t) \/ SettleGroup(t)
    PROVE  PayInv'
<1> DEFINE th == thread[t]
<1>t. TypeOK /\ EventsTrue /\ Unborn /\ CreditedOnce /\ PaidMeansCaptured
  BY DEF PayInv
<1>s. th \in ThreadState /\ th \in Record
  BY <1>t, StateHas DEF TypeOK
<1>f. Fits(th, gateway, order, sent)
  BY DEF PayInv, ThreadsFit
<1>c. crashes \in 0 .. MaxCrashes
  BY <1>t DEF TypeOK
<1>1. ASSUME NEW o \in Orders, FinanceRead(t, o) PROVE PayInv'
  <2> DEFINE snap == [doc |-> order[o], wallet |-> wallet]
             to == [th EXCEPT !.pc = "commit", !.o = o, !.rest = th.rest \ {o}, !.snap = snap]
  <2>1. snap \in Snapshot
    BY <1>t DEF TypeOK, Snapshot
  <2>2. th.pc = "effects" /\ th.p \in Payments
    BY <1>1, <1>s, StateHas DEF FinanceRead, At
  <2>3. /\ to \in Record /\ to.pc = "commit" /\ to.o = o /\ to.snap = snap /\ to.p = th.p
        /\ to.webhook = th.webhook /\ Of(to) = Of(th)
    BY <1>s, <2>1 DEF Record, PC, Of
  <2>4. to \in ThreadState
    BY <2>2, <2>3, StateOf
  <2>8. to.snap.doc = order[o]
    BY <2>3
  <2>9. Grows /\ UNCHANGED <<gateway, order>>
    BY <1>1 DEF FinanceRead, Grows, Effects
  <2>5. Grows /\ Fits(to, gateway', order', sent')
    BY <1>f, <2>2, <2>3, <2>8, <2>9 DEF Fits
  <2>6. thread' = [thread EXCEPT ![t] = to]
    BY <1>1, <1>t DEF FinanceRead, TypeOK
  <2>7. thread' \in [Threads -> ThreadState] /\ ThreadsFit'
    BY <2>3, <2>4, <2>5, <2>6, Moves
  <2> QED BY <1>1, <1>c, <2>7, OnlyThreads DEF FinanceRead
<1>2. CASE FinanceCommit(t)
  <2> DEFINE o == th.o
             to == [th EXCEPT !.pc = "move"]
  <2>1. th.pc = "commit" /\ o \in Orders /\ th.p \in Payments
    BY <1>2, <1>s, StateHas DEF FinanceCommit, At
  <2>2. /\ to \in Record /\ to.pc = "move" /\ to.o = o /\ to.p = th.p
        /\ to.webhook = th.webhook /\ Of(to) = Of(th)
    BY <1>s DEF Record, PC, Of
  <2>3. to \in ThreadState
    BY <2>1, <2>2, StateOf
  <2>4. th.snap.doc.pay \in {"CREATED", "PAID"}
    BY <1>s DEF Record, Snapshot, OrderDoc
  <2>5. CASE th.snap.doc.pay = "PAID"
    <3>1. Goto(t, "move") /\ UNCHANGED <<payment, gateway, sent, Effects, crashes>>
      BY <1>2, <2>5 DEF FinanceCommit
    <3>2. Grows /\ Fits(to, gateway', order', sent')
      BY <1>f, <2>1, <2>2, <2>5, <3>1 DEF Grows, Effects, Fits
    <3>3. thread' = [thread EXCEPT ![t] = to]
      BY <3>1, <1>t DEF Goto, TypeOK
    <3>4. thread' \in [Threads -> ThreadState] /\ ThreadsFit'
      BY <2>2, <2>3, <3>2, <3>3, Moves
    <3> QED BY <1>c, <3>1, <3>4, OnlyThreads
  <2>6. CASE th.snap.doc.pay # "PAID" /\ th.snap = [doc |-> order[o], wallet |-> wallet]
    <3>1. /\ order[o].pay # "PAID"
          /\ credited' = [credited EXCEPT ![o] = @ + 1] /\ wallet' = wallet + 1
          /\ order' = [order EXCEPT ![o].pay = "PAID"]
          /\ Goto(t, "move")
          /\ UNCHANGED <<payment, gateway, sent, group, crashes>>
      BY <1>2, <2>6 DEF FinanceCommit
    <3>2. /\ order' \in [Orders -> OrderDoc] /\ order'[o].pay = "PAID"
          /\ order'[o].ws = order[o].ws
          /\ \A q \in Orders : q # o => order'[q] = order[q]
      BY <1>t, <2>1, <3>1 DEF TypeOK, OrderDoc
    <3>3. /\ credited' \in [Orders -> Nat] /\ credited[o] = 0 /\ credited'[o] = 1
          /\ \A q \in Orders : q # o => credited'[q] = credited[q]
      BY <1>t, <2>1, <3>1 DEF TypeOK, CreditedOnce
    <3>4. Grows
      BY <3>1, <3>2 DEF Grows
    <3>5. Fits(to, gateway', order', sent')
      BY <1>f, <2>1, <2>2, <3>1, <3>2 DEF Fits
    <3>6. thread' = [thread EXCEPT ![t] = to]
      BY <3>1, <1>t DEF Goto, TypeOK
    <3>7. thread' \in [Threads -> ThreadState] /\ ThreadsFit'
      BY <2>2, <2>3, <3>4, <3>5, <3>6, Moves
    <3>8. TypeOK'
      BY <1>t, <3>1, <3>2, <3>3, <3>7 DEF TypeOK
    <3>9. EventsTrue' /\ Unborn'
      BY <1>t, <3>1 DEF EventsTrue, Unborn
    <3>10. CreditedOnce'
      BY <1>t, <3>2, <3>3 DEF CreditedOnce
    <3>11. gateway[th.p] = "captured"
      BY <1>f, <2>1 DEF Fits
    <3>12. PaidMeansCaptured'
      BY <1>t, <2>1, <3>1, <3>2, <3>11 DEF PaidMeansCaptured
    <3> QED BY <3>7, <3>8, <3>9, <3>10, <3>12 DEF PayInv
  <2>7. CASE th.snap.doc.pay # "PAID" /\ th.snap # [doc |-> order[o], wallet |-> wallet]
    <3>1. Finish(t) /\ UNCHANGED <<payment, gateway, sent, Effects, crashes>>
      BY <1>2, <2>7 DEF FinanceCommit
    <3>2. Grows
      BY <3>1 DEF Grows, Effects
    <3>3. thread' \in [Threads -> ThreadState] /\ ThreadsFit'
      BY <3>1, <3>2, Ends
    <3> QED BY <1>c, <3>1, <3>3, OnlyThreads
  <2> QED BY <2>5, <2>6, <2>7
<1>3. CASE MoveOrder(t)
  <2> DEFINE o == th.o
             to == [th EXCEPT !.pc = "effects"]
  <2>1. th.pc = "move" /\ o \in Orders /\ th.p \in Payments
    BY <1>3, <1>s, StateHas DEF MoveOrder, At
  <2>2. /\ to \in Record /\ to.pc = "effects" /\ to.p = th.p
        /\ to.webhook = th.webhook /\ Of(to) = Of(th)
    BY <1>s DEF Record, PC, Of
  <2>3. to \in ThreadState
    BY <2>1, <2>2, StateOf
  <2>4. order[o].pay = "PAID"
    BY <1>f, <2>1 DEF Fits
  <2>5. thread' = [thread EXCEPT ![t] = to]
    BY <1>3, <1>t DEF MoveOrder, Goto, TypeOK
  <2>6. ASSUME Grows
        PROVE  thread' \in [Threads -> ThreadState] /\ ThreadsFit'
    <3>1. UNCHANGED <<gateway, sent>>
      BY <1>3 DEF MoveOrder
    <3>2. Fits(to, gateway', order', sent')
      BY <1>f, <2>1, <2>2, <3>1 DEF Fits
    <3> QED BY <2>2, <2>3, <2>5, <2>6, <3>2, Moves
  <2>7. CASE order[o].ws = "CREATED"
    BY <1>3, <1>c, <2>1, <2>4, <2>6, <2>7, OrderMoves DEF MoveOrder
  <2>8. CASE order[o].ws # "CREATED"
    <3>1. UNCHANGED <<payment, gateway, sent, Effects, crashes>>
      BY <1>3, <2>8 DEF MoveOrder, Effects
    <3>2. Grows
      BY <3>1 DEF Grows, Effects
    <3> QED BY <1>c, <2>6, <3>1, <3>2, OnlyThreads
  <2> QED BY <2>7, <2>8
<1>4. CASE SettleGroup(t)
  <2>1. /\ group' = "PAID" /\ Finish(t)
        /\ UNCHANGED <<payment, gateway, sent, order, credited, wallet, crashes>>
    BY <1>4 DEF SettleGroup
  <2>2. Grows
    BY <2>1 DEF Grows
  <2>3. thread' \in [Threads -> ThreadState] /\ ThreadsFit'
    BY <2>1, <2>2, Ends
  <2>4. TypeOK'
    BY <1>t, <2>1, <2>3 DEF TypeOK
  <2>5. EventsTrue' /\ Unborn' /\ CreditedOnce' /\ PaidMeansCaptured'
    BY <1>t, <2>1 DEF EventsTrue, Unborn, CreditedOnce, PaidMeansCaptured
  <2> QED BY <2>3, <2>4, <2>5 DEF PayInv
<1> QED BY <1>1, <1>2, <1>3, <1>4

LEMMA PayStep == PayInv /\ [Next]_vars => PayInv'
<1> SUFFICES ASSUME PayInv, [Next]_vars PROVE PayInv'
  OBVIOUS
<1>1. ASSUME NEW t \in Threads, Continue(t) PROVE PayInv'
  BY <1>1, CreateStep, SaveStep, EarlyStep, EffectStep DEF Continue
<1>2. ASSUME NEW t \in Threads,
             \/ \E k \in Keys \cup {NoKey} : CreateCheck(t, k)
             \/ \E p \in Payments : VerifyPayment(t, p)
             \/ \E e \in sent : ReceiveWebhook(t, e)
             \/ Crash(t)
      PROVE  PayInv'
  BY <1>2, EarlyStep
<1>3. CASE UNCHANGED vars
  <2>1. Grows /\ thread' = thread
    BY <1>3 DEF vars, Grows
  <2>2. thread' \in [Threads -> ThreadState] /\ ThreadsFit'
    BY <2>1, Stays
  <2>3. crashes' \in 0 .. MaxCrashes
    BY <1>3 DEF PayInv, TypeOK, vars
  <2> QED BY <1>3, <2>2, <2>3, OnlyThreads DEF vars, Effects
<1> QED BY <1>1, <1>2, <1>3, GatewayStep, CancelStep DEF Next
-----------------------------------------------------------------------------
(* The theorems.                                                           *)

\* The inductive invariant: what handlers carry with them stays true while they wait,
\* because nothing they rely on (a capture, a payment, an event) is ever taken back.
THEOREM PaymentsCorrect == Spec => []PayInv
<1> QED BY PayInit, PayStep, PTL DEF Spec

\* Every reachable state is well typed, whatever the gateway delivers.
THEOREM PaymentTypeCorrect == Spec => []TypeOK
<1>1. PayInv => TypeOK
  BY DEF PayInv
<1> QED BY <1>1, PaymentsCorrect, PTL

\* handleOnlineOrderFinance credits the wallet once for each order it marks PAID,
\* however many verifications of however many payments overlap.
THEOREM CreditsAreSingle == Spec => []CreditedOnce
<1>1. PayInv => CreditedOnce
  BY DEF PayInv
<1> QED BY <1>1, PaymentsCorrect, PTL

\* No order is paid for, and none reaches its seller, without captured money.
THEOREM PaidIsCaptured == Spec => []PaidMeansCaptured
<1>1. PayInv => PaidMeansCaptured
  BY DEF PayInv
<1> QED BY <1>1, PaymentsCorrect, PTL
-----------------------------------------------------------------------------
(* PaymentCapture implements PaymentPromise.                               *)

\* The side effects of a capture go from order to order: whom a handler has been to,
\* is paid for, but for the order whose transaction it is in.
Visited(th, ord) ==
    th.pc \in {"effects", "commit", "move"} =>
        \A q \in Orders \ th.rest : \/ ord[q].pay = "PAID"
                                    \/ th.pc = "commit" /\ q = th.o

GroupPaidLast == group = "PAID" => \A o \in Orders : order[o].pay = "PAID"

RoundInv == (\A t \in Threads : Visited(thread[t], order)) /\ GroupPaidLast

PaidStays == \A o \in Orders : order[o].pay = "PAID" => order'[o].pay = "PAID"

Kept == Promise!PromiseNext \/ UNCHANGED Promise!promiseVars

LEMMA RoundGoesOn ==
    ASSUME PayInv, RoundInv, PaidStays,
           NEW t \in Threads, NEW to, thread' = [thread EXCEPT ![t] = to],
           Visited(to, order'),
           group' = "PAID" => group = "PAID" \/ \A o \in Orders : order[o].pay = "PAID"
    PROVE  RoundInv'
<1>1. thread'[t] = to /\ \A u \in Threads : u # t => thread'[u] = thread[u]
  BY DEF PayInv, TypeOK
<1>2. ASSUME NEW u \in Threads PROVE Visited(thread'[u], order')
  <2>1. Visited(thread[u], order)
    BY DEF RoundInv
  <2>2. Visited(thread[u], order')
    BY <2>1 DEF Visited, PaidStays
  <2> QED BY <1>1, <2>2
<1>3. GroupPaidLast'
  BY DEF RoundInv, GroupPaidLast, PaidStays
<1> QED BY <1>2, <1>3 DEF RoundInv

\* The same for a step that moves no handler,
LEMMA RoundStays ==
    ASSUME RoundInv, PaidStays, thread' = thread, group' = group PROVE RoundInv'
<1>1. ASSUME NEW u \in Threads PROVE Visited(thread'[u], order')
  <2>1. Visited(thread[u], order)
    BY DEF RoundInv
  <2> QED BY <2>1 DEF Visited, PaidStays
<1>2. GroupPaidLast'
  BY DEF RoundInv, GroupPaidLast, PaidStays
<1> QED BY <1>1, <1>2 DEF RoundInv

\* and for one that sends a handler somewhere outside the side effects.
LEMMA RoundElsewhere ==
    ASSUME PayInv, RoundInv, NEW t \in Threads, NEW to,
           thread' = [thread EXCEPT ![t] = to],
           to.pc \notin {"effects", "commit", "move"}, UNCHANGED <<order, group>>
    PROVE  RoundInv'
<1>1. Visited(to, order') /\ PaidStays
  BY DEF Visited, PaidStays
<1> QED BY <1>1, RoundGoesOn

LEMMA IdleRound == ASSUME PayInv, RoundInv, NEW t \in Threads, Finish(t),
                          UNCHANGED <<order, group>>
                   PROVE  RoundInv'
<1>1. Idle.pc = "idle"
  BY DEF Idle
<1> QED BY <1>1, RoundElsewhere DEF Finish

LEMMA NothingPromised ==
    ASSUME UNCHANGED <<payment, gateway, order, credited, group>> PROVE Kept
  BY DEF Kept, Promise!promiseVars, Captured, Known

LEMMA GatewayKeeps ==
    ASSUME PayInv, RoundInv, NEW p \in Payments, AttemptFails(p) \/ AttemptCaptured(p)
    PROVE  RoundInv' /\ Kept
<1>1. UNCHANGED <<payment, order, credited, group, thread>>
  BY DEF AttemptFails, AttemptCaptured, Effects
<1>2. RoundInv'
  BY <1>1, RoundStays DEF PaidStays
<1>3. CASE AttemptFails(p)
  BY <1>1, <1>2, <1>3, NothingPromised DEF AttemptFails
<1>4. CASE AttemptCaptured(p)
  <2>1. gateway \in [Payments -> {"none", "open", "captured"}]
    BY DEF PayInv, TypeOK
  <2>2. gateway' = [gateway EXCEPT ![p] = "captured"]
    BY <1>4 DEF AttemptCaptured
  <2>3. Captured' = Captured \cup {p} /\ Known' = Known
    BY <1>1, <2>1, <2>2 DEF Captured, Known
  <2>4. Promise!Capture(p)
    BY <1>1, <2>3 DEF Promise!Capture
  <2> QED BY <1>2, <2>4 DEF Kept, Promise!PromiseNext
<1> QED BY <1>3, <1>4

LEMMA CancelKeeps ==
    ASSUME PayInv, RoundInv, NEW o \in Orders, OrderCancelled(o)
    PROVE  RoundInv' /\ Kept
<1>1. /\ order' = [order EXCEPT ![o].ws = "CANCELLED"]
      /\ UNCHANGED <<payment, gateway, credited, group, thread>>
  BY DEF OrderCancelled
<1>2. PaidStays
  BY <1>1 DEF PayInv, TypeOK, OrderDoc, PaidStays
<1>3. Promise!Cancel(o)
  BY <1>1 DEF Promise!Cancel, Captured, Known
<1> QED BY <1>1, <1>2, <1>3, RoundStays DEF Kept, Promise!PromiseNext

\* The handlers up to the save, and those that end.
LEMMA EarlyKeeps ==
    ASSUME PayInv, RoundInv, NEW t \in Threads,
           \/ \E k \in Keys \cup {NoKey} : CreateCheck(t, k)
           \/ \E p \in Payments : VerifyPayment(t, p)
           \/ \E e \in sent : ReceiveWebhook(t, e)
           \/ FindPayment(t) \/ CompareStatus(t) \/ CreateThrows(t) \/ Crash(t)
    PROVE  RoundInv' /\ Kept
<1>1. UNCHANGED <<payment, gateway, order, credited, group>>
  BY DEF CreateCheck, VerifyPayment, ReceiveWebhook, FindPayment, CompareStatus,
         CreateThrows, Crash, Effects
<1>2. \/ Finish(t)
      \/ \E to : /\ thread' = [thread EXCEPT ![t] = to]
                 /\ to.pc \notin {"effects", "commit", "move"}
  <2>1. ASSUME NEW k \in Keys \cup {NoKey}, CreateCheck(t, k)
        PROVE  \E to : /\ thread' = [thread EXCEPT ![t] = to]
                       /\ to.pc \notin {"effects", "commit", "move"}
    <3>1. [Idle EXCEPT !.pc = "create", !.key = k].pc = "create"
      BY DEF Idle
    <3> QED BY <2>1, <3>1 DEF CreateCheck, Start
  <2>2. ASSUME NEW p \in Payments, VerifyPayment(t, p)
        PROVE  \E to : /\ thread' = [thread EXCEPT ![t] = to]
                       /\ to.pc \notin {"effects", "commit", "move"}
    <3>1. [Idle EXCEPT !.pc = "save", !.p = p, !.next = "CAPTURED",
                       !.mem = payment[p].status].pc = "save"
      BY DEF Idle
    <3> QED BY <2>2, <3>1 DEF VerifyPayment, Start
  <2>3. ASSUME NEW e \in sent, ReceiveWebhook(t, e)
        PROVE  \E to : /\ thread' = [thread EXCEPT ![t] = to]
                       /\ to.pc \notin {"effects", "commit", "move"}
    <3>1. [Idle EXCEPT !.pc = "find", !.p = e.p, !.webhook = TRUE, !.type = e.type].pc
             = "find"
      BY DEF Idle
    <3> QED BY <2>3, <3>1 DEF ReceiveWebhook, Start
  <2>4. CASE FindPayment(t)
    <3> DEFINE next == NextStatus(thread[t].type)
               to == [thread[t] EXCEPT !.pc = "save", !.next = next,
                                       !.mem = payment[thread[t].p].status]
    <3>1. thread \in [Threads -> ThreadState] /\ thread[t] \in Record
      BY StateHas DEF PayInv, TypeOK
    <3>2. to.pc = "save"
      BY <3>1 DEF Record
    <3>3. Finish(t) \/ thread' = [thread EXCEPT ![t] = to]
      BY <2>4, <3>1 DEF FindPayment
    <3> QED BY <3>2, <3>3
  <2>5. CASE CompareStatus(t)
    <3>1. thread[t].next = thread[t].mem
      BY <2>5 DEF CompareStatus, At, PayInv, ThreadsFit, Fits
    <3> QED BY <2>5, <3>1 DEF CompareStatus
  <2>6. CASE CreateThrows(t) \/ Crash(t)
    BY <2>6 DEF CreateThrows, Crash
  <2> QED BY <2>1, <2>2, <2>3, <2>4, <2>5, <2>6
<1>3. RoundInv'
  <2>1. CASE Finish(t)
    BY <1>1, <2>1, IdleRound
  <2>2. CASE \E to : /\ thread' = [thread EXCEPT ![t] = to]
                     /\ to.pc \notin {"effects", "commit", "move"}
    BY <1>1, <2>2, RoundElsewhere
  <2> QED BY <1>2, <2>1, <2>2
<1> QED BY <1>1, <1>3, NothingPromised

LEMMA CreateKeeps ==
    ASSUME PayInv, RoundInv, NEW t \in Threads, NEW p \in Payments, CreatePayment(t, p)
    PROVE  RoundInv' /\ Kept
<1> DEFINE new == [status |-> "PENDING", key |-> thread[t].key]
<1>1. /\ payment' = [payment EXCEPT ![p] = new] /\ gateway' = [gateway EXCEPT ![p] = "open"]
      /\ payment[p].status = "NONE" /\ Finish(t)
      /\ UNCHANGED <<order, credited, group>>
  BY DEF CreatePayment, Effects
<1>2. /\ payment \in [Payments -> PaymentDoc] /\ gateway[p] = "none"
      /\ gateway \in [Payments -> {"none", "open", "captured"}]
  BY <1>1 DEF PayInv, TypeOK, Unborn
<1>3. Captured' = Captured
  BY <1>1, <1>2 DEF Captured
<1>4. /\ payment'[p].status = "PENDING"
      /\ \A q \in Payments : q # p => payment'[q] = payment[q]
  BY <1>1, <1>2
<1>5. Known' = Known
  BY <1>1, <1>4 DEF Known
<1> QED BY <1>1, <1>3, <1>5, IdleRound DEF Kept, Promise!promiseVars

LEMMA SaveKeeps ==
    ASSUME PayInv, RoundInv, NEW t \in Threads, SavePayment(t) PROVE RoundInv' /\ Kept
<1> DEFINE th == thread[t]
           to == [th EXCEPT !.mem = th.next,
                            !.pc = IF th.webhook THEN "compare" ELSE "effects",
                            !.rest = Orders]
<1>1. /\ UNCHANGED <<gateway, order, credited, group>>
      /\ payment' = IF th.mem = th.next THEN payment
                    ELSE [payment EXCEPT ![th.p].status = th.next]
  BY DEF SavePayment, Effects
<1>2. /\ thread \in [Threads -> ThreadState] /\ th \in Record /\ th.p \in Payments
      /\ payment \in [Payments -> PaymentDoc] /\ th.pc = "save"
  BY StateHas DEF SavePayment, At, PayInv, TypeOK
<1>3. thread' = [thread EXCEPT ![t] = to]
  BY <1>2 DEF SavePayment
<1>4. to.rest = Orders
  BY <1>2 DEF Record
<1>5. RoundInv'
  <2>1. Visited(to, order') /\ PaidStays
    BY <1>1, <1>4 DEF Visited, PaidStays
  <2> HIDE DEF to
  <2> QED BY <1>1, <1>3, <2>1, RoundGoesOn
<1>6. Captured' = Captured
  BY <1>1 DEF Captured
<1>7. CASE th.mem = th.next
  BY <1>1, <1>5, <1>7, NothingPromised
<1>8. CASE th.mem # th.next
  <2>1. /\ payment'[th.p].status = th.next
        /\ \A q \in Payments : q # th.p => payment'[q] = payment[q]
    BY <1>1, <1>2, <1>8 DEF PaymentDoc
  <2>2. CASE th.next = "CAPTURED"
    <3>1. th.p \in Captured
      BY <1>2, <2>2 DEF PayInv, ThreadsFit, Fits, Captured
    <3>2. Known' = Known \cup {th.p}
      BY <1>2, <2>1, <2>2 DEF Known
    <3>3. Promise!Note(th.p)
      BY <1>1, <1>6, <3>1, <3>2 DEF Promise!Note
    <3> QED BY <1>2, <1>5, <3>3 DEF Kept, Promise!PromiseNext
  <2>3. CASE th.next # "CAPTURED"
    <3>1. Known' = Known \ {th.p}
      BY <1>2, <2>1, <2>3 DEF Known
    <3>2. Promise!Lose(th.p)
      BY <1>1, <1>6, <3>1 DEF Promise!Lose
    <3> QED BY <1>2, <1>5, <3>2 DEF Kept, Promise!PromiseNext
  <2> QED BY <2>2, <2>3
<1> QED BY <1>7, <1>8

LEMMA ReadKeeps ==
    ASSUME PayInv, RoundInv, NEW t \in Threads, NEW o \in Orders, FinanceRead(t, o)
    PROVE  RoundInv' /\ Kept
<1> DEFINE th == thread[t]
           to == [th EXCEPT !.pc = "commit", !.o = o, !.rest = th.rest \ {o},
                            !.snap = [doc |-> order[o], wallet |-> wallet]]
<1>1. UNCHANGED <<payment, gateway, order, credited, group>> /\ th.pc = "effects"
  BY DEF FinanceRead, Effects, At
<1>2. thread \in [Threads -> ThreadState] /\ th \in Record
  BY StateHas DEF PayInv, TypeOK
<1>3. thread' = [thread EXCEPT ![t] = to]
  BY <1>2 DEF FinanceRead
<1>4. to.pc = "commit" /\ to.o = o /\ to.rest = th.rest \ {o}
  BY <1>2 DEF Record
<1>5. Visited(th, order)
  BY DEF RoundInv
<1> HIDE DEF to
<1>6. Visited(to, order') /\ PaidStays
  BY <1>1, <1>4, <1>5 DEF Visited, PaidStays
<1> QED BY <1>1, <1>3, <1>6, RoundGoesOn, NothingPromised

LEMMA CommitKeeps ==
    ASSUME PayInv, RoundInv, NEW t \in Threads, FinanceCommit(t) PROVE RoundInv' /\ Kept
<1> DEFINE th == thread[t]
           o == th.o
           to == [th EXCEPT !.pc = "move"]
<1>1. /\ th \in Record /\ o \in Orders /\ th.p \in Payments /\ th.pc = "commit"
      /\ thread \in [Threads -> ThreadState] /\ order \in [Orders -> OrderDoc]
  BY StateHas DEF FinanceCommit, At, PayInv, TypeOK
<1>2. to.pc = "move" /\ to.rest = th.rest /\ [thread EXCEPT ![t].pc = "move"] = [thread EXCEPT ![t] = to]
  BY <1>1 DEF Record
<1>3. Visited(th, order)
  BY DEF RoundInv
<1>4. UNCHANGED <<payment, gateway, group>>
  BY DEF FinanceCommit, Effects
<1> HIDE DEF to
<1>5. CASE th.snap.doc.pay = "PAID"
  <2>1. thread' = [thread EXCEPT ![t] = to] /\ UNCHANGED <<order, credited>>
    BY <1>2, <1>5 DEF FinanceCommit, Goto, Effects
  <2>2. order[o].pay = "PAID"
    BY <1>1, <1>5 DEF PayInv, ThreadsFit, Fits
  <2>3. Visited(to, order') /\ PaidStays
    BY <1>1, <1>2, <1>3, <2>1, <2>2 DEF Visited, PaidStays
  <2> QED BY <1>4, <2>1, <2>3, RoundGoesOn, NothingPromised
<1>6. CASE th.snap.doc.pay # "PAID" /\ th.snap = [doc |-> order[o], wallet |-> wallet]
  <2>1. /\ thread' = [thread EXCEPT ![t] = to] /\ order[o].pay # "PAID"
        /\ order' = [order EXCEPT ![o].pay = "PAID"]
        /\ credited' = [credited EXCEPT ![o] = @ + 1]
    BY <1>2, <1>6 DEF FinanceCommit, Goto
  <2>2. /\ order'[o].pay = "PAID" /\ \A q \in Orders : q # o => order'[q] = order[q]
    BY <1>1, <2>1 DEF OrderDoc
  <2>3. Visited(to, order') /\ PaidStays
    BY <1>1, <1>2, <1>3, <2>2 DEF Visited, PaidStays
  <2>4. RoundInv'
    BY <1>4, <2>1, <2>3, RoundGoesOn
  <2>5. th.p \in Captured
    BY <1>1 DEF PayInv, ThreadsFit, Fits, Captured
  <2>6. Promise!Pay(o)
    BY <1>4, <2>1, <2>5 DEF Promise!Pay, Captured, Known
  <2> QED BY <1>1, <2>4, <2>6 DEF Kept, Promise!PromiseNext
<1>7. CASE th.snap.doc.pay # "PAID" /\ th.snap # [doc |-> order[o], wallet |-> wallet]
  <2>1. Finish(t) /\ UNCHANGED <<order, credited>>
    BY <1>7 DEF FinanceCommit, Effects
  <2> QED BY <1>4, <2>1, IdleRound, NothingPromised
<1> QED BY <1>5, <1>6, <1>7

LEMMA MoveKeeps ==
    ASSUME PayInv, RoundInv, NEW t \in Threads, MoveOrder(t) PROVE RoundInv' /\ Kept
<1> DEFINE th == thread[t]
           o == th.o
           to == [th EXCEPT !.pc = "effects"]
<1>1. /\ th \in Record /\ o \in Orders /\ th.pc = "move"
      /\ thread \in [Threads -> ThreadState] /\ order \in [Orders -> OrderDoc]
  BY StateHas DEF MoveOrder, At, PayInv, TypeOK
<1>2. to.pc = "effects" /\ to.rest = th.rest /\ [thread EXCEPT ![t].pc = "effects"] = [thread EXCEPT ![t] = to]
  BY <1>1 DEF Record
<1>3. Visited(th, order) /\ order[o].pay = "PAID"
  BY <1>1 DEF RoundInv, PayInv, ThreadsFit, Fits
<1>4. thread' = [thread EXCEPT ![t] = to] /\ UNCHANGED <<payment, gateway, credited, group>>
  BY <1>2 DEF MoveOrder, Goto
<1> HIDE DEF to
<1>5. CASE order[o].ws = "CREATED"
  <2>1. order' = [order EXCEPT ![o].ws = "SELLER_PENDING"]
    BY <1>5 DEF MoveOrder
  <2>2. \A q \in Orders : order'[q].pay = order[q].pay
    BY <1>1, <2>1 DEF OrderDoc
  <2>3. Visited(to, order') /\ PaidStays
    BY <1>1, <1>2, <1>3, <2>2 DEF Visited, PaidStays
  <2>4. order[o] = [ws |-> "CREATED", pay |-> "PAID"]
    BY <1>1, <1>3, <1>5 DEF OrderDoc
  <2>5. Promise!HandOver(o)
    BY <1>4, <2>1, <2>4 DEF Promise!HandOver, Captured, Known
  <2> QED BY <1>1, <1>4, <2>3, <2>5, RoundGoesOn DEF Kept, Promise!PromiseNext
<1>6. CASE order[o].ws # "CREATED"
  <2>1. order' = order
    BY <1>6 DEF MoveOrder
  <2>2. Visited(to, order') /\ PaidStays
    BY <1>1, <1>2, <1>3, <2>1 DEF Visited, PaidStays
  <2> QED BY <1>4, <2>1, <2>2, RoundGoesOn, NothingPromised
<1> QED BY <1>5, <1>6

\* A handler that has been to all orders has seen them all paid for.
LEMMA SettleKeeps ==
    ASSUME PayInv, RoundInv, NEW t \in Threads, SettleGroup(t) PROVE RoundInv' /\ Kept
<1>1. /\ group' = "PAID" /\ Finish(t) /\ thread[t].pc = "effects" /\ thread[t].rest = {}
      /\ UNCHANGED <<payment, gateway, order, credited>>
  BY DEF SettleGroup, At
<1>2. \A o \in Orders : order[o].pay = "PAID"
  BY <1>1 DEF RoundInv, Visited
<1>3. Visited(Idle, order') /\ PaidStays
  BY <1>1 DEF Visited, PaidStays, Idle
<1>4. RoundInv'
  BY <1>1, <1>2, <1>3, RoundGoesOn DEF Finish
<1>5. Promise!Close
  BY <1>1, <1>2 DEF Promise!Close, Captured, Known
<1> QED BY <1>4, <1>5 DEF Kept, Promise!PromiseNext

LEMMA StepKeeps ==
    ASSUME PayInv, RoundInv, [Next]_vars PROVE RoundInv' /\ Kept
<1>1. ASSUME NEW t \in Threads, Continue(t) PROVE RoundInv' /\ Kept
  BY <1>1, CreateKeeps, SaveKeeps, EarlyKeeps, ReadKeeps, CommitKeeps, MoveKeeps,
     SettleKeeps DEF Continue
<1>2. ASSUME NEW t \in Threads,
             \/ \E k \in Keys \cup {NoKey} : CreateCheck(t, k)
             \/ \E p \in Payments : VerifyPayment(t, p)
             \/ \E e \in sent : ReceiveWebhook(t, e)
             \/ Crash(t)
      PROVE  RoundInv' /\ Kept
  BY <1>2, EarlyKeeps
<1>3. CASE UNCHANGED vars
  BY <1>3, RoundStays, NothingPromised DEF vars, PaidStays
<1> QED BY <1>1, <1>2, <1>3, GatewayKeeps, CancelKeeps DEF Next

LEMMA PromiseStarts == Init => RoundInv /\ Promise!PromiseInit
<1> SUFFICES ASSUME Init PROVE RoundInv /\ Promise!PromiseInit
  OBVIOUS
<1>1. RoundInv
  BY DEF Init, RoundInv, Visited, GroupPaidLast, Idle
<1>2. Captured = {} /\ Known = {}
  BY DEF Init, Captured, Known
<1> QED BY <1>1, <1>2 DEF Init, Promise!PromiseInit

\* PaymentCapture implements PaymentPromise: a commit is a Pay, because a snapshot that is
\* current says whether the order is paid for, and the checkout is closed by a handler that
\* has been to every order and left it paid for.
THEOREM PaymentImplementsPromise == Spec => PromiseKept
<1>1. Init => PayInv /\ RoundInv /\ Promise!PromiseInit
  BY PayInit, PromiseStarts
<1>2. PayInv /\ RoundInv /\ [Next]_vars => PayInv' /\ RoundInv' /\ Kept
  BY PayStep, StepKeeps
<1> QED BY <1>1, <1>2, PTL DEF Spec, PromiseKept, Promise!PromiseSpec, Kept

\* What PaymentPromise is worth, whoever keeps it: an order marked PAID was credited once,
\* and no other was; nothing is paid for, or recorded as captured, without money; and the
\* checkout is PAID only when each of its orders is.
THEOREM PromisePaysOnce == PromiseKept => []PaidAddsUp
<1> DEFINE Sound == /\ order \in [Orders -> OrderDoc] /\ credited \in [Orders -> Nat]
                    /\ CreditedOnce /\ GroupPaidLast /\ Known \subseteq Captured
                    /\ \A o \in Orders :
                          /\ order[o].pay = "PAID" => Captured # {}
                          /\ order[o].ws = "SELLER_PENDING" => order[o].pay = "PAID"
<1>1. Promise!PromiseInit => Sound
  BY DEF Promise!PromiseInit, CreditedOnce, GroupPaidLast, OrderDoc
<1>2. Sound /\ Kept => Sound'
  <2> SUFFICES ASSUME Sound, Kept PROVE Sound'
    OBVIOUS
  <2>1. ASSUME NEW p \in Payments, Promise!Capture(p) \/ Promise!Note(p) \/ Promise!Lose(p)
        PROVE  Sound'
    <3>1. UNCHANGED <<order, credited, group>> /\ Captured \subseteq Captured'
      BY <2>1 DEF Promise!Capture, Promise!Note, Promise!Lose
    <3>2. Known' \subseteq Captured'
      BY <2>1 DEF Promise!Capture, Promise!Note, Promise!Lose
    <3>3. CreditedOnce' /\ GroupPaidLast'
      BY <3>1 DEF CreditedOnce, GroupPaidLast
    <3> HIDE DEF Known, Captured
    <3> QED BY <3>1, <3>2, <3>3
  <2>2. ASSUME NEW o \in Orders, Promise!Pay(o) PROVE Sound'
    <3>1. /\ order' = [order EXCEPT ![o].pay = "PAID"] /\ order[o].pay # "PAID"
          /\ credited' = [credited EXCEPT ![o] = @ + 1]
          /\ Captured # {} /\ Captured' = Captured /\ Known' = Known /\ group' = group
      BY <2>2 DEF Promise!Pay
    <3>2. /\ order' \in [Orders -> OrderDoc] /\ order'[o].pay = "PAID"
          /\ \A q \in Orders : q # o => order'[q] = order[q]
      BY <3>1 DEF OrderDoc
    <3>3. /\ credited' \in [Orders -> Nat] /\ credited'[o] = 1
          /\ \A q \in Orders : q # o => credited'[q] = credited[q]
      BY <3>1 DEF CreditedOnce
    <3>4. CreditedOnce'
      BY <3>2, <3>3 DEF CreditedOnce
    <3>5. GroupPaidLast'
      BY <3>1, <3>2 DEF GroupPaidLast
    <3> QED BY <3>1, <3>2, <3>3, <3>4, <3>5
  <2>3. ASSUME NEW o \in Orders, Promise!HandOver(o) \/ Promise!Cancel(o) PROVE Sound'
    <3>1. UNCHANGED <<credited, group>> /\ Captured' = Captured /\ Known' = Known
      BY <2>3 DEF Promise!HandOver, Promise!Cancel
    <3>2. PICK w \in {"SELLER_PENDING", "CANCELLED"} :
             /\ order' = [order EXCEPT ![o].ws = w]
             /\ w = "SELLER_PENDING" => order[o].pay = "PAID"
      BY <2>3 DEF Promise!HandOver, Promise!Cancel
    <3>3. /\ order' \in [Orders -> OrderDoc] /\ order'[o].ws = w
          /\ \A q \in Orders : order'[q].pay = order[q].pay /\ (q # o => order'[q] = order[q])
      BY <3>2 DEF OrderDoc
    <3>4. CreditedOnce' /\ GroupPaidLast'
      BY <3>1, <3>3 DEF CreditedOnce, GroupPaidLast
    <3> HIDE DEF Known, Captured
    <3> QED BY <3>1, <3>2, <3>3, <3>4
  <2>4. CASE Promise!Close
    BY <2>4 DEF Promise!Close, CreditedOnce, GroupPaidLast
  <2>5. CASE UNCHANGED Promise!promiseVars
    BY <2>5 DEF Promise!promiseVars, CreditedOnce, GroupPaidLast
  <2> QED BY <2>1, <2>2, <2>3, <2>4, <2>5 DEF Kept, Promise!PromiseNext
<1>3. Sound => PaidAddsUp
  BY DEF PaidAddsUp, PaidMeansCaptured, GroupPaidLast, Captured, Known
<1> HIDE DEF Sound
<1> QED BY <1>1, <1>2, <1>3, PTL DEF PromiseKept, Promise!PromiseSpec, Kept
===============================================================================
