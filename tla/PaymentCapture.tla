---------------------------- MODULE PaymentCapture ----------------------------
(***************************************************************************)
(* The payments of one ONLINE checkout: paymentService.js (creating a      *)
(* payment, the customer's verification, the gateway's webhook) and        *)
(* handleOnlineOrderFinance, which credits the platform's wallet.          *)
(*                                                                         *)
(* A Payment document stands for one gateway order.  The gateway is        *)
(* external: a gateway order can fail an attempt, be captured by a later   *)
(* one, and each of these is an event it delivers any number of times, in  *)
(* any order.  The body of an event has no id of its own, so the webhook   *)
(* records each delivery under a new one, and handles each.  A customer    *)
(* can present a valid signature once the gateway order is captured, any   *)
(* number of times, and nobody obliges him to.                             *)
(*                                                                         *)
(* Each handler is a thread.  payment.save() writes the status the handler *)
(* computed from the document it read; handleOnlineOrderFinance is a       *)
(* MongoDB transaction, which commits unless another write reached the     *)
(* order or the wallet after its snapshot.                                 *)
(***************************************************************************)
EXTENDS Integers, FiniteSets

CONSTANTS
    Payments,     \* gateway orders, each with its Payment document
    Orders,       \* the orders the checkout pays for
    Keys,         \* idempotency keys a client may send
    NoKey,        \* a request without one
    NoPayment,    \* the payment of an idle thread
    NoOrder,      \* the order of a thread outside a transaction
    Threads,      \* handlers in flight
    RawWebhook,   \* the webhook route receives the raw body; behind
                  \* express.json it refuses every event unread
    MaxCrashes    \* bound: handlers abandoned half way

ASSUME NoValuesAssumption ==
    NoKey \notin Keys /\ NoPayment \notin Payments /\ NoOrder \notin Orders
ASSUME CrashesAssumption == MaxCrashes \in Nat
ASSUME RawAssumption == RawWebhook \in BOOLEAN

VARIABLES
    payment,   \* payment[p]: the Payment document, or its absence
    gateway,   \* gateway[p]: what the gateway holds of p (external)
    sent,      \* events the gateway delivers
    order,     \* order[o]: workflow and payment status
    credited,  \* credited[o]: times the platform's wallet was credited for o
    wallet,    \* writes to the platform's wallet so far
    group,     \* status of the CheckoutGroup
    thread,    \* thread[t]: what handler t is in the middle of
    crashes    \* handlers abandoned so far

vars == <<payment, gateway, sent, order, credited, wallet, group, thread,
          crashes>>

PaymentStatus == {"CREATED", "PENDING", "AUTHORIZED", "CAPTURED", "FAILED",
                  "REFUNDED", "CANCELLED"}

EventType == {"payment.captured", "order.paid", "payment.failed"}
Event == [p : Payments, type : EventType]

PC == {"idle", "create", "find", "save", "compare", "effects", "commit", "move"}

PaymentDoc == [status : PaymentStatus \cup {"NONE"}, key : Keys \cup {NoKey}]
OrderDoc == [ws : {"CREATED", "SELLER_PENDING", "CANCELLED"},
             pay : {"CREATED", "PAID"}]
Snapshot == [doc : OrderDoc, wallet : Nat]

NoSnapshot == [doc |-> [ws |-> "CREATED", pay |-> "CREATED"], wallet |-> 0]

ThreadState ==
    {th \in [pc : PC, p : Payments \cup {NoPayment}, key : Keys \cup {NoKey},
             webhook : BOOLEAN, type : EventType, mem : PaymentStatus,
             next : PaymentStatus, rest : SUBSET Orders,
             o : Orders \cup {NoOrder}, snap : Snapshot] :
        /\ th.pc \notin {"idle", "create"} => th.p \in Payments
        /\ th.pc \in {"commit", "move"} => th.o \in Orders}

Idle == [pc |-> "idle", p |-> NoPayment, key |-> NoKey, webhook |-> FALSE,
         type |-> "order.paid", mem |-> "CREATED", next |-> "CREATED",
         rest |-> {}, o |-> NoOrder, snap |-> NoSnapshot]

TypeOK ==
    /\ payment \in [Payments -> PaymentDoc]
    /\ gateway \in [Payments -> {"none", "open", "captured"}]
    /\ sent \in SUBSET Event
    /\ order \in [Orders -> OrderDoc]
    /\ credited \in [Orders -> Nat]
    /\ wallet \in Nat
    /\ group \in {"PAYMENT_PENDING", "PAID"}
    /\ thread \in [Threads -> ThreadState]
    /\ crashes \in 0 .. MaxCrashes

Init ==
    /\ payment = [p \in Payments |-> [status |-> "NONE", key |-> NoKey]]
    /\ gateway = [p \in Payments |-> "none"]
    /\ sent = {}
    /\ order = [o \in Orders |-> [ws |-> "CREATED", pay |-> "CREATED"]]
    /\ credited = [o \in Orders |-> 0]
    /\ wallet = 0
    /\ group = "PAYMENT_PENDING"
    /\ thread = [t \in Threads |-> Idle]
    /\ crashes = 0

Effects == <<order, credited, wallet, group>>
-----------------------------------------------------------------------------
(* The transition table of constants/payment.js.                           *)

Transitions ==
    [CREATED    |-> {"PENDING", "AUTHORIZED", "CAPTURED", "FAILED", "CANCELLED"},
     PENDING    |-> {"AUTHORIZED", "CAPTURED", "FAILED", "CANCELLED"},
     AUTHORIZED |-> {"CAPTURED", "FAILED", "REFUNDED"},
     CAPTURED   |-> {"REFUNDED"},
     FAILED     |-> {},
     CANCELLED  |-> {},
     REFUNDED   |-> {}]

CanTransitionPaymentStatus(from, to) == from = to \/ to \in Transitions[from]
-----------------------------------------------------------------------------
(* Steps of a thread.                                                      *)

At(t, pc) == thread[t].pc = pc

Start(t, th) == At(t, "idle") /\ thread' = [thread EXCEPT ![t] = th]

Goto(t, pc) == thread' = [thread EXCEPT ![t].pc = pc]

Finish(t) == thread' = [thread EXCEPT ![t] = Idle]
-----------------------------------------------------------------------------
(* The gateway (external), and the order cancelled elsewhere.              *)

AttemptFails(p) ==
    /\ gateway[p] = "open"
    /\ sent' = sent \cup {[p |-> p, type |-> "payment.failed"]}
    /\ UNCHANGED <<payment, gateway, Effects, thread, crashes>>

AttemptCaptured(p) ==
    /\ gateway[p] = "open"
    /\ gateway' = [gateway EXCEPT ![p] = "captured"]
    /\ sent' = sent \cup [p : {p}, type : {"payment.captured", "order.paid"}]
    /\ UNCHANGED <<payment, Effects, thread, crashes>>

\* cancelOrder, rejection or a timeout, while the payment goes on.
OrderCancelled(o) ==
    /\ order[o].ws # "CANCELLED"
    /\ order' = [order EXCEPT ![o].ws = "CANCELLED"]
    /\ UNCHANGED <<payment, gateway, sent, credited, wallet, group, thread,
                   crashes>>
-----------------------------------------------------------------------------
(* createPaymentOrderForOrderRef.                                          *)

\* validatePaymentEligibility
Eligible == \A o \in Orders : order[o].ws # "CANCELLED" /\ order[o].pay # "PAID"

Open(p) == payment[p].status \in {"CREATED", "PENDING"}

KeyTaken(k) ==
    k # NoKey /\ \E p \in Payments : payment[p].status # "NONE" /\ payment[p].key = k

\* The checks; a payment found for the key or still open is returned as it is.
CreateCheck(t, k) ==
    /\ Eligible
    /\ ~KeyTaken(k)
    /\ ~\E p \in Payments : Open(p)
    /\ Start(t, [Idle EXCEPT !.pc = "create", !.key = k])
    /\ UNCHANGED <<payment, gateway, sent, Effects, crashes>>

\* The gateway has answered with a new order: Payment.create, under the unique
\* index on (order, idempotencyKey).
CreatePayment(t, p) ==
    /\ At(t, "create")
    /\ payment[p].status = "NONE"
    /\ ~KeyTaken(thread[t].key)
    /\ payment' = [payment EXCEPT ![p] = [status |-> "PENDING",
                                          key |-> thread[t].key]]
    /\ gateway' = [gateway EXCEPT ![p] = "open"]
    /\ Finish(t)
    /\ UNCHANGED <<sent, Effects, crashes>>

\* client.orders.create or Payment.create throws, and the request ends with it.
CreateThrows(t) ==
    /\ At(t, "create")
    /\ Finish(t)
    /\ UNCHANGED <<payment, gateway, sent, Effects, crashes>>
-----------------------------------------------------------------------------
(* verifyRazorpayPaymentStatus and processRazorpayWebhook up to the save.  *)

\* A valid signature, the payment found; a refused transition ends it here.
VerifyPayment(t, p) ==
    /\ gateway[p] = "captured"
    /\ CanTransitionPaymentStatus(payment[p].status, "CAPTURED")
    /\ Start(t, [Idle EXCEPT !.pc = "save", !.p = p, !.next = "CAPTURED",
                             !.mem = payment[p].status])
    /\ UNCHANGED <<payment, gateway, sent, Effects, crashes>>

\* A delivery of an event, the first or a later one: PaymentWebhookEvent.create stores
\* each under its own random id, and refuses none.
ReceiveWebhook(t, e) ==
    /\ RawWebhook
    /\ e \in sent
    /\ Start(t, [Idle EXCEPT !.pc = "find", !.p = e.p, !.webhook = TRUE,
                             !.type = e.type])
    /\ UNCHANGED <<payment, gateway, sent, Effects, crashes>>

NextStatus(type) ==
    IF type = "payment.failed" THEN "FAILED" ELSE "CAPTURED"

\* The handler reads the payment; a transition the table refuses throws.
FindPayment(t) ==
    LET p    == thread[t].p
        next == NextStatus(thread[t].type)
    IN
    /\ At(t, "find")
    /\ IF CanTransitionPaymentStatus(payment[p].status, next)
       THEN thread' = [thread EXCEPT ![t].pc = "save", ![t].next = next,
                                     ![t].mem = payment[p].status]
       ELSE Finish(t)
    /\ UNCHANGED <<payment, gateway, sent, Effects, crashes>>

\* transitionPaymentState: the save writes the status only when it changes.
SavePayment(t) ==
    LET th == thread[t] IN
    /\ At(t, "save")
    /\ payment' = IF th.mem = th.next THEN payment
                  ELSE [payment EXCEPT ![th.p].status = th.next]
    /\ thread' = [thread EXCEPT ![t].mem = th.next,
                                ![t].pc = IF th.webhook THEN "compare" ELSE "effects",
                                ![t].rest = Orders]
    /\ UNCHANGED <<gateway, sent, Effects, crashes>>

\* The webhook runs the side effects if nextStatus differs from payment.status.
CompareStatus(t) ==
    /\ At(t, "compare")
    /\ IF thread[t].next # thread[t].mem THEN Goto(t, "effects") ELSE Finish(t)
    /\ UNCHANGED <<payment, gateway, sent, Effects, crashes>>
-----------------------------------------------------------------------------
(* handleOrderSideEffectsFromPaymentStatus, CAPTURED.                      *)

\* handleOnlineOrderFinance opens its transaction and reads the order.
FinanceRead(t, o) ==
    /\ At(t, "effects")
    /\ o \in thread[t].rest
    /\ thread' = [thread EXCEPT
                     ![t].pc = "commit", ![t].o = o,
                     ![t].rest = thread[t].rest \ {o},
                     ![t].snap = [doc |-> order[o], wallet |-> wallet]]
    /\ UNCHANGED <<payment, gateway, sent, Effects, crashes>>

\* Mutated form: the wallet is credited outside the transaction.
FinanceCommitLoose(t) ==
    LET o == thread[t].o
        snap == thread[t].snap
    IN
    /\ At(t, "commit")
    /\ IF snap.doc.pay = "PAID"
       THEN /\ Goto(t, "move")
            /\ UNCHANGED Effects
       ELSE /\ credited' = [credited EXCEPT ![o] = @ + 1]
            /\ wallet' = wallet + 1
            /\ order' = [order EXCEPT ![o].pay = "PAID"]
            /\ Goto(t, "move")
            /\ UNCHANGED group
    /\ UNCHANGED <<payment, gateway, sent, crashes>>

\* The commit; a write since the snapshot aborts it, and the handler throws.
FinanceCommit(t) ==
    LET o == thread[t].o
        snap == thread[t].snap
    IN
    /\ At(t, "commit")
    /\ IF snap.doc.pay = "PAID"
       THEN /\ Goto(t, "move")
            /\ UNCHANGED Effects
       ELSE IF snap = [doc |-> order[o], wallet |-> wallet]
       THEN /\ credited' = [credited EXCEPT ![o] = @ + 1]
            /\ wallet' = wallet + 1
            /\ order' = [order EXCEPT ![o].pay = "PAID"]
            /\ Goto(t, "move")
            /\ UNCHANGED group
       ELSE /\ Finish(t)
            /\ UNCHANGED Effects
    /\ UNCHANGED <<payment, gateway, sent, crashes>>

\* Mutated form: the move is left to the webhook's handler.
MoveOnWebhook(t) ==
    LET o == thread[t].o IN
    /\ At(t, "move")
    /\ Goto(t, "effects")
    /\ IF order[o].ws = "CREATED" /\ thread[t].webhook
       THEN order' = [order EXCEPT ![o].ws = "SELLER_PENDING"]
       ELSE UNCHANGED order
    /\ UNCHANGED <<payment, gateway, sent, credited, wallet, group, crashes>>

\* moveOrderToSellerPendingAfterPayment
MoveOrder(t) ==
    LET o == thread[t].o IN
    /\ At(t, "move")
    /\ Goto(t, "effects")
    /\ IF order[o].ws = "CREATED"
       THEN order' = [order EXCEPT ![o].ws = "SELLER_PENDING"]
       ELSE UNCHANGED order
    /\ UNCHANGED <<payment, gateway, sent, credited, wallet, group, crashes>>

\* updateCheckoutGroupPaymentStatus, after the last order.
SettleGroup(t) ==
    /\ At(t, "effects")
    /\ thread[t].rest = {}
    /\ group' = "PAID"
    /\ Finish(t)
    /\ UNCHANGED <<payment, gateway, sent, order, credited, wallet, crashes>>
-----------------------------------------------------------------------------
\* The process dies, or a call of the handler throws.
Crash(t) ==
    /\ ~At(t, "idle")
    /\ crashes < MaxCrashes
    /\ crashes' = crashes + 1
    /\ Finish(t)
    /\ UNCHANGED <<payment, gateway, sent, Effects>>

Continue(t) ==
    \/ \E p \in Payments : CreatePayment(t, p)
    \/ CreateThrows(t)
    \/ FindPayment(t)
    \/ SavePayment(t)
    \/ CompareStatus(t)
    \/ \E o \in Orders : FinanceRead(t, o)
    \/ FinanceCommit(t)
    \/ MoveOrder(t)
    \/ SettleGroup(t)

Next ==
    \/ \E p \in Payments : AttemptFails(p)
    \/ \E p \in Payments : AttemptCaptured(p)
    \/ \E o \in Orders : OrderCancelled(o)
    \/ \E t \in Threads :
          \/ \E k \in Keys \cup {NoKey} : CreateCheck(t, k)
          \/ \E p \in Payments : VerifyPayment(t, p)
          \/ \E e \in sent : ReceiveWebhook(t, e)
          \/ Continue(t)
          \/ Crash(t)

Spec == Init /\ [][Next]_vars

\* A handler that has started goes on.
Handlers == \A t \in Threads : WF_vars(Continue(t))

LiveSpec == Spec /\ Handlers
-----------------------------------------------------------------------------
(* What the payments guarantee.                                            *)

\* The wallet is credited once for an order marked PAID and never for another,
\* however many verifications of however many payments overlap
\* (handleOnlineOrderFinance, financeFlags.onlinePaymentCaptured).
CreditedOnce ==
    \A o \in Orders : credited[o] = (IF order[o].pay = "PAID" THEN 1 ELSE 0)

\* No order is marked PAID, and none moves on to its seller, before the gateway
\* holds the money of one of the checkout's payments, and a payment is CAPTURED
\* only when its own gateway order is (verifyRazorpayPaymentStatus).
PaidMeansCaptured ==
    /\ \A o \in Orders :
          /\ order[o].pay = "PAID" => \E p \in Payments : gateway[p] = "captured"
          /\ order[o].ws = "SELLER_PENDING" => order[o].pay = "PAID"
    /\ \A p \in Payments : payment[p].status = "CAPTURED" => gateway[p] = "captured"

\* Once a verification has got past its checks, every order of the checkout is paid for
\* and gone from CREATED in the end, though concurrent verifications abort each other's
\* transactions and events overwrite the Payment: of those that collide one gets through.
\* Only a handler that dies or an order that is cancelled under it may leave some unpaid
\* (verifyRazorpayPaymentStatus; the page verifies once and never again).
VerifiedIsPaid ==
    (\E t \in Threads : thread[t].pc = "save" /\ ~thread[t].webhook)
        ~> \/ \A o \in Orders : order[o].pay = "PAID" /\ order[o].ws # "CREATED"
           \/ crashes > 0
           \/ \E o \in Orders : order[o].ws = "CANCELLED"
=============================================================================
