------------------------------ MODULE Settlement ------------------------------
(***************************************************************************)
(* The money of an order once it is delivered: orderFinanceService.js      *)
(* (settlement, cash on delivery, reconciliation), payoutService.js, the   *)
(* jobs that pay out and release held payouts, the rider's submission of   *)
(* cash, and what a return does to the seller's payout and the rider's     *)
(* wallet (orderController's return handlers, verifyReturnPickupOtp).      *)
(*                                                                         *)
(* Orders are of one seller and one rider; wallet holds their balances.    *)
(* A MongoDB transaction that writes every document it decides on is one   *)
(* atomic step: payouts, collection, reconciliation.  settleDeliveredOrder *)
(* is not, since the payouts it creates commit in transactions of their    *)
(* own: it reads a snapshot of the order, creates one payout, then the     *)
(* other, and commits unless the order was written meanwhile.  Nor are the *)
(* handlers of a return, which read the order, look at it, and save it     *)
(* whatever became of it, nor the credits and debits outside transactions. *)
(***************************************************************************)
EXTENDS Integers, FiniteSets, Functions

CONSTANTS
    Orders,
    NoOrder,        \* the order of a thread without one
    Requests,       \* handlers of requests in flight
    Jobs,           \* executions of scheduled jobs in flight
    Modes,          \* payment modes of the orders
    PayoutNames,    \* constants/finance.js declares every name payoutService.js
                    \* uses; as deployed it lacks OWNER_TYPE.RIDER, the ledger
                    \* types PAYOUT_QUEUED and PAYOUT_CANCELLED, and
                    \* PAYOUT_STATUS.CANCELLED
    SellerShare,    \* the seller's payout for one order
    RiderShare,     \* the rider's payout for one order
    Nets,           \* cash a rider may collect, net of his commission
    Refund,         \* what a passed return costs the seller
    Commission,     \* the rider's commission for carrying a return
    HandAmounts,    \* amounts an administrator enters as settled cash
    MaxByHand,      \* bound: the sum of those entries
    MaxFaults       \* bound: handlers abandoned and calls failing half way

ASSUME NoOrderAssumption == NoOrder \notin Orders
ASSUME OrdersAssumption == IsFiniteSet(Orders)
ASSUME ModesAssumption == Modes # {} /\ Modes \subseteq {"COD", "ONLINE"}
ASSUME PayoutNamesAssumption == PayoutNames \in BOOLEAN
ASSUME AmountsAssumption ==
    /\ SellerShare \in Nat /\ RiderShare \in Nat /\ Refund \in Nat \ {0} /\ Nets \subseteq Nat
    /\ Commission \in Nat \ {0} /\ HandAmounts \subseteq Nat /\ MaxByHand \in Nat
ASSUME FaultsAssumption == MaxFaults \in Nat

VARIABLES
    order,      \* order[o]: the Order document
    expired,    \* expired[o]: its return window is over
    overtaken,  \* overtaken[o]: a return handler saved a decision about o that
                \* the order it saved it in no longer allowed (history)
    payout,     \* payout[o][type]: status of the Payout document, or "none"
    wallet,     \* balances of the seller, the rider and the platform
    earned,     \* earned[o]: settlements of o that committed, each of which
                \* recognises the platform's earning on it
    refunded,   \* refunded[o]: times the customer was credited for o
    recovered,  \* recovered[o]: amount debited from the seller for o
    commission, \* commission[o]: amount credited to the rider for o's return
    statement,  \* the rider's "Cash Settlement" transactions, added up
    byHand,     \* those among them an administrator entered
    bulk,       \* ENABLE_PAYOUT_BATCH_JOB, or an admin who pays out in bulk
    autoRelease,\* AUTO_RELEASE_SELLER_PAYOUT
    thread,     \* thread[t]: what handler t is in the middle of
    faults      \* faults so far

Returned == <<refunded, recovered, commission>>
Lines == <<statement, byHand>>
Money == <<payout, wallet, earned, Returned, Lines>>
Course == <<expired, overtaken>>
vars == <<order, Course, Money, bulk, autoRelease, thread, faults>>

Threads == Requests \cup Jobs

PayoutType == {"SELLER", "DELIVERY_PARTNER"}
PayoutStatus == {"none", "PENDING", "COMPLETED", "CANCELLED"}
SellerPayout == {"PENDING", "HOLD", "COMPLETED", "CANCELLED"}
ReturnStatus == {"none", "open", "rejected", "carried", "qc_failed", "qc_passed",
                 "refund_completed"}

OrderDoc == [mode : Modes, captured : BOOLEAN, delivered : BOOLEAN,
             settled : BOOLEAN, sellerQueued : BOOLEAN, riderQueued : BOOLEAN,
             seller : SellerPayout, marked : BOOLEAN,
             collected : Nat, remitted : Nat, ret : ReturnStatus]

Placed(m) == [mode |-> m, captured |-> FALSE, delivered |-> FALSE,
              settled |-> FALSE, sellerQueued |-> FALSE, riderQueued |-> FALSE,
              seller |-> "PENDING", marked |-> FALSE,
              collected |-> 0, remitted |-> 0, ret |-> "none"]

PC == {"idle", "settle", "seller", "rider", "commit", "collect", "submit",
       "batch", "holds", "release", "request", "reject", "fail", "pass", "qcRelease",
       "earn", "earned", "refund", "recover", "debit", "unhold", "commission",
       "credit", "close"}

NoDue == [o \in Orders |-> 0]

\* snap is the Order document the handler has in memory, hold whether the return
\* window was open when it looked, rest the payouts a loop has still to visit, due
\* and left what a submission of cash has still to hand over, sum what it hands over
\* in all; a debit or a credit keeps in sum the balance it has read.
ThreadState ==
    {th \in [pc : PC, o : Orders \cup {NoOrder}, snap : OrderDoc, hold : BOOLEAN,
             rest : SUBSET (Orders \X PayoutType), due : [Orders -> Nat],
             left : Nat, sum : Nat] :
        th.pc \notin {"idle", "submit", "batch", "holds"} => th.o \in Orders}

Idle == [pc |-> "idle", o |-> NoOrder, snap |-> Placed(CHOOSE m \in Modes : TRUE),
         hold |-> FALSE, rest |-> {}, due |-> NoDue, left |-> 0, sum |-> 0]

TypeOK ==
    /\ order \in [Orders -> OrderDoc]
    /\ expired \in [Orders -> BOOLEAN]
    /\ overtaken \in [Orders -> BOOLEAN]
    /\ payout \in [Orders -> [PayoutType -> PayoutStatus]]
    /\ wallet \in [sellerPending : Nat, sellerAvailable : Nat, riderPending : Nat,
                   riderAvailable : Nat, cashInHand : Int, admin : Nat]
    /\ earned \in [Orders -> Nat]
    /\ refunded \in [Orders -> Nat]
    /\ recovered \in [Orders -> Nat]
    /\ commission \in [Orders -> Nat]
    /\ statement \in Nat /\ byHand \in Nat
    /\ bulk \in BOOLEAN /\ autoRelease \in BOOLEAN
    /\ thread \in [Threads -> ThreadState]
    /\ faults \in 0 .. MaxFaults

Init ==
    /\ order \in [Orders -> {Placed(m) : m \in Modes}]
    /\ expired = [o \in Orders |-> FALSE]
    /\ overtaken = [o \in Orders |-> FALSE]
    /\ payout = [o \in Orders |-> [ty \in PayoutType |-> "none"]]
    /\ wallet = [sellerPending |-> 0, sellerAvailable |-> 0, riderPending |-> 0,
                 riderAvailable |-> 0, cashInHand |-> 0, admin |-> 0]
    /\ earned = [o \in Orders |-> 0]
    /\ refunded = [o \in Orders |-> 0]
    /\ recovered = [o \in Orders |-> 0]
    /\ commission = [o \in Orders |-> 0]
    /\ statement = 0 /\ byHand = 0
    /\ bulk \in BOOLEAN /\ autoRelease \in BOOLEAN
    /\ thread = [t \in Threads |-> Idle]
    /\ faults = 0

Settings == <<bulk, autoRelease>>
-----------------------------------------------------------------------------
(* Steps of a thread.                                                      *)

At(t, pc) == thread[t].pc = pc

Start(t, th) == At(t, "idle") /\ thread' = [thread EXCEPT ![t] = th]

Goto(t, pc) == thread' = [thread EXCEPT ![t].pc = pc]

\* The last steps of a handler need only its order.
GotoLast(t, pc) == thread' = [thread EXCEPT ![t] = [Idle EXCEPT !.pc = pc, !.o = thread[t].o]]

Finish(t) == thread' = [thread EXCEPT ![t] = Idle]
-----------------------------------------------------------------------------
(* The order reaches its customer; money and time arrive.                  *)

\* A payment is captured (PaymentCapture).
Capture(o) ==
    /\ order[o].mode = "ONLINE" /\ ~order[o].captured
    /\ order' = [order EXCEPT ![o].captured = TRUE]
    /\ UNCHANGED <<Course, Money, Settings, thread, faults>>

\* A delivery code is accepted, or a status edited: the order is saved as
\* delivered, and the same handler goes on to settle it.
Deliver(t, o) ==
    /\ ~order[o].delivered
    /\ order' = [order EXCEPT ![o].delivered = TRUE]
    /\ Start(t, [Idle EXCEPT !.pc = "settle", !.o = o])
    /\ UNCHANGED <<Course, Money, Settings, faults>>

\* markOrderDeliveredAndSettle
SettleAgain(t, o) ==
    /\ Start(t, [Idle EXCEPT !.pc = "settle", !.o = o])
    /\ UNCHANGED <<order, Course, Money, Settings, faults>>

WindowCloses(o) ==
    /\ order[o].delivered /\ ~expired[o]
    /\ expired' = [expired EXCEPT ![o] = TRUE]
    /\ UNCHANGED <<order, overtaken, Money, Settings, thread, faults>>
-----------------------------------------------------------------------------
(* settleDeliveredOrder.                                                   *)

PaidFor(doc) == doc.mode = "ONLINE" => doc.captured

\* The transaction opens: an order that is not paid for throws, a settled one is
\* left alone.
SettleRead(t) ==
    LET o == thread[t].o IN
    /\ At(t, "settle")
    /\ IF ~PaidFor(order[o]) THEN Finish(t)
       ELSE IF order[o].settled THEN Goto(t, "collect")
       ELSE thread' = [thread EXCEPT ![t].pc = "seller", ![t].snap = order[o],
                                     ![t].hold = ~expired[o]]
    /\ UNCHANGED <<order, Course, Money, Settings, faults>>

Share(ty) == IF ty = "SELLER" THEN SellerShare ELSE RiderShare

Credit(w, ty) ==
    IF ty = "SELLER" THEN [w EXCEPT !.sellerPending = @ + SellerShare]
                     ELSE [w EXCEPT !.riderPending = @ + RiderShare]

\* Mutated form: the wallet is credited although the payout was there already.
CreatePayoutAgain(o, ty) ==
    /\ payout' = [payout EXCEPT ![o][ty] = IF @ = "COMPLETED" THEN @ ELSE "PENDING"]
    /\ wallet' = Credit(wallet, ty)

\* Mutated form: only a payout that is still pending counts as the order's.
CreatePayoutAnew(o, ty) ==
    IF payout[o][ty] = "PENDING"
    THEN UNCHANGED <<payout, wallet>>
    ELSE /\ payout' = [payout EXCEPT ![o][ty] = "PENDING"]
         /\ wallet' = Credit(wallet, ty)

\* createPendingPayoutForOrder, in a transaction of its own: the order's payout if
\* there is one that is not cancelled, else a new one.
CreatePayout(o, ty) ==
    IF payout[o][ty] \in {"PENDING", "COMPLETED"}
    THEN UNCHANGED <<payout, wallet>>
    ELSE /\ payout' = [payout EXCEPT ![o][ty] = "PENDING"]
         /\ wallet' = Credit(wallet, ty)

\* Mutated form: a payout that exists makes the call fail.
CreateRefuses(o, ty) == ~PayoutNames \/ payout[o][ty] # "none"

\* Whether it throws: the ledger refuses the type of its entry.
CreateThrows(o, ty) == ~PayoutNames /\ payout[o][ty] \notin {"PENDING", "COMPLETED"}

QueueSeller(t) ==
    LET o == thread[t].o IN
    /\ At(t, "seller")
    /\ IF thread[t].snap.sellerQueued
       THEN UNCHANGED <<payout, wallet>> /\ Goto(t, "rider")
       ELSE IF CreateThrows(o, "SELLER")
       THEN UNCHANGED <<payout, wallet>> /\ Finish(t)
       ELSE CreatePayout(o, "SELLER") /\ Goto(t, "rider")
    /\ UNCHANGED <<order, Course, earned, Returned, Lines, Settings, faults>>

QueueRider(t) ==
    LET o == thread[t].o IN
    /\ At(t, "rider")
    /\ IF thread[t].snap.riderQueued
       THEN UNCHANGED <<payout, wallet>> /\ Goto(t, "commit")
       ELSE IF CreateThrows(o, "DELIVERY_PARTNER")
       THEN UNCHANGED <<payout, wallet>> /\ Finish(t)
       ELSE CreatePayout(o, "DELIVERY_PARTNER") /\ Goto(t, "commit")
    /\ UNCHANGED <<order, Course, earned, Returned, Lines, Settings, faults>>

\* What the settlement saves in the order it has read.
Settled(doc, hold) ==
    [doc EXCEPT !.delivered = TRUE, !.settled = TRUE,
                !.sellerQueued = TRUE, !.riderQueued = TRUE,
                !.seller = IF hold THEN "HOLD"
                           ELSE IF doc.sellerQueued THEN doc.seller ELSE "PENDING"]

\* Mutated form: nothing but the flag tells two settlements apart.
SettleCommitBlind(t) ==
    LET o == thread[t].o IN
    /\ At(t, "commit")
    /\ order' = [order EXCEPT ![o] = Settled(thread[t].snap, thread[t].hold)]
    /\ earned' = [earned EXCEPT ![o] = @ + 1]
    /\ GotoLast(t, "collect")
    /\ UNCHANGED <<Course, payout, wallet, Returned, Lines, Settings, faults>>

\* The commit, which recognises the platform's earning; a write to the order since
\* the snapshot aborts it, and the handler throws.
SettleCommit(t) ==
    LET o == thread[t].o IN
    /\ At(t, "commit")
    /\ IF order[o] = thread[t].snap
       THEN /\ order' = [order EXCEPT ![o] = Settled(thread[t].snap, thread[t].hold)]
            /\ earned' = [earned EXCEPT ![o] = @ + 1]
            /\ GotoLast(t, "collect")
       ELSE Finish(t) /\ UNCHANGED <<order, earned>>
    /\ UNCHANGED <<Course, payout, wallet, Returned, Lines, Settings, faults>>
-----------------------------------------------------------------------------
(* Cash on delivery.                                                       *)

\* What the rider collects for o goes into his cash in hand, once.
Collects(o, net) ==
    /\ wallet' = [wallet EXCEPT !.cashInHand = @ + net]
    /\ order' = [order EXCEPT ![o].marked = TRUE, ![o].collected = @ + net]

\* Mutated form: the flag is not looked at again inside the transaction.
CodCollectBlind(t) ==
    LET o == thread[t].o IN
    /\ At(t, "collect")
    /\ IF order[o].mode = "COD" /\ order[o].delivered
       THEN \E net \in Nets : Collects(o, net)
       ELSE UNCHANGED <<order, wallet>>
    /\ Finish(t)
    /\ UNCHANGED <<Course, payout, earned, Returned, Lines, Settings, faults>>

\* applyFinanceSettlement goes on to handleCodOrderFinance.
CodCollect(t) ==
    LET o == thread[t].o IN
    /\ At(t, "collect")
    /\ IF order[o].mode = "COD" /\ order[o].delivered /\ ~order[o].marked
       THEN \E net \in Nets : Collects(o, net)
       ELSE UNCHANGED <<order, wallet>>
    /\ Finish(t)
    /\ UNCHANGED <<Course, payout, earned, Returned, Lines, Settings, faults>>

\* markCodCollectedAfterDelivery
MarkCollected(o) ==
    /\ order[o].mode = "COD" /\ order[o].delivered /\ ~order[o].marked
    /\ \E net \in Nets : Collects(o, net)
    /\ UNCHANGED <<Course, payout, earned, Returned, Lines, Settings,
                   thread, faults>>

Pending(doc) == doc.collected - doc.remitted

\* reconcileCodCash: part of what the rider still owes for o goes from him to the
\* platform.
Reconciles(o, amount) ==
    /\ order' = [order EXCEPT ![o].remitted = @ + amount]
    /\ wallet' = [wallet EXCEPT !.cashInHand = @ - amount, !.admin = @ + amount]

Reconcile(o, amount) ==
    /\ order[o].mode = "COD" /\ amount \in 1 .. Pending(order[o])
    /\ Reconciles(o, amount)
    /\ UNCHANGED <<Course, payout, earned, Returned, Lines, Settings,
                   thread, faults>>

Owed(o) == IF order[o].mode = "COD" /\ order[o].marked THEN Pending(order[o]) ELSE 0

\* Mutated form: the line of the statement is written before the cash is handed over.
SubmitReadFirst(t, amount) ==
    LET due == [o \in Orders |-> Owed(o)] IN
    /\ amount \in 1 .. SumFunction(due)
    /\ Start(t, [Idle EXCEPT !.pc = "submit", !.due = due, !.left = amount])
    /\ statement' = statement + amount
    /\ UNCHANGED <<order, Course, payout, wallet, earned, Returned, byHand, Settings, faults>>

\* submitDeliveryCodCashToAdmin reads what the rider owes and takes an amount of it.
SubmitRead(t, amount) ==
    LET due == [o \in Orders |-> Owed(o)] IN
    /\ amount \in 1 .. SumFunction(due)
    /\ Start(t, [Idle EXCEPT !.pc = "submit", !.due = due,
                             !.left = amount, !.sum = amount])
    /\ UNCHANGED <<order, Course, Money, Settings, faults>>

Lesser(a, b) == IF a < b THEN a ELSE b

\* Mutated form: the amount is not compared with what is owed by now.
SubmitOneFree(t, o) ==
    LET amount == Lesser(thread[t].due[o], thread[t].left) IN
    /\ At(t, "submit") /\ amount > 0
    /\ Reconciles(o, amount)
    /\ thread' = [thread EXCEPT ![t].due[o] = 0, ![t].left = @ - amount]
    /\ UNCHANGED <<Course, payout, earned, Returned, Lines, Settings, faults>>

\* One order of its list; when somebody has reconciled it meanwhile the submission
\* throws, and what it has handed over already stays handed over.
SubmitOne(t, o) ==
    LET amount == Lesser(thread[t].due[o], thread[t].left) IN
    /\ At(t, "submit") /\ amount > 0
    /\ IF amount <= Pending(order[o])
       THEN /\ Reconciles(o, amount)
            /\ thread' = [thread EXCEPT ![t].due[o] = 0, ![t].left = @ - amount]
       ELSE Finish(t) /\ UNCHANGED <<order, wallet>>
    /\ UNCHANGED <<Course, payout, earned, Returned, Lines, Settings, faults>>

\* The rider's statement gets its line.
SubmitEnd(t) ==
    /\ At(t, "submit") /\ thread[t].left = 0
    /\ statement' = statement + thread[t].sum
    /\ Finish(t)
    /\ UNCHANGED <<order, Course, payout, wallet, earned, Returned, byHand, Settings, faults>>

\* settleRiderCashEntry: a line of any amount, and nothing but the line.
SettleCash(amount) ==
    /\ byHand + amount <= MaxByHand
    /\ statement' = statement + amount
    /\ byHand' = byHand + amount
    /\ UNCHANGED <<order, Course, payout, wallet, earned, Returned, Settings, thread, faults>>
-----------------------------------------------------------------------------
(* Payouts.                                                                *)

\* processPayout, a transaction.
Processes(o, ty) ==
    /\ payout' = [payout EXCEPT ![o][ty] = "COMPLETED"]
    /\ IF ty = "SELLER"
       THEN /\ wallet' = [wallet EXCEPT !.sellerPending = @ - SellerShare,
                                        !.sellerAvailable = @ + SellerShare]
            /\ order' = [order EXCEPT ![o].seller = "COMPLETED",
                                      ![o].sellerQueued = TRUE]
       ELSE /\ wallet' = [wallet EXCEPT !.riderPending = @ - RiderShare,
                                        !.riderAvailable = @ + RiderShare]
            /\ order' = [order EXCEPT ![o].riderQueued = TRUE]

\* It refuses a payout that is not pending; every caller swallows the error.
Process(o, ty) ==
    IF payout[o][ty] = "PENDING" THEN Processes(o, ty)
    ELSE UNCHANGED <<payout, wallet, order>>

\* bulkProcessPayouts lists what is pending, held or not.
BatchRead(t) ==
    LET list == {x \in Orders \X PayoutType : payout[x[1]][x[2]] = "PENDING"} IN
    /\ bulk /\ list # {}
    /\ Start(t, [Idle EXCEPT !.pc = "batch", !.rest = list])
    /\ UNCHANGED <<order, Course, Money, Settings, faults>>

Remaining(t, x) ==
    thread' = IF thread[t].rest = {x} THEN [thread EXCEPT ![t] = Idle]
              ELSE [thread EXCEPT ![t].rest = @ \ {x}]

BatchOne(t, x) ==
    /\ At(t, "batch") /\ x \in thread[t].rest
    /\ Process(x[1], x[2])
    /\ Remaining(t, x)
    /\ UNCHANGED <<Course, earned, Returned, Lines, Settings, faults>>

\* Mutated form: an order is listed whatever became of its return.
HeldEver(o) == order[o].delivered /\ expired[o] /\ order[o].seller = "HOLD"

\* releaseExpiredSellerHolds looks for payouts held past their return window.
HeldPast(o) == order[o].delivered /\ order[o].ret = "none" /\ expired[o]
               /\ order[o].seller = "HOLD"

ReleaseRead(t) ==
    LET list == {o \in Orders : HeldPast(o)} IN
    /\ list # {}
    /\ Start(t, [Idle EXCEPT !.pc = "holds", !.rest = list \X {"SELLER"}])
    /\ UNCHANGED <<order, Course, Money, Settings, faults>>

\* It looks for the order's pending payout; without one it goes on.
ReleaseFind(t, x) ==
    /\ At(t, "holds") /\ x \in thread[t].rest
    /\ IF payout[x[1]]["SELLER"] = "PENDING"
       THEN thread' = [thread EXCEPT ![t].pc = "release", ![t].o = x[1]]
       ELSE Remaining(t, x)
    /\ UNCHANGED <<order, Course, Money, Settings, faults>>

Unhold(o) == order' = [order EXCEPT ![o].seller = "PENDING"]

\* Mutated form: the job only lifts the hold.
ReleaseUnholds(t) ==
    LET o == thread[t].o IN
    /\ At(t, "release")
    /\ Unhold(o)
    /\ Remaining(t, <<o, "SELLER">>)
    /\ UNCHANGED <<payout, wallet, Course, earned, Returned, Lines, Settings, faults>>

ReleaseDo(t) ==
    LET o == thread[t].o IN
    /\ At(t, "release")
    /\ IF autoRelease THEN Process(o, "SELLER")
       ELSE Unhold(o) /\ UNCHANGED <<payout, wallet>>
    /\ thread' = IF thread[t].rest = {<<o, "SELLER">>} THEN [thread EXCEPT ![t] = Idle]
                 ELSE [thread EXCEPT ![t] = [Idle EXCEPT !.pc = "holds",
                                           !.rest = thread[t].rest \ {<<o, "SELLER">>}]]
    /\ UNCHANGED <<Course, earned, Returned, Lines, Settings, faults>>
-----------------------------------------------------------------------------
(* A return, as far as money is concerned (Returns follows the goods).     *)

\* Mutated form: the goods may be inspected again.
AllowsAgain(o, pc) ==
    CASE pc = "request" -> order[o].delivered /\ order[o].ret = "none" /\ ~expired[o]
      [] pc = "reject"  -> order[o].ret = "open"
      [] OTHER          -> order[o].ret \in {"carried", "qc_failed"}

\* The handlers of a return look at the order they have read: a return is requested
\* in time, rejected or picked up while it is open, inspected when the goods are back.
Allows(o, pc) ==
    CASE pc = "request" -> order[o].delivered /\ order[o].ret = "none" /\ ~expired[o]
      [] pc = "reject"  -> order[o].ret = "open"
      [] OTHER          -> order[o].ret = "carried"

Decide(t, o, pc) ==
    /\ Allows(o, pc)
    /\ Start(t, IF pc = "pass" THEN [Idle EXCEPT !.pc = pc, !.o = o, !.snap = order[o]]
                ELSE [Idle EXCEPT !.pc = pc, !.o = o])
    /\ UNCHANGED <<order, Course, Money, Settings, faults>>

RequestReturn(t, o) == Decide(t, o, "request")

RejectReturn(t, o) == Decide(t, o, "reject")

QcFail(t, o) == Decide(t, o, "fail")

QcPass(t, o) == Decide(t, o, "pass")

\* Their save comes later, and writes the status whatever it is by then.
Saves(t, ret) ==
    LET o == thread[t].o IN
    /\ order' = [order EXCEPT ![o].ret = ret]
    /\ overtaken' = [overtaken EXCEPT ![o] = @ \/ ~Allows(o, thread[t].pc)]
    /\ UNCHANGED <<expired, Money, Settings, faults>>

SaveRequest(t) == At(t, "request") /\ Saves(t, "open") /\ Finish(t)

SaveRejection(t) == At(t, "reject") /\ Saves(t, "rejected") /\ Finish(t)

\* updateReturnQcStatus goes on with the order it has read.
SaveFailed(t) == At(t, "fail") /\ Saves(t, "qc_failed") /\ GotoLast(t, "qcRelease")

SavePassed(t) == At(t, "pass") /\ Saves(t, "qc_passed") /\ Goto(t, "refund")

\* verifyReturnPickupOtp, once the rider's code is accepted (Returns): the goods are on
\* their way, and after the answer he is credited his commission.
PickUp(t, o) ==
    /\ order[o].ret = "open"
    /\ order' = [order EXCEPT ![o].ret = "carried"]
    /\ Start(t, [Idle EXCEPT !.pc = "earn", !.o = o])
    /\ UNCHANGED <<Course, Money, Settings, faults>>

\* creditWallet, without a transaction, at the pick-up and at the refund: the flag that
\* tells the two apart is no field of the order, and is never stored.
EarnRead(t) ==
    /\ At(t, "earn") \/ At(t, "commission")
    /\ thread' = [thread EXCEPT ![t].pc = IF @ = "earn" THEN "earned" ELSE "credit",
                                ![t].sum = wallet.riderAvailable]
    /\ UNCHANGED <<order, Course, Money, Settings, faults>>

Earn(t) ==
    LET o == thread[t].o IN
    /\ At(t, "earned") \/ At(t, "credit")
    /\ wallet' = [wallet EXCEPT !.riderAvailable = thread[t].sum + Commission]
    /\ commission' = [commission EXCEPT ![o] = @ + Commission]
    /\ IF At(t, "earned") THEN Finish(t) ELSE GotoLast(t, "close")
    /\ UNCHANGED <<order, Course, payout, earned, refunded, recovered, Lines, Settings, faults>>

\* A return that no rider carried, or a credit that fails, which is swallowed.
EarnNothing(t) ==
    /\ At(t, "commission")
    /\ GotoLast(t, "close")
    /\ UNCHANGED <<order, Course, Money, Settings, faults>>

\* A failed inspection lets the seller have his payout.
QcRelease(t) ==
    LET o == thread[t].o IN
    /\ At(t, "qcRelease")
    /\ IF autoRelease THEN Process(o, "SELLER")
       ELSE Unhold(o) /\ UNCHANGED <<payout, wallet>>
    /\ Finish(t)
    /\ UNCHANGED <<Course, earned, Returned, Lines, Settings, faults>>

\* completeReturnAndRefund credits the customer,
RefundCustomer(t) ==
    LET o == thread[t].o IN
    /\ At(t, "refund")
    /\ refunded' = [refunded EXCEPT ![o] = @ + 1]
    /\ Goto(t, "recover")
    /\ UNCHANGED <<order, Course, payout, wallet, earned, recovered, commission, Lines,
                   Settings, faults>>

\* cancels the payout the seller is still waiting for, or reads the balance it will
\* debit; a failure of either is swallowed.
Recover(t) ==
    LET o == thread[t].o IN
    /\ At(t, "recover")
    /\ IF thread[t].snap.seller = "HOLD"
       THEN \/ /\ payout[o]["SELLER"] = "PENDING" /\ PayoutNames
               /\ payout' = [payout EXCEPT ![o]["SELLER"] = "CANCELLED"]
               /\ wallet' = [wallet EXCEPT !.sellerPending = @ - SellerShare]
               /\ GotoLast(t, "unhold")
               /\ UNCHANGED faults
            \/ /\ payout[o]["SELLER"] # "PENDING" \/ ~PayoutNames
               /\ GotoLast(t, "commission")
               /\ UNCHANGED <<payout, wallet, faults>>
            \/ /\ payout[o]["SELLER"] = "PENDING" /\ faults < MaxFaults
               /\ faults' = faults + 1
               /\ GotoLast(t, "commission")
               /\ UNCHANGED <<payout, wallet>>
       ELSE /\ UNCHANGED <<payout, wallet, faults>>
            /\ thread' = IF wallet.sellerAvailable < Refund
                         THEN [thread EXCEPT ![t] = [Idle EXCEPT !.pc = "commission", !.o = o]]
                         ELSE [thread EXCEPT ![t] = [Idle EXCEPT !.pc = "debit", !.o = o,
                                                             !.sum = wallet.sellerAvailable]]
    /\ UNCHANGED <<order, Course, earned, Returned, Lines, Settings>>

\* debitWallet, without a transaction: the balance it read, less the refund.
Debit(t) ==
    LET o == thread[t].o IN
    /\ At(t, "debit")
    /\ wallet' = [wallet EXCEPT !.sellerAvailable = thread[t].sum - Refund]
    /\ recovered' = [recovered EXCEPT ![o] = @ + Refund]
    /\ GotoLast(t, "commission")
    /\ UNCHANGED <<order, Course, payout, earned, refunded, commission, Lines, Settings,
                   faults>>

\* The order's own record of the cancelled payout.
MarkCancelled(t) ==
    LET o == thread[t].o IN
    /\ At(t, "unhold")
    /\ order' = [order EXCEPT ![o].seller = "CANCELLED"]
    /\ GotoLast(t, "commission")
    /\ UNCHANGED <<Course, Money, Settings, faults>>

CloseReturn(t) ==
    LET o == thread[t].o IN
    /\ At(t, "close")
    /\ order' = [order EXCEPT ![o].ret = "refund_completed"]
    /\ Finish(t)
    /\ UNCHANGED <<Course, Money, Settings, faults>>

\* A handler throws, or its process dies, between two of its steps.
Abandon(t) ==
    /\ ~At(t, "idle") /\ faults < MaxFaults
    /\ faults' = faults + 1
    /\ Finish(t)
    /\ UNCHANGED <<order, Course, Money, Settings>>
-----------------------------------------------------------------------------
Settling(t) == SettleRead(t) \/ QueueSeller(t) \/ QueueRider(t) \/ SettleCommit(t)
               \/ CodCollect(t)

Submitting(t) == (\E o \in Orders : SubmitOne(t, o)) \/ SubmitEnd(t)

Paying(t) == \/ \E x \in thread[t].rest : BatchOne(t, x) \/ ReleaseFind(t, x)
             \/ ReleaseDo(t)

Returning(t) == SaveRequest(t) \/ SaveRejection(t) \/ SaveFailed(t) \/ SavePassed(t)

Refunding(t) == \/ QcRelease(t) \/ RefundCustomer(t) \/ Recover(t) \/ Debit(t)
                \/ MarkCancelled(t) \/ EarnRead(t) \/ Earn(t) \/ EarnNothing(t)
                \/ CloseReturn(t)

\* A handler in the middle of something.
Continue(t) == Settling(t) \/ Submitting(t) \/ Paying(t) \/ Returning(t) \/ Refunding(t)

Arrives(t) ==
    \/ \E o \in Orders : \/ Deliver(t, o) \/ SettleAgain(t, o)
                       \/ RequestReturn(t, o) \/ RejectReturn(t, o) \/ PickUp(t, o)
                       \/ QcFail(t, o) \/ QcPass(t, o)
    \/ \E amount \in 1 .. wallet.cashInHand : SubmitRead(t, amount)

JobStarts(t) == BatchRead(t) \/ ReleaseRead(t)

Elsewhere(o) ==
    \/ Capture(o) \/ WindowCloses(o) \/ MarkCollected(o)
    \/ \E amount \in 1 .. wallet.cashInHand : Reconcile(o, amount)

Next ==
    \/ \E t \in Threads : Continue(t) \/ Abandon(t)
    \/ \E t \in Requests : Arrives(t)
    \/ \E t \in Jobs : JobStarts(t)
    \/ \E o \in Orders : Elsewhere(o)
    \/ \E amount \in HandAmounts : SettleCash(amount)

Spec == Init /\ [][Next]_vars

\* Fairness: a handler goes on by itself, and the release job's timer fires again and
\* again.  Nothing asks again for a settlement that failed.
FairSpec ==
    /\ Spec
    /\ \A t \in Threads : WF_vars(Continue(t))
    /\ SF_vars(\E t \in Jobs : ReleaseRead(t))
-----------------------------------------------------------------------------
(* Properties.                                                             *)

CountOf(ty, status) == Cardinality({o \in Orders : payout[o][ty] = status})

\* Every balance is what the documents say: pending is the sum of the pending
\* payouts, available of the completed ones, until a return is debited from the seller
\* or credited to the rider: debitWallet and creditWallet write back a balance they
\* have read.  A rider may lose a payout by that; he never has more than his payouts
\* and his commissions.
WalletsAddUp ==
    /\ wallet.sellerPending = SellerShare * CountOf("SELLER", "PENDING")
    /\ wallet.riderPending = RiderShare * CountOf("DELIVERY_PARTNER", "PENDING")
    /\ (\A o \in Orders : recovered[o] = 0) =>
           wallet.sellerAvailable = SellerShare * CountOf("SELLER", "COMPLETED")
    /\ (\A o \in Orders : commission[o] = 0) =>
           wallet.riderAvailable = RiderShare * CountOf("DELIVERY_PARTNER", "COMPLETED")
    /\ wallet.riderAvailable <=
           RiderShare * CountOf("DELIVERY_PARTNER", "COMPLETED") + SumFunction(commission)

\* The rider's cash in hand is what he collected and did not hand over; no order is
\* handed over twice, and the platform has what was handed over.
CashAddsUp ==
    /\ wallet.cashInHand = SumFunction([o \in Orders |-> Pending(order[o])])
    /\ wallet.admin = SumFunction([o \in Orders |-> order[o].remitted])
    /\ \A o \in Orders : order[o].remitted <= order[o].collected

\* An order's cash is collected once, whoever reports it.
CollectedOnce == \A o \in Orders : order[o].collected \in Nets \cup {0}

\* The lines that submissions of cash write in the rider's statement show no cash that
\* the platform has not received, although a submission may fail half way; the lines
\* an administrator enters by hand are backed by nothing.
StatementBacked == statement - byHand <= wallet.admin

\* However many handlers settle an order at once, its earning is recognised once,
\* and a settled order has its two payouts.
SettledOnce ==
    \A o \in Orders :
        /\ earned[o] = IF order[o].settled THEN 1 ELSE 0
        /\ order[o].settled => \A ty \in PayoutType : payout[o][ty] # "none"

\* A payout that was paid is never paid, queued or cancelled again.
PaidOutOnce ==
    [][\A o \in Orders, ty \in PayoutType :
          payout[o][ty] = "COMPLETED" => payout'[o][ty] = "COMPLETED"]_vars

\* Without bulk payouts the seller has been paid only if nobody asked for a return while
\* he could, or its inspection failed: not while a return is going on, however old, nor
\* after one was accepted or rejected.  It holds of an order whose return handlers did
\* not overtake each other or the window: their checks are no part of their saves.
HoldRespected ==
    ~bulk => \A o \in Orders :
        payout[o]["SELLER"] = "COMPLETED" =>
            \/ expired[o] /\ order[o].ret = "none"
            \/ order[o].ret = "qc_failed"
            \/ overtaken[o]

\* Without bulk payouts nobody pays for an order twice: the seller is not paid for
\* goods whose price went back to the customer, unless verdicts overtook each other.
RefundedOrPaid ==
    ~bulk => \A o \in Orders :
        refunded[o] > 0 /\ payout[o]["SELLER"] = "COMPLETED" => overtaken[o]

\* The release job deals with a payout held past the return window: it pays it, or where
\* payouts are not released by themselves lifts the hold.  (Only a return requested in
\* time and saved late may come between.)
HeldIsReleased ==
    \A o \in Orders :
        HeldPast(o) ~> \/ payout[o]["SELLER"] = "COMPLETED"
                       \/ ~autoRelease /\ order[o].seller # "HOLD"
                       \/ overtaken[o]

\* Another handler has written the order that t settles.
Conflicted(t) ==
    /\ thread[t].pc \in {"seller", "rider", "commit"}
    /\ order[thread[t].o] # thread[t].snap

\* A settlement of an order that is paid for commits, though an earlier one may have
\* died with payouts queued, unless its process dies too or another handler writes the
\* order meanwhile.  (Then the order is never settled, if nobody asks for it again.)
DeliveredIsSettled ==
    \A o \in Orders, t \in Requests, k \in 0 .. MaxFaults :
        At(t, "settle") /\ thread[t].o = o /\ faults = k /\ PaidFor(order[o])
            ~> order[o].settled \/ faults # k \/ Conflicted(t)
=============================================================================
