--------------------------- MODULE SettlementProofs ---------------------------
(***************************************************************************)
(* For every set of orders, handlers and jobs and all amounts: the types,  *)
(* that an order is settled, collected and paid out once, and, unless      *)
(* decisions about its return overtook each other, held while a return is  *)
(* possible or going on and not both refunded and paid; that the wallets   *)
(* are what the payouts say and the cash adds up over the orders.          *)
(*                                                                         *)
(* The invariant says of a document what its flags stand for (DocOK), and  *)
(* of a handler what it may rely on although others write meanwhile        *)
(* (Holds).  It may, because some facts about an order never cease to hold *)
(* (Lasting).  The cash is a sum over a finite set: what such sums are and *)
(* how a change of one term changes them follows from the fact that among  *)
(* the subsets of a finite set there is always a minimal one ("Sums").  A  *)
(* rider's balance, which credits overwrite, is bounded by what he earned. *)
(* Last, what the program does as deployed: it pays nobody.                *)
(***************************************************************************)
EXTENDS Settlement, FiniteSetTheorems, WellFoundedInduction, TLAPS

Passed == {"qc_passed", "refund_completed"}

\* Nothing can send the goods back any more, and the seller may be paid: unless a
\* decision about the return was saved too late.
Final(ret, over, late) == (over /\ ret = "none") \/ ret = "qc_failed" \/ late

\* What the document doc says, p being the payouts of its order, e and r the numbers
\* of earnings and refunds, over whether the return window is, and late whether a
\* decision was saved too late.
DocOK(doc, p, e, r, over, late) ==
    /\ e = IF doc.settled THEN 1 ELSE 0
    /\ doc.settled => \A ty \in PayoutType : p[ty] # "none"
    /\ doc.sellerQueued => p["SELLER"] # "none"
    /\ doc.riderQueued => p["DELIVERY_PARTNER"] # "none"
    /\ ~doc.marked => doc.collected = 0
    /\ doc.collected \in Nets \cup {0}
    /\ doc.remitted <= doc.collected
    /\ r > 0 => doc.ret \in Passed \/ late
    /\ ~bulk /\ p["SELLER"] = "COMPLETED" => Final(doc.ret, over, late)

DocsOK ==
    \A o \in Orders :
        DocOK(order[o], payout[o], earned[o], refunded[o], expired[o], overtaken[o])

Accepted(o) == order[o].ret \in Passed \/ overtaken[o]

\* The steps of a handler that refunds.
AfterPassed == {"refund", "recover", "debit", "unhold", "commission", "credit", "close"}

Lapsed(o) == expired[o] /\ (order[o].ret = "none" \/ overtaken[o])

\* What a handler may rely on.
Holds(th) ==
    /\ th.pc \in {"seller", "rider", "commit"} =>
           /\ ~th.snap.settled
           /\ th.snap.sellerQueued => payout[th.o]["SELLER"] # "none"
           /\ th.snap.riderQueued => payout[th.o]["DELIVERY_PARTNER"] # "none"
    /\ th.pc \in {"rider", "commit"} => payout[th.o]["SELLER"] # "none"
    /\ th.pc = "commit" => payout[th.o]["DELIVERY_PARTNER"] # "none"
    /\ th.pc \in AfterPassed => Accepted(th.o)
    /\ th.pc = "qcRelease" => order[th.o].ret = "qc_failed" \/ overtaken[th.o]
    /\ th.pc = "debit" => th.sum >= Refund
    /\ th.pc = "batch" => bulk
    /\ th.pc \in {"holds", "release"} =>
           \A x \in th.rest :
               x[2] = "SELLER" /\ Lapsed(x[1])
    /\ th.pc = "release" => <<th.o, "SELLER">> \in th.rest

ThreadsHold == \A t \in Threads : Holds(thread[t])

WalletInt == [sellerPending : Int, sellerAvailable : Nat, riderPending : Int,
              riderAvailable : Nat, cashInHand : Int, admin : Nat]

\* The types, but for the signs of what is pending (WalletsAddUp).
TypesOK ==
    /\ order \in [Orders -> OrderDoc]
    /\ expired \in [Orders -> BOOLEAN]
    /\ overtaken \in [Orders -> BOOLEAN]
    /\ payout \in [Orders -> [PayoutType -> PayoutStatus]]
    /\ wallet \in WalletInt
    /\ earned \in [Orders -> Nat]
    /\ refunded \in [Orders -> Nat]
    /\ recovered \in [Orders -> Nat]
    /\ commission \in [Orders -> Nat]
    /\ statement \in Nat /\ byHand \in Nat
    /\ bulk \in BOOLEAN /\ autoRelease \in BOOLEAN
    /\ thread \in [Threads -> ThreadState]
    /\ faults \in 0 .. MaxFaults

MoneyInv == TypesOK /\ DocsOK /\ ThreadsHold

\* What never ceases to hold of an order.
Lasting(o) ==
    /\ \A ty \in PayoutType : payout[o][ty] # "none" => payout'[o][ty] # "none"
    /\ expired[o] => expired'[o]
    /\ overtaken[o] => overtaken'[o]
    /\ order[o].ret \in Passed => order'[o].ret \in Passed \/ overtaken'[o]
    /\ order[o].ret = "qc_failed" => order'[o].ret = "qc_failed" \/ overtaken'[o]
    /\ expired[o] /\ order[o].ret = "none" => order'[o].ret = "none" \/ overtaken'[o]

Same(o) ==
    /\ order'[o] = order[o] /\ payout'[o] = payout[o]
    /\ expired'[o] = expired[o] /\ overtaken'[o] = overtaken[o]
    /\ earned'[o] = earned[o] /\ refunded'[o] = refunded[o]

\* What a handler relies on lasts.
LEMMA HoldsLasts ==
    ASSUME bulk' = bulk, \A o \in Orders : Lasting(o),
           NEW th \in ThreadState, Holds(th)
    PROVE  Holds(th)'
<1>1. th.pc \notin {"idle", "submit", "batch", "holds"} => th.o \in Orders
  BY DEF ThreadState
<1>2. \A x \in th.rest : x[1] \in Orders
  BY DEF ThreadState
<1>3. "SELLER" \in PayoutType /\ "DELIVERY_PARTNER" \in PayoutType
  BY DEF PayoutType
<1> QED BY <1>1, <1>2, <1>3 DEF Holds, Lasting, Lapsed, Accepted, AfterPassed

LEMMA StaysHeld ==
    ASSUME TypesOK, ThreadsHold, bulk' = bulk, \A o \in Orders : Lasting(o),
           NEW t \in Threads, thread'[t] = thread[t]
    PROVE  Holds(thread[t])'
<1>1. PICK th \in ThreadState : th = thread[t]
  BY DEF TypesOK
<1>2. Holds(th)
  BY <1>1 DEF ThreadsHold
<1>3. Holds(th)'
  BY <1>2, HoldsLasts
<1>4. (th = thread[t])'
  BY <1>1
<1> QED BY <1>3, <1>4 DEF Holds, AfterPassed

Others == <<bulk, autoRelease>>

\* The types of what the documents' invariant does not speak of.
RestTyped ==
    /\ wallet \in WalletInt /\ recovered \in [Orders -> Nat]
    /\ commission \in [Orders -> Nat] /\ statement \in Nat /\ byHand \in Nat
    /\ faults \in 0 .. MaxFaults

\* What a step that moves only handler t has to establish.
LEMMA Moves ==
    ASSUME MoneyInv, NEW t \in Threads, NEW th \in ThreadState,
           thread' = [thread EXCEPT ![t] = th], Holds(th),
           UNCHANGED <<order, Course, payout, earned, refunded, Others>>, RestTyped'
    PROVE  MoneyInv'
<1>1. TypesOK'
  BY DEF MoneyInv, TypesOK, RestTyped, Others, Course
<1>2. DocsOK'
  BY DEF MoneyInv, DocsOK, DocOK, Others, Course
<1>3. \A o \in Orders : Lasting(o)
  BY DEF Lasting, Course
<1>4. ASSUME NEW q \in Threads PROVE Holds(thread[q])'
  <2>1. CASE q = t
    <3>1. thread'[q] = th
      BY <2>1 DEF MoneyInv, TypesOK
    <3>2. Holds(th)'
      BY <1>3, HoldsLasts DEF Others
    <3> QED BY <3>1, <3>2 DEF Holds, AfterPassed
  <2>2. CASE q # t
    <3>1. thread'[q] = thread[q]
      BY <2>2 DEF MoneyInv, TypesOK
    <3> QED BY <3>1, <1>3, StaysHeld DEF MoneyInv, Others
  <2> QED BY <2>1, <2>2
<1> QED BY <1>1, <1>2, <1>4 DEF MoneyInv, ThreadsHold

\* The window of no order but o closes, and no other return is decided too late.
CourseKept(o) ==
    /\ expired' \in [Orders -> BOOLEAN] /\ overtaken' \in [Orders -> BOOLEAN]
    /\ \A q \in Orders : q # o => expired'[q] = expired[q] /\ overtaken'[q] = overtaken[q]

LEMMA CourseStays ==
    ASSUME MoneyInv, UNCHANGED Course, NEW o \in Orders
    PROVE  CourseKept(o) /\ expired'[o] = expired[o] /\ overtaken'[o] = overtaken[o]
BY DEF MoneyInv, TypesOK, Course, CourseKept

\* What a step that writes about order o alone has to establish.
LEMMA Writes ==
    ASSUME MoneyInv, NEW o \in Orders,
           NEW d \in OrderDoc, order' = [order EXCEPT ![o] = d],
           NEW p \in [PayoutType -> PayoutStatus], payout' = [payout EXCEPT ![o] = p],
           NEW e \in Nat, earned' = [earned EXCEPT ![o] = e],
           NEW r \in Nat, refunded' = [refunded EXCEPT ![o] = r],
           CourseKept(o), UNCHANGED Others, RestTyped',
           DocOK(d, p, e, r, expired'[o], overtaken'[o]),
           Lasting(o),
           thread' \in [Threads -> ThreadState],
           \A t \in Threads : thread'[t] = thread[t] \/ Holds(thread[t])'
    PROVE  MoneyInv'
<1>1. TypesOK'
  BY DEF MoneyInv, TypesOK, RestTyped, Others, CourseKept
<1>2. \A q \in Orders : q # o => Same(q)
  BY DEF MoneyInv, TypesOK, Same, CourseKept
<1>3. \A q \in Orders : Lasting(q)
  BY <1>2 DEF Lasting, Same
<1>4. DocsOK'
  <2>1. bulk' = bulk
    BY DEF Others
  <2>2. DocOK(order'[o], payout'[o], earned'[o], refunded'[o], expired'[o], overtaken'[o])
    <3>1. order'[o] = d /\ payout'[o] = p /\ earned'[o] = e /\ refunded'[o] = r
      BY DEF MoneyInv, TypesOK
    <3> QED BY <3>1
  <2>3. \A q \in Orders :
           DocOK(order'[q], payout'[q], earned'[q], refunded'[q], expired'[q], overtaken'[q])
    BY <2>2, <1>2 DEF MoneyInv, DocsOK, Same
  <2> QED BY <2>1, <2>3 DEF DocsOK, DocOK
<1>5. ThreadsHold'
  BY <1>3, StaysHeld DEF MoneyInv, ThreadsHold, Others
<1> QED BY <1>1, <1>4, <1>5 DEF MoneyInv

-----------------------------------------------------------------------------
(* What handlers turn into.                                                *)

LEMMA PlacedTyped == ASSUME NEW m \in Modes PROVE Placed(m) \in OrderDoc
BY DEF Placed, OrderDoc, SellerPayout, ReturnStatus

LEMMA IdleTyped ==
    /\ Idle \in ThreadState
    /\ Idle.pc = "idle" /\ Idle.rest = {} /\ Idle.o = NoOrder
<1>1. PICK m : m = CHOOSE mm \in Modes : TRUE
  OBVIOUS
<1>2. m \in Modes
  BY <1>1, ModesAssumption
<1>3. Placed(m) \in OrderDoc
  BY <1>2, PlacedTyped
<1> DEFINE snap == Placed(CHOOSE mm \in Modes : TRUE)
<1>4. snap \in OrderDoc
  BY <1>1, <1>3
<1>5. Idle = [pc |-> "idle", o |-> NoOrder, snap |-> snap, hold |-> FALSE, rest |-> {},
              due |-> NoDue, left |-> 0, sum |-> 0]
  BY DEF Idle
<1>6. NoDue \in [Orders -> Nat]
  BY DEF NoDue
<1> HIDE DEF snap
<1> QED BY <1>4, <1>5, <1>6 DEF ThreadState, PC

LEMMA QuietHolds ==
    ASSUME NEW th, th.pc \in {"idle", "settle", "collect", "submit", "request", "reject",
                              "fail", "pass", "earn", "earned"}
    PROVE  Holds(th)
BY DEF Holds, AfterPassed

\* A handler that begins, or keeps of itself only its order.
LEMMA OfOrder ==
    ASSUME NEW pc \in PC, NEW o \in Orders
    PROVE  /\ [Idle EXCEPT !.pc = pc, !.o = o] \in ThreadState
           /\ [Idle EXCEPT !.pc = pc, !.o = o].pc = pc
           /\ [Idle EXCEPT !.pc = pc, !.o = o].o = o
BY IdleTyped DEF ThreadState

\* A handler that goes on.
LEMMA GoesOn ==
    ASSUME NEW th \in ThreadState, NEW pc \in PC,
           pc \notin {"idle", "submit", "batch", "holds"} => th.o \in Orders
    PROVE  LET new == [th EXCEPT !.pc = pc]
           IN  /\ new \in ThreadState /\ new.pc = pc
               /\ new.o = th.o /\ new.snap = th.snap /\ new.rest = th.rest
               /\ new.sum = th.sum /\ new.due = th.due /\ new.left = th.left
BY DEF ThreadState

\* A handler at one of its later steps has an order.
LEMMA HasOrder ==
    ASSUME TypesOK, NEW t \in Threads,
           thread[t].pc \notin {"idle", "submit", "batch", "holds"}
    PROVE  thread[t].o \in Orders /\ thread[t] \in ThreadState
BY DEF TypesOK, ThreadState

\* What Writes asks of the handlers, when t turns into th,
LEMMA Replaced ==
    ASSUME TypesOK, NEW t \in Threads, NEW th \in ThreadState,
           thread' = [thread EXCEPT ![t] = th], Holds(th)'
    PROVE  /\ thread' \in [Threads -> ThreadState]
           /\ \A q \in Threads : thread'[q] = thread[q] \/ Holds(thread[q])'
<1>1. thread' \in [Threads -> ThreadState]
  BY DEF TypesOK
<1>2. \A q \in Threads : thread'[q] = thread[q] \/ thread'[q] = th
  BY DEF TypesOK
<1>3. ASSUME NEW q \in Threads, thread'[q] = th PROVE Holds(thread[q])'
  BY <1>3 DEF Holds, AfterPassed
<1> QED BY <1>1, <1>2, <1>3

\* is done,
LEMMA Finished ==
    ASSUME TypesOK, NEW t \in Threads, Finish(t)
    PROVE  /\ thread' \in [Threads -> ThreadState]
           /\ \A q \in Threads : thread'[q] = thread[q] \/ Holds(thread[q])'
<1>1. PICK th \in ThreadState : th = Idle
  BY IdleTyped
<1>2. Holds(th)'
  BY <1>1, IdleTyped DEF Holds, AfterPassed
<1> QED BY <1>1, <1>2, Replaced DEF Finish

\* or none moves.
LEMMA NoneMoves ==
    ASSUME TypesOK, thread' = thread
    PROVE  /\ thread' \in [Threads -> ThreadState]
           /\ \A q \in Threads : thread'[q] = thread[q] \/ Holds(thread[q])'
BY DEF TypesOK

\* A step that writes no document and moves no handler.
LEMMA UnmovedKeeps ==
    ASSUME MoneyInv, UNCHANGED <<order, Course, payout, earned, refunded, Others>>,
           RestTyped', thread' = thread
    PROVE  MoneyInv'
<1>1. TypesOK'
  BY DEF MoneyInv, TypesOK, RestTyped, Others, Course
<1>2. DocsOK'
  BY DEF MoneyInv, DocsOK, DocOK, Others, Course
<1>3. \A o \in Orders : Lasting(o)
  BY DEF Lasting, Course
<1>4. ThreadsHold'
  BY <1>3, StaysHeld DEF MoneyInv, ThreadsHold, Others
<1> QED BY <1>1, <1>2, <1>4 DEF MoneyInv
-----------------------------------------------------------------------------
(* Steps that move one handler and write nothing.                          *)

\* Any step that writes nothing and leaves its handler idle.
LEMMA FinishesQuietly ==
    ASSUME MoneyInv, NEW t \in Threads, Finish(t),
           UNCHANGED <<order, Course, payout, earned, refunded, Others>>, RestTyped'
    PROVE  MoneyInv'
<1>1. PICK th \in ThreadState : th = Idle
  BY IdleTyped
<1>2. Holds(th)
  BY <1>1, IdleTyped, QuietHolds
<1>3. thread' = [thread EXCEPT ![t] = th]
  BY <1>1 DEF Finish
<1> QED BY <1>2, <1>3, Moves

LEMMA AbandonStep ==
    ASSUME MoneyInv, NEW t \in Threads, Abandon(t) PROVE MoneyInv'
<1>1. RestTyped'
  BY FaultsAssumption DEF Abandon, MoneyInv, TypesOK, RestTyped, Lines, Returned, Money
<1> QED BY <1>1, FinishesQuietly DEF Abandon, Money, Returned, Settings, Others

LEMMA SubmitEndStep ==
    ASSUME MoneyInv, NEW t \in Threads, SubmitEnd(t) PROVE MoneyInv'
<1>1. thread[t].sum \in Nat
  BY DEF MoneyInv, TypesOK, ThreadState
<1>2. RestTyped'
  BY <1>1 DEF SubmitEnd, MoneyInv, TypesOK, RestTyped, Lines, Returned
<1> QED BY <1>2, FinishesQuietly DEF SubmitEnd, Returned, Settings, Others

LEMMA SettleAgainStep ==
    ASSUME MoneyInv, NEW t \in Threads, NEW o \in Orders, SettleAgain(t, o)
    PROVE  MoneyInv'
<1>1. RestTyped'
  BY DEF SettleAgain, MoneyInv, TypesOK, RestTyped, Lines, Returned, Money
<1>2. PICK th : th = [Idle EXCEPT !.pc = "settle", !.o = o]
  OBVIOUS
<1>3. "settle" \in PC
  BY DEF PC
<1>4. th \in ThreadState /\ th.pc = "settle"
  BY <1>2, <1>3, OfOrder
<1>5. Holds(th)
  BY <1>4, QuietHolds
<1>6. thread' = [thread EXCEPT ![t] = th]
  BY <1>2 DEF SettleAgain, Start
<1>7. UNCHANGED <<order, Course, payout, earned, refunded, Others>>
  BY DEF SettleAgain, Money, Returned, Settings, Others
<1> QED BY <1>1, <1>4, <1>5, <1>6, <1>7, Moves

LEMMA SettleReadStep ==
    ASSUME MoneyInv, NEW t \in Threads, SettleRead(t) PROVE MoneyInv'
<1> DEFINE o == thread[t].o
<1>1. RestTyped' /\ UNCHANGED <<order, Course, payout, earned, refunded, Others>>
  BY DEF SettleRead, MoneyInv, TypesOK, RestTyped, Lines, Returned, Money, Settings, Others
<1>2. thread[t] \in ThreadState /\ o \in Orders /\ order[o] \in OrderDoc
  BY HasOrder DEF SettleRead, At, MoneyInv, TypesOK
<1>3. CASE order[o].mode = "ONLINE" /\ ~order[o].captured
  BY <1>1, <1>3, FinishesQuietly DEF SettleRead, PaidFor
<1>4. CASE ~(order[o].mode = "ONLINE" /\ ~order[o].captured) /\ order[o].settled
  <2>1. PICK th : th = [thread[t] EXCEPT !.pc = "collect"]
    OBVIOUS
  <2>2. "collect" \in PC
    BY DEF PC
  <2>3. th \in ThreadState /\ th.pc = "collect"
    BY <1>2, <2>1, <2>2, GoesOn
  <2>4. Holds(th)
    BY <2>3, QuietHolds
  <2>5. thread' = [thread EXCEPT ![t] = th]
    BY <1>4, <2>1 DEF SettleRead, PaidFor, Goto
  <2> QED BY <1>1, <2>3, <2>4, <2>5, Moves
<1>5. CASE ~(order[o].mode = "ONLINE" /\ ~order[o].captured) /\ ~order[o].settled
  <2>1. PICK th : th = [thread[t] EXCEPT !.pc = "seller", !.snap = order[o],
                                         !.hold = ~expired[o]]
    OBVIOUS
  <2>2. "seller" \in PC
    BY DEF PC
  <2>3. /\ th \in ThreadState /\ th.pc = "seller" /\ th.snap = order[o] /\ th.o = o
    BY <1>2, <2>1, <2>2 DEF ThreadState
  <2>4. DocOK(order[o], payout[o], earned[o], refunded[o], expired[o], overtaken[o])
    BY <1>2 DEF MoneyInv, DocsOK
  <2>5. Holds(th)
    BY <1>5, <2>3, <2>4 DEF DocOK, Holds, AfterPassed
  <2>6. thread' = [thread EXCEPT ![t] = th]
    BY <1>5, <2>1 DEF SettleRead, PaidFor
  <2> QED BY <1>1, <2>3, <2>5, <2>6, Moves
<1> QED BY <1>3, <1>4, <1>5

LEMMA OwedTyped ==
    ASSUME TypesOK, DocsOK PROVE [o \in Orders |-> Owed(o)] \in [Orders -> Nat]
<1> SUFFICES ASSUME NEW o \in Orders PROVE Owed(o) \in Nat
  OBVIOUS
<1>1. order[o] \in OrderDoc /\ order[o].remitted <= order[o].collected
  BY DEF TypesOK, DocsOK, DocOK
<1>2. order[o].remitted \in Nat /\ order[o].collected \in Nat
  BY <1>1 DEF OrderDoc
<1> QED BY <1>1, <1>2 DEF Owed, Pending

LEMMA SubmitReadStep ==
    ASSUME MoneyInv, NEW t \in Threads, NEW amount \in Nat, SubmitRead(t, amount)
    PROVE  MoneyInv'
<1>1. RestTyped' /\ UNCHANGED <<order, Course, payout, earned, refunded, Others>>
  BY DEF SubmitRead, MoneyInv, TypesOK, RestTyped, Lines, Returned, Money, Settings, Others
<1> DEFINE due == [o \in Orders |-> Owed(o)]
<1>2. due \in [Orders -> Nat]
  BY OwedTyped DEF MoneyInv
<1>3. thread' = [thread EXCEPT ![t] = [Idle EXCEPT !.pc = "submit", !.due = due,
                                                   !.left = amount, !.sum = amount]]
  BY DEF SubmitRead, Start
<1> HIDE DEF due
<1>4. PICK th : th = [Idle EXCEPT !.pc = "submit", !.due = due, !.left = amount,
                                  !.sum = amount]
  OBVIOUS
<1>5. "submit" \in PC
  BY DEF PC
<1>6. th \in ThreadState /\ th.pc = "submit"
  BY <1>2, <1>4, <1>5, IdleTyped DEF ThreadState
<1>7. Holds(th)
  BY <1>6, QuietHolds
<1> QED BY <1>1, <1>3, <1>4, <1>6, <1>7, Moves

LEMMA BatchReadStep ==
    ASSUME MoneyInv, NEW t \in Threads, BatchRead(t) PROVE MoneyInv'
<1>1. RestTyped' /\ UNCHANGED <<order, Course, payout, earned, refunded, Others>>
  BY DEF BatchRead, MoneyInv, TypesOK, RestTyped, Lines, Returned, Money, Settings, Others
<1> DEFINE list == {x \in Orders \X PayoutType : payout[x[1]][x[2]] = "PENDING"}
<1>2. list \in SUBSET (Orders \X PayoutType)
  OBVIOUS
<1>3. thread' = [thread EXCEPT ![t] = [Idle EXCEPT !.pc = "batch", !.rest = list]] /\ bulk
  BY DEF BatchRead, Start
<1> HIDE DEF list
<1>4. PICK th : th = [Idle EXCEPT !.pc = "batch", !.rest = list]
  OBVIOUS
<1>5. "batch" \in PC
  BY DEF PC
<1>6. th \in ThreadState /\ th.pc = "batch"
  BY <1>2, <1>4, <1>5, IdleTyped DEF ThreadState
<1>7. Holds(th)
  BY <1>3, <1>6 DEF Holds, AfterPassed
<1> QED BY <1>1, <1>3, <1>4, <1>6, <1>7, Moves

LEMMA ReleaseReadStep ==
    ASSUME MoneyInv, NEW t \in Threads, ReleaseRead(t) PROVE MoneyInv'
<1>1. RestTyped' /\ UNCHANGED <<order, Course, payout, earned, refunded, Others>>
  BY DEF ReleaseRead, MoneyInv, TypesOK, RestTyped, Lines, Returned, Money, Settings, Others
<1> DEFINE list == {o \in Orders : HeldPast(o)} \X {"SELLER"}
<1>2. list \in SUBSET (Orders \X PayoutType)
  BY DEF PayoutType
<1>3. \A x \in list : x[2] = "SELLER" /\ Lapsed(x[1])
  BY DEF HeldPast, Lapsed
<1>4. thread' = [thread EXCEPT ![t] = [Idle EXCEPT !.pc = "holds", !.rest = list]]
  BY DEF ReleaseRead, Start
<1> HIDE DEF list
<1>5. PICK th : th = [Idle EXCEPT !.pc = "holds", !.rest = list]
  OBVIOUS
<1>6. "holds" \in PC
  BY DEF PC
<1>7. th \in ThreadState /\ th.pc = "holds" /\ th.rest = list
  BY <1>2, <1>5, <1>6, IdleTyped DEF ThreadState
<1>8. Holds(th)
  BY <1>3, <1>7 DEF Holds, AfterPassed
<1> QED BY <1>1, <1>4, <1>5, <1>7, <1>8, Moves

\* A loop that strikes one entry off its list.
LEMMA RemainsHeld ==
    ASSUME MoneyInv, NEW t \in Threads, thread[t].pc \in {"batch", "holds"}, NEW x,
           Remaining(t, x)
    PROVE  \E th \in ThreadState : thread' = [thread EXCEPT ![t] = th] /\ Holds(th)
<1>1. thread[t] \in ThreadState /\ Holds(thread[t])
  BY DEF MoneyInv, TypesOK, ThreadsHold
<1>2. CASE thread[t].rest = {x}
  <2>1. PICK th : th = Idle
    OBVIOUS
  <2>2. th \in ThreadState /\ Holds(th)
    BY <2>1, IdleTyped, QuietHolds
  <2> QED BY <1>2, <2>1, <2>2 DEF Remaining
<1>3. CASE thread[t].rest # {x}
  <2>1. PICK th : th = [thread[t] EXCEPT !.rest = @ \ {x}]
    OBVIOUS
  <2>2. th \in ThreadState /\ th.pc = thread[t].pc /\ th.rest = thread[t].rest \ {x}
    BY <1>1, <2>1 DEF ThreadState
  <2>3. Holds(th)
    BY <1>1, <2>2 DEF Holds, AfterPassed
  <2> QED BY <1>3, <2>1, <2>2, <2>3 DEF Remaining
<1> QED BY <1>2, <1>3

LEMMA ReleaseFindStep ==
    ASSUME MoneyInv, NEW t \in Threads, NEW x \in thread[t].rest, ReleaseFind(t, x)
    PROVE  MoneyInv'
<1>1. RestTyped' /\ UNCHANGED <<order, Course, payout, earned, refunded, Others>>
  BY DEF ReleaseFind, MoneyInv, TypesOK, RestTyped, Lines, Returned, Money, Settings, Others
<1>2. thread[t] \in ThreadState /\ Holds(thread[t]) /\ thread[t].pc = "holds"
  BY DEF MoneyInv, TypesOK, ThreadsHold, ReleaseFind, At
<1>3. CASE payout[x[1]]["SELLER"] = "PENDING"
  <2>1. PICK th : th = [thread[t] EXCEPT !.pc = "release", !.o = x[1]]
    OBVIOUS
  <2>2. "release" \in PC
    BY DEF PC
  <2>3. x[1] \in Orders /\ x[2] = "SELLER" /\ x = <<x[1], x[2]>>
    BY <1>2 DEF ThreadState, Holds, AfterPassed
  <2>4. th \in ThreadState /\ th.pc = "release" /\ th.o = x[1] /\ th.rest = thread[t].rest
    BY <1>2, <2>1, <2>2, <2>3 DEF ThreadState
  <2>5. Holds(th)
    BY <1>2, <2>3, <2>4 DEF Holds, AfterPassed
  <2>6. thread' = [thread EXCEPT ![t] = th]
    BY <1>3, <2>1 DEF ReleaseFind
  <2> QED BY <1>1, <2>4, <2>5, <2>6, Moves
<1>4. CASE payout[x[1]]["SELLER"] # "PENDING"
  <2>1. PICK th \in ThreadState : thread' = [thread EXCEPT ![t] = th] /\ Holds(th)
    BY <1>2, <1>4, RemainsHeld DEF ReleaseFind
  <2> QED BY <1>1, <2>1, Moves
<1> QED BY <1>3, <1>4
-----------------------------------------------------------------------------
(* The order, its return and its cash: steps that write the document.      *)

\* What Writes asks of a step that leaves the payouts, the counts and the window alone.
LEMMA WritesDoc ==
    ASSUME MoneyInv, NEW o \in Orders, NEW d \in OrderDoc,
           order' = [order EXCEPT ![o] = d],
           UNCHANGED <<Course, payout, earned, refunded, Others>>, RestTyped',
           DocOK(d, payout[o], earned[o], refunded[o], expired[o], overtaken[o]),
           d.ret = order[o].ret,
           thread' \in [Threads -> ThreadState],
           \A t \in Threads : thread'[t] = thread[t] \/ Holds(thread[t])'
    PROVE  MoneyInv'
<1>1. /\ payout[o] \in [PayoutType -> PayoutStatus] /\ earned[o] \in Nat
      /\ refunded[o] \in Nat
  BY DEF MoneyInv, TypesOK
<1>2. /\ payout' = [payout EXCEPT ![o] = payout[o]]
      /\ earned' = [earned EXCEPT ![o] = earned[o]]
      /\ refunded' = [refunded EXCEPT ![o] = refunded[o]]
  BY DEF MoneyInv, TypesOK
<1>3. order'[o] = d
  BY DEF MoneyInv, TypesOK
<1>4. Lasting(o)
  BY <1>3, CourseStays DEF Lasting
<1>5. PICK p \in [PayoutType -> PayoutStatus], e \in Nat, r \in Nat :
         p = payout[o] /\ e = earned[o] /\ r = refunded[o]
  BY <1>1
<1>6. DocOK(d, p, e, r, expired'[o], overtaken'[o]) /\ UNCHANGED Others
  BY <1>5, CourseStays
<1>7. /\ payout' = [payout EXCEPT ![o] = p] /\ earned' = [earned EXCEPT ![o] = e]
      /\ refunded' = [refunded EXCEPT ![o] = r]
  BY <1>2, <1>5
<1>8. CourseKept(o)
  BY CourseStays
<1> QED BY <1>4, <1>6, <1>7, <1>8, Writes

\* What is known of a document.
LEMMA DocKnown ==
    ASSUME MoneyInv, NEW o \in Orders
    PROVE  /\ order[o] \in OrderDoc
           /\ DocOK(order[o], payout[o], earned[o], refunded[o], expired[o], overtaken[o])
           /\ order[o].collected \in Nat /\ order[o].remitted \in Nat
           /\ payout[o] \in [PayoutType -> PayoutStatus]
           /\ expired[o] \in BOOLEAN /\ overtaken[o] \in BOOLEAN
           /\ earned[o] \in Nat /\ refunded[o] \in Nat
BY DEF MoneyInv, TypesOK, DocsOK, OrderDoc

LEMMA CaptureStep ==
    ASSUME MoneyInv, NEW o \in Orders, Capture(o) PROVE MoneyInv'
<1>1. RestTyped' /\ UNCHANGED <<Course, payout, earned, refunded, Others>> /\ thread' = thread
  BY DEF Capture, MoneyInv, TypesOK, RestTyped, Lines, Returned, Money, Settings, Others
<1>2. PICK d : d = [order[o] EXCEPT !.captured = TRUE]
  OBVIOUS
<1>3. d \in OrderDoc /\ d.ret = order[o].ret
  BY <1>2, DocKnown DEF OrderDoc
<1>4. DocOK(d, payout[o], earned[o], refunded[o], expired[o], overtaken[o])
  BY <1>2, DocKnown DEF DocOK, OrderDoc
<1>5. order' = [order EXCEPT ![o] = d]
  BY <1>2 DEF Capture
<1> QED BY <1>1, <1>3, <1>4, <1>5, WritesDoc, NoneMoves DEF MoneyInv

LEMMA DeliverStep ==
    ASSUME MoneyInv, NEW t \in Threads, NEW o \in Orders, Deliver(t, o) PROVE MoneyInv'
<1>1. RestTyped' /\ UNCHANGED <<Course, payout, earned, refunded, Others>>
  BY DEF Deliver, MoneyInv, TypesOK, RestTyped, Lines, Returned, Money, Settings, Others
<1>2. PICK d : d = [order[o] EXCEPT !.delivered = TRUE]
  OBVIOUS
<1>3. d \in OrderDoc /\ d.ret = order[o].ret
  BY <1>2, DocKnown DEF OrderDoc
<1>4. DocOK(d, payout[o], earned[o], refunded[o], expired[o], overtaken[o])
  BY <1>2, DocKnown DEF DocOK, OrderDoc
<1>5. order' = [order EXCEPT ![o] = d]
  BY <1>2 DEF Deliver
<1>6. PICK th : th = [Idle EXCEPT !.pc = "settle", !.o = o]
  OBVIOUS
<1>7. "settle" \in PC
  BY DEF PC
<1>8. th \in ThreadState /\ th.pc = "settle"
  BY <1>6, <1>7, OfOrder
<1>9. thread' = [thread EXCEPT ![t] = th] /\ Holds(th)'
  BY <1>6, <1>8 DEF Deliver, Start, Holds, AfterPassed
<1>10. /\ thread' \in [Threads -> ThreadState]
       /\ \A q \in Threads : thread'[q] = thread[q] \/ Holds(thread[q])'
  BY <1>8, <1>9, Replaced DEF MoneyInv
<1> QED BY <1>1, <1>3, <1>4, <1>5, <1>10, WritesDoc

LEMMA WindowClosesStep ==
    ASSUME MoneyInv, NEW o \in Orders, WindowCloses(o) PROVE MoneyInv'
<1>1. /\ RestTyped' /\ UNCHANGED <<order, payout, earned, refunded, Others>>
      /\ thread' = thread /\ expired' = [expired EXCEPT ![o] = TRUE]
      /\ overtaken' = overtaken
  BY DEF WindowCloses, MoneyInv, TypesOK, RestTyped, Lines, Returned, Money, Settings, Others
<1>2. PICK d \in OrderDoc, p \in [PayoutType -> PayoutStatus], e \in Nat, r \in Nat,
           y \in BOOLEAN, z \in BOOLEAN :
               /\ d = order[o] /\ p = payout[o] /\ e = earned[o] /\ r = refunded[o]
               /\ y = expired[o] /\ z = overtaken[o]
  BY DocKnown
<1>3. DocOK(d, p, e, r, y, z)
  BY <1>2, DocKnown
<1>4. DocOK(d, p, e, r, expired'[o], overtaken'[o])
  BY <1>1, <1>2, <1>3 DEF DocOK, Final, MoneyInv, TypesOK
<1>5. /\ order' = [order EXCEPT ![o] = d] /\ payout' = [payout EXCEPT ![o] = p]
      /\ earned' = [earned EXCEPT ![o] = e] /\ refunded' = [refunded EXCEPT ![o] = r]
  BY <1>1, <1>2 DEF MoneyInv, TypesOK
<1>6. Lasting(o)
  BY <1>1 DEF Lasting, MoneyInv, TypesOK
<1>7. CourseKept(o)
  BY <1>1 DEF MoneyInv, TypesOK, CourseKept
<1>8. /\ thread' \in [Threads -> ThreadState]
      /\ \A q \in Threads : thread'[q] = thread[q] \/ Holds(thread[q])'
  BY <1>1, NoneMoves DEF MoneyInv
<1> QED BY <1>1, <1>4, <1>5, <1>6, <1>7, <1>8, Writes

\* Cash goes into the rider's hand once,
LEMMA CollectsKeeps ==
    ASSUME MoneyInv, NEW o \in Orders, NEW net \in Nets, Collects(o, net), ~order[o].marked,
           UNCHANGED <<Course, payout, earned, refunded, recovered, commission, Lines, Others, faults>>,
           thread' \in [Threads -> ThreadState],
           \A t \in Threads : thread'[t] = thread[t] \/ Holds(thread[t])'
    PROVE  MoneyInv'
<1>0. net \in Nat
  BY AmountsAssumption
<1>1. RestTyped'
  <2>1. wallet \in WalletInt /\ wallet' = [wallet EXCEPT !.cashInHand = @ + net]
    BY DEF Collects, MoneyInv, TypesOK
  <2>2. wallet' \in WalletInt
    BY <1>0, <2>1 DEF WalletInt
  <2> QED BY <2>2 DEF MoneyInv, TypesOK, RestTyped, Lines
<1>3. order[o].collected = 0 /\ order[o].collected \in Nat
  BY DocKnown DEF DocOK
<1>2. PICK d : d = [order[o] EXCEPT !.marked = TRUE, !.collected = net]
  OBVIOUS
<1>4. /\ d \in OrderDoc /\ d.ret = order[o].ret /\ d.collected = net
      /\ d.remitted = order[o].remitted /\ d.marked
  BY <1>0, <1>2, <1>3, DocKnown DEF OrderDoc
<1>5. /\ d.settled = order[o].settled /\ d.sellerQueued = order[o].sellerQueued
      /\ d.riderQueued = order[o].riderQueued
  BY <1>2, DocKnown DEF OrderDoc
<1>6. d.remitted <= d.collected
  BY <1>0, <1>3, <1>4, DocKnown DEF DocOK
<1>7. DocOK(d, payout[o], earned[o], refunded[o], expired[o], overtaken[o])
  BY <1>4, <1>5, <1>6, DocKnown DEF DocOK
<1>8. order' = [order EXCEPT ![o] = d]
  <2>1. order[o].collected + net = net
    BY <1>0, <1>3
  <2> QED BY <1>2, <2>1 DEF Collects
<1> QED BY <1>1, <1>4, <1>7, <1>8, WritesDoc

LEMMA CodCollectStep ==
    ASSUME MoneyInv, NEW t \in Threads, CodCollect(t) PROVE MoneyInv'
<1> DEFINE o == thread[t].o
<1>1. o \in Orders
  BY HasOrder DEF CodCollect, At, MoneyInv
<1>2. /\ Finish(t)
      /\ UNCHANGED <<Course, payout, earned, refunded, recovered, commission, Lines, Others, faults>>
  BY DEF CodCollect, Returned, Settings, Others
<1>3. CASE order[o].mode = "COD" /\ order[o].delivered /\ ~order[o].marked
  <2>1. PICK net \in Nets : Collects(o, net)
    BY <1>3 DEF CodCollect
  <2>2. /\ thread' \in [Threads -> ThreadState]
        /\ \A q \in Threads : thread'[q] = thread[q] \/ Holds(thread[q])'
    BY <1>2, Finished DEF MoneyInv
  <2> QED BY <1>1, <1>2, <1>3, <2>1, <2>2, CollectsKeeps
<1>4. CASE ~(order[o].mode = "COD" /\ order[o].delivered /\ ~order[o].marked)
  <2>1. UNCHANGED <<order, wallet>>
    BY <1>4 DEF CodCollect
  <2>2. RestTyped'
    BY <1>2, <2>1 DEF MoneyInv, TypesOK, RestTyped, Lines
  <2> QED BY <1>2, <2>1, <2>2, FinishesQuietly
<1> QED BY <1>3, <1>4

LEMMA MarkCollectedStep ==
    ASSUME MoneyInv, NEW o \in Orders, MarkCollected(o) PROVE MoneyInv'
<1>1. PICK net \in Nets : Collects(o, net)
  BY DEF MarkCollected
<1>2. /\ UNCHANGED <<Course, payout, earned, refunded, recovered, commission, Lines, Others, faults>>
      /\ ~order[o].marked /\ thread' = thread
  BY DEF MarkCollected, Returned, Settings, Others
<1> QED BY <1>1, <1>2, CollectsKeeps, NoneMoves DEF MoneyInv

LEMMA HandsOver ==
    ASSUME NEW w \in WalletInt, NEW amount \in Nat
    PROVE  [w EXCEPT !.cashInHand = @ - amount, !.admin = @ + amount] \in WalletInt
<1>1. w.cashInHand - amount \in Int /\ w.admin + amount \in Nat
  BY DEF WalletInt
<1> QED BY <1>1 DEF WalletInt

\* and no more of it is handed over than was collected.
LEMMA ReconcilesKeeps ==
    ASSUME MoneyInv, NEW o \in Orders, NEW amount \in Nat, Reconciles(o, amount),
           amount <= Pending(order[o]),
           UNCHANGED <<Course, payout, earned, refunded, recovered, commission, Lines, Others, faults>>,
           thread' \in [Threads -> ThreadState],
           \A t \in Threads : thread'[t] = thread[t] \/ Holds(thread[t])'
    PROVE  MoneyInv'
<1>1. RestTyped'
  <2>1. /\ wallet \in WalletInt
        /\ wallet' = [wallet EXCEPT !.cashInHand = @ - amount, !.admin = @ + amount]
    BY DEF Reconciles, MoneyInv, TypesOK
  <2>2. wallet' \in WalletInt
    BY <2>1, HandsOver
  <2> QED BY <2>2 DEF MoneyInv, TypesOK, RestTyped, Lines
<1>2. PICK d : d = [order[o] EXCEPT !.remitted = @ + amount]
  OBVIOUS
<1>3. /\ d \in OrderDoc /\ d.ret = order[o].ret /\ d.collected = order[o].collected
      /\ d.remitted = order[o].remitted + amount /\ d.marked = order[o].marked
  BY <1>2, DocKnown DEF OrderDoc
<1>4. /\ d.settled = order[o].settled /\ d.sellerQueued = order[o].sellerQueued
      /\ d.riderQueued = order[o].riderQueued
  BY <1>2, DocKnown DEF OrderDoc
<1>5. d.remitted <= d.collected
  BY <1>3, DocKnown DEF DocOK, Pending
<1>6. DocOK(d, payout[o], earned[o], refunded[o], expired[o], overtaken[o])
  BY <1>3, <1>4, <1>5, DocKnown DEF DocOK
<1>7. order' = [order EXCEPT ![o] = d]
  BY <1>2 DEF Reconciles
<1> QED BY <1>1, <1>3, <1>6, <1>7, WritesDoc

LEMMA ReconcileStep ==
    ASSUME MoneyInv, NEW o \in Orders, NEW amount, Reconcile(o, amount) PROVE MoneyInv'
<1>1. Pending(order[o]) \in Int
  BY DocKnown DEF Pending
<1>2. amount \in Nat /\ amount <= Pending(order[o])
  BY <1>1 DEF Reconcile
<1>3. Reconciles(o, amount) /\ thread' = thread
  BY DEF Reconcile
<1>4. UNCHANGED <<Course, payout, earned, refunded, recovered, commission, Lines, Others, faults>>
  BY DEF Reconcile, Returned, Settings, Others
<1> QED BY <1>2, <1>3, <1>4, ReconcilesKeeps, NoneMoves DEF MoneyInv

LEMMA SubmitOneStep ==
    ASSUME MoneyInv, NEW t \in Threads, NEW o \in Orders, SubmitOne(t, o) PROVE MoneyInv'
<1> DEFINE th == thread[t]
           amount == Lesser(th.due[o], th.left)
<1>1. th \in ThreadState /\ th.pc = "submit"
  BY DEF MoneyInv, TypesOK, SubmitOne, At
<1>2. th.due \in [Orders -> Nat] /\ th.left \in Nat
  BY <1>1 DEF ThreadState
<1>3. amount \in Nat /\ amount <= th.left
  BY <1>2 DEF Lesser
<1>4. UNCHANGED <<Course, payout, earned, refunded, recovered, commission, Lines, Others, faults>>
  BY DEF SubmitOne, Returned, Settings, Others
<1>5. CASE amount <= Pending(order[o])
  <2>1. PICK new : new = [th EXCEPT !.due[o] = 0, !.left = @ - amount]
    OBVIOUS
  <2>2. th.left - amount \in Nat /\ [th.due EXCEPT ![o] = 0] \in [Orders -> Nat]
    BY <1>2, <1>3
  <2>3. new \in ThreadState /\ new.pc = "submit"
    BY <1>1, <2>1, <2>2 DEF ThreadState
  <2>4. thread' = [thread EXCEPT ![t] = new] /\ Holds(new)' /\ Reconciles(o, amount)
    BY <1>5, <2>1, <2>3 DEF SubmitOne, Holds, AfterPassed
  <2>5. /\ thread' \in [Threads -> ThreadState]
        /\ \A q \in Threads : thread'[q] = thread[q] \/ Holds(thread[q])'
    BY <2>3, <2>4, Replaced DEF MoneyInv
  <2> QED BY <1>3, <1>4, <1>5, <2>4, <2>5, ReconcilesKeeps
<1>6. CASE ~(amount <= Pending(order[o]))
  <2>1. Finish(t) /\ UNCHANGED <<order, wallet>>
    BY <1>6 DEF SubmitOne
  <2>2. RestTyped'
    BY <1>4, <2>1 DEF MoneyInv, TypesOK, RestTyped, Lines
  <2> QED BY <1>4, <2>1, <2>2, FinishesQuietly
<1> QED BY <1>5, <1>6
-----------------------------------------------------------------------------
(* Settlement.                                                             *)

\* One of the two payouts of a settlement is created, or was there: the order's
\* document stays, its payout of type ty is one from now on.
LEMMA CreatesKeeps ==
    ASSUME MoneyInv, NEW o \in Orders, NEW ty \in PayoutType, CreatePayout(o, ty),
           UNCHANGED <<order, Course, earned, refunded, recovered, commission, Lines, Others, faults>>,
           thread' \in [Threads -> ThreadState],
           \A t \in Threads : thread'[t] = thread[t] \/ Holds(thread[t])'
    PROVE  MoneyInv'
<1>1. CASE payout[o][ty] \in {"PENDING", "COMPLETED"}
  <2>1. UNCHANGED <<payout, wallet>>
    BY <1>1 DEF CreatePayout
  <2>2. RestTyped'
    BY <2>1 DEF MoneyInv, TypesOK, RestTyped, Lines
  <2>3. PICK d \in OrderDoc : d = order[o]
    BY DocKnown
  <2>4. DocOK(d, payout[o], earned[o], refunded[o], expired[o], overtaken[o])
    BY <2>3, DocKnown
  <2>5. order' = [order EXCEPT ![o] = d]
    BY <2>3 DEF MoneyInv, TypesOK
  <2> QED BY <2>1, <2>2, <2>3, <2>4, <2>5, WritesDoc
<1>2. CASE payout[o][ty] \notin {"PENDING", "COMPLETED"}
  <2>1. payout' = [payout EXCEPT ![o][ty] = "PENDING"] /\ wallet' = Credit(wallet, ty)
    BY <1>2 DEF CreatePayout
  <2>2. RestTyped'
    <3>1. /\ wallet.sellerPending + SellerShare \in Int
          /\ wallet.riderPending + RiderShare \in Int
      BY AmountsAssumption DEF MoneyInv, TypesOK, WalletInt
    <3>2. CASE ty = "SELLER"
      <4>1. wallet' = [wallet EXCEPT !.sellerPending = wallet.sellerPending + SellerShare]
        BY <2>1, <3>2 DEF Credit
      <4>2. wallet' \in WalletInt
        BY <3>1, <4>1 DEF MoneyInv, TypesOK, WalletInt
      <4> QED BY <4>2 DEF MoneyInv, TypesOK, RestTyped, Lines
    <3>3. CASE ty # "SELLER"
      <4>1. wallet' = [wallet EXCEPT !.riderPending = wallet.riderPending + RiderShare]
        BY <2>1, <3>3 DEF Credit
      <4>2. wallet' \in WalletInt
        BY <3>1, <4>1 DEF MoneyInv, TypesOK, WalletInt
      <4> QED BY <4>2 DEF MoneyInv, TypesOK, RestTyped, Lines
    <3> QED BY <3>2, <3>3
  <2>3. PICK d \in OrderDoc, p \in [PayoutType -> PayoutStatus], e \in Nat, r \in Nat :
             d = order[o] /\ p = [payout[o] EXCEPT ![ty] = "PENDING"]
             /\ e = earned[o] /\ r = refunded[o]
    <3>1. [payout[o] EXCEPT ![ty] = "PENDING"] \in [PayoutType -> PayoutStatus]
      BY DocKnown DEF PayoutStatus
    <3> QED BY <3>1, DocKnown
  <2>4. /\ p[ty] = "PENDING"
        /\ \A u \in PayoutType : p[u] = IF u = ty THEN "PENDING" ELSE payout[o][u]
    BY <2>3, DocKnown
  <2>5. "SELLER" \in PayoutType /\ "DELIVERY_PARTNER" \in PayoutType
    BY DEF PayoutType
  <2>6. DocOK(d, p, e, r, expired[o], overtaken[o])
    BY <2>3, <2>4, <2>5, DocKnown DEF DocOK
  <2>7. /\ order' = [order EXCEPT ![o] = d] /\ payout' = [payout EXCEPT ![o] = p]
        /\ earned' = [earned EXCEPT ![o] = e] /\ refunded' = [refunded EXCEPT ![o] = r]
    BY <2>1, <2>3 DEF MoneyInv, TypesOK
  <2>8. payout'[o] = p
    BY <2>7 DEF MoneyInv, TypesOK
  <2>9. Lasting(o)
    BY <2>4, <2>8, CourseStays DEF Lasting
  <2>10. CourseKept(o)
    BY CourseStays
  <2>11. DocOK(d, p, e, r, expired'[o], overtaken'[o]) /\ UNCHANGED Others
    BY <2>6, CourseStays
  <2> QED BY <2>2, <2>7, <2>9, <2>10, <2>11, Writes
<1> QED BY <1>1, <1>2

\* After CreatePayout there is a payout.
LEMMA Created ==
    ASSUME MoneyInv, NEW o \in Orders, NEW ty \in PayoutType, CreatePayout(o, ty)
    PROVE  /\ payout'[o][ty] # "none"
           /\ \A u \in PayoutType : payout[o][u] # "none" => payout'[o][u] # "none"
BY DEF CreatePayout, MoneyInv, TypesOK

\* The two steps of a settlement that create a payout, as one.
LEMMA QueueKeeps ==
    ASSUME MoneyInv, NEW t \in Threads, NEW ty \in PayoutType, NEW queued \in BOOLEAN,
           NEW pc \in PC, NEW to \in PC,
           \/ pc = "seller" /\ ty = "SELLER" /\ to = "rider"
           \/ pc = "rider" /\ ty = "DELIVERY_PARTNER" /\ to = "commit",
           At(t, pc),
           queued => payout[thread[t].o][ty] # "none",
           IF queued
           THEN UNCHANGED <<payout, wallet>> /\ Goto(t, to)
           ELSE IF CreateThrows(thread[t].o, ty)
           THEN UNCHANGED <<payout, wallet>> /\ Finish(t)
           ELSE CreatePayout(thread[t].o, ty) /\ Goto(t, to),
           UNCHANGED <<order, Course, earned, Returned, Lines, Settings, faults>>
    PROVE  MoneyInv'
<1>1. PICK o \in Orders : o = thread[t].o
  BY HasOrder DEF At, MoneyInv
<1>2. thread[t] \in ThreadState /\ Holds(thread[t]) /\ thread[t].pc = pc
  BY DEF MoneyInv, TypesOK, ThreadsHold, At
<1>3. UNCHANGED <<order, Course, earned, refunded, recovered, commission, Lines, Others, faults>>
  BY DEF Returned, Settings, Others
<1>4. PICK new : new = [thread[t] EXCEPT !.pc = to]
  OBVIOUS
<1>5. /\ new \in ThreadState /\ new.pc = to /\ new.o = o /\ new.snap = thread[t].snap
  BY <1>1, <1>2, <1>4, GoesOn
<1>6. CASE queued
  <2>1. Holds(new)
    BY <1>1, <1>2, <1>5, <1>6 DEF Holds, AfterPassed
  <2>2. thread' = [thread EXCEPT ![t] = new] /\ UNCHANGED <<payout, wallet>>
    BY <1>4, <1>6 DEF Goto
  <2>3. RestTyped'
    BY <1>3, <2>2 DEF MoneyInv, TypesOK, RestTyped, Lines
  <2> QED BY <1>3, <1>5, <2>1, <2>2, <2>3, Moves
<1>7. CASE ~queued /\ CreateThrows(o, ty)
  <2>1. Finish(t) /\ UNCHANGED <<payout, wallet>>
    BY <1>1, <1>7
  <2>2. RestTyped'
    BY <1>3, <2>1 DEF MoneyInv, TypesOK, RestTyped, Lines
  <2> QED BY <1>3, <2>1, <2>2, FinishesQuietly
<1>8. CASE ~queued /\ ~CreateThrows(o, ty)
  <2>1. CreatePayout(o, ty) /\ thread' = [thread EXCEPT ![t] = new]
    BY <1>1, <1>4, <1>8 DEF Goto
  <2>2. /\ payout'[o][ty] # "none"
        /\ \A u \in PayoutType : payout[o][u] # "none" => payout'[o][u] # "none"
    BY <2>1, Created
  <2>3. "SELLER" \in PayoutType /\ "DELIVERY_PARTNER" \in PayoutType
    BY DEF PayoutType
  <2>4. Holds(new)'
    BY <1>1, <1>2, <1>5, <2>2, <2>3 DEF Holds, AfterPassed
  <2>5. /\ thread' \in [Threads -> ThreadState]
        /\ \A q \in Threads : thread'[q] = thread[q] \/ Holds(thread[q])'
    BY <1>5, <2>1, <2>4, Replaced DEF MoneyInv
  <2> QED BY <1>3, <2>1, <2>5, CreatesKeeps
<1> QED BY <1>1, <1>6, <1>7, <1>8

LEMMA QueueStep ==
    ASSUME MoneyInv, NEW t \in Threads, QueueSeller(t) \/ QueueRider(t) PROVE MoneyInv'
<1>1. /\ "seller" \in PC /\ "rider" \in PC /\ "commit" \in PC
      /\ "SELLER" \in PayoutType /\ "DELIVERY_PARTNER" \in PayoutType
  BY DEF PC, PayoutType
<1>2. thread[t] \in ThreadState /\ Holds(thread[t])
  BY DEF MoneyInv, TypesOK, ThreadsHold
<1>3. thread[t].snap.sellerQueued \in BOOLEAN /\ thread[t].snap.riderQueued \in BOOLEAN
  BY <1>2 DEF ThreadState, OrderDoc
<1>4. CASE QueueSeller(t)
  <2>1. At(t, "seller") /\ (thread[t].snap.sellerQueued => payout[thread[t].o]["SELLER"] # "none")
    BY <1>2, <1>4 DEF Holds, AfterPassed, QueueSeller, At
  <2> QED BY <1>1, <1>3, <1>4, <2>1, QueueKeeps DEF QueueSeller
<1>5. CASE QueueRider(t)
  <2>1. At(t, "rider")
        /\ (thread[t].snap.riderQueued => payout[thread[t].o]["DELIVERY_PARTNER"] # "none")
    BY <1>2, <1>5 DEF Holds, AfterPassed, QueueRider, At
  <2> QED BY <1>1, <1>3, <1>5, <2>1, QueueKeeps DEF QueueRider
<1> QED BY <1>4, <1>5

LEMMA SettleCommitStep ==
    ASSUME MoneyInv, NEW t \in Threads, SettleCommit(t) PROVE MoneyInv'
<1>1. PICK o \in Orders : o = thread[t].o
  BY HasOrder DEF SettleCommit, At, MoneyInv
<1>2. RestTyped' /\ UNCHANGED <<Course, payout, refunded, Others>>
  BY DEF SettleCommit, MoneyInv, TypesOK, RestTyped, Lines, Returned, Settings, Others
<1>3. CASE order[o] # thread[t].snap
  <2>1. Finish(t) /\ UNCHANGED <<order, earned>>
    BY <1>1, <1>3 DEF SettleCommit
  <2> QED BY <1>2, <2>1, FinishesQuietly
<1>4. CASE order[o] = thread[t].snap
  <2>1. /\ order' = [order EXCEPT ![o] = Settled(thread[t].snap, thread[t].hold)]
        /\ earned' = [earned EXCEPT ![o] = earned[o] + 1]
        /\ GotoLast(t, "collect")
    BY <1>1, <1>4 DEF SettleCommit
  <2>2. Holds(thread[t]) /\ thread[t].pc = "commit"
    BY DEF MoneyInv, ThreadsHold, SettleCommit, At
  <2>3. ~order[o].settled /\ \A ty \in PayoutType : payout[o][ty] # "none"
    BY <1>1, <1>4, <2>2 DEF Holds, AfterPassed, PayoutType
  <2>4. PICK d : d = Settled(order[o], thread[t].hold)
    OBVIOUS
  <2>5. /\ d \in OrderDoc /\ d.settled /\ d.ret = order[o].ret
        /\ d.marked = order[o].marked /\ d.collected = order[o].collected
        /\ d.remitted = order[o].remitted
    BY <2>4, DocKnown DEF Settled, OrderDoc, SellerPayout
  <2>6. PICK p \in [PayoutType -> PayoutStatus], e \in Nat, r \in Nat :
             p = payout[o] /\ e = earned[o] + 1 /\ r = refunded[o]
    <3>1. earned[o] + 1 \in Nat
      BY DocKnown
    <3> QED BY <3>1, DocKnown
  <2>7. earned[o] = 0
    BY <2>3, DocKnown DEF DocOK
  <2>8. e = 1
    BY <2>6, <2>7
  <2>9. "SELLER" \in PayoutType /\ "DELIVERY_PARTNER" \in PayoutType
    BY DEF PayoutType
  <2>10. DocOK(d, p, e, r, expired[o], overtaken[o])
    BY <2>3, <2>5, <2>6, <2>8, <2>9, DocKnown DEF DocOK
  <2>11. /\ order' = [order EXCEPT ![o] = d] /\ payout' = [payout EXCEPT ![o] = p]
         /\ earned' = [earned EXCEPT ![o] = e] /\ refunded' = [refunded EXCEPT ![o] = r]
    BY <1>2, <1>4, <2>1, <2>4, <2>6 DEF MoneyInv, TypesOK
  <2>12. order'[o] = d
    BY <2>11 DEF MoneyInv, TypesOK
  <2>13. Lasting(o)
    BY <1>2, <2>5, <2>12, CourseStays DEF Lasting
  <2>14. CourseKept(o) /\ DocOK(d, p, e, r, expired'[o], overtaken'[o])
    BY <1>2, <2>10, CourseStays
  <2>15. PICK th : th = [Idle EXCEPT !.pc = "collect", !.o = o]
    OBVIOUS
  <2>16. "collect" \in PC
    BY DEF PC
  <2>17. th \in ThreadState /\ th.pc = "collect"
    BY <2>15, <2>16, OfOrder
  <2>18. thread' = [thread EXCEPT ![t] = th] /\ Holds(th)'
    BY <1>1, <2>1, <2>15, <2>17 DEF GotoLast, Holds, AfterPassed
  <2>19. /\ thread' \in [Threads -> ThreadState]
         /\ \A q \in Threads : thread'[q] = thread[q] \/ Holds(thread[q])'
    BY <2>17, <2>18, Replaced DEF MoneyInv
  <2> QED BY <1>2, <2>5, <2>11, <2>13, <2>14, <2>19, Writes
<1> QED BY <1>3, <1>4
-----------------------------------------------------------------------------
(* Payouts.                                                                *)

LEMMA PaysOut ==
    ASSUME NEW w \in WalletInt
    PROVE  /\ [w EXCEPT !.sellerPending = @ - SellerShare, !.sellerAvailable = @ + SellerShare]
                 \in WalletInt
           /\ [w EXCEPT !.riderPending = @ - RiderShare, !.riderAvailable = @ + RiderShare]
                 \in WalletInt
<1>1. w.sellerPending - SellerShare \in Int /\ w.sellerAvailable + SellerShare \in Nat
  BY AmountsAssumption DEF WalletInt
<1>2. w.riderPending - RiderShare \in Int /\ w.riderAvailable + RiderShare \in Nat
  BY AmountsAssumption DEF WalletInt
<1> QED BY <1>1, <1>2 DEF WalletInt

\* A payout is processed, by somebody who may pay the seller.
LEMMA ProcessKeeps ==
    ASSUME MoneyInv, NEW o \in Orders, NEW ty \in PayoutType, Process(o, ty),
           ty = "SELLER" => bulk \/ Final(order[o].ret, expired[o], overtaken[o]),
           UNCHANGED <<Course, earned, refunded, recovered, commission, Lines, Others, faults>>,
           thread' \in [Threads -> ThreadState],
           \A t \in Threads : thread'[t] = thread[t] \/ Holds(thread[t])'
    PROVE  MoneyInv'
<1>1. CASE payout[o][ty] # "PENDING"
  <2>1. UNCHANGED <<payout, wallet, order>>
    BY <1>1 DEF Process
  <2>2. RestTyped'
    BY <2>1 DEF MoneyInv, TypesOK, RestTyped, Lines
  <2>3. PICK d \in OrderDoc : d = order[o]
    BY DocKnown
  <2>4. DocOK(d, payout[o], earned[o], refunded[o], expired[o], overtaken[o])
    BY <2>3, DocKnown
  <2>5. order' = [order EXCEPT ![o] = d]
    BY <2>1, <2>3 DEF MoneyInv, TypesOK
  <2> QED BY <2>1, <2>2, <2>3, <2>4, <2>5, WritesDoc
<1>2. CASE payout[o][ty] = "PENDING"
  <2>1. Processes(o, ty)
    BY <1>2 DEF Process
  <2>2. RestTyped'
    <3>1. wallet' \in WalletInt
      BY <2>1, PaysOut DEF Processes, MoneyInv, TypesOK
    <3> QED BY <3>1 DEF MoneyInv, TypesOK, RestTyped, Lines
  <2>3. PICK d : d = IF ty = "SELLER"
                     THEN [order[o] EXCEPT !.seller = "COMPLETED", !.sellerQueued = TRUE]
                     ELSE [order[o] EXCEPT !.riderQueued = TRUE]
    OBVIOUS
  <2>4. /\ d \in OrderDoc /\ d.ret = order[o].ret /\ d.settled = order[o].settled
        /\ d.marked = order[o].marked /\ d.collected = order[o].collected
        /\ d.remitted = order[o].remitted
        /\ d.sellerQueued = (order[o].sellerQueued \/ ty = "SELLER")
        /\ d.riderQueued = (order[o].riderQueued \/ ty # "SELLER")
    BY <2>3, DocKnown DEF OrderDoc, SellerPayout
  <2>5. PICK p \in [PayoutType -> PayoutStatus], e \in Nat, r \in Nat :
             p = [payout[o] EXCEPT ![ty] = "COMPLETED"] /\ e = earned[o] /\ r = refunded[o]
    <3>1. [payout[o] EXCEPT ![ty] = "COMPLETED"] \in [PayoutType -> PayoutStatus]
      BY DocKnown DEF PayoutStatus
    <3> QED BY <3>1, DocKnown
  <2>6. /\ p[ty] = "COMPLETED"
        /\ \A u \in PayoutType : p[u] = IF u = ty THEN "COMPLETED" ELSE payout[o][u]
    BY <2>5, DocKnown
  <2>7. /\ "SELLER" \in PayoutType /\ "DELIVERY_PARTNER" \in PayoutType
        /\ ty # "SELLER" => ty = "DELIVERY_PARTNER"
    BY DEF PayoutType
  <2>8. DocOK(d, p, e, r, expired[o], overtaken[o])
    BY <2>4, <2>5, <2>6, <2>7, DocKnown DEF DocOK
  <2>9. /\ order' = [order EXCEPT ![o] = d] /\ payout' = [payout EXCEPT ![o] = p]
        /\ earned' = [earned EXCEPT ![o] = e] /\ refunded' = [refunded EXCEPT ![o] = r]
    BY <2>1, <2>3, <2>5 DEF MoneyInv, TypesOK, Processes
  <2>10. order'[o] = d /\ payout'[o] = p
    BY <2>9 DEF MoneyInv, TypesOK
  <2>11. Lasting(o)
    BY <2>4, <2>6, <2>10, CourseStays DEF Lasting
  <2>12. CourseKept(o) /\ DocOK(d, p, e, r, expired'[o], overtaken'[o]) /\ UNCHANGED Others
    BY <2>8, CourseStays
  <2> QED BY <2>2, <2>4, <2>9, <2>11, <2>12, Writes
<1> QED BY <1>1, <1>2

\* The document alone is written: its seller's payout is no longer held, or cancelled.
LEMMA SellerStatusKeeps ==
    ASSUME MoneyInv, NEW o \in Orders, NEW status \in SellerPayout,
           order' = [order EXCEPT ![o].seller = status],
           UNCHANGED <<Course, payout, earned, refunded, Others>>, RestTyped',
           thread' \in [Threads -> ThreadState],
           \A t \in Threads : thread'[t] = thread[t] \/ Holds(thread[t])'
    PROVE  MoneyInv'
<1>1. PICK d : d = [order[o] EXCEPT !.seller = status]
  OBVIOUS
<1>2. d \in OrderDoc /\ d.ret = order[o].ret
  BY <1>1, DocKnown DEF OrderDoc
<1>3. DocOK(d, payout[o], earned[o], refunded[o], expired[o], overtaken[o])
  BY <1>1, DocKnown DEF DocOK, OrderDoc
<1>4. order' = [order EXCEPT ![o] = d]
  BY <1>1
<1> QED BY <1>2, <1>3, <1>4, WritesDoc

LEMMA BatchOneStep ==
    ASSUME MoneyInv, NEW t \in Threads, NEW x \in thread[t].rest, BatchOne(t, x)
    PROVE  MoneyInv'
<1>1. /\ thread[t] \in ThreadState /\ Holds(thread[t]) /\ thread[t].pc = "batch"
  BY DEF MoneyInv, TypesOK, ThreadsHold, BatchOne, At
<1>2. PICK o \in Orders, ty \in PayoutType : x = <<o, ty>>
  BY <1>1 DEF ThreadState
<1>3. bulk /\ Process(o, ty)
  BY <1>1, <1>2 DEF Holds, AfterPassed, BatchOne
<1>4. UNCHANGED <<Course, earned, refunded, recovered, commission, Lines, Others, faults>>
  BY DEF BatchOne, Returned, Settings, Others
<1>5. PICK th \in ThreadState : thread' = [thread EXCEPT ![t] = th] /\ Holds(th)
  BY <1>1, RemainsHeld DEF BatchOne
<1>6. Holds(th)' \/ th.pc \notin {"idle", "batch"}
  BY <1>3, <1>4 DEF Holds, AfterPassed, Others
<1>7. th.pc \in {"idle", "batch"}
  <2>1. thread'[t] = th
    BY <1>5 DEF MoneyInv, TypesOK
  <2>2. thread'[t] = Idle \/ thread'[t] = [thread[t] EXCEPT !.rest = @ \ {x}]
    BY DEF BatchOne, Remaining, MoneyInv, TypesOK
  <2>3. [thread[t] EXCEPT !.rest = @ \ {x}].pc = "batch"
    BY <1>1 DEF ThreadState
  <2> QED BY <2>1, <2>2, <2>3, IdleTyped
<1>8. /\ thread' \in [Threads -> ThreadState]
      /\ \A q \in Threads : thread'[q] = thread[q] \/ Holds(thread[q])'
  BY <1>5, <1>6, <1>7, Replaced DEF MoneyInv
<1> QED BY <1>3, <1>4, <1>8, ProcessKeeps

\* A held payout is released by paying it, or by lifting the hold.
LEMMA ReleaseKeeps ==
    ASSUME MoneyInv, NEW o \in Orders,
           IF autoRelease THEN Process(o, "SELLER")
           ELSE Unhold(o) /\ UNCHANGED <<payout, wallet>>,
           Final(order[o].ret, expired[o], overtaken[o]),
           UNCHANGED <<Course, earned, refunded, recovered, commission, Lines, Others, faults>>,
           thread' \in [Threads -> ThreadState],
           \A t \in Threads : thread'[t] = thread[t] \/ Holds(thread[t])'
    PROVE  MoneyInv'
<1>1. "SELLER" \in PayoutType /\ "PENDING" \in SellerPayout
  BY DEF PayoutType, SellerPayout
<1>2. CASE autoRelease
  BY <1>1, <1>2, ProcessKeeps
<1>3. CASE ~autoRelease
  <2>1. RestTyped'
    BY <1>3 DEF MoneyInv, TypesOK, RestTyped, Lines
  <2> QED BY <1>1, <1>3, <2>1, SellerStatusKeeps DEF Unhold
<1> QED BY <1>2, <1>3

\* The facts a handler of the job relies on also hold after it has released one payout:
\* no release changes the status of a return.
LEMMA ReleaseLeaves ==
    ASSUME MoneyInv, NEW o \in Orders,
           IF autoRelease THEN Process(o, "SELLER")
           ELSE Unhold(o) /\ UNCHANGED <<payout, wallet>>,
           NEW q \in Orders
    PROVE  order'[q].ret = order[q].ret
<1>1. order[o] \in OrderDoc /\ order[q] \in OrderDoc
  BY DocKnown
<1>2. \/ order' = order
      \/ order' = [order EXCEPT ![o].seller = "PENDING"]
      \/ order' = [order EXCEPT ![o].seller = "COMPLETED", ![o].sellerQueued = TRUE]
  BY DEF Process, Processes, Unhold
<1>3. /\ [order[o] EXCEPT !.seller = "PENDING"].ret = order[o].ret
      /\ [order[o] EXCEPT !.seller = "COMPLETED", !.sellerQueued = TRUE].ret = order[o].ret
  BY <1>1 DEF OrderDoc
<1>4. order \in [Orders -> OrderDoc]
  BY DEF MoneyInv, TypesOK
<1>5. \/ order' = order
      \/ order' = [order EXCEPT ![o] = [order[o] EXCEPT !.seller = "PENDING"]]
      \/ order' = [order EXCEPT ![o] = [order[o] EXCEPT !.seller = "COMPLETED",
                                                       !.sellerQueued = TRUE]]
  BY <1>2, <1>4
<1> DEFINE Lifted == [order[o] EXCEPT !.seller = "PENDING"]
           Paid == [order[o] EXCEPT !.seller = "COMPLETED", !.sellerQueued = TRUE]
<1>6. /\ Lifted.ret = order[o].ret /\ Paid.ret = order[o].ret
      /\ \/ order' = order
         \/ order' = [order EXCEPT ![o] = Lifted]
         \/ order' = [order EXCEPT ![o] = Paid]
  BY <1>3, <1>5
<1> HIDE DEF Lifted, Paid
<1> QED BY <1>4, <1>6

LEMMA ReleaseDoStep ==
    ASSUME MoneyInv, NEW t \in Threads, ReleaseDo(t) PROVE MoneyInv'
<1>1. PICK o \in Orders : o = thread[t].o
  BY HasOrder DEF ReleaseDo, At, MoneyInv
<1>2. thread[t] \in ThreadState /\ Holds(thread[t]) /\ thread[t].pc = "release"
  BY DEF MoneyInv, TypesOK, ThreadsHold, ReleaseDo, At
<1>3. Final(order[o].ret, expired[o], overtaken[o])
  <2>1. <<o, "SELLER">> \in thread[t].rest
    BY <1>1, <1>2 DEF Holds, AfterPassed
  <2>2. Lapsed(o)
    BY <1>2, <2>1 DEF Holds, AfterPassed
  <2> QED BY <2>2 DEF Final, Lapsed
<1>4. /\ UNCHANGED <<Course, earned, refunded, recovered, commission, Lines, Others, faults>>
      /\ IF autoRelease THEN Process(o, "SELLER")
         ELSE Unhold(o) /\ UNCHANGED <<payout, wallet>>
  BY <1>1 DEF ReleaseDo, Returned, Settings, Others
<1> DEFINE rest == thread[t].rest \ {<<o, "SELLER">>}
<1>5. rest \in SUBSET (Orders \X PayoutType)
  BY <1>2 DEF ThreadState
<1>6. \A x \in rest : x[1] \in Orders /\ x[2] = "SELLER" /\ Lapsed(x[1])
  BY <1>2, <1>5 DEF Holds, AfterPassed
<1>7. thread' = [thread EXCEPT ![t] = Idle]
      \/ thread' = [thread EXCEPT ![t] = [Idle EXCEPT !.pc = "holds", !.rest = rest]]
  BY <1>1 DEF ReleaseDo
<1> HIDE DEF rest
<1>8. CASE thread' = [thread EXCEPT ![t] = Idle]
  BY <1>3, <1>4, <1>8, ReleaseKeeps, Finished DEF Finish, MoneyInv
<1>9. CASE thread' = [thread EXCEPT ![t] = [Idle EXCEPT !.pc = "holds", !.rest = rest]]
  <2>1. PICK th : th = [Idle EXCEPT !.pc = "holds", !.rest = rest]
    OBVIOUS
  <2>2. "holds" \in PC
    BY DEF PC
  <2>3. th \in ThreadState /\ th.pc = "holds" /\ th.rest = rest
    BY <1>5, <2>1, <2>2, IdleTyped DEF ThreadState
  <2>4. \A x \in rest : Lapsed(x[1])'
    <3> SUFFICES ASSUME NEW x \in rest PROVE Lapsed(x[1])'
      OBVIOUS
    <3>1. order'[x[1]].ret = order[x[1]].ret
      BY <1>4, <1>6, ReleaseLeaves
    <3> QED BY <1>4, <1>6, <3>1, CourseStays DEF Lapsed
  <2>5. Holds(th)'
    BY <1>6, <2>3, <2>4 DEF Holds, AfterPassed
  <2>6. thread' = [thread EXCEPT ![t] = th]
    BY <1>9, <2>1
  <2>7. /\ thread' \in [Threads -> ThreadState]
        /\ \A q \in Threads : thread'[q] = thread[q] \/ Holds(thread[q])'
    BY <2>3, <2>5, <2>6, Replaced DEF MoneyInv
  <2> QED BY <1>3, <1>4, <2>7, ReleaseKeeps
<1> QED BY <1>7, <1>8, <1>9

LEMMA QcReleaseStep ==
    ASSUME MoneyInv, NEW t \in Threads, QcRelease(t) PROVE MoneyInv'
<1>1. PICK o \in Orders : o = thread[t].o
  BY HasOrder DEF QcRelease, At, MoneyInv
<1>2. Holds(thread[t]) /\ thread[t].pc = "qcRelease"
  BY DEF MoneyInv, ThreadsHold, QcRelease, At
<1>3. Final(order[o].ret, expired[o], overtaken[o])
  BY <1>1, <1>2 DEF Holds, AfterPassed, Final
<1>4. /\ UNCHANGED <<Course, earned, refunded, recovered, commission, Lines, Others, faults>>
      /\ IF autoRelease THEN Process(o, "SELLER")
         ELSE Unhold(o) /\ UNCHANGED <<payout, wallet>>
      /\ Finish(t)
  BY <1>1 DEF QcRelease, Returned, Settings, Others
<1>5. /\ thread' \in [Threads -> ThreadState]
      /\ \A q \in Threads : thread'[q] = thread[q] \/ Holds(thread[q])'
  BY <1>4, Finished DEF MoneyInv
<1> QED BY <1>3, <1>4, <1>5, ReleaseKeeps
-----------------------------------------------------------------------------
(* Returns.                                                                *)

\* What a handler of a return may turn its status into, if it is not too late.
MovesOn(o, ret) ==
    \/ order[o].ret = "none" /\ ~expired[o] /\ ret = "open"
    \/ order[o].ret = "open" /\ ret \in {"rejected", "carried"}
    \/ order[o].ret = "carried" /\ ret \in {"qc_failed", "qc_passed"}
    \/ order[o].ret \in Passed /\ ret = "refund_completed"

\* The status of a return moves on, in time or too late.
LEMMA ReturnKeeps ==
    ASSUME MoneyInv, NEW o \in Orders, NEW ret \in ReturnStatus, NEW late \in BOOLEAN,
           order' = [order EXCEPT ![o].ret = ret],
           expired' = expired, overtaken' = [overtaken EXCEPT ![o] = late],
           overtaken[o] => late, MovesOn(o, ret) \/ late,
           UNCHANGED <<payout, earned, refunded, Others>>, RestTyped',
           thread' \in [Threads -> ThreadState],
           \A t \in Threads : thread'[t] = thread[t] \/ Holds(thread[t])'
    PROVE  MoneyInv'
<1>1. PICK d : d = [order[o] EXCEPT !.ret = ret]
  OBVIOUS
<1>2. /\ d \in OrderDoc /\ d.ret = ret /\ d.settled = order[o].settled
      /\ d.marked = order[o].marked /\ d.collected = order[o].collected
      /\ d.remitted = order[o].remitted
      /\ d.sellerQueued = order[o].sellerQueued /\ d.riderQueued = order[o].riderQueued
  BY <1>1, DocKnown DEF OrderDoc
<1>3. ~bulk /\ payout[o]["SELLER"] = "COMPLETED" => late
  BY DocKnown DEF DocOK, Final, Passed, MovesOn
<1>4. refunded[o] > 0 => ret \in Passed \/ late
  BY DocKnown DEF DocOK, Passed, MovesOn
<1>5. PICK p \in [PayoutType -> PayoutStatus], e \in Nat, r \in Nat, y \in BOOLEAN :
         p = payout[o] /\ e = earned[o] /\ r = refunded[o] /\ y = expired[o]
  BY DocKnown
<1>6. DocOK(d, p, e, r, y, late)
  BY <1>2, <1>3, <1>4, <1>5, DocKnown DEF DocOK, Final
<1>7. /\ order' = [order EXCEPT ![o] = d] /\ payout' = [payout EXCEPT ![o] = p]
      /\ earned' = [earned EXCEPT ![o] = e] /\ refunded' = [refunded EXCEPT ![o] = r]
  BY <1>1, <1>5 DEF MoneyInv, TypesOK
<1>8. CourseKept(o) /\ expired'[o] = y /\ overtaken'[o] = late
  BY <1>5 DEF MoneyInv, TypesOK, CourseKept
<1>9. order'[o] = d
  BY <1>7 DEF MoneyInv, TypesOK
<1>10. Lasting(o)
  BY <1>2, <1>8, <1>9 DEF Lasting, Passed, MovesOn
<1>11. DocOK(d, p, e, r, expired'[o], overtaken'[o]) /\ UNCHANGED Others
  BY <1>6, <1>8
<1> QED BY <1>2, <1>7, <1>8, <1>10, <1>11, Writes

\* A handler of a return starts with a look at the order.
LEMMA DecideStep ==
    ASSUME MoneyInv, NEW t \in Threads, NEW o \in Orders,
           NEW pc \in {"request", "reject", "fail", "pass"}, Decide(t, o, pc)
    PROVE  MoneyInv'
<1>1. RestTyped' /\ UNCHANGED <<order, Course, payout, earned, refunded, Others>>
  BY DEF Decide, MoneyInv, TypesOK, RestTyped, Lines, Returned, Money, Settings, Others
<1>2. pc \in PC
  BY DEF PC
<1>3. PICK th : th = IF pc = "pass" THEN [Idle EXCEPT !.pc = pc, !.o = o, !.snap = order[o]]
                     ELSE [Idle EXCEPT !.pc = pc, !.o = o]
  OBVIOUS
<1>4. th \in ThreadState /\ th.pc = pc
  BY <1>2, <1>3, IdleTyped, DocKnown DEF ThreadState
<1>5. Holds(th)
  BY <1>4, QuietHolds
<1>6. thread' = [thread EXCEPT ![t] = th]
  BY <1>3 DEF Decide, Start
<1> QED BY <1>1, <1>4, <1>5, <1>6, Moves

\* What it saves in the end.
LEMMA SavesKeeps ==
    ASSUME MoneyInv, NEW t \in Threads, NEW o \in Orders, o = thread[t].o,
           NEW ret \in ReturnStatus, Saves(t, ret),
           Allows(o, thread[t].pc) => MovesOn(o, ret),
           thread' \in [Threads -> ThreadState],
           \A q \in Threads : thread'[q] = thread[q] \/ Holds(thread[q])'
    PROVE  MoneyInv'
<1>1. PICK late \in BOOLEAN : late = (overtaken[o] \/ ~Allows(o, thread[t].pc))
  OBVIOUS
<1>2. overtaken' = [overtaken EXCEPT ![o] = late] /\ (overtaken[o] => late)
  BY <1>1 DEF Saves
<1>3. MovesOn(o, ret) \/ late
  BY <1>1
<1>4. /\ RestTyped' /\ UNCHANGED <<payout, earned, refunded, Others>> /\ expired' = expired
  BY DEF Saves, MoneyInv, TypesOK, RestTyped, Lines, Returned, Money, Settings, Others
<1>5. order' = [order EXCEPT ![o].ret = ret]
  BY DEF Saves
<1> QED BY <1>2, <1>3, <1>4, <1>5, ReturnKeeps

LEMMA SaveStep ==
    ASSUME MoneyInv, NEW t \in Threads, SaveRequest(t) \/ SaveRejection(t)
    PROVE  MoneyInv'
<1>1. PICK o \in Orders : o = thread[t].o
  BY HasOrder DEF MoneyInv, SaveRequest, SaveRejection, At
<1>2. /\ thread' \in [Threads -> ThreadState]
      /\ \A q \in Threads : thread'[q] = thread[q] \/ Holds(thread[q])'
  BY Finished DEF MoneyInv, SaveRequest, SaveRejection
<1>3. CASE SaveRequest(t)
  <2>1. thread[t].pc = "request" /\ Saves(t, "open") /\ "open" \in ReturnStatus
    BY <1>3 DEF SaveRequest, At, ReturnStatus
  <2>2. Allows(o, thread[t].pc) => MovesOn(o, "open")
    BY <2>1 DEF Allows, MovesOn
  <2> QED BY <1>1, <1>2, <2>1, <2>2, SavesKeeps
<1>4. CASE SaveRejection(t)
  <2>1. thread[t].pc = "reject" /\ Saves(t, "rejected") /\ "rejected" \in ReturnStatus
    BY <1>4 DEF SaveRejection, At, ReturnStatus
  <2>2. Allows(o, thread[t].pc) => MovesOn(o, "rejected")
    BY <2>1 DEF Allows, MovesOn
  <2> QED BY <1>1, <1>2, <2>1, <2>2, SavesKeeps
<1> QED BY <1>3, <1>4

LEMMA SaveVerdictStep ==
    ASSUME MoneyInv, NEW t \in Threads, SaveFailed(t) \/ SavePassed(t)
    PROVE  MoneyInv'
<1>1. PICK o \in Orders : o = thread[t].o
  BY HasOrder DEF MoneyInv, SaveFailed, SavePassed, At
<1>2. thread[t] \in ThreadState
  BY DEF MoneyInv, TypesOK
<1>3. ASSUME NEW ret, order' = [order EXCEPT ![o].ret = ret]
      PROVE  order'[o].ret = ret
  BY <1>3, DocKnown DEF MoneyInv, TypesOK, OrderDoc
<1>4. CASE SaveFailed(t)
  <2>1. thread[t].pc = "fail" /\ Saves(t, "qc_failed") /\ "qc_failed" \in ReturnStatus
    BY <1>4 DEF SaveFailed, At, ReturnStatus
  <2>2. Allows(o, thread[t].pc) => MovesOn(o, "qc_failed")
    BY <2>1 DEF Allows, MovesOn
  <2>3. PICK th : th = [Idle EXCEPT !.pc = "qcRelease", !.o = o]
    OBVIOUS
  <2>4. "qcRelease" \in PC
    BY DEF PC
  <2>5. th \in ThreadState /\ th.pc = "qcRelease" /\ th.o = o
    BY <2>3, <2>4, OfOrder
  <2>6. order'[o].ret = "qc_failed"
    BY <1>1, <1>3, <2>1 DEF Saves
  <2>7. thread' = [thread EXCEPT ![t] = th] /\ Holds(th)'
    BY <1>1, <1>4, <2>3, <2>5, <2>6 DEF SaveFailed, GotoLast, Holds, AfterPassed
  <2>8. /\ thread' \in [Threads -> ThreadState]
        /\ \A q \in Threads : thread'[q] = thread[q] \/ Holds(thread[q])'
    BY <2>5, <2>7, Replaced DEF MoneyInv
  <2> QED BY <1>1, <2>1, <2>2, <2>8, SavesKeeps
<1>5. CASE SavePassed(t)
  <2>1. thread[t].pc = "pass" /\ Saves(t, "qc_passed") /\ "qc_passed" \in ReturnStatus
    BY <1>5 DEF SavePassed, At, ReturnStatus
  <2>2. Allows(o, thread[t].pc) => MovesOn(o, "qc_passed")
    BY <2>1 DEF Allows, MovesOn
  <2>3. PICK th : th = [thread[t] EXCEPT !.pc = "refund"]
    OBVIOUS
  <2>4. "refund" \in PC
    BY DEF PC
  <2>5. th \in ThreadState /\ th.pc = "refund" /\ th.o = o
    BY <1>1, <1>2, <2>3, <2>4, GoesOn
  <2>6. order'[o].ret = "qc_passed"
    BY <1>1, <1>3, <2>1 DEF Saves
  <2>7. thread' = [thread EXCEPT ![t] = th] /\ Holds(th)'
    <3>1. thread' = [thread EXCEPT ![t] = th]
      BY <1>5, <2>3 DEF SavePassed, Goto, MoneyInv, TypesOK
    <3>2. order'[th.o].ret = "qc_passed"
      BY <2>5, <2>6
    <3>3. Accepted(th.o)'
      BY <3>2 DEF Accepted, Passed
    <3> QED BY <3>1, <2>5, <3>3 DEF Holds
  <2>8. /\ thread' \in [Threads -> ThreadState]
        /\ \A q \in Threads : thread'[q] = thread[q] \/ Holds(thread[q])'
    BY <2>5, <2>7, Replaced DEF MoneyInv
  <2> QED BY <1>1, <2>1, <2>2, <2>8, SavesKeeps
<1> QED BY <1>4, <1>5

LEMMA PickUpStep ==
    ASSUME MoneyInv, NEW t \in Threads, NEW o \in Orders, PickUp(t, o) PROVE MoneyInv'
<1>1. /\ RestTyped' /\ UNCHANGED <<payout, earned, refunded, Others>>
      /\ expired' = expired /\ overtaken' = overtaken
  BY DEF PickUp, Course, MoneyInv, TypesOK, RestTyped, Lines, Returned, Money, Settings, Others
<1>2. PICK late \in BOOLEAN : late = overtaken[o]
  BY DocKnown
<1>3. overtaken' = [overtaken EXCEPT ![o] = late]
  BY <1>1, <1>2 DEF MoneyInv, TypesOK
<1>4. MovesOn(o, "carried") /\ "carried" \in ReturnStatus
  BY DEF PickUp, MovesOn, ReturnStatus
<1>5. PICK th : th = [Idle EXCEPT !.pc = "earn", !.o = o]
  OBVIOUS
<1>6. "earn" \in PC
  BY DEF PC
<1>7. th \in ThreadState /\ th.pc = "earn"
  BY <1>5, <1>6, OfOrder
<1>8. thread' = [thread EXCEPT ![t] = th] /\ Holds(th)'
  BY <1>5, <1>7 DEF PickUp, Start, Holds, AfterPassed
<1>9. /\ thread' \in [Threads -> ThreadState]
      /\ \A q \in Threads : thread'[q] = thread[q] \/ Holds(thread[q])'
  BY <1>7, <1>8, Replaced DEF MoneyInv
<1>10. order' = [order EXCEPT ![o].ret = "carried"]
  BY DEF PickUp
<1> QED BY <1>1, <1>2, <1>3, <1>4, <1>9, <1>10, ReturnKeeps

\* A handler that refunds o relies on the return having been accepted.
LEMMA Refunds ==
    ASSUME MoneyInv, NEW t \in Threads,
           thread[t].pc \in AfterPassed
    PROVE  /\ thread[t].o \in Orders /\ thread[t] \in ThreadState
           /\ Accepted(thread[t].o)
           /\ thread[t].pc = "debit" => thread[t].sum >= Refund
<1>1. thread[t].o \in Orders /\ thread[t] \in ThreadState
  BY HasOrder DEF MoneyInv, AfterPassed
<1>2. Holds(thread[t])
  BY DEF MoneyInv, ThreadsHold
<1> QED BY <1>1, <1>2 DEF Holds, AfterPassed, Accepted

\* It goes on to one of its last steps.
LEMMA GoesToLast ==
    ASSUME MoneyInv, NEW t \in Threads, NEW o \in Orders, NEW pc \in {"unhold", "commission", "close"},
           thread' = [thread EXCEPT ![t] = [Idle EXCEPT !.pc = pc, !.o = o]],
           Accepted(o)'
    PROVE  /\ thread' \in [Threads -> ThreadState]
           /\ \A q \in Threads : thread'[q] = thread[q] \/ Holds(thread[q])'
<1>1. PICK th : th = [Idle EXCEPT !.pc = pc, !.o = o]
  OBVIOUS
<1>2. pc \in PC
  BY DEF PC
<1>3. th \in ThreadState /\ th.pc = pc /\ th.o = o
  BY <1>1, <1>2, OfOrder
<1>4. thread' = [thread EXCEPT ![t] = th] /\ Holds(th)'
  BY <1>1, <1>3 DEF Holds, AfterPassed
<1> QED BY <1>3, <1>4, Replaced DEF MoneyInv

\* Steps that leave the documents of all orders alone.
LEMMA DocsStay ==
    ASSUME MoneyInv, UNCHANGED <<order, Course, payout, earned, refunded, Others>>, RestTyped',
           NEW o \in Orders,
           thread' \in [Threads -> ThreadState],
           \A t \in Threads : thread'[t] = thread[t] \/ Holds(thread[t])'
    PROVE  MoneyInv'
<1>1. PICK d \in OrderDoc : d = order[o]
  BY DocKnown
<1>2. DocOK(d, payout[o], earned[o], refunded[o], expired[o], overtaken[o])
  BY <1>1, DocKnown
<1>3. order' = [order EXCEPT ![o] = d]
  BY <1>1 DEF MoneyInv, TypesOK
<1> QED BY <1>1, <1>2, <1>3, WritesDoc

LEMMA RefundCustomerStep ==
    ASSUME MoneyInv, NEW t \in Threads, RefundCustomer(t) PROVE MoneyInv'
<1>1. /\ thread[t].pc = "refund" /\ thread[t].pc \in AfterPassed /\ RestTyped'
      /\ UNCHANGED <<order, Course, payout, earned, Others>>
  BY DEF RefundCustomer, At, MoneyInv, TypesOK, RestTyped, Lines, Settings, Others, AfterPassed
<1>2. PICK o \in Orders : o = thread[t].o
  BY <1>1, Refunds
<1>3. Accepted(o) /\ thread[t] \in ThreadState
  BY <1>1, <1>2, Refunds
<1>4. PICK d \in OrderDoc, p \in [PayoutType -> PayoutStatus], e \in Nat, r \in Nat :
           d = order[o] /\ p = payout[o] /\ e = earned[o] /\ r = refunded[o] + 1
  <2>1. refunded[o] + 1 \in Nat
    BY DocKnown
  <2> QED BY <2>1, DocKnown
<1>5. DocOK(d, p, e, r, expired[o], overtaken[o])
  BY <1>3, <1>4, DocKnown DEF DocOK, Accepted
<1>6. /\ order' = [order EXCEPT ![o] = d] /\ payout' = [payout EXCEPT ![o] = p]
      /\ earned' = [earned EXCEPT ![o] = e] /\ refunded' = [refunded EXCEPT ![o] = r]
  BY <1>1, <1>2, <1>4 DEF MoneyInv, TypesOK, RefundCustomer
<1>7. Lasting(o)
  BY <1>1, CourseStays DEF Lasting
<1>8. CourseKept(o) /\ DocOK(d, p, e, r, expired'[o], overtaken'[o])
  BY <1>1, <1>5, CourseStays
<1>9. PICK th : th = [thread[t] EXCEPT !.pc = "recover"]
  OBVIOUS
<1>10. "recover" \in PC
  BY DEF PC
<1>11. th \in ThreadState /\ th.pc = "recover" /\ th.o = o
  BY <1>2, <1>3, <1>9, <1>10, GoesOn
<1>12. Accepted(o)'
  BY <1>1, <1>3, CourseStays DEF Accepted
<1>14. thread' = [thread EXCEPT ![t] = th] /\ Holds(th)'
  BY <1>9, <1>11, <1>12 DEF RefundCustomer, Goto, Holds, AfterPassed
<1>13. /\ thread' \in [Threads -> ThreadState]
       /\ \A q \in Threads : thread'[q] = thread[q] \/ Holds(thread[q])'
  BY <1>11, <1>14, Replaced DEF MoneyInv
<1> QED BY <1>1, <1>4, <1>6, <1>7, <1>8, <1>13, Writes

LEMMA RecoverStep ==
    ASSUME MoneyInv, NEW t \in Threads, Recover(t) PROVE MoneyInv'
<1>1. /\ thread[t].pc \in AfterPassed /\ UNCHANGED <<order, Course, earned, refunded, Others>>
      /\ UNCHANGED <<recovered, commission, Lines>>
  BY DEF Recover, At, Returned, Settings, Others, AfterPassed
<1>2. PICK o \in Orders : o = thread[t].o
  BY <1>1, Refunds
<1>3. Accepted(o)' /\ faults' \in 0 .. MaxFaults
  <2>1. Accepted(o)'
    BY <1>1, <1>2, Refunds, CourseStays DEF Accepted
  <2> QED BY <2>1, FaultsAssumption DEF Recover, MoneyInv, TypesOK
<1>4. CASE UNCHANGED <<payout, wallet>>
           /\ thread' = [thread EXCEPT ![t] = [Idle EXCEPT !.pc = "commission", !.o = o]]
  <2>1. RestTyped'
    BY <1>1, <1>3, <1>4 DEF MoneyInv, TypesOK, RestTyped, Lines
  <2>2. /\ thread' \in [Threads -> ThreadState]
        /\ \A q \in Threads : thread'[q] = thread[q] \/ Holds(thread[q])'
    BY <1>3, <1>4, GoesToLast
  <2> QED BY <1>1, <1>4, <2>1, <2>2, DocsStay
<1>5. CASE /\ UNCHANGED <<payout, wallet>> /\ ~(wallet.sellerAvailable < Refund)
           /\ thread' = [thread EXCEPT ![t] = [Idle EXCEPT !.pc = "debit", !.o = o,
                                                           !.sum = wallet.sellerAvailable]]
  <2>1. RestTyped'
    BY <1>1, <1>3, <1>5 DEF MoneyInv, TypesOK, RestTyped, Lines
  <2>2. wallet.sellerAvailable \in Nat /\ wallet.sellerAvailable >= Refund
    BY <1>5, AmountsAssumption DEF MoneyInv, TypesOK, WalletInt
  <2>3. PICK th : th = [Idle EXCEPT !.pc = "debit", !.o = o, !.sum = wallet.sellerAvailable]
    OBVIOUS
  <2>4. "debit" \in PC
    BY DEF PC
  <2>5. th \in ThreadState /\ th.pc = "debit" /\ th.o = o /\ th.sum = wallet.sellerAvailable
    BY <2>2, <2>3, <2>4, IdleTyped DEF ThreadState
  <2>6. thread' = [thread EXCEPT ![t] = th] /\ Holds(th)'
    BY <1>3, <1>5, <2>2, <2>3, <2>5 DEF Holds, AfterPassed
  <2>7. /\ thread' \in [Threads -> ThreadState]
        /\ \A q \in Threads : thread'[q] = thread[q] \/ Holds(thread[q])'
    BY <2>5, <2>6, Replaced DEF MoneyInv
  <2> QED BY <1>1, <1>5, <2>1, <2>7, DocsStay
<1>6. CASE /\ payout[o]["SELLER"] = "PENDING"
           /\ payout' = [payout EXCEPT ![o]["SELLER"] = "CANCELLED"]
           /\ wallet' = [wallet EXCEPT !.sellerPending = @ - SellerShare]
           /\ thread' = [thread EXCEPT ![t] = [Idle EXCEPT !.pc = "unhold", !.o = o]]
  <2>1. RestTyped'
    <3>1. wallet.sellerPending - SellerShare \in Int
      BY AmountsAssumption DEF MoneyInv, TypesOK, WalletInt
    <3>2. wallet' \in WalletInt
      BY <1>6, <3>1 DEF MoneyInv, TypesOK, WalletInt
    <3> QED BY <1>1, <1>3, <3>2 DEF MoneyInv, TypesOK, RestTyped, Lines
  <2>2. /\ thread' \in [Threads -> ThreadState]
        /\ \A q \in Threads : thread'[q] = thread[q] \/ Holds(thread[q])'
    BY <1>3, <1>6, GoesToLast
  <2>3. "SELLER" \in PayoutType /\ "DELIVERY_PARTNER" \in PayoutType
    BY DEF PayoutType
  <2>4. PICK d \in OrderDoc, p \in [PayoutType -> PayoutStatus], e \in Nat, r \in Nat :
             d = order[o] /\ p = [payout[o] EXCEPT !["SELLER"] = "CANCELLED"]
             /\ e = earned[o] /\ r = refunded[o]
    <3>1. [payout[o] EXCEPT !["SELLER"] = "CANCELLED"] \in [PayoutType -> PayoutStatus]
      BY DocKnown DEF PayoutStatus
    <3> QED BY <3>1, DocKnown
  <2>5. \A u \in PayoutType : p[u] = IF u = "SELLER" THEN "CANCELLED" ELSE payout[o][u]
    BY <2>3, <2>4, DocKnown
  <2>6. DocOK(d, p, e, r, expired[o], overtaken[o])
    BY <2>3, <2>4, <2>5, DocKnown DEF DocOK
  <2>7. /\ order' = [order EXCEPT ![o] = d] /\ payout' = [payout EXCEPT ![o] = p]
        /\ earned' = [earned EXCEPT ![o] = e] /\ refunded' = [refunded EXCEPT ![o] = r]
    BY <1>1, <1>6, <2>4 DEF MoneyInv, TypesOK
  <2>8. payout'[o] = p
    BY <2>7 DEF MoneyInv, TypesOK
  <2>9. Lasting(o)
    BY <1>1, <2>5, <2>8, CourseStays DEF Lasting
  <2>10. CourseKept(o) /\ DocOK(d, p, e, r, expired'[o], overtaken'[o]) /\ UNCHANGED Others
    BY <1>1, <2>6, CourseStays
  <2> QED BY <2>1, <2>2, <2>7, <2>9, <2>10, Writes
<1> QED BY <1>2, <1>4, <1>5, <1>6 DEF Recover, GotoLast

LEMMA DebitStep ==
    ASSUME MoneyInv, NEW t \in Threads, Debit(t) PROVE MoneyInv'
<1>1. /\ thread[t].pc = "debit" /\ thread[t].pc \in AfterPassed
      /\ UNCHANGED <<order, Course, payout, earned, refunded, Others>>
  BY DEF Debit, At, Settings, Others, AfterPassed
<1>2. PICK o \in Orders : o = thread[t].o
  BY <1>1, Refunds
<1>3. thread[t].sum >= Refund /\ thread[t].sum \in Nat
  BY <1>1, <1>2, Refunds DEF ThreadState
<1>4. thread[t].sum - Refund \in Nat /\ Refund \in Nat
  BY <1>3, AmountsAssumption
<1>5. RestTyped'
  <2>1. wallet' = [wallet EXCEPT !.sellerAvailable = thread[t].sum - Refund]
    BY DEF Debit
  <2>2. wallet' \in WalletInt
    BY <1>4, <2>1 DEF MoneyInv, TypesOK, WalletInt
  <2>3. recovered' \in [Orders -> Nat]
    BY <1>2, <1>4 DEF Debit, MoneyInv, TypesOK
  <2> QED BY <2>2, <2>3 DEF Debit, MoneyInv, TypesOK, RestTyped, Lines
<1>6. thread' = [thread EXCEPT ![t] = [Idle EXCEPT !.pc = "commission", !.o = o]]
  BY <1>2 DEF Debit, GotoLast
<1>7. Accepted(o)'
  BY <1>1, <1>2, Refunds, CourseStays DEF Accepted
<1>8. /\ thread' \in [Threads -> ThreadState]
      /\ \A q \in Threads : thread'[q] = thread[q] \/ Holds(thread[q])'
  BY <1>6, <1>7, GoesToLast
<1> QED BY <1>1, <1>5, <1>8, DocsStay

LEMMA MarkCancelledStep ==
    ASSUME MoneyInv, NEW t \in Threads, MarkCancelled(t) PROVE MoneyInv'
<1>1. /\ thread[t].pc \in AfterPassed /\ UNCHANGED <<Course, payout, earned, refunded, Others>>
      /\ RestTyped'
  BY DEF MarkCancelled, At, AfterPassed, MoneyInv, TypesOK, RestTyped, Lines, Returned, Money, Settings, Others
<1>2. PICK o \in Orders : o = thread[t].o
  BY <1>1, Refunds
<1>3. Accepted(o) /\ order[o] \in OrderDoc
  BY <1>1, <1>2, Refunds, DocKnown
<1>4. order' = [order EXCEPT ![o].seller = "CANCELLED"] /\ "CANCELLED" \in SellerPayout
  BY <1>2 DEF MarkCancelled, SellerPayout
<1>5. Accepted(o)'
  <2>1. order'[o].ret = order[o].ret
    BY <1>3, <1>4 DEF MoneyInv, TypesOK, OrderDoc
  <2> QED BY <1>1, <1>3, <2>1, CourseStays DEF Accepted
<1>6. thread' = [thread EXCEPT ![t] = [Idle EXCEPT !.pc = "commission", !.o = o]]
  BY <1>2 DEF MarkCancelled, GotoLast
<1>7. /\ thread' \in [Threads -> ThreadState]
      /\ \A q \in Threads : thread'[q] = thread[q] \/ Holds(thread[q])'
  BY <1>5, <1>6, GoesToLast
<1> QED BY <1>1, <1>4, <1>7, SellerStatusKeeps

\* The rider's commission: his balance is read,
LEMMA EarnReadStep ==
    ASSUME MoneyInv, NEW t \in Threads, EarnRead(t) PROVE MoneyInv'
<1>1. RestTyped' /\ UNCHANGED <<order, Course, payout, earned, refunded, Others>>
  BY DEF EarnRead, MoneyInv, TypesOK, RestTyped, Lines, Returned, Money, Settings, Others
<1>2. thread[t].pc = "earn" \/ thread[t].pc = "commission"
  BY DEF EarnRead, At
<1>3. thread[t].o \in Orders /\ thread[t] \in ThreadState /\ Holds(thread[t])
  BY <1>2, HasOrder DEF MoneyInv, ThreadsHold
<1>4. wallet.riderAvailable \in Nat
  BY DEF MoneyInv, TypesOK, WalletInt
<1> DEFINE pc == IF thread[t].pc = "earn" THEN "earned" ELSE "credit"
<1>5. pc \in PC /\ pc \in {"earned", "credit"}
  BY DEF PC
<1>6. thread' = [thread EXCEPT ![t] = [thread[t] EXCEPT !.pc = pc, !.sum = wallet.riderAvailable]]
  BY <1>3 DEF EarnRead, MoneyInv, TypesOK, ThreadState
<1>7. pc = "credit" => thread[t].pc = "commission"
  BY <1>2
<1> HIDE DEF pc
<1>8. PICK th : th = [thread[t] EXCEPT !.pc = pc, !.sum = wallet.riderAvailable]
  OBVIOUS
<1>9. th \in ThreadState /\ th.pc = pc /\ th.o = thread[t].o
  BY <1>3, <1>4, <1>5, <1>8 DEF ThreadState
<1>10. Holds(th)
  BY <1>3, <1>5, <1>7, <1>9 DEF Holds, AfterPassed
<1> QED BY <1>1, <1>6, <1>8, <1>9, <1>10, Moves

\* and written back.
LEMMA EarnStep ==
    ASSUME MoneyInv, NEW t \in Threads, Earn(t) PROVE MoneyInv'
<1>1. UNCHANGED <<order, Course, payout, earned, refunded, Others>>
  BY DEF Earn, Settings, Others
<1>2. thread[t].pc = "earned" \/ thread[t].pc = "credit"
  BY DEF Earn, At
<1>3. PICK o \in Orders : o = thread[t].o
  BY <1>2, HasOrder DEF MoneyInv
<1>4. thread[t].sum + Commission \in Nat
  BY AmountsAssumption DEF MoneyInv, TypesOK, ThreadState
<1>5. RestTyped'
  <2>1. wallet' \in WalletInt
    BY <1>4 DEF Earn, MoneyInv, TypesOK, WalletInt
  <2>2. commission[o] + Commission \in Nat
    BY AmountsAssumption DEF MoneyInv, TypesOK
  <2>3. commission' \in [Orders -> Nat]
    BY <1>3, <2>2 DEF Earn, MoneyInv, TypesOK
  <2> QED BY <2>1, <2>3 DEF Earn, MoneyInv, TypesOK, RestTyped, Lines
<1>6. CASE thread[t].pc = "earned"
  BY <1>1, <1>5, <1>6, FinishesQuietly DEF Earn, At
<1>7. CASE thread[t].pc = "credit"
  <2>1. thread' = [thread EXCEPT ![t] = [Idle EXCEPT !.pc = "close", !.o = o]]
    BY <1>3, <1>7 DEF Earn, At, GotoLast
  <2>2. Accepted(o)'
    BY <1>1, <1>3, <1>7, Refunds, CourseStays DEF Accepted, AfterPassed
  <2>3. /\ thread' \in [Threads -> ThreadState]
        /\ \A q \in Threads : thread'[q] = thread[q] \/ Holds(thread[q])'
    BY <2>1, <2>2, GoesToLast
  <2> QED BY <1>1, <1>5, <2>3, DocsStay
<1> QED BY <1>2, <1>6, <1>7

LEMMA EarnNothingStep ==
    ASSUME MoneyInv, NEW t \in Threads, EarnNothing(t) PROVE MoneyInv'
<1>1. /\ thread[t].pc \in AfterPassed /\ RestTyped'
      /\ UNCHANGED <<order, Course, payout, earned, refunded, Others>>
  BY DEF EarnNothing, At, AfterPassed, MoneyInv, TypesOK, RestTyped, Lines, Returned, Money, Settings, Others
<1>2. PICK o \in Orders : o = thread[t].o
  BY <1>1, Refunds
<1>3. thread' = [thread EXCEPT ![t] = [Idle EXCEPT !.pc = "close", !.o = o]]
  BY <1>2 DEF EarnNothing, GotoLast
<1>4. Accepted(o)'
  BY <1>1, <1>2, Refunds, CourseStays DEF Accepted
<1>5. /\ thread' \in [Threads -> ThreadState]
      /\ \A q \in Threads : thread'[q] = thread[q] \/ Holds(thread[q])'
  BY <1>3, <1>4, GoesToLast
<1> QED BY <1>1, <1>5, DocsStay

LEMMA CloseReturnStep ==
    ASSUME MoneyInv, NEW t \in Threads, CloseReturn(t) PROVE MoneyInv'
<1>1. /\ thread[t].pc \in AfterPassed /\ UNCHANGED <<payout, earned, refunded, Others>>
      /\ RestTyped' /\ expired' = expired /\ overtaken' = overtaken
  BY DEF CloseReturn, At, AfterPassed, Course, MoneyInv, TypesOK, RestTyped, Lines, Returned, Money, Settings, Others
<1>2. PICK o \in Orders : o = thread[t].o
  BY <1>1, Refunds
<1>3. PICK late \in BOOLEAN : late = overtaken[o]
  BY DocKnown
<1>4. overtaken' = [overtaken EXCEPT ![o] = late]
  BY <1>1, <1>3 DEF MoneyInv, TypesOK
<1>5. MovesOn(o, "refund_completed") \/ late
  BY <1>1, <1>2, <1>3, Refunds DEF Accepted, MovesOn
<1>6. order' = [order EXCEPT ![o].ret = "refund_completed"]
      /\ "refund_completed" \in ReturnStatus
  BY <1>2 DEF CloseReturn, ReturnStatus
<1>7. /\ thread' \in [Threads -> ThreadState]
      /\ \A q \in Threads : thread'[q] = thread[q] \/ Holds(thread[q])'
  BY Finished DEF CloseReturn, MoneyInv
<1> QED BY <1>1, <1>3, <1>4, <1>5, <1>6, <1>7, ReturnKeeps

LEMMA SettleCashStep ==
    ASSUME MoneyInv, NEW amount \in HandAmounts, SettleCash(amount) PROVE MoneyInv'
<1>1. amount \in Nat
  BY AmountsAssumption
<1>2. /\ UNCHANGED <<order, Course, payout, earned, refunded, Others>> /\ thread' = thread
  BY DEF SettleCash, Returned, Settings, Others
<1>3. RestTyped'
  BY <1>1 DEF SettleCash, MoneyInv, TypesOK, RestTyped, Returned
<1> QED BY <1>2, <1>3, UnmovedKeeps
-----------------------------------------------------------------------------
LEMMA MoneyInit == Init => MoneyInv
<1> SUFFICES ASSUME Init PROVE MoneyInv
  OBVIOUS
<1>1. \A m \in Modes : Placed(m) \in OrderDoc
  BY PlacedTyped
<1>2. order \in [Orders -> OrderDoc]
  BY <1>1 DEF Init
<1>3. payout \in [Orders -> [PayoutType -> PayoutStatus]] /\ wallet \in WalletInt
  BY DEF Init, PayoutStatus, WalletInt
<1>4. TypesOK
  BY <1>2, <1>3, IdleTyped, FaultsAssumption DEF Init, TypesOK
<1>5. ASSUME NEW o \in Orders
      PROVE  DocOK(order[o], payout[o], earned[o], refunded[o], expired[o], overtaken[o])
  <2>1. PICK m \in Modes : order[o] = Placed(m)
    BY DEF Init
  <2>2. \A ty \in PayoutType : payout[o][ty] = "none"
    BY DEF Init
  <2>3. "SELLER" \in PayoutType
    BY DEF PayoutType
  <2>4. earned[o] = 0 /\ refunded[o] = 0
    BY DEF Init
  <2> QED BY <2>1, <2>2, <2>3, <2>4 DEF DocOK, Placed
<1>6. ThreadsHold
  BY IdleTyped, QuietHolds DEF Init, ThreadsHold
<1> QED BY <1>4, <1>5, <1>6 DEF MoneyInv, DocsOK

LEMMA MoneyNext == MoneyInv /\ [Next]_vars => MoneyInv'
<1> SUFFICES ASSUME MoneyInv, [Next]_vars PROVE MoneyInv'
  OBVIOUS
<1>1. ASSUME NEW t \in Threads, Settling(t) PROVE MoneyInv'
  BY <1>1, SettleReadStep, QueueStep, SettleCommitStep, CodCollectStep DEF Settling
<1>2. ASSUME NEW t \in Threads, Submitting(t) PROVE MoneyInv'
  BY <1>2, SubmitOneStep, SubmitEndStep DEF Submitting
<1>3. ASSUME NEW t \in Threads, Paying(t) PROVE MoneyInv'
  BY <1>3, BatchOneStep, ReleaseFindStep, ReleaseDoStep DEF Paying
<1>4. ASSUME NEW t \in Threads, Refunding(t) PROVE MoneyInv'
  BY <1>4, QcReleaseStep, RefundCustomerStep, RecoverStep, DebitStep, MarkCancelledStep,
     EarnReadStep, EarnStep, EarnNothingStep, CloseReturnStep DEF Refunding
<1>5. ASSUME NEW t \in Requests, Arrives(t) PROVE MoneyInv'
  <2>1. t \in Threads
    BY DEF Threads
  <2>2. CASE \E o \in Orders : Deliver(t, o) \/ SettleAgain(t, o) \/ PickUp(t, o)
    BY <2>1, <2>2, DeliverStep, SettleAgainStep, PickUpStep
  <2>4. CASE \E o \in Orders : RequestReturn(t, o) \/ RejectReturn(t, o) \/ QcFail(t, o)
                              \/ QcPass(t, o)
    BY <2>1, <2>4, DecideStep DEF RequestReturn, RejectReturn, QcFail, QcPass
  <2>3. CASE \E amount \in 1 .. wallet.cashInHand : SubmitRead(t, amount)
    <3>1. wallet.cashInHand \in Int
      BY DEF MoneyInv, TypesOK, WalletInt
    <3>2. PICK amount \in 1 .. wallet.cashInHand : SubmitRead(t, amount)
      BY <2>3
    <3>3. amount \in Nat
      BY <3>1
    <3> QED BY <2>1, <3>2, <3>3, SubmitReadStep
  <2> QED BY <1>5, <2>2, <2>3, <2>4 DEF Arrives
<1>6. ASSUME NEW t \in Jobs, JobStarts(t) PROVE MoneyInv'
  BY <1>6, BatchReadStep, ReleaseReadStep DEF JobStarts, Threads
<1>7. ASSUME NEW o \in Orders, Elsewhere(o) PROVE MoneyInv'
  BY <1>7, CaptureStep, WindowClosesStep, MarkCollectedStep, ReconcileStep
     DEF Elsewhere
<1>8. CASE UNCHANGED vars
  <2>1. /\ RestTyped' /\ UNCHANGED <<order, Course, payout, earned, refunded, Others>>
        /\ thread' = thread
    BY <1>8 DEF vars, Money, Returned, Lines, MoneyInv, TypesOK, RestTyped, Others
  <2> QED BY <2>1, UnmovedKeeps
<1>9. ASSUME NEW t \in Threads, Returning(t) PROVE MoneyInv'
  BY <1>9, SaveStep, SaveVerdictStep DEF Returning
<1> QED BY <1>1, <1>2, <1>3, <1>4, <1>5, <1>6, <1>7, <1>8, <1>9, AbandonStep, SettleCashStep
        DEF Next, Continue

LEMMA MoneyAlways == Spec => []MoneyInv
BY MoneyInit, MoneyNext, PTL DEF Spec

\* However many handlers settle, pay and release at once: an order is settled once,
THEOREM OrdersSettleOnce == Spec => []SettledOnce
<1>1. MoneyInv => SettledOnce
  BY DEF MoneyInv, DocsOK, DocOK, SettledOnce
<1> QED BY <1>1, MoneyAlways, PTL

\* its cash is collected once,
THEOREM CashCollectedOnce == Spec => []CollectedOnce
<1>1. MoneyInv => CollectedOnce
  BY DEF MoneyInv, DocsOK, DocOK, CollectedOnce
<1> QED BY <1>1, MoneyAlways, PTL

\* its seller is not paid while a return is possible, or going on, or has been accepted,
\* unless a decision about it was overtaken,
THEOREM HoldsAreRespected == Spec => []HoldRespected
<1>1. MoneyInv => HoldRespected
  BY DEF MoneyInv, DocsOK, DocOK, HoldRespected, Final
<1> QED BY <1>1, MoneyAlways, PTL

\* nor, with the same exception, for goods that were refunded,
THEOREM NotRefundedAndPaid == Spec => []RefundedOrPaid
<1>1. MoneyInv => RefundedOrPaid
  BY DEF MoneyInv, DocsOK, DocOK, RefundedOrPaid, Final, Passed
<1> QED BY <1>1, MoneyAlways, PTL
-----------------------------------------------------------------------------
(* Sums.                                                                   *)

\* Among finite sets, some are minimal: the form in which induction is used here.
LEMMA MinimalSet ==
    ASSUME NEW S, IsFiniteSet(S), NEW F, F \subseteq SUBSET S, F # {}
    PROVE  \E v \in F : \A u \in F : u \subseteq v => u = v
<1>1. IsWellFoundedOn(StrictSubsetOrdering(S), SUBSET S)
  BY FS_StrictSubsetOrderingWellFounded, FS_FiniteSubsetsOfFinite
<1>2. \E v \in F : \A u \in F : ~(<<u, v>> \in StrictSubsetOrdering(S))
  BY <1>1, WFMin
<1> QED BY <1>2 DEF StrictSubsetOrdering

LEMMA LeastNumber ==
    ASSUME NEW N, N \subseteq Nat, N # {}
    PROVE  \E m \in N : \A n \in N : m <= n
<1> PICK k \in N : TRUE
  OBVIOUS
<1> DEFINE F == {0 .. m : m \in {n \in N : n <= k}}
<1>1. IsFiniteSet(0 .. k)
  BY FS_Interval
<1>2. F \subseteq SUBSET (0 .. k)
  OBVIOUS
<1>3. F # {}
  OBVIOUS
<1> HIDE DEF F
<1> DEFINE D == 0 .. k
<1> HIDE DEF D
<1>4. PICK v \in F : \A u \in F : u \subseteq v => u = v
  <2>1. IsFiniteSet(D) /\ F \subseteq SUBSET D
    BY <1>1, <1>2 DEF D
  <2> QED BY <1>3, <2>1, MinimalSet
<1>5. PICK m \in N : m <= k /\ v = 0 .. m
  BY DEF F
<1>6. ASSUME NEW n \in N, n < m PROVE FALSE
  <2>1. 0 .. n \in F
    BY <1>5, <1>6 DEF F
  <2>2. 0 .. n \subseteq 0 .. m
    BY <1>5, <1>6
  <2>3. 0 .. n = 0 .. m
    BY <1>4, <1>5, <2>1, <2>2
  <2>4. m \in 0 .. m /\ m \notin 0 .. n
    BY <1>5, <1>6
  <2> QED BY <2>3, <2>4
<1> QED BY <1>5, <1>6

Pick(s) == CHOOSE x \in s : TRUE

\* g is the recursion that SumFunctionOnSet goes through.
Sums(g, f, S) ==
    g = [s \in SUBSET S |-> IF s = {} THEN 0 ELSE f[Pick(s)] + g[s \ {Pick(s)}]]

LEMMA SumUnfolds ==
    ASSUME NEW S, NEW f
    PROVE  SumFunctionOnSet(f, S) = (CHOOSE g : Sums(g, f, S))[S]
  BY DEF SumFunctionOnSet, FoldFunctionOnSet, MapThenFoldSet, Sums, Pick

LEMMA PickIn == ASSUME NEW s, s # {} PROVE Pick(s) \in s
  BY DEF Pick

\* The recursion is well defined: it is, up to any size.
LEMMA SumsExist ==
    ASSUME NEW S, IsFiniteSet(S), NEW f
    PROVE  \E g : Sums(g, f, S)
<1> DEFINE Small(n) == {s \in SUBSET S : Cardinality(s) <= n}
           UpTo(g, n) == g = [s \in Small(n) |->
                                IF s = {} THEN 0 ELSE f[Pick(s)] + g[s \ {Pick(s)}]]
           Bad == {n \in Nat : ~\E g : UpTo(g, n)}
<1>1. \A s \in SUBSET S : IsFiniteSet(s) /\ Cardinality(s) \in Nat
  BY FS_Subset, FS_CardinalityType
<1>2. \A s \in SUBSET S : s # {} => Cardinality(s \ {Pick(s)}) = Cardinality(s) - 1
  BY <1>1, PickIn, FS_RemoveElement
<1>3. Bad = {}
  <2> SUFFICES ASSUME Bad # {} PROVE FALSE
    OBVIOUS
  <2>1. PICK m \in Bad : \A n \in Bad : m <= n
    BY LeastNumber
  <2>2. CASE m = 0
    <3>1. \A s \in Small(0) : s = {}
      <4> SUFFICES ASSUME NEW s \in SUBSET S, Cardinality(s) <= 0 PROVE s = {}
        OBVIOUS
      <4>1. IsFiniteSet(s) /\ Cardinality(s) \in Nat
        BY <1>1
      <4>2. Cardinality(s) = 0
        BY <4>1
      <4> QED BY <4>1, <4>2, FS_EmptySet
    <3>2. UpTo([s \in Small(0) |-> 0], 0)
      BY <3>1
    <3> QED BY <2>1, <2>2, <3>2
  <2>3. CASE m # 0
    <3>1. m \in Nat /\ m - 1 \in Nat /\ m - 1 \notin Bad
      <4>1. m \in Nat /\ \A n \in Nat : n \in Bad => m <= n
        <5> HIDE DEF UpTo
        <5> QED BY <2>1
      <4> HIDE DEF Bad
      <4> QED BY <2>3, <4>1
    <3>2. PICK g : UpTo(g, m - 1)
      BY <3>1
    <3> DEFINE h == [s \in Small(m) |-> IF s = {} THEN 0
                                        ELSE f[Pick(s)] + g[s \ {Pick(s)}]]
    <3>3. \A s \in Small(m - 1) : s \in Small(m) /\ h[s] = g[s]
      <4> SUFFICES ASSUME NEW s \in SUBSET S, Cardinality(s) <= m - 1
                   PROVE  Cardinality(s) <= m /\ h[s] = g[s]
        OBVIOUS
      <4>1. Cardinality(s) <= m
        BY <1>1, <3>1
      <4>2. h[s] = IF s = {} THEN 0 ELSE f[Pick(s)] + g[s \ {Pick(s)}]
        BY <4>1
      <4>3. g[s] = IF s = {} THEN 0 ELSE f[Pick(s)] + g[s \ {Pick(s)}]
        BY <3>2
      <4> QED BY <4>1, <4>2, <4>3
    <3>4. \A s \in Small(m) : s # {} => s \ {Pick(s)} \in Small(m - 1)
      BY <1>1, <1>2, <3>1
    <3>5. \A s \in Small(m) : s # {} => h[s \ {Pick(s)}] = g[s \ {Pick(s)}]
      BY <3>3, <3>4
    <3>6. UpTo(h, m)
      BY <3>5
    <3> QED BY <2>1, <3>6
  <2> QED BY <2>2, <2>3
<1>4. Cardinality(S) \in Nat
  BY FS_CardinalityType
<1>5. PICK g : UpTo(g, Cardinality(S))
  BY <1>3, <1>4
<1>6. Small(Cardinality(S)) = SUBSET S
  BY FS_Subset
<1> QED BY <1>5, <1>6 DEF Sums

\* And it depends on nothing but the numbers that are summed.
LEMMA SumsAgree ==
    ASSUME NEW S, NEW R, NEW f, NEW e, NEW g, NEW h, Sums(g, f, S), Sums(h, e, R),
           NEW T, IsFiniteSet(T), T \subseteq S, T \subseteq R, \A x \in T : f[x] = e[x]
    PROVE  g[T] = h[T]
<1> DEFINE F == {v \in SUBSET T : g[v] # h[v]}
<1> SUFFICES ASSUME F # {} PROVE FALSE
  OBVIOUS
<1>0. F \subseteq SUBSET T
  OBVIOUS
<1>1. PICK v \in F : \A u \in F : u \subseteq v => u = v
  <2> HIDE DEF F
  <2> QED BY <1>0, MinimalSet
<1>2. \A u \in SUBSET T :
         /\ g[u] = IF u = {} THEN 0 ELSE f[Pick(u)] + g[u \ {Pick(u)}]
         /\ h[u] = IF u = {} THEN 0 ELSE e[Pick(u)] + h[u \ {Pick(u)}]
  BY DEF Sums
<1>3. v # {}
  BY <1>1, <1>2
<1>4. Pick(v) \in v /\ f[Pick(v)] = e[Pick(v)]
  BY <1>1, <1>3, PickIn
<1>5. g[v \ {Pick(v)}] = h[v \ {Pick(v)}]
  BY <1>1, <1>4
<1> QED BY <1>1, <1>2, <1>3, <1>4, <1>5

LEMMA SumCong ==
    ASSUME NEW S, IsFiniteSet(S), NEW f, NEW e, \A x \in S : f[x] = e[x]
    PROVE  SumFunctionOnSet(f, S) = SumFunctionOnSet(e, S)
<1> DEFINE g == CHOOSE g : Sums(g, f, S)
           h == CHOOSE h : Sums(h, e, S)
<1>1. Sums(g, f, S) /\ Sums(h, e, S)
  BY SumsExist
<1>2. g[S] = h[S]
  BY <1>1, SumsAgree
<1> QED BY <1>2, SumUnfolds

LEMMA SumStep ==
    ASSUME NEW S, IsFiniteSet(S), NEW f
    PROVE  SumFunctionOnSet(f, S) =
               IF S = {} THEN 0
               ELSE f[Pick(S)] + SumFunctionOnSet(f, S \ {Pick(S)})
<1> DEFINE R == S \ {Pick(S)}
           g == CHOOSE g : Sums(g, f, S)
           h == CHOOSE h : Sums(h, f, R)
<1>0. IsFiniteSet(R)
  BY FS_Subset
<1>1. Sums(g, f, S) /\ Sums(h, f, R)
  BY <1>0, SumsExist
<1> HIDE DEF g, h
<1>2. g[R] = h[R]
  BY <1>0, <1>1, SumsAgree
<1>3. g[S] = IF S = {} THEN 0 ELSE f[Pick(S)] + g[R]
  BY <1>1 DEF Sums
<1>4. SumFunctionOnSet(f, S) = g[S] /\ SumFunctionOnSet(f, R) = h[R]
  BY SumUnfolds DEF g, h
<1> QED BY <1>2, <1>3, <1>4

LEMMA SumType ==
    ASSUME NEW S, IsFiniteSet(S), NEW f, \A x \in S : f[x] \in Int
    PROVE  SumFunctionOnSet(f, S) \in Int
<1> DEFINE F == {v \in SUBSET S : SumFunctionOnSet(f, v) \notin Int}
<1> SUFFICES ASSUME F # {} PROVE FALSE
  OBVIOUS
<1>0. F \subseteq SUBSET S
  OBVIOUS
<1>1. PICK v \in F : \A u \in F : u \subseteq v => u = v
  <2> HIDE DEF F
  <2> QED BY <1>0, MinimalSet
<1>2. IsFiniteSet(v)
  BY <1>1, FS_Subset
<1>5. SumFunctionOnSet(f, v) =
        IF v = {} THEN 0 ELSE f[Pick(v)] + SumFunctionOnSet(f, v \ {Pick(v)})
  BY <1>2, SumStep
<1>3. v # {}
  BY <1>1, <1>5
<1>4. Pick(v) \in v /\ SumFunctionOnSet(f, v \ {Pick(v)}) \in Int
  BY <1>1, <1>3, PickIn
<1> QED BY <1>1, <1>3, <1>4, <1>5

\* Any element may be taken out first.
LEMMA SumSplit ==
    ASSUME NEW S, IsFiniteSet(S), NEW f, \A x \in S : f[x] \in Int, NEW x \in S
    PROVE  SumFunctionOnSet(f, S) = f[x] + SumFunctionOnSet(f, S \ {x})
<1> DEFINE Total(v) == SumFunctionOnSet(f, v)
           F == {v \in SUBSET S : \E y \in v : Total(v) # f[y] + Total(v \ {y})}
<1>0. \A v \in SUBSET S : Total(v) \in Int
  BY FS_Subset, SumType
<1>1. \A v \in SUBSET S : v # {} =>
         Pick(v) \in v /\ Total(v) = f[Pick(v)] + Total(v \ {Pick(v)})
  BY FS_Subset, SumStep, PickIn
<1> SUFFICES ASSUME F # {} PROVE FALSE
  OBVIOUS
<1> HIDE DEF Total
<1>f. F \subseteq SUBSET S
  OBVIOUS
<1>2. PICK v \in F : \A u \in F : u \subseteq v => u = v
  <2> HIDE DEF F
  <2> QED BY <1>f, MinimalSet
<1>3. PICK y \in v : Total(v) # f[y] + Total(v \ {y})
  BY <1>2
<1> DEFINE z == Pick(v)
<1>4. z \in v /\ z # y /\ Total(v) = f[z] + Total(v \ {z})
  BY <1>1, <1>2, <1>3
<1>5. v \ {y} \notin F /\ v \ {z} \notin F
  BY <1>2, <1>3, <1>4
<1>6. Total(v \ {z}) = f[y] + Total((v \ {z}) \ {y})
  BY <1>2, <1>3, <1>4, <1>5
<1>7. Total(v \ {y}) = f[z] + Total((v \ {y}) \ {z})
  BY <1>2, <1>3, <1>4, <1>5
<1>8. (v \ {y}) \ {z} = (v \ {z}) \ {y}
  OBVIOUS
<1>9. /\ f[y] \in Int /\ f[z] \in Int
      /\ Total((v \ {z}) \ {y}) \in Int
  BY <1>0, <1>2, <1>3, <1>4
<1> QED BY <1>3, <1>4, <1>6, <1>7, <1>8, <1>9

LEMMA SumChanges ==
    ASSUME NEW S, IsFiniteSet(S), NEW f \in [S -> Int], NEW e \in [S -> Int],
           NEW x \in S, \A y \in S : y # x => e[y] = f[y]
    PROVE  SumFunctionOnSet(e, S) = SumFunctionOnSet(f, S) + (e[x] - f[x])
<1> DEFINE R == S \ {x}
<1>1. IsFiniteSet(R) /\ \A y \in R : e[y] = f[y] /\ f[y] \in Int
  BY FS_Subset
<1>2. SumFunctionOnSet(f, S) = f[x] + SumFunctionOnSet(f, R)
  BY SumSplit
<1>3. SumFunctionOnSet(e, S) = e[x] + SumFunctionOnSet(e, R)
  BY SumSplit
<1> HIDE DEF R
<1>4. SumFunctionOnSet(e, R) = SumFunctionOnSet(f, R)
  BY <1>1, SumCong
<1>5. SumFunctionOnSet(f, R) \in Int
  BY <1>1, SumType
<1>6. f[x] \in Int /\ e[x] \in Int
  OBVIOUS
<1> QED BY <1>2, <1>3, <1>4, <1>5, <1>6

LEMMA NothingAdds ==
    ASSUME NEW S, IsFiniteSet(S), NEW f, \A x \in S : f[x] = 0
    PROVE  SumFunctionOnSet(f, S) = 0
<1> DEFINE F == {v \in SUBSET S : SumFunctionOnSet(f, v) # 0}
<1> SUFFICES ASSUME F # {} PROVE FALSE
  OBVIOUS
<1>1. F \subseteq SUBSET S
  OBVIOUS
<1>2. PICK v \in F : \A u \in F : u \subseteq v => u = v
  <2> HIDE DEF F
  <2> QED BY <1>1, MinimalSet
<1>3. IsFiniteSet(v)
  BY <1>2, FS_Subset
<1>4. SumFunctionOnSet(f, v) =
        IF v = {} THEN 0 ELSE f[Pick(v)] + SumFunctionOnSet(f, v \ {Pick(v)})
  BY <1>3, SumStep
<1>5. v # {}
  BY <1>2, <1>4
<1>6. Pick(v) \in v /\ SumFunctionOnSet(f, v \ {Pick(v)}) = 0
  BY <1>2, <1>5, PickIn
<1>7. f[Pick(v)] = 0
  BY <1>2, <1>6
<1> QED BY <1>2, <1>4, <1>5, <1>6, <1>7
-----------------------------------------------------------------------------
(* The balances.  Whatever a step is, it creates one payout, pays one,     *)
(* cancels one, or leaves payouts and what is pending alone.               *)

Creates(o, ty) ==
    /\ payout[o][ty] \notin {"PENDING", "COMPLETED"}
    /\ payout' = [payout EXCEPT ![o][ty] = "PENDING"]
    /\ wallet' = Credit(wallet, ty) /\ UNCHANGED <<recovered, commission>>

Pays(o, ty) ==
    /\ payout[o][ty] = "PENDING" /\ Processes(o, ty)
    /\ UNCHANGED <<recovered, commission>>

Cancels(o) ==
    /\ payout[o]["SELLER"] = "PENDING"
    /\ payout' = [payout EXCEPT ![o]["SELLER"] = "CANCELLED"]
    /\ wallet' = [wallet EXCEPT !.sellerPending = @ - SellerShare]
    /\ UNCHANGED <<recovered, commission>>

\* The balances of what was paid change with a debit or a credit only.
Unpaid ==
    /\ payout' = payout
    /\ wallet'.sellerPending = wallet.sellerPending
    /\ wallet'.riderPending = wallet.riderPending
    /\ (\A o \in Orders : recovered'[o] = 0) =>
           /\ wallet'.sellerAvailable = wallet.sellerAvailable
           /\ \A o \in Orders : recovered[o] = 0
    /\ (\A o \in Orders : commission'[o] = 0) =>
           /\ wallet'.riderAvailable = wallet.riderAvailable
           /\ \A o \in Orders : commission[o] = 0
    /\ commission' = commission => wallet'.riderAvailable = wallet.riderAvailable

PayoutMoves ==
    Unpaid \/ \E o \in Orders : Cancels(o) \/ \E ty \in PayoutType : Creates(o, ty) \/ Pays(o, ty)

LEMMA NothingMoves == ASSUME UNCHANGED <<payout, wallet, recovered, commission>> PROVE PayoutMoves
BY DEF PayoutMoves, Unpaid

LEMMA CreateMoves ==
    ASSUME NEW o \in Orders, NEW ty \in PayoutType, CreatePayout(o, ty),
           UNCHANGED <<recovered, commission>>
    PROVE  PayoutMoves
BY DEF CreatePayout, PayoutMoves, Unpaid, Creates

LEMMA ProcessMoves ==
    ASSUME NEW o \in Orders, NEW ty \in PayoutType, Process(o, ty),
           UNCHANGED <<recovered, commission>>
    PROVE  PayoutMoves
BY DEF Process, PayoutMoves, Unpaid, Pays

LEMMA CashMoves ==
    ASSUME wallet \in WalletInt, UNCHANGED <<payout, recovered, commission>>, NEW o, NEW amount,
           Collects(o, amount) \/ Reconciles(o, amount)
    PROVE  PayoutMoves
BY DEF WalletInt, Collects, Reconciles, PayoutMoves, Unpaid

LEMMA SettlingMoves ==
    ASSUME MoneyInv, NEW t \in Threads, Settling(t) PROVE PayoutMoves
<1>1. "SELLER" \in PayoutType /\ "DELIVERY_PARTNER" \in PayoutType
  BY DEF PayoutType
<1>2. wallet \in WalletInt
  BY DEF MoneyInv, TypesOK
<1>3. CASE SettleRead(t)
  BY <1>3, NothingMoves DEF SettleRead, Money, Returned
<1>4. CASE SettleCommit(t)
  BY <1>4, NothingMoves DEF SettleCommit, Returned
<1>5. CASE CodCollect(t)
  BY <1>2, <1>5, CashMoves, NothingMoves DEF CodCollect, Returned
<1>6. CASE QueueSeller(t) \/ QueueRider(t)
  <2>1. PICK o \in Orders : o = thread[t].o
    BY <1>6, HasOrder DEF QueueSeller, QueueRider, At, MoneyInv
  <2>2. UNCHANGED <<recovered, commission>>
    BY <1>6 DEF QueueSeller, QueueRider, Returned
  <2>3. \/ UNCHANGED <<payout, wallet>>
        \/ CreatePayout(o, "SELLER") \/ CreatePayout(o, "DELIVERY_PARTNER")
    BY <1>6, <2>1 DEF QueueSeller, QueueRider
  <2> QED BY <1>1, <2>2, <2>3, NothingMoves, CreateMoves
<1> QED BY <1>3, <1>4, <1>5, <1>6 DEF Settling

LEMMA SubmittingMoves ==
    ASSUME MoneyInv, NEW t \in Threads, Submitting(t) PROVE PayoutMoves
<1>1. wallet \in WalletInt
  BY DEF MoneyInv, TypesOK
<1>2. CASE SubmitEnd(t)
  BY <1>2, NothingMoves DEF SubmitEnd, Returned
<1>3. ASSUME NEW o \in Orders, SubmitOne(t, o) PROVE PayoutMoves
  <2>1. UNCHANGED <<payout, recovered, commission>>
    BY <1>3 DEF SubmitOne, Returned
  <2>2. \/ wallet' = wallet
        \/ Reconciles(o, Lesser(thread[t].due[o], thread[t].left))
    BY <1>3 DEF SubmitOne
  <2> QED BY <1>1, <2>1, <2>2, CashMoves, NothingMoves
<1> QED BY <1>2, <1>3 DEF Submitting

LEMMA PayingMoves ==
    ASSUME MoneyInv, NEW t \in Threads, Paying(t) PROVE PayoutMoves
<1>1. "SELLER" \in PayoutType
  BY DEF PayoutType
<1>2. ASSUME NEW x \in thread[t].rest, BatchOne(t, x) PROVE PayoutMoves
  <2>1. PICK o \in Orders, ty \in PayoutType : x = <<o, ty>>
    BY DEF MoneyInv, TypesOK, ThreadState
  <2>2. Process(o, ty) /\ UNCHANGED <<recovered, commission>>
    BY <1>2, <2>1 DEF BatchOne, Returned
  <2> QED BY <2>2, ProcessMoves
<1>3. ASSUME NEW x \in thread[t].rest, ReleaseFind(t, x) PROVE PayoutMoves
  BY <1>3, NothingMoves DEF ReleaseFind, Money, Returned
<1>4. CASE ReleaseDo(t)
  <2>1. PICK o \in Orders : o = thread[t].o
    BY <1>4, HasOrder DEF ReleaseDo, At, MoneyInv
  <2>2. (Process(o, "SELLER") \/ UNCHANGED <<payout, wallet>>) /\ UNCHANGED <<recovered, commission>>
    BY <1>4, <2>1 DEF ReleaseDo, Returned
  <2> QED BY <1>1, <2>2, ProcessMoves, NothingMoves
<1> QED BY <1>2, <1>3, <1>4 DEF Paying

LEMMA RefundingMoves ==
    ASSUME MoneyInv, NEW t \in Threads, Refunding(t) PROVE PayoutMoves
<1>1. "SELLER" \in PayoutType
  BY DEF PayoutType
<1>2. CASE QcRelease(t)
  <2>1. PICK o \in Orders : o = thread[t].o
    BY <1>2, HasOrder DEF QcRelease, At, MoneyInv
  <2>2. (Process(o, "SELLER") \/ UNCHANGED <<payout, wallet>>) /\ UNCHANGED <<recovered, commission>>
    BY <1>2, <2>1 DEF QcRelease, Returned
  <2> QED BY <1>1, <2>2, ProcessMoves, NothingMoves
<1>3. CASE RefundCustomer(t)
  BY <1>3, NothingMoves DEF RefundCustomer
<1>4. CASE Recover(t)
  <2>1. PICK o \in Orders : o = thread[t].o
    BY <1>4, HasOrder DEF Recover, At, MoneyInv
  <2>2. UNCHANGED <<recovered, commission>>
    BY <1>4 DEF Recover, Returned
  <2>3. \/ UNCHANGED <<payout, wallet>>
        \/ /\ payout[o]["SELLER"] = "PENDING"
           /\ payout' = [payout EXCEPT ![o]["SELLER"] = "CANCELLED"]
           /\ wallet' = [wallet EXCEPT !.sellerPending = @ - SellerShare]
    BY <1>4, <2>1 DEF Recover
  <2>4. Cancels(o) \/ UNCHANGED <<payout, wallet, recovered, commission>>
    BY <2>2, <2>3 DEF Cancels
  <2> QED BY <2>4, NothingMoves DEF PayoutMoves
<1>5. CASE Debit(t)
  <2>1. PICK o \in Orders : o = thread[t].o
    BY <1>5, HasOrder DEF Debit, At, MoneyInv
  <2>2. /\ recovered' = [recovered EXCEPT ![o] = @ + Refund]
        /\ payout' = payout /\ commission' = commission
        /\ wallet' = [wallet EXCEPT !.sellerAvailable = thread[t].sum - Refund]
    BY <1>5, <2>1 DEF Debit
  <2>3. recovered'[o] # 0
    BY <2>2, AmountsAssumption DEF MoneyInv, TypesOK
  <2> QED BY <2>2, <2>3 DEF PayoutMoves, Unpaid, MoneyInv, TypesOK, WalletInt
<1>6. CASE MarkCancelled(t) \/ CloseReturn(t) \/ EarnRead(t) \/ EarnNothing(t)
  BY <1>6, NothingMoves DEF MarkCancelled, CloseReturn, EarnRead, EarnNothing, Money, Returned
<1>7. CASE Earn(t)
  <2>1. PICK o \in Orders : o = thread[t].o
    BY <1>7, HasOrder DEF Earn, At, MoneyInv
  <2>2. /\ commission' = [commission EXCEPT ![o] = @ + Commission]
        /\ payout' = payout /\ recovered' = recovered
        /\ wallet' = [wallet EXCEPT !.riderAvailable = thread[t].sum + Commission]
    BY <1>7, <2>1 DEF Earn
  <2>3. commission'[o] = commission[o] + Commission /\ commission[o] \in Nat
    BY <2>2 DEF MoneyInv, TypesOK
  <2>4. commission'[o] # 0 /\ commission'[o] # commission[o]
    BY <2>3, AmountsAssumption
  <2> QED BY <2>2, <2>4 DEF PayoutMoves, Unpaid, MoneyInv, TypesOK, WalletInt
<1> QED BY <1>2, <1>3, <1>4, <1>5, <1>6, <1>7 DEF Refunding

LEMMA StepMoves == ASSUME MoneyInv, [Next]_vars PROVE PayoutMoves
<1>1. ASSUME NEW t \in Threads, Continue(t) PROVE PayoutMoves
  <2>1. CASE Returning(t)
    BY <2>1, NothingMoves DEF Returning, SaveRequest, SaveRejection, SaveFailed, SavePassed,
                              Saves, Money, Returned
  <2> QED BY <1>1, <2>1, SettlingMoves, SubmittingMoves, PayingMoves, RefundingMoves
          DEF Continue
<1>2. ASSUME NEW t \in Threads, Abandon(t) PROVE PayoutMoves
  BY <1>2, NothingMoves DEF Abandon, Money, Returned
<1>3. ASSUME NEW t \in Requests, Arrives(t) PROVE PayoutMoves
  BY <1>3, NothingMoves DEF Arrives, Deliver, SettleAgain, PickUp, RequestReturn,
                            RejectReturn, QcFail, QcPass, Decide, SubmitRead, Money, Returned
<1>4. ASSUME NEW t \in Jobs, JobStarts(t) PROVE PayoutMoves
  BY <1>4, NothingMoves DEF JobStarts, BatchRead, ReleaseRead, Money, Returned
<1>5. ASSUME NEW o \in Orders, Elsewhere(o) PROVE PayoutMoves
  <2>1. wallet \in WalletInt
    BY DEF MoneyInv, TypesOK
  <2>2. CASE Capture(o) \/ WindowCloses(o)
    BY <2>2, NothingMoves DEF Capture, WindowCloses, Money, Returned
  <2>3. CASE MarkCollected(o)
    BY <2>1, <2>3, CashMoves DEF MarkCollected, Returned
  <2>4. ASSUME NEW amount, Reconcile(o, amount) PROVE PayoutMoves
    BY <2>1, <2>4, CashMoves DEF Reconcile, Returned
  <2> QED BY <1>5, <2>2, <2>3, <2>4 DEF Elsewhere
<1>6. ASSUME NEW amount \in HandAmounts, SettleCash(amount) PROVE PayoutMoves
  BY <1>6, NothingMoves DEF SettleCash, Returned
<1>7. CASE UNCHANGED vars
  BY <1>7, NothingMoves DEF vars, Money, Returned
<1> QED BY <1>1, <1>2, <1>3, <1>4, <1>5, <1>6, <1>7 DEF Next

\* A payout that was paid is never paid, queued or cancelled again.
THEOREM PaidStaysPaid == Spec => PaidOutOnce
<1>1. MoneyInv /\ [Next]_vars =>
         \A o \in Orders, ty \in PayoutType :
             payout[o][ty] = "COMPLETED" => payout'[o][ty] = "COMPLETED"
  <2> SUFFICES ASSUME MoneyInv, [Next]_vars, NEW o \in Orders, NEW ty \in PayoutType,
                      payout[o][ty] = "COMPLETED"
               PROVE  payout'[o][ty] = "COMPLETED"
    OBVIOUS
  <2>1. PayoutMoves
    BY StepMoves
  <2>2. payout \in [Orders -> [PayoutType -> PayoutStatus]]
    BY DEF MoneyInv, TypesOK
  <2>3. ASSUME NEW q \in Orders, NEW u \in PayoutType, NEW status,
               payout[q][u] # "COMPLETED", payout' = [payout EXCEPT ![q][u] = status]
        PROVE  payout'[o][ty] = "COMPLETED"
    BY <2>2, <2>3
  <2>4. "SELLER" \in PayoutType
    BY DEF PayoutType
  <2>5. CASE Unpaid
    BY <2>5 DEF Unpaid
  <2>6. ASSUME NEW q \in Orders, Cancels(q) PROVE payout'[o][ty] = "COMPLETED"
    BY <2>3, <2>4, <2>6 DEF Cancels
  <2>7. ASSUME NEW q \in Orders, NEW u \in PayoutType, Creates(q, u) \/ Pays(q, u)
        PROVE  payout'[o][ty] = "COMPLETED"
    BY <2>3, <2>7 DEF Creates, Pays, Processes
  <2> QED BY <2>1, <2>5, <2>6, <2>7 DEF PayoutMoves
<1> QED BY <1>1, MoneyAlways, PTL DEF Spec, PaidOutOnce

CountIn(p, ty, status) == Cardinality({o \in Orders : p[o][ty] = status})

\* One payout changes its status.
Becomes(o, ty, status) ==
    payout[o][ty] # status /\ payout' = [payout EXCEPT ![o][ty] = status]

\* How that changes the numbers of payouts in each status.
LEMMA PayoutCounts ==
    ASSUME payout \in [Orders -> [PayoutType -> PayoutStatus]],
           NEW o \in Orders, NEW ty \in PayoutType, NEW status, Becomes(o, ty, status),
           NEW u \in PayoutType, NEW v
    PROVE  CountIn(payout', u, v) =
               IF u = ty /\ v = status THEN CountIn(payout, u, v) + 1
               ELSE IF u = ty /\ v = payout[o][ty] THEN CountIn(payout, u, v) - 1
               ELSE CountIn(payout, u, v)
<1> DEFINE S == {q \in Orders : payout[q][u] = v}
           T == {q \in Orders : payout'[q][u] = v}
<1>1. \A q \in Orders : payout'[q][u] = IF q = o /\ u = ty THEN status ELSE payout[q][u]
  BY DEF Becomes
<1>2. IsFiniteSet(S)
  BY OrdersAssumption, FS_Subset
<1>3. CountIn(payout, u, v) = Cardinality(S) /\ CountIn(payout', u, v) = Cardinality(T)
  BY DEF CountIn
<1>4. payout[o][ty] # status
  BY DEF Becomes
<1>5. CASE u = ty /\ v = status
  <2>1. T = S \cup {o} /\ o \notin S
    BY <1>1, <1>4, <1>5
  <2> HIDE DEF S, T
  <2>2. Cardinality(T) = Cardinality(S) + 1
    BY <1>2, <2>1, FS_AddElement
  <2> QED BY <1>3, <1>5, <2>2
<1>6. CASE u = ty /\ v # status /\ v = payout[o][ty]
  <2>1. T = S \ {o} /\ o \in S
    BY <1>1, <1>6
  <2> HIDE DEF S, T
  <2>2. Cardinality(T) = Cardinality(S) - 1
    BY <1>2, <2>1, FS_RemoveElement
  <2> QED BY <1>3, <1>6, <2>2
<1>7. CASE ~(u = ty /\ v = status) /\ ~(u = ty /\ v = payout[o][ty])
  <2>1. T = S
    BY <1>1, <1>7
  <2> QED BY <1>3, <1>7, <2>1
<1> QED BY <1>5, <1>6, <1>7

LEMMA CountNat ==
    ASSUME NEW p, NEW u, NEW v PROVE CountIn(p, u, v) \in Nat
<1>1. IsFiniteSet({q \in Orders : p[q][u] = v})
  BY OrdersAssumption, FS_Subset
<1> QED BY <1>1, FS_CardinalityType DEF CountIn

LEMMA OneMore ==
    ASSUME NEW k \in Nat, NEW c \in Nat PROVE k * (c + 1) = k * c + k /\ k * (c - 1) = k * c - k
OBVIOUS

\* What WalletsAddUp says, but for the bound of the rider's balance.
Balances ==
    /\ wallet.sellerPending = SellerShare * CountOf("SELLER", "PENDING")
    /\ wallet.riderPending = RiderShare * CountOf("DELIVERY_PARTNER", "PENDING")
    /\ (\A o \in Orders : recovered[o] = 0) =>
           wallet.sellerAvailable = SellerShare * CountOf("SELLER", "COMPLETED")
    /\ (\A o \in Orders : commission[o] = 0) =>
           wallet.riderAvailable = RiderShare * CountOf("DELIVERY_PARTNER", "COMPLETED")

LEMMA BalancesNext ==
    ASSUME MoneyInv, Balances, [Next]_vars PROVE Balances'
<1>1. PayoutMoves
  BY StepMoves
<1>2. /\ payout \in [Orders -> [PayoutType -> PayoutStatus]] /\ wallet \in WalletInt
      /\ recovered \in [Orders -> Nat] /\ commission \in [Orders -> Nat]
  BY DEF MoneyInv, TypesOK
<1>3. /\ "SELLER" \in PayoutType /\ "DELIVERY_PARTNER" \in PayoutType
      /\ "PENDING" \in PayoutStatus /\ "COMPLETED" \in PayoutStatus
      /\ "CANCELLED" \in PayoutStatus
      /\ \A ty \in PayoutType : ty = "SELLER" \/ ty = "DELIVERY_PARTNER"
  BY DEF PayoutType, PayoutStatus
<1>4. SellerShare \in Nat /\ RiderShare \in Nat
  BY AmountsAssumption
<1> DEFINE C(u, v) == CountIn(payout, u, v)
           C2(u, v) == CountIn(payout', u, v)
<1>5. \A u, v : C(u, v) \in Nat
  BY CountNat
<1>6. \A u, v : /\ SellerShare * (C(u, v) + 1) = SellerShare * C(u, v) + SellerShare
                /\ SellerShare * (C(u, v) - 1) = SellerShare * C(u, v) - SellerShare
                /\ RiderShare * (C(u, v) + 1) = RiderShare * C(u, v) + RiderShare
                /\ RiderShare * (C(u, v) - 1) = RiderShare * C(u, v) - RiderShare
  BY <1>4, <1>5, OneMore
<1>7. CASE Unpaid
  BY <1>7 DEF Unpaid, Balances, CountOf
<1>w. /\ wallet.sellerPending = SellerShare * C("SELLER", "PENDING")
      /\ wallet.riderPending = RiderShare * C("DELIVERY_PARTNER", "PENDING")
      /\ (\A o \in Orders : recovered[o] = 0) =>
             wallet.sellerAvailable = SellerShare * C("SELLER", "COMPLETED")
      /\ (\A o \in Orders : commission[o] = 0) =>
             wallet.riderAvailable = RiderShare * C("DELIVERY_PARTNER", "COMPLETED")
  BY DEF Balances, CountOf, CountIn
<1>x. (/\ wallet'.sellerPending = SellerShare * C2("SELLER", "PENDING")
       /\ wallet'.riderPending = RiderShare * C2("DELIVERY_PARTNER", "PENDING")
       /\ (\A o \in Orders : recovered'[o] = 0) =>
              wallet'.sellerAvailable = SellerShare * C2("SELLER", "COMPLETED")
       /\ (\A o \in Orders : commission'[o] = 0) =>
              wallet'.riderAvailable = RiderShare * C2("DELIVERY_PARTNER", "COMPLETED"))
      => Balances'
  BY DEF Balances, CountOf, CountIn
<1> HIDE DEF C, C2
<1>8. ASSUME NEW o \in Orders, Cancels(o) PROVE Balances'
  <2>1. /\ C2("SELLER", "PENDING") = C("SELLER", "PENDING") - 1
        /\ C2("SELLER", "COMPLETED") = C("SELLER", "COMPLETED")
        /\ C2("DELIVERY_PARTNER", "PENDING") = C("DELIVERY_PARTNER", "PENDING")
        /\ C2("DELIVERY_PARTNER", "COMPLETED") = C("DELIVERY_PARTNER", "COMPLETED")
    <3>1. payout[o]["SELLER"] = "PENDING" /\ Becomes(o, "SELLER", "CANCELLED")
      BY <1>8 DEF Cancels, Becomes
    <3>2. \A u \in PayoutType, v \in PayoutStatus :
             C2(u, v) = IF u = "SELLER" /\ v = "CANCELLED" THEN C(u, v) + 1
                        ELSE IF u = "SELLER" /\ v = "PENDING" THEN C(u, v) - 1 ELSE C(u, v)
      BY <1>2, <1>3, <3>1, PayoutCounts DEF C, C2
    <3> QED BY <1>3, <3>2
  <2>2. /\ wallet'.sellerPending = wallet.sellerPending - SellerShare
        /\ wallet'.sellerAvailable = wallet.sellerAvailable
        /\ wallet'.riderPending = wallet.riderPending
        /\ wallet'.riderAvailable = wallet.riderAvailable
        /\ UNCHANGED <<recovered, commission>>
    BY <1>2, <1>8 DEF Cancels, WalletInt
  <2> QED BY <1>6, <2>1, <2>2, <1>w, <1>x
<1>9. ASSUME NEW o \in Orders, NEW ty \in PayoutType, Creates(o, ty) PROVE Balances'
  <2>1. payout[o][ty] \in PayoutStatus /\ payout[o][ty] # "PENDING" /\ payout[o][ty] # "COMPLETED"
    BY <1>2, <1>9 DEF Creates
  <2>2. \A u \in PayoutType :
           /\ C2(u, "PENDING") = IF u = ty THEN C(u, "PENDING") + 1 ELSE C(u, "PENDING")
           /\ C2(u, "COMPLETED") = C(u, "COMPLETED")
    <3>1. Becomes(o, ty, "PENDING")
      BY <1>9, <2>1 DEF Creates, Becomes
    <3>2. \A u \in PayoutType, v \in PayoutStatus :
             C2(u, v) = IF u = ty /\ v = "PENDING" THEN C(u, v) + 1
                        ELSE IF u = ty /\ v = payout[o][ty] THEN C(u, v) - 1 ELSE C(u, v)
      BY <1>2, <1>3, <2>1, <3>1, PayoutCounts DEF C, C2
    <3> QED BY <1>3, <2>1, <3>2
  <2>3. /\ wallet'.sellerPending = IF ty = "SELLER" THEN wallet.sellerPending + SellerShare
                                   ELSE wallet.sellerPending
        /\ wallet'.riderPending = IF ty = "SELLER" THEN wallet.riderPending
                                  ELSE wallet.riderPending + RiderShare
        /\ wallet'.sellerAvailable = wallet.sellerAvailable
        /\ wallet'.riderAvailable = wallet.riderAvailable
        /\ UNCHANGED <<recovered, commission>>
    BY <1>2, <1>9 DEF Creates, Credit, WalletInt
  <2>4. CASE ty = "SELLER"
    BY <1>3, <1>6, <2>2, <2>3, <2>4, <1>w, <1>x
  <2>5. CASE ty = "DELIVERY_PARTNER"
    BY <1>3, <1>6, <2>2, <2>3, <2>5, <1>w, <1>x
  <2> QED BY <1>3, <2>4, <2>5
<1>10. ASSUME NEW o \in Orders, NEW ty \in PayoutType, Pays(o, ty) PROVE Balances'
  <2>1. \A u \in PayoutType :
           /\ C2(u, "PENDING") = IF u = ty THEN C(u, "PENDING") - 1 ELSE C(u, "PENDING")
           /\ C2(u, "COMPLETED") = IF u = ty THEN C(u, "COMPLETED") + 1
                                         ELSE C(u, "COMPLETED")
    <3>1. payout[o][ty] = "PENDING" /\ Becomes(o, ty, "COMPLETED")
      BY <1>10 DEF Pays, Processes, Becomes
    <3>2. \A u \in PayoutType, v \in PayoutStatus :
             C2(u, v) = IF u = ty /\ v = "COMPLETED" THEN C(u, v) + 1
                        ELSE IF u = ty /\ v = "PENDING" THEN C(u, v) - 1 ELSE C(u, v)
      BY <1>2, <1>3, <3>1, PayoutCounts DEF C, C2
    <3> QED BY <1>3, <3>2
  <2>2. UNCHANGED <<recovered, commission>>
    BY <1>10 DEF Pays
  <2>3. CASE ty = "SELLER"
    <3>1. /\ wallet'.sellerPending = wallet.sellerPending - SellerShare
          /\ wallet'.sellerAvailable = wallet.sellerAvailable + SellerShare
          /\ wallet'.riderPending = wallet.riderPending
          /\ wallet'.riderAvailable = wallet.riderAvailable
      BY <1>2, <1>10, <2>3 DEF Pays, Processes, WalletInt
    <3> QED BY <1>3, <1>6, <2>1, <2>2, <2>3, <3>1, <1>w, <1>x
  <2>4. CASE ty = "DELIVERY_PARTNER"
    <3>1. /\ wallet'.sellerPending = wallet.sellerPending
          /\ wallet'.sellerAvailable = wallet.sellerAvailable
          /\ wallet'.riderPending = wallet.riderPending - RiderShare
          /\ wallet'.riderAvailable = wallet.riderAvailable + RiderShare
      BY <1>2, <1>10, <2>4 DEF Pays, Processes, WalletInt
    <3> QED BY <1>3, <1>6, <2>1, <2>2, <2>4, <3>1, <1>w, <1>x
  <2> QED BY <1>3, <2>3, <2>4
<1> QED BY <1>1, <1>7, <1>8, <1>9, <1>10 DEF PayoutMoves

LEMMA BalancesInit == Init => Balances
<1> SUFFICES ASSUME Init PROVE Balances
  OBVIOUS
<1>1. \A ty \in PayoutType : CountOf(ty, "PENDING") = 0 /\ CountOf(ty, "COMPLETED") = 0
  <2> SUFFICES ASSUME NEW ty \in PayoutType
               PROVE  CountOf(ty, "PENDING") = 0 /\ CountOf(ty, "COMPLETED") = 0
    OBVIOUS
  <2>1. {o \in Orders : payout[o][ty] = "PENDING"} = {}
        /\ {o \in Orders : payout[o][ty] = "COMPLETED"} = {}
    BY DEF Init
  <2> QED BY <2>1, FS_EmptySet DEF CountOf
<1>2. "SELLER" \in PayoutType /\ "DELIVERY_PARTNER" \in PayoutType
  BY DEF PayoutType
<1> QED BY <1>1, <1>2, AmountsAssumption DEF Init, Balances

-----------------------------------------------------------------------------
(* The rider's balance.  A credit writes back the balance it has read and  *)
(* the commission, so that a payout or a commission between may be lost,   *)
(* but it had read no more than he was entitled to, and that never falls.  *)

Crediting == {"earned", "credit"}

RiderTotal ==
    RiderShare * CountIn(payout, "DELIVERY_PARTNER", "COMPLETED") + SumFunction(commission)

RiderBound ==
    /\ wallet.riderAvailable <= RiderTotal
    /\ \A t \in Threads : thread[t].pc \in Crediting => thread[t].sum <= RiderTotal

\* No handler reads a balance to credit.
NobodyReads == \A t \in Threads : thread'[t] = thread[t] \/ thread'[t].pc \notin Crediting

LEMMA ReadsNot ==
    ASSUME TypesOK, NEW t \in Threads, NEW th, th.pc \notin Crediting,
           thread' = [thread EXCEPT ![t] = th]
    PROVE  NobodyReads
BY DEF TypesOK, NobodyReads

LEMMA FinishReadsNot == ASSUME TypesOK, NEW t \in Threads, Finish(t) PROVE NobodyReads
BY IdleTyped, ReadsNot DEF Finish, Crediting

LEMMA GotoReadsNot ==
    ASSUME TypesOK, NEW t \in Threads, NEW pc, pc \notin Crediting,
           Goto(t, pc) \/ GotoLast(t, pc)
    PROVE  NobodyReads
<1>1. [thread[t] EXCEPT !.pc = pc].pc = pc
  BY DEF TypesOK, ThreadState
<1>2. [Idle EXCEPT !.pc = pc, !.o = thread[t].o].pc = pc
  BY IdleTyped DEF ThreadState
<1>3. CASE Goto(t, pc)
  BY <1>1, <1>3, ReadsNot DEF Goto
<1>4. CASE GotoLast(t, pc)
  <2>1. PICK th : th = [Idle EXCEPT !.pc = pc, !.o = thread[t].o]
    OBVIOUS
  <2>2. th.pc = pc /\ thread' = [thread EXCEPT ![t] = th]
    BY <1>2, <1>4, <2>1 DEF GotoLast
  <2> QED BY <2>2, ReadsNot
<1> QED BY <1>3, <1>4

LEMMA RemainingReadsNot ==
    ASSUME TypesOK, NEW t \in Threads, NEW x, thread[t].pc \notin Crediting, Remaining(t, x)
    PROVE  NobodyReads
<1>1. [thread[t] EXCEPT !.rest = @ \ {x}].pc = thread[t].pc
  BY DEF TypesOK, ThreadState
<1>2. CASE thread[t].rest = {x}
  BY <1>2, FinishReadsNot DEF Remaining, Finish
<1>3. CASE thread[t].rest # {x}
  BY <1>1, <1>3, ReadsNot DEF Remaining
<1> QED BY <1>2, <1>3

LEMMA SettlingReadsNot ==
    ASSUME TypesOK, NEW t \in Threads, Settling(t)
    PROVE  NobodyReads /\ commission' = commission
<1>1. commission' = commission
  BY DEF Settling, SettleRead, QueueSeller, QueueRider, SettleCommit, CodCollect, Money, Returned
<1>2. CASE SettleRead(t)
  <2> DEFINE th == [thread[t] EXCEPT !.pc = "seller", !.snap = order[thread[t].o],
                                     !.hold = ~expired[thread[t].o]]
  <2>1. th.pc = "seller" /\ "seller" \notin Crediting /\ "collect" \notin Crediting
    BY DEF TypesOK, ThreadState, Crediting
  <2>2. Finish(t) \/ Goto(t, "collect") \/ thread' = [thread EXCEPT ![t] = th]
    BY <1>2 DEF SettleRead
  <2> HIDE DEF th
  <2> QED BY <1>1, <2>1, <2>2, FinishReadsNot, GotoReadsNot, ReadsNot
<1>3. CASE ~SettleRead(t)
  <2>1. \/ Finish(t) \/ Goto(t, "rider") \/ Goto(t, "commit") \/ GotoLast(t, "collect")
    BY <1>3 DEF Settling, QueueSeller, QueueRider, SettleCommit, CodCollect
  <2>2. {"rider", "commit", "collect"} \cap Crediting = {}
    BY DEF Crediting
  <2> QED BY <1>1, <2>1, <2>2, FinishReadsNot, GotoReadsNot
<1> QED BY <1>2, <1>3

LEMMA SubmittingReadsNot ==
    ASSUME TypesOK, NEW t \in Threads, Submitting(t)
    PROVE  NobodyReads /\ commission' = commission
<1>1. commission' = commission
  BY DEF Submitting, SubmitOne, SubmitEnd, Returned
<1>2. CASE Finish(t)
  BY <1>1, <1>2, FinishReadsNot
<1>3. CASE ~Finish(t)
  <2>1. PICK o \in Orders : SubmitOne(t, o)
    BY <1>3 DEF Submitting, SubmitEnd
  <2>2. PICK th, amount : /\ thread' = [thread EXCEPT ![t] = th]
                          /\ th = [thread[t] EXCEPT !.due[o] = 0, !.left = @ - amount]
    BY <1>3, <2>1 DEF SubmitOne
  <2>3. thread[t] \in ThreadState /\ thread[t].pc = "submit"
    BY <2>1 DEF SubmitOne, At, TypesOK
  <2>4. th.pc = "submit"
    BY <2>2, <2>3 DEF ThreadState
  <2> QED BY <1>1, <2>2, <2>4, ReadsNot DEF Crediting
<1> QED BY <1>2, <1>3

LEMMA PayingReadsNot ==
    ASSUME TypesOK, NEW t \in Threads, Paying(t)
    PROVE  NobodyReads /\ commission' = commission
<1>1. commission' = commission
  BY DEF Paying, BatchOne, ReleaseFind, ReleaseDo, Money, Returned
<1>2. thread[t].pc \notin Crediting
  BY DEF Paying, BatchOne, ReleaseFind, ReleaseDo, At, Crediting
<1>3. CASE \E x : Remaining(t, x)
  BY <1>1, <1>2, <1>3, RemainingReadsNot
<1>4. CASE ~ \E x : Remaining(t, x)
  <2> DEFINE th(o) == [thread[t] EXCEPT !.pc = "release", !.o = o]
             tg(rest) == [Idle EXCEPT !.pc = "holds", !.rest = rest]
  <2>1. \A o, rest : th(o).pc = "release" /\ tg(rest).pc = "holds"
    BY IdleTyped DEF TypesOK, ThreadState
  <2>2. \/ Finish(t)
        \/ \E o : thread' = [thread EXCEPT ![t] = th(o)]
        \/ \E rest : thread' = [thread EXCEPT ![t] = tg(rest)]
    BY <1>4 DEF Paying, BatchOne, ReleaseFind, ReleaseDo, Finish
  <2>3. "release" \notin Crediting /\ "holds" \notin Crediting
    BY DEF Crediting
  <2> HIDE DEF th, tg
  <2> QED BY <1>1, <2>1, <2>2, <2>3, FinishReadsNot, ReadsNot
<1> QED BY <1>3, <1>4

LEMMA ReturningReadsNot ==
    ASSUME TypesOK, NEW t \in Threads,
           Returning(t) \/ Refunding(t), ~EarnRead(t), ~Earn(t)
    PROVE  NobodyReads /\ commission' = commission
<1>1. commission' = commission
  BY DEF Returning, SaveRequest, SaveRejection, SaveFailed, SavePassed, Saves, Refunding,
         QcRelease, RefundCustomer, Recover, Debit, MarkCancelled, EarnNothing, CloseReturn,
         Money, Returned
<1>2. {"qcRelease", "refund", "recover", "unhold", "commission", "debit", "close"}
         \cap Crediting = {}
  BY DEF Crediting
<1>3. CASE Recover(t)
  <2> DEFINE th == [Idle EXCEPT !.pc = "commission", !.o = thread[t].o]
             tg == [Idle EXCEPT !.pc = "debit", !.o = thread[t].o, !.sum = wallet.sellerAvailable]
  <2>1. th.pc = "commission" /\ tg.pc = "debit"
    BY IdleTyped DEF ThreadState
  <2>2. \/ GotoLast(t, "unhold") \/ GotoLast(t, "commission")
        \/ thread' = [thread EXCEPT ![t] = th] \/ thread' = [thread EXCEPT ![t] = tg]
    BY <1>3 DEF Recover
  <2> HIDE DEF th, tg
  <2> QED BY <1>1, <1>2, <2>1, <2>2, GotoReadsNot, ReadsNot
<1>4. CASE ~Recover(t)
  <2>1. \/ Finish(t) \/ GotoLast(t, "qcRelease") \/ Goto(t, "refund") \/ Goto(t, "recover")
        \/ GotoLast(t, "commission") \/ GotoLast(t, "close")
    BY <1>4 DEF Returning, SaveRequest, SaveRejection, SaveFailed, SavePassed, Refunding,
                QcRelease, RefundCustomer, Debit, MarkCancelled, EarnNothing, CloseReturn
  <2> QED BY <1>1, <1>2, <2>1, FinishReadsNot, GotoReadsNot
<1> QED BY <1>3, <1>4

LEMMA StartingReadsNot ==
    ASSUME TypesOK, NEW t \in Threads, Arrives(t) \/ JobStarts(t)
    PROVE  NobodyReads /\ commission' = commission
<1>1. commission' = commission
  BY DEF Arrives, JobStarts, Deliver, SettleAgain, PickUp, RequestReturn, RejectReturn, QcFail,
         QcPass, Decide, SubmitRead, BatchRead, ReleaseRead, Money, Returned
<1>2. ASSUME NEW o, NEW pc, pc \notin Crediting,
             thread' = [thread EXCEPT ![t] = [Idle EXCEPT !.pc = pc, !.o = o]]
      PROVE  NobodyReads
  <2>1. [Idle EXCEPT !.pc = pc, !.o = o].pc = pc
    BY IdleTyped DEF ThreadState
  <2> QED BY <1>2, <2>1, ReadsNot
<1>3. /\ "settle" \notin Crediting /\ "earn" \notin Crediting /\ "request" \notin Crediting
      /\ "reject" \notin Crediting /\ "fail" \notin Crediting
  BY DEF Crediting
<1>4. ASSUME NEW o \in Orders, Deliver(t, o) \/ SettleAgain(t, o) PROVE NobodyReads
  BY <1>2, <1>3, <1>4 DEF Deliver, SettleAgain, Start
<1>5. ASSUME NEW o \in Orders, PickUp(t, o) PROVE NobodyReads
  BY <1>2, <1>3, <1>5 DEF PickUp, Start
<1>6. ASSUME NEW o \in Orders, RequestReturn(t, o) \/ RejectReturn(t, o) \/ QcFail(t, o)
      PROVE  NobodyReads
  BY <1>2, <1>3, <1>6 DEF RequestReturn, RejectReturn, QcFail, Decide, Start
<1>7. ASSUME NEW o \in Orders, QcPass(t, o) PROVE NobodyReads
  <2>1. thread' = [thread EXCEPT ![t] = [Idle EXCEPT !.pc = "pass", !.o = o, !.snap = order[o]]]
    BY <1>7 DEF QcPass, Decide, Start
  <2>2. [Idle EXCEPT !.pc = "pass", !.o = o, !.snap = order[o]].pc = "pass"
    BY IdleTyped DEF ThreadState
  <2> QED BY <2>1, <2>2, ReadsNot DEF Crediting
<1>8. ASSUME NEW amount, SubmitRead(t, amount) PROVE NobodyReads
  <2>1. PICK th : /\ thread' = [thread EXCEPT ![t] = th]
                  /\ \E due : th = [Idle EXCEPT !.pc = "submit", !.due = due,
                                                !.left = amount, !.sum = amount]
    BY <1>8 DEF SubmitRead, Start
  <2>2. th.pc = "submit"
    BY <2>1, IdleTyped DEF ThreadState
  <2> QED BY <2>1, <2>2, ReadsNot DEF Crediting
<1>9. ASSUME JobStarts(t) PROVE NobodyReads
  <2>1. PICK th : /\ thread' = [thread EXCEPT ![t] = th]
                  /\ \E pc \in {"batch", "holds"} : \E list :
                        th = [Idle EXCEPT !.pc = pc, !.rest = list]
    BY <1>9 DEF JobStarts, BatchRead, ReleaseRead, Start
  <2>2. th.pc \in {"batch", "holds"}
    BY <2>1, IdleTyped DEF ThreadState
  <2> QED BY <2>1, <2>2, ReadsNot DEF Crediting
<1> QED BY <1>1, <1>4, <1>5, <1>6, <1>7, <1>8, <1>9 DEF Arrives

\* All steps but two.
LEMMA OthersReadNot ==
    ASSUME TypesOK, [Next]_vars, ~ \E t \in Threads : EarnRead(t) \/ Earn(t)
    PROVE  NobodyReads /\ commission' = commission
<1>1. ASSUME NEW t \in Threads, Continue(t) PROVE NobodyReads /\ commission' = commission
  BY <1>1, SettlingReadsNot, SubmittingReadsNot, PayingReadsNot, ReturningReadsNot DEF Continue
<1>2. ASSUME NEW t \in Threads, Abandon(t) PROVE NobodyReads /\ commission' = commission
  BY <1>2, FinishReadsNot DEF Abandon, Money, Returned
<1>3. ASSUME NEW t \in Requests, Arrives(t) PROVE NobodyReads /\ commission' = commission
  BY <1>3, StartingReadsNot DEF Threads
<1>4. ASSUME NEW t \in Jobs, JobStarts(t) PROVE NobodyReads /\ commission' = commission
  BY <1>4, StartingReadsNot DEF Threads
<1>5. ASSUME NEW o \in Orders, Elsewhere(o) PROVE NobodyReads /\ commission' = commission
  BY <1>5 DEF Elsewhere, Capture, WindowCloses, MarkCollected, Reconcile, Money, Returned,
              NobodyReads
<1>6. ASSUME NEW amount \in HandAmounts, SettleCash(amount)
      PROVE  NobodyReads /\ commission' = commission
  BY <1>6 DEF SettleCash, Returned, NobodyReads
<1>7. CASE UNCHANGED vars
  BY <1>7 DEF vars, Money, Returned, NobodyReads
<1> QED BY <1>1, <1>2, <1>3, <1>4, <1>5, <1>6, <1>7 DEF Next

\* A payout of the rider completes, or none does.
LEMMA RiderCounts ==
    ASSUME TypesOK, PayoutMoves, commission' = commission
    PROVE  LET c == CountIn(payout, "DELIVERY_PARTNER", "COMPLETED")
               d == CountIn(payout', "DELIVERY_PARTNER", "COMPLETED")
           IN  \/ d = c /\ wallet'.riderAvailable = wallet.riderAvailable
               \/ d = c + 1 /\ wallet'.riderAvailable = wallet.riderAvailable + RiderShare
<1> DEFINE c == CountIn(payout, "DELIVERY_PARTNER", "COMPLETED")
           d == CountIn(payout', "DELIVERY_PARTNER", "COMPLETED")
<1>1. /\ payout \in [Orders -> [PayoutType -> PayoutStatus]] /\ wallet \in WalletInt
      /\ "SELLER" \in PayoutType /\ "DELIVERY_PARTNER" \in PayoutType
  BY DEF TypesOK, PayoutType
<1>2. ASSUME NEW o \in Orders, NEW ty \in PayoutType, NEW status, Becomes(o, ty, status),
             payout[o][ty] # "COMPLETED"
      PROVE  d = IF ty = "DELIVERY_PARTNER" /\ status = "COMPLETED" THEN c + 1 ELSE c
  BY <1>1, <1>2, PayoutCounts
<1> HIDE DEF c, d
<1>3. CASE Unpaid
  BY <1>3 DEF Unpaid, c, d
<1>4. ASSUME NEW o \in Orders, Cancels(o)
      PROVE  d = c /\ wallet'.riderAvailable = wallet.riderAvailable
  <2>1. payout[o]["SELLER"] # "COMPLETED" /\ Becomes(o, "SELLER", "CANCELLED")
    BY <1>4 DEF Cancels, Becomes
  <2> QED BY <1>1, <1>2, <1>4, <2>1 DEF Cancels, WalletInt
<1>5. ASSUME NEW o \in Orders, NEW ty \in PayoutType, Creates(o, ty)
      PROVE  d = c /\ wallet'.riderAvailable = wallet.riderAvailable
  <2>1. payout[o][ty] # "COMPLETED" /\ Becomes(o, ty, "PENDING")
    BY <1>5 DEF Creates, Becomes
  <2> QED BY <1>1, <1>2, <1>5, <2>1 DEF Creates, Credit, WalletInt
<1>6. ASSUME NEW o \in Orders, NEW ty \in PayoutType, Pays(o, ty)
      PROVE  \/ d = c /\ wallet'.riderAvailable = wallet.riderAvailable
             \/ d = c + 1 /\ wallet'.riderAvailable = wallet.riderAvailable + RiderShare
  <2>1. payout[o][ty] # "COMPLETED" /\ Becomes(o, ty, "COMPLETED")
    BY <1>6 DEF Pays, Processes, Becomes
  <2>2. ty = "SELLER" \/ ty = "DELIVERY_PARTNER"
    BY DEF PayoutType
  <2>3. wallet'.riderAvailable = IF ty = "SELLER" THEN wallet.riderAvailable
                                 ELSE wallet.riderAvailable + RiderShare
    BY <1>1, <1>6 DEF Pays, Processes, WalletInt
  <2> QED BY <1>2, <2>1, <2>2, <2>3
<1> QED BY <1>3, <1>4, <1>5, <1>6 DEF PayoutMoves, c, d

LEMMA RiderTotalType ==
    ASSUME TypesOK
    PROVE  /\ RiderTotal \in Int /\ SumFunction(commission) \in Int
           /\ RiderShare * CountIn(payout, "DELIVERY_PARTNER", "COMPLETED") \in Int
<1>1. RiderShare * CountIn(payout, "DELIVERY_PARTNER", "COMPLETED") \in Int
  <2>1. \A k \in Nat, c \in Nat : k * c \in Int
    OBVIOUS
  <2> QED BY <2>1, CountNat, AmountsAssumption
<1>2. DOMAIN commission = Orders /\ \A o \in Orders : commission[o] \in Int
  BY DEF TypesOK
<1>3. SumFunction(commission) = SumFunctionOnSet(commission, Orders)
  BY <1>2 DEF SumFunction
<1>4. SumFunction(commission) \in Int
  BY <1>2, <1>3, OrdersAssumption, SumType
<1> QED BY <1>1, <1>4 DEF RiderTotal

LEMMA RiderBoundNext ==
    ASSUME MoneyInv, MoneyInv', RiderBound, [Next]_vars PROVE RiderBound'
<1>1. /\ TypesOK /\ wallet.riderAvailable \in Nat /\ wallet'.riderAvailable \in Nat
      /\ RiderShare \in Nat /\ Commission \in Nat
      /\ \A t \in Threads : thread[t].sum \in Nat /\ thread'[t].sum \in Nat
  BY AmountsAssumption DEF MoneyInv, TypesOK, WalletInt, ThreadState
<1> DEFINE c == CountIn(payout, "DELIVERY_PARTNER", "COMPLETED")
           d == CountIn(payout', "DELIVERY_PARTNER", "COMPLETED")
           m == SumFunction(commission)
           n == SumFunction(commission')
<1>2. /\ RiderTotal \in Int /\ RiderTotal' \in Int /\ m \in Int /\ n \in Int
      /\ RiderShare * c \in Int /\ RiderShare * d \in Int
  <2>1. RiderTotal \in Int /\ m \in Int /\ RiderShare * c \in Int
    BY <1>1, RiderTotalType
  <2>2. RiderTotal' \in Int /\ n \in Int /\ RiderShare * d \in Int
    <3>1. TypesOK'
      BY DEF MoneyInv
    <3>2. /\ RiderTotal' \in Int /\ SumFunction(commission') \in Int
          /\ RiderShare * CountIn(payout', "DELIVERY_PARTNER", "COMPLETED") \in Int
      <4>1. (TypesOK => /\ RiderTotal \in Int /\ SumFunction(commission) \in Int
                        /\ RiderShare * CountIn(payout, "DELIVERY_PARTNER", "COMPLETED") \in Int)'
        BY RiderTotalType, PTL
      <4> QED BY <3>1, <4>1
    <3> QED BY <3>2
  <2> QED BY <2>1, <2>2
<1>3. RiderTotal = RiderShare * c + m /\ RiderTotal' = RiderShare * d + n
  BY DEF RiderTotal, CountIn
<1>4. c \in Nat /\ d \in Nat
  BY CountNat
<1> HIDE DEF c, d, m, n
<1>5. SUFFICES /\ wallet'.riderAvailable <= RiderTotal'
               /\ \A t \in Threads : thread'[t].pc \in Crediting => thread'[t].sum <= RiderTotal'
  BY <1>5 DEF RiderBound
<1>6. CASE ~ \E t \in Threads : EarnRead(t) \/ Earn(t)
  <2>1. NobodyReads /\ commission' = commission
    BY <1>1, <1>6, OthersReadNot
  <2>2. PayoutMoves
    BY StepMoves
  <2>3. \/ d = c /\ wallet'.riderAvailable = wallet.riderAvailable
        \/ d = c + 1 /\ wallet'.riderAvailable = wallet.riderAvailable + RiderShare
    BY <1>1, <2>1, <2>2, RiderCounts DEF c, d
  <2>4. n = m
    BY <2>1 DEF m, n
  <2>5. RiderShare * (c + 1) = RiderShare * c + RiderShare
    BY <1>1, <1>4, OneMore
  <2>6. RiderTotal' - RiderTotal = wallet'.riderAvailable - wallet.riderAvailable
        /\ RiderTotal' >= RiderTotal
    <3>1. CASE d = c /\ wallet'.riderAvailable = wallet.riderAvailable
      BY <1>1, <1>2, <1>3, <2>4, <3>1
    <3>2. CASE d = c + 1 /\ wallet'.riderAvailable = wallet.riderAvailable + RiderShare
      <4>1. RiderShare * d = RiderShare * c + RiderShare
        BY <2>5, <3>2
      <4> QED BY <1>1, <1>2, <1>3, <2>4, <3>2, <4>1
    <3> QED BY <2>3, <3>1, <3>2
  <2> QED BY <1>1, <1>2, <2>1, <2>6 DEF RiderBound, NobodyReads
<1>7. ASSUME NEW t \in Threads, EarnRead(t)
      PROVE  /\ wallet'.riderAvailable <= RiderTotal'
             /\ \A q \in Threads : thread'[q].pc \in Crediting => thread'[q].sum <= RiderTotal'
  <2>1. /\ UNCHANGED <<payout, commission, wallet>>
        /\ thread'[t].sum = wallet.riderAvailable
        /\ \A q \in Threads : q # t => thread'[q] = thread[q]
    <3>1. UNCHANGED <<payout, commission, wallet>>
      BY <1>7 DEF EarnRead, Money, Returned
    <3>2. PICK th : /\ thread' = [thread EXCEPT ![t] = th]
                    /\ th = [thread[t] EXCEPT !.pc = IF @ = "earn" THEN "earned" ELSE "credit",
                                              !.sum = wallet.riderAvailable]
      BY <1>7 DEF EarnRead
    <3>3. th.sum = wallet.riderAvailable
      BY <1>1, <3>2 DEF TypesOK, ThreadState
    <3> QED BY <1>1, <3>1, <3>2, <3>3 DEF TypesOK
  <2>2. RiderTotal' = RiderTotal
    BY <1>3, <2>1 DEF c, d, m, n
  <2> QED BY <2>1, <2>2 DEF RiderBound
<1>8. ASSUME NEW t \in Threads, Earn(t)
      PROVE  /\ wallet'.riderAvailable <= RiderTotal'
             /\ \A q \in Threads : thread'[q].pc \in Crediting => thread'[q].sum <= RiderTotal'
  <2>1. PICK o \in Orders : o = thread[t].o
    BY <1>8, HasOrder DEF Earn, At, MoneyInv
  <2>2. /\ commission' = [commission EXCEPT ![o] = @ + Commission] /\ payout' = payout
        /\ wallet' = [wallet EXCEPT !.riderAvailable = thread[t].sum + Commission]
        /\ thread[t].pc \in Crediting
    BY <1>8, <2>1 DEF Earn, At, Crediting
  <2>3. n = m + Commission
    <3>1. /\ commission \in [Orders -> Int] /\ commission' \in [Orders -> Int]
          /\ commission'[o] = commission[o] + Commission /\ commission[o] \in Int
          /\ \A q \in Orders : q # o => commission'[q] = commission[q]
          /\ DOMAIN commission = Orders /\ DOMAIN commission' = Orders
      BY <1>1, <2>2 DEF MoneyInv, TypesOK
    <3>2. SumFunctionOnSet(commission', Orders)
             = SumFunctionOnSet(commission, Orders) + (commission'[o] - commission[o])
      BY <3>1, OrdersAssumption, SumChanges
    <3>3. m = SumFunctionOnSet(commission, Orders) /\ n = SumFunctionOnSet(commission', Orders)
      BY <3>1 DEF m, n, SumFunction
    <3> QED BY <1>1, <1>2, <3>1, <3>2, <3>3
  <2>4. d = c
    BY <2>2 DEF c, d
  <2>5. RiderTotal' = RiderTotal + Commission
    BY <1>1, <1>2, <1>3, <2>3, <2>4
  <2>6. wallet'.riderAvailable = thread[t].sum + Commission
    BY <1>1, <2>2 DEF TypesOK, WalletInt
  <2>7. NobodyReads
    <3>1. Finish(t) \/ GotoLast(t, "close")
      BY <1>8 DEF Earn
    <3>2. "close" \notin Crediting
      BY DEF Crediting
    <3> QED BY <1>1, <3>1, <3>2, FinishReadsNot, GotoReadsNot
  <2>8. thread[t].sum <= RiderTotal
    BY <2>2 DEF RiderBound
  <2> QED BY <1>1, <1>2, <2>5, <2>6, <2>7, <2>8 DEF RiderBound, NobodyReads
<1> QED BY <1>6, <1>7, <1>8

LEMMA RiderBoundInit == Init => RiderBound
<1> SUFFICES ASSUME Init PROVE RiderBound
  OBVIOUS
<1>1. CountIn(payout, "DELIVERY_PARTNER", "COMPLETED") = 0
  <2>1. "DELIVERY_PARTNER" \in PayoutType
    BY DEF PayoutType
  <2>2. {o \in Orders : payout[o]["DELIVERY_PARTNER"] = "COMPLETED"} = {}
    BY <2>1 DEF Init
  <2> QED BY <2>2, FS_EmptySet DEF CountIn
<1>2. SumFunction(commission) = 0
  <2>1. DOMAIN commission = Orders /\ \A o \in Orders : commission[o] = 0
    BY DEF Init
  <2> QED BY <2>1, OrdersAssumption, NothingAdds DEF SumFunction
<1>3. RiderTotal = 0
  <2>1. RiderShare * 0 = 0
    BY AmountsAssumption
  <2> QED BY <1>1, <1>2, <2>1 DEF RiderTotal
<1>4. wallet.riderAvailable = 0 /\ \A t \in Threads : thread[t].pc \notin Crediting
  BY IdleTyped DEF Init, Crediting
<1> QED BY <1>3, <1>4 DEF RiderBound

WalletInv == Balances /\ RiderBound

LEMMA WalletsAdd == WalletInv => WalletsAddUp
BY DEF WalletInv, Balances, RiderBound, RiderTotal, WalletsAddUp, CountOf, CountIn

LEMMA WalletsAlways == Spec => [](MoneyInv /\ WalletInv)
<1>1. MoneyInv /\ WalletInv /\ [Next]_vars => MoneyInv' /\ WalletInv'
  BY MoneyNext, BalancesNext, RiderBoundNext DEF WalletInv
<1>2. Init => WalletInv
  BY BalancesInit, RiderBoundInit DEF WalletInv
<1> QED BY <1>1, <1>2, MoneyInit, PTL DEF Spec

\* Every balance is what the payouts say, and what a rider has available, though credits
\* and payouts may overwrite each other, no more than his payouts and his commissions.
THEOREM WalletsMatchPayouts == Spec => []WalletsAddUp
BY WalletsAlways, WalletsAdd, PTL

\* The types; that nothing pending is negative is what WalletsAddUp is needed for.
THEOREM SettlementTypeCorrect == Spec => []TypeOK
<1>1. MoneyInv /\ WalletInv => TypeOK
  <2> SUFFICES ASSUME MoneyInv, Balances PROVE TypeOK
    BY DEF WalletInv
  <2>1. \A k \in Nat, c \in Nat : k * c \in Nat
    OBVIOUS
  <2>2. wallet.sellerPending \in Nat /\ wallet.riderPending \in Nat
    <3>1. /\ wallet.sellerPending = SellerShare * CountIn(payout, "SELLER", "PENDING")
          /\ wallet.riderPending = RiderShare * CountIn(payout, "DELIVERY_PARTNER", "PENDING")
      BY DEF Balances, CountOf, CountIn
    <3>2. /\ CountIn(payout, "SELLER", "PENDING") \in Nat
          /\ CountIn(payout, "DELIVERY_PARTNER", "PENDING") \in Nat
      BY CountNat
    <3> QED BY <2>1, <3>1, <3>2, AmountsAssumption
  <2>3. wallet \in [sellerPending : Nat, sellerAvailable : Nat, riderPending : Nat,
                    riderAvailable : Nat, cashInHand : Int, admin : Nat]
    BY <2>2 DEF MoneyInv, TypesOK, WalletInt
  <2> QED BY <2>3 DEF MoneyInv, TypesOK, TypeOK
<1> QED BY <1>1, WalletsAlways, PTL
-----------------------------------------------------------------------------
(* Cash.  A step collects some for an order, hands some over, or leaves    *)
(* all of it where it is.  A submission that is under way has handed over  *)
(* what it has given so far; the statement and all that the submissions    *)
(* have given are together no more than the platform has received.         *)

Given(th) == IF th.pc = "submit" THEN th.sum - th.left ELSE 0

GivenNow == [t \in Threads |-> Given(thread[t])]

\* What the submissions have written in the statement.
Stated == statement - byHand

BackedInv ==
    /\ \A t \in Threads : Given(thread[t]) \in Nat
    /\ \A T \in SUBSET Threads :
           IsFiniteSet(T) =>
               Stated + SumFunctionOnSet(GivenNow, T) <= wallet.admin

CashInv == CashAddsUp /\ BackedInv

CashStays ==
    /\ \A o \in Orders :
          order'[o].collected = order[o].collected /\ order'[o].remitted = order[o].remitted
    /\ wallet'.cashInHand = wallet.cashInHand /\ wallet'.admin = wallet.admin

CashGoes ==
    CashStays \/ \E o \in Orders, amount \in Nat : Collects(o, amount)
                                                   \/ Reconciles(o, amount)

\* No submission gives, and none is stated.
NobodyGives == thread' = thread /\ Stated' = Stated /\ wallet'.admin >= wallet.admin

\* At most one submission gives, or is stated, and all it gives or states is received.
OneGives ==
    \E t \in Threads :
        /\ \A q \in Threads : q # t => thread'[q] = thread[q]
        /\ Given(thread'[t]) \in Nat
        /\ (Stated' + Given(thread'[t])) - (Stated + Given(thread[t]))
               <= wallet'.admin - wallet.admin

CashSafe == CashGoes /\ (NobodyGives \/ OneGives)

\* A step of the cash keeps the balances,
LEMMA CashNext ==
    ASSUME MoneyInv, CashAddsUp, CashGoes, MoneyInv' PROVE CashAddsUp'
<1> DEFINE P == [o \in Orders |-> Pending(order[o])]
           Q == [o \in Orders |-> Pending(order'[o])]
           R == [o \in Orders |-> order[o].remitted]
           S == [o \in Orders |-> order'[o].remitted]
<1>1. /\ \A o \in Orders : order[o] \in OrderDoc /\ order'[o] \in OrderDoc
      /\ wallet \in WalletInt
  BY DEF MoneyInv, TypesOK
<1>2. /\ P \in [Orders -> Int] /\ Q \in [Orders -> Int]
      /\ R \in [Orders -> Int] /\ S \in [Orders -> Int]
  BY <1>1 DEF OrderDoc, Pending
<1>3. wallet.cashInHand = SumFunctionOnSet(P, Orders) /\ wallet.admin = SumFunctionOnSet(R, Orders)
  BY DEF CashAddsUp, SumFunction
<1>4. SUFFICES wallet'.cashInHand = SumFunctionOnSet(Q, Orders)
               /\ wallet'.admin = SumFunctionOnSet(S, Orders)
  <2>1. \A o \in Orders : order'[o].remitted <= order'[o].collected
    BY DEF MoneyInv, DocsOK, DocOK
  <2> QED BY <1>4, <2>1 DEF CashAddsUp, SumFunction
<1>5. CASE CashStays
  <2>1. P = Q /\ R = S
    BY <1>5 DEF CashStays, Pending
  <2> QED BY <1>3, <1>5, <2>1 DEF CashStays
<1>6. ASSUME NEW o \in Orders, NEW amount \in Nat, Collects(o, amount) \/ Reconciles(o, amount)
      PROVE  wallet'.cashInHand = SumFunctionOnSet(Q, Orders)
             /\ wallet'.admin = SumFunctionOnSet(S, Orders)
  <2>1. \A q \in Orders : q # o => Q[q] = P[q] /\ S[q] = R[q]
    BY <1>6 DEF Collects, Reconciles, MoneyInv, TypesOK
  <2>2. /\ wallet'.cashInHand = wallet.cashInHand + (Q[o] - P[o])
        /\ wallet'.admin = wallet.admin + (S[o] - R[o])
    <3>1. order[o] \in OrderDoc /\ order[o].collected \in Nat /\ order[o].remitted \in Nat
          /\ wallet.cashInHand \in Int /\ wallet.admin \in Nat
      BY <1>1 DEF OrderDoc, WalletInt
    <3>2. CASE Collects(o, amount)
      <4>1. /\ order'[o].collected = order[o].collected + amount
            /\ order'[o].remitted = order[o].remitted
        BY <3>1, <3>2 DEF Collects, MoneyInv, TypesOK, OrderDoc
      <4>2. wallet'.cashInHand = wallet.cashInHand + amount /\ wallet'.admin = wallet.admin
        BY <1>1, <3>2 DEF Collects, WalletInt
      <4> QED BY <3>1, <4>1, <4>2 DEF Pending
    <3>3. CASE Reconciles(o, amount)
      <4>1. /\ order'[o].remitted = order[o].remitted + amount
            /\ order'[o].collected = order[o].collected
        BY <3>1, <3>3 DEF Reconciles, MoneyInv, TypesOK, OrderDoc
      <4>2. wallet'.cashInHand = wallet.cashInHand - amount
            /\ wallet'.admin = wallet.admin + amount
        BY <1>1, <3>3 DEF Reconciles, WalletInt
      <4> QED BY <3>1, <4>1, <4>2 DEF Pending
    <3> QED BY <1>6, <3>2, <3>3
  <2> HIDE DEF P, Q, R, S
  <2>3. SumFunctionOnSet(Q, Orders) = SumFunctionOnSet(P, Orders) + (Q[o] - P[o])
    BY <1>2, <2>1, OrdersAssumption, SumChanges
  <2>4. SumFunctionOnSet(S, Orders) = SumFunctionOnSet(R, Orders) + (S[o] - R[o])
    BY <1>2, <2>1, OrdersAssumption, SumChanges
  <2> QED BY <1>3, <2>2, <2>3, <2>4
<1> QED BY <1>5, <1>6 DEF CashGoes

\* and what is stated stays covered.
LEMMA BackedNext ==
    ASSUME MoneyInv, MoneyInv', BackedInv, NobodyGives \/ OneGives PROVE BackedInv'
<1>1. /\ wallet.admin \in Int /\ wallet'.admin \in Int
      /\ Stated \in Int /\ Stated' \in Int
  BY DEF MoneyInv, TypesOK, WalletInt, Stated
<1>2. \A t \in Threads : Given(thread[t]) \in Nat
  BY DEF BackedInv, Stated
<1>3. \A T \in SUBSET Threads :
         IsFiniteSet(T) => /\ SumFunctionOnSet(GivenNow, T) \in Int
                           /\ Stated + SumFunctionOnSet(GivenNow, T) <= wallet.admin
  <2> SUFFICES ASSUME NEW T \in SUBSET Threads, IsFiniteSet(T)
               PROVE  SumFunctionOnSet(GivenNow, T) \in Int
    BY DEF BackedInv, Stated
  <2>1. \A t \in T : GivenNow[t] \in Int
    BY <1>2 DEF GivenNow
  <2> QED BY <2>1, SumType
<1>4. CASE NobodyGives
  <2>1. GivenNow' = GivenNow /\ \A t \in Threads : Given(thread'[t]) = Given(thread[t])
    BY <1>4 DEF NobodyGives, GivenNow
  <2>2. \A T \in SUBSET Threads :
           IsFiniteSet(T) => Stated' + SumFunctionOnSet(GivenNow', T) <= wallet'.admin
    BY <1>1, <1>3, <1>4, <2>1 DEF NobodyGives
  <2> QED BY <1>2, <2>1, <2>2 DEF BackedInv, Stated, Given
<1>5. CASE OneGives
  <2>1. PICK t \in Threads :
           /\ \A q \in Threads : q # t => thread'[q] = thread[q]
           /\ Given(thread'[t]) \in Nat
           /\ (Stated' + Given(thread'[t])) - (Stated + Given(thread[t]))
                  <= wallet'.admin - wallet.admin
    BY <1>5 DEF OneGives
  <2>2. \A q \in Threads : Given(thread'[q]) \in Nat
    BY <1>2, <2>1
  <2>3. ASSUME NEW T \in SUBSET Threads, IsFiniteSet(T)
        PROVE  Stated' + SumFunctionOnSet(GivenNow', T) <= wallet'.admin
    <3> DEFINE R == T \ {t}
               U == R \cup {t}
    <3>1. IsFiniteSet(R) /\ IsFiniteSet(U) /\ R \in SUBSET Threads /\ U \in SUBSET Threads
      BY <2>3, FS_RemoveElement, FS_AddElement
    <3>2. SumFunctionOnSet(GivenNow, U) = Given(thread[t]) + SumFunctionOnSet(GivenNow, R)
      <4>1. t \in U /\ U \ {t} = R /\ \A q \in U : GivenNow[q] \in Int
        BY <1>2 DEF GivenNow
      <4>2. GivenNow[t] = Given(thread[t])
        BY DEF GivenNow
      <4> HIDE DEF R, U
      <4>3. SumFunctionOnSet(GivenNow, U) = GivenNow[t] + SumFunctionOnSet(GivenNow, U \ {t})
        BY <3>1, <4>1, SumSplit
      <4> QED BY <4>1, <4>2, <4>3
    <3>3. SumFunctionOnSet(GivenNow', R) = SumFunctionOnSet(GivenNow, R)
      <4>1. \A q \in R : GivenNow'[q] = GivenNow[q]
        BY <2>1 DEF GivenNow
      <4> HIDE DEF R
      <4> QED BY <3>1, <4>1, SumCong
    <3>4. SumFunctionOnSet(GivenNow', T) =
             IF t \in T THEN Given(thread'[t]) + SumFunctionOnSet(GivenNow', R)
             ELSE SumFunctionOnSet(GivenNow', R)
      <4>1. CASE t \in T
        <5>1. \A q \in T : GivenNow'[q] \in Int
          BY <2>2 DEF GivenNow
        <5>2. GivenNow'[t] = Given(thread'[t])
          BY DEF GivenNow
        <5>3. SumFunctionOnSet(GivenNow', T) = GivenNow'[t] + SumFunctionOnSet(GivenNow', T \ {t})
          BY <2>3, <4>1, <5>1, SumSplit
        <5> QED BY <4>1, <5>2, <5>3
      <4>2. CASE t \notin T
        BY <4>2, T = R
      <4> QED BY <4>1, <4>2
    <3>5. /\ Stated + SumFunctionOnSet(GivenNow, U) <= wallet.admin
          /\ SumFunctionOnSet(GivenNow, R) \in Int
      BY <1>3, <3>1
    <3> HIDE DEF R, U
    <3> QED BY <1>1, <1>2, <2>1, <3>2, <3>3, <3>4, <3>5
  <2> QED BY <2>2, <2>3 DEF BackedInv, Stated, Given
<1> QED BY <1>4, <1>5

\* A handler that does not submit, from now on.
Leaves(t) ==
    (\A q \in Threads : q # t => thread'[q] = thread[q]) /\ Given(thread'[t]) = 0

LEMMA LeavesSafely ==
    ASSUME MoneyInv, BackedInv, NEW t \in Threads, Leaves(t), CashStays, UNCHANGED Lines
    PROVE  CashSafe
<1>1. /\ wallet.admin \in Nat /\ Stated \in Int /\ Given(thread[t]) \in Nat
      /\ Stated' = Stated
  BY DEF MoneyInv, TypesOK, WalletInt, BackedInv, Stated, Lines
<1>2. OneGives
  BY <1>1 DEF Leaves, OneGives, CashStays
<1> QED BY <1>2 DEF CashSafe, CashGoes

LEMMA TurnsTo ==
    ASSUME TypesOK, NEW t \in Threads, NEW th, th.pc # "submit",
           thread' = [thread EXCEPT ![t] = th]
    PROVE  Leaves(t)
BY DEF TypesOK, Leaves, Given

LEMMA FinishLeaves == ASSUME TypesOK, NEW t \in Threads, Finish(t) PROVE Leaves(t)
BY IdleTyped, TurnsTo DEF Finish

LEMMA GotoLeaves ==
    ASSUME TypesOK, NEW t \in Threads, NEW pc, pc # "submit", Goto(t, pc) PROVE Leaves(t)
<1>1. [thread[t] EXCEPT !.pc = pc].pc = pc
  BY DEF TypesOK, ThreadState
<1> QED BY <1>1, TurnsTo DEF Goto

LEMMA GotoLastLeaves ==
    ASSUME TypesOK, NEW t \in Threads, NEW pc, pc # "submit", GotoLast(t, pc) PROVE Leaves(t)
<1>1. [Idle EXCEPT !.pc = pc, !.o = thread[t].o].pc = pc
  BY IdleTyped DEF ThreadState
<1> QED BY <1>1, TurnsTo DEF GotoLast

LEMMA RemainingLeaves ==
    ASSUME TypesOK, NEW t \in Threads, NEW x, thread[t].pc # "submit", Remaining(t, x)
    PROVE  Leaves(t)
<1>1. [thread[t] EXCEPT !.rest = @ \ {x}].pc = thread[t].pc
  BY DEF TypesOK, ThreadState
<1>2. Idle.pc # "submit"
  BY IdleTyped
<1>3. CASE thread[t].rest = {x}
  BY <1>2, <1>3, TurnsTo DEF Remaining
<1>4. CASE thread[t].rest # {x}
  BY <1>1, <1>4, TurnsTo DEF Remaining
<1> QED BY <1>3, <1>4

LEMMA CashUntouched == ASSUME UNCHANGED <<order, wallet>> PROVE CashStays
BY DEF CashStays

\* A write to an order that leaves its cash alone.
LEMMA CashOfDoc ==
    ASSUME TypesOK, NEW o \in Orders, NEW d, order' = [order EXCEPT ![o] = d],
           d.collected = order[o].collected, d.remitted = order[o].remitted,
           wallet'.cashInHand = wallet.cashInHand, wallet'.admin = wallet.admin
    PROVE  CashStays
BY DEF TypesOK, CashStays

LEMMA CreateKeepsCash ==
    ASSUME TypesOK, order' = order, NEW o, NEW ty, CreatePayout(o, ty) PROVE CashStays
BY DEF TypesOK, WalletInt, CreatePayout, Credit, CashStays

LEMMA UnholdKeepsCash ==
    ASSUME TypesOK, NEW o \in Orders, Unhold(o), wallet' = wallet PROVE CashStays
<1>1. order[o] \in OrderDoc
  BY DEF TypesOK
<1>2. PICK d : d = [order[o] EXCEPT !.seller = "PENDING"]
  OBVIOUS
<1>3. d.collected = order[o].collected /\ d.remitted = order[o].remitted
  BY <1>1, <1>2 DEF OrderDoc
<1> QED BY <1>2, <1>3, CashOfDoc DEF Unhold

LEMMA ProcessKeepsCash ==
    ASSUME TypesOK, NEW o \in Orders, NEW ty, Process(o, ty) PROVE CashStays
<1>1. order[o] \in OrderDoc
  BY DEF TypesOK
<1>2. CASE payout[o][ty] # "PENDING"
  BY <1>2, CashUntouched DEF Process
<1>3. CASE payout[o][ty] = "PENDING"
  <2>1. wallet'.cashInHand = wallet.cashInHand /\ wallet'.admin = wallet.admin
    <3>1. wallet \in WalletInt
      BY DEF TypesOK
    <3>2. \/ wallet' = [wallet EXCEPT !.sellerPending = @ - SellerShare,
                                     !.sellerAvailable = @ + SellerShare]
          \/ wallet' = [wallet EXCEPT !.riderPending = @ - RiderShare,
                                     !.riderAvailable = @ + RiderShare]
      BY <1>3 DEF Process, Processes
    <3> QED BY <3>1, <3>2 DEF WalletInt
  <2>2. PICK d : d = IF ty = "SELLER" THEN [order[o] EXCEPT !.seller = "COMPLETED",
                                                            !.sellerQueued = TRUE]
                     ELSE [order[o] EXCEPT !.riderQueued = TRUE]
    OBVIOUS
  <2>3. d.collected = order[o].collected /\ d.remitted = order[o].remitted
    BY <1>1, <2>2 DEF OrderDoc
  <2>4. order' = [order EXCEPT ![o] = d]
    BY <1>3, <2>2 DEF Process, Processes
  <2> QED BY <2>1, <2>3, <2>4, CashOfDoc
<1> QED BY <1>2, <1>3

LEMMA SettlingGives ==
    ASSUME MoneyInv, BackedInv, NEW t \in Threads, Settling(t) PROVE CashSafe
<1>0. TypesOK
  BY DEF MoneyInv
<1>1. CASE SettleRead(t)
  <2> DEFINE th == [thread[t] EXCEPT !.pc = "seller", !.snap = order[thread[t].o],
                                     !.hold = ~expired[thread[t].o]]
  <2>1. th.pc = "seller"
    BY <1>0 DEF TypesOK, ThreadState
  <2>2. Finish(t) \/ Goto(t, "collect") \/ thread' = [thread EXCEPT ![t] = th]
    BY <1>1 DEF SettleRead
  <2> HIDE DEF th
  <2>3. Leaves(t)
    BY <1>0, <2>1, <2>2, FinishLeaves, GotoLeaves, TurnsTo
  <2>4. UNCHANGED Lines /\ UNCHANGED <<order, wallet>>
    BY <1>1 DEF SettleRead, Money
  <2> QED BY <2>3, <2>4, CashUntouched, LeavesSafely
<1>2. CASE QueueSeller(t) \/ QueueRider(t)
  <2>1. Leaves(t)
    BY <1>0, <1>2, FinishLeaves, GotoLeaves DEF QueueSeller, QueueRider
  <2>2. UNCHANGED Lines /\ order' = order
    BY <1>2 DEF QueueSeller, QueueRider
  <2>3. \/ wallet' = wallet
        \/ CreatePayout(thread[t].o, "SELLER") \/ CreatePayout(thread[t].o, "DELIVERY_PARTNER")
    BY <1>2 DEF QueueSeller, QueueRider
  <2>4. CashStays
    BY <1>0, <2>2, <2>3, CashUntouched, CreateKeepsCash
  <2> QED BY <2>1, <2>2, <2>4, LeavesSafely
<1>3. CASE SettleCommit(t)
  <2> DEFINE o == thread[t].o
  <2>1. Leaves(t) /\ UNCHANGED Lines /\ wallet' = wallet
    BY <1>0, <1>3, FinishLeaves, GotoLastLeaves DEF SettleCommit
  <2>2. o \in Orders /\ order[o] \in OrderDoc
    BY <1>3, HasOrder DEF SettleCommit, At, MoneyInv, TypesOK
  <2>3. CASE order[o] = thread[t].snap
    <3>1. PICK d : d = Settled(order[o], thread[t].hold)
      OBVIOUS
    <3>2. d.collected = order[o].collected /\ d.remitted = order[o].remitted
      BY <2>2, <3>1 DEF Settled, OrderDoc
    <3>3. order' = [order EXCEPT ![o] = d]
      BY <1>3, <2>3, <3>1 DEF SettleCommit
    <3> QED BY <1>0, <2>1, <2>2, <3>2, <3>3, CashOfDoc, LeavesSafely
  <2>4. CASE order[o] # thread[t].snap
    BY <1>3, <2>1, <2>4, CashUntouched, LeavesSafely DEF SettleCommit
  <2> QED BY <2>3, <2>4
<1>4. CASE CodCollect(t)
  <2> DEFINE o == thread[t].o
  <2>1. Leaves(t) /\ UNCHANGED Lines
    BY <1>0, <1>4, FinishLeaves DEF CodCollect
  <2>2. o \in Orders
    BY <1>4, HasOrder DEF CodCollect, At, MoneyInv
  <2>3. CASE UNCHANGED <<order, wallet>>
    BY <2>1, <2>3, CashUntouched, LeavesSafely
  <2>4. ASSUME NEW net \in Nets, Collects(o, net) PROVE CashSafe
    <3>1. net \in Nat
      BY AmountsAssumption
    <3>2. wallet'.admin = wallet.admin /\ wallet.admin \in Nat
      BY <1>0, <2>4 DEF Collects, TypesOK, WalletInt
    <3>3. Stated \in Int /\ Stated' = Stated /\ Given(thread[t]) \in Nat
      BY <1>0, <2>1 DEF TypesOK, BackedInv, Stated, Lines
    <3>4. OneGives
      BY <2>1, <3>2, <3>3 DEF Leaves, OneGives
    <3> QED BY <2>2, <2>4, <3>1, <3>4 DEF CashSafe, CashGoes
  <2> QED BY <1>4, <2>3, <2>4 DEF CodCollect
<1> QED BY <1>1, <1>2, <1>3, <1>4 DEF Settling

LEMMA SubmittingGives ==
    ASSUME MoneyInv, BackedInv, NEW t \in Threads, Submitting(t) PROVE CashSafe
<1>0. TypesOK
  BY DEF MoneyInv
<1>1. /\ thread[t].left \in Nat /\ thread[t].sum \in Nat
      /\ thread[t].due \in [Orders -> Nat] /\ thread[t] \in ThreadState
      /\ wallet.admin \in Nat /\ wallet.cashInHand \in Int
      /\ statement \in Nat /\ byHand \in Nat /\ Stated = statement - byHand
  BY <1>0 DEF TypesOK, ThreadState, WalletInt, Stated
<1>2. thread[t].pc = "submit"
  BY DEF Submitting, SubmitOne, SubmitEnd, At
<1>3. Given(thread[t]) = thread[t].sum - thread[t].left /\ Given(thread[t]) \in Nat
  BY <1>2 DEF Given, BackedInv
<1>4. CASE SubmitEnd(t)
  <2>1. Leaves(t) /\ UNCHANGED <<order, wallet>>
    BY <1>0, <1>4, FinishLeaves DEF SubmitEnd
  <2>2. /\ thread[t].left = 0 /\ statement' = statement + thread[t].sum
        /\ Stated' = statement' - byHand /\ wallet' = wallet
    BY <1>4 DEF SubmitEnd, Stated
  <2>3. Given(thread'[t]) = 0 /\ \A q \in Threads : q # t => thread'[q] = thread[q]
    BY <2>1 DEF Leaves
  <2>4. (Stated' + 0) - (Stated + Given(thread[t])) <= wallet'.admin - wallet.admin
    <3>1. PICK sum \in Nat, was \in Int :
             sum = thread[t].sum /\ was = Stated /\ sum = Given(thread[t])
      BY <1>1, <1>3, <2>2
    <3>2. Stated' = was + sum
      BY <1>1, <2>2, <3>1
    <3>3. wallet'.admin - wallet.admin = 0
      BY <1>1, <2>2
    <3>4. (Stated' + 0) - (Stated + Given(thread[t])) = ((was + sum) + 0) - (was + sum)
      BY <3>1, <3>2
    <3> QED BY <3>3, <3>4
  <2>5. OneGives
    BY <2>3, <2>4 DEF OneGives
  <2> QED BY <2>1, <2>5, CashUntouched DEF CashSafe, CashGoes
<1>5. ASSUME NEW o \in Orders, SubmitOne(t, o) PROVE CashSafe
  <2> DEFINE amount == Lesser(thread[t].due[o], thread[t].left)
  <2>1. amount \in Nat /\ amount <= thread[t].left
    BY <1>1 DEF Lesser
  <2>2. UNCHANGED Lines /\ Stated' = Stated
    BY <1>5 DEF SubmitOne, Lines, Stated
  <2>3. CASE amount <= Pending(order[o])
    <3>1. PICK new : new = [thread[t] EXCEPT !.due[o] = 0, !.left = @ - amount]
      OBVIOUS
    <3>2. thread' = [thread EXCEPT ![t] = new] /\ Reconciles(o, amount)
      BY <1>5, <2>3, <3>1 DEF SubmitOne
    <3> HIDE DEF amount
    <3>3. new.pc = "submit" /\ new.sum = thread[t].sum /\ new.left = thread[t].left - amount
      BY <1>1, <1>2, <3>1 DEF ThreadState
    <3>4. thread'[t] = new /\ \A q \in Threads : q # t => thread'[q] = thread[q]
      BY <1>0, <3>2 DEF TypesOK
    <3>5. Given(thread'[t]) = Given(thread[t]) + amount
      BY <1>1, <1>3, <2>1, <3>3, <3>4 DEF Given
    <3>6. wallet'.admin = wallet.admin + amount
      BY <1>0, <3>2 DEF Reconciles, TypesOK, WalletInt
    <3>7. OneGives
      BY <1>1, <1>3, <2>1, <2>2, <3>4, <3>5, <3>6 DEF OneGives
    <3> QED BY <2>1, <3>2, <3>7 DEF CashSafe, CashGoes
  <2>4. CASE ~(amount <= Pending(order[o]))
    <3>1. Finish(t) /\ UNCHANGED <<order, wallet>>
      BY <1>5, <2>4 DEF SubmitOne
    <3> QED BY <1>0, <2>2, <3>1, FinishLeaves, CashUntouched, LeavesSafely
  <2> QED BY <2>3, <2>4
<1> QED BY <1>4, <1>5 DEF Submitting

LEMMA PayingGives ==
    ASSUME MoneyInv, BackedInv, NEW t \in Threads, Paying(t) PROVE CashSafe
<1>0. TypesOK
  BY DEF MoneyInv
<1>1. ASSUME NEW x \in thread[t].rest, BatchOne(t, x) PROVE CashSafe
  <2>1. x[1] \in Orders
    BY <1>0 DEF TypesOK, ThreadState
  <2>2. Process(x[1], x[2]) /\ UNCHANGED Lines
    BY <1>1 DEF BatchOne
  <2>3. Leaves(t)
    BY <1>0, <1>1, RemainingLeaves DEF BatchOne, At
  <2> QED BY <1>0, <2>1, <2>2, <2>3, ProcessKeepsCash, LeavesSafely
<1>2. ASSUME NEW x \in thread[t].rest, ReleaseFind(t, x) PROVE CashSafe
  <2>1. UNCHANGED Lines /\ UNCHANGED <<order, wallet>>
    BY <1>2 DEF ReleaseFind, Money
  <2> DEFINE th == [thread[t] EXCEPT !.pc = "release", !.o = x[1]]
  <2>2. th.pc = "release"
    BY <1>0 DEF TypesOK, ThreadState
  <2>3. Remaining(t, x) \/ thread' = [thread EXCEPT ![t] = th]
    BY <1>2 DEF ReleaseFind
  <2> HIDE DEF th
  <2>4. Leaves(t)
    BY <1>0, <1>2, <2>2, <2>3, RemainingLeaves, TurnsTo DEF ReleaseFind, At
  <2> QED BY <2>1, <2>4, CashUntouched, LeavesSafely
<1>3. CASE ReleaseDo(t)
  <2>1. PICK o \in Orders : o = thread[t].o
    BY <1>3, HasOrder DEF ReleaseDo, At, MoneyInv
  <2>2. UNCHANGED Lines /\ (Process(o, "SELLER") \/ (Unhold(o) /\ wallet' = wallet))
    BY <1>3, <2>1 DEF ReleaseDo
  <2>3. CashStays
    BY <1>0, <2>2, ProcessKeepsCash, UnholdKeepsCash
  <2> DEFINE th == [Idle EXCEPT !.pc = "holds", !.rest = thread[t].rest \ {<<o, "SELLER">>}]
  <2>4. th.pc = "holds" /\ Idle.pc = "idle"
    BY IdleTyped DEF ThreadState
  <2>5. thread' = [thread EXCEPT ![t] = Idle] \/ thread' = [thread EXCEPT ![t] = th]
    BY <1>3, <2>1 DEF ReleaseDo
  <2> HIDE DEF th
  <2>6. Leaves(t)
    BY <1>0, <2>4, <2>5, TurnsTo
  <2> QED BY <2>2, <2>3, <2>6, LeavesSafely
<1> QED BY <1>1, <1>2, <1>3 DEF Paying

\* Steps of a return that write the order.
LEMMA ReturnKeepsCash ==
    ASSUME TypesOK, NEW o \in Orders, wallet' = wallet, NEW s,
           \/ order' = [order EXCEPT ![o].ret = s]
           \/ order' = [order EXCEPT ![o].seller = s]
           \/ order' = [order EXCEPT ![o].captured = s]
           \/ order' = [order EXCEPT ![o].delivered = s]
    PROVE  CashStays
<1>1. order[o] \in OrderDoc
  BY DEF TypesOK
<1>2. PICK d : /\ order' = [order EXCEPT ![o] = d]
               /\ \/ d = [order[o] EXCEPT !.ret = s]
                  \/ d = [order[o] EXCEPT !.seller = s]
                  \/ d = [order[o] EXCEPT !.captured = s]
                  \/ d = [order[o] EXCEPT !.delivered = s]
  OBVIOUS
<1>3. d.collected = order[o].collected /\ d.remitted = order[o].remitted
  BY <1>1, <1>2 DEF OrderDoc
<1> QED BY <1>2, <1>3, CashOfDoc

LEMMA RefundingGives ==
    ASSUME MoneyInv, BackedInv, NEW t \in Threads, Refunding(t) PROVE CashSafe
<1>0. TypesOK
  BY DEF MoneyInv
<1>o. thread[t].o \in Orders /\ Idle.pc = "idle"
  BY HasOrder, IdleTyped DEF Refunding, QcRelease, RefundCustomer, Recover, Debit, EarnRead,
                             Earn, EarnNothing, MarkCancelled, CloseReturn, At, MoneyInv
<1>1. CASE QcRelease(t)
  <2>1. PICK o \in Orders : o = thread[t].o
    BY <1>o
  <2>2. UNCHANGED Lines /\ (Process(o, "SELLER") \/ (Unhold(o) /\ wallet' = wallet))
    BY <1>1, <2>1 DEF QcRelease
  <2>3. CashStays /\ Leaves(t)
    BY <1>0, <1>1, <2>2, ProcessKeepsCash, UnholdKeepsCash, FinishLeaves DEF QcRelease
  <2> QED BY <2>2, <2>3, LeavesSafely
<1>2. CASE RefundCustomer(t)
  <2>1. Leaves(t) /\ UNCHANGED Lines /\ UNCHANGED <<order, wallet>>
    BY <1>0, <1>2, GotoLeaves DEF RefundCustomer
  <2> QED BY <2>1, CashUntouched, LeavesSafely
<1>3. CASE Recover(t)
  <2> DEFINE th == [Idle EXCEPT !.pc = "commission", !.o = thread[t].o]
             tg == [Idle EXCEPT !.pc = "debit", !.o = thread[t].o, !.sum = wallet.sellerAvailable]
  <2>1. th.pc = "commission" /\ tg.pc = "debit"
    BY IdleTyped DEF ThreadState
  <2>2. \/ GotoLast(t, "unhold") \/ GotoLast(t, "commission")
        \/ thread' = [thread EXCEPT ![t] = th] \/ thread' = [thread EXCEPT ![t] = tg]
    BY <1>3 DEF Recover
  <2> HIDE DEF th, tg
  <2>3. Leaves(t)
    BY <1>0, <2>1, <2>2, GotoLastLeaves, TurnsTo
  <2>4. \/ wallet' = wallet
        \/ wallet' = [wallet EXCEPT !.sellerPending = @ - SellerShare]
    BY <1>3 DEF Recover
  <2>5. UNCHANGED Lines /\ order' = order
    BY <1>3 DEF Recover
  <2>6. CashStays
    BY <1>0, <2>4, <2>5 DEF CashStays, TypesOK, WalletInt
  <2> QED BY <2>3, <2>5, <2>6, LeavesSafely
<1>4. CASE Debit(t)
  <2>1. Leaves(t) /\ UNCHANGED Lines /\ order' = order
    BY <1>0, <1>4, GotoLastLeaves DEF Debit
  <2>2. CashStays
    BY <1>0, <1>4, <2>1 DEF Debit, CashStays, TypesOK, WalletInt
  <2> QED BY <2>1, <2>2, LeavesSafely
<1>5. CASE MarkCancelled(t)
  <2>1. Leaves(t) /\ UNCHANGED Lines /\ wallet' = wallet
    BY <1>0, <1>5, GotoLastLeaves DEF MarkCancelled, Money
  <2>2. CashStays
    BY <1>0, <1>o, <1>5, <2>1, ReturnKeepsCash DEF MarkCancelled
  <2> QED BY <2>1, <2>2, LeavesSafely
<1>6. CASE CloseReturn(t)
  <2>1. Leaves(t) /\ UNCHANGED Lines /\ wallet' = wallet
    BY <1>0, <1>6, FinishLeaves DEF CloseReturn, Money
  <2>2. CashStays
    BY <1>0, <1>o, <1>6, <2>1, ReturnKeepsCash DEF CloseReturn
  <2> QED BY <2>1, <2>2, LeavesSafely
<1>7. CASE EarnNothing(t)
  <2>1. Leaves(t) /\ UNCHANGED Lines /\ UNCHANGED <<order, wallet>>
    BY <1>0, <1>7, GotoLastLeaves DEF EarnNothing, Money
  <2> QED BY <2>1, CashUntouched, LeavesSafely
<1>8. CASE EarnRead(t)
  <2>1. UNCHANGED Lines /\ UNCHANGED <<order, wallet>>
    BY <1>8 DEF EarnRead, Money
  <2>2. PICK pc : pc = IF thread[t].pc = "earn" THEN "earned" ELSE "credit"
    OBVIOUS
  <2>3. PICK th : th = [thread[t] EXCEPT !.pc = pc, !.sum = wallet.riderAvailable]
    OBVIOUS
  <2>4. th.pc = pc
    BY <1>0, <2>3 DEF TypesOK, ThreadState
  <2>5. thread' = [thread EXCEPT ![t] = th]
    BY <1>0, <1>8, <2>2, <2>3 DEF EarnRead, TypesOK, ThreadState
  <2>6. pc # "submit"
    BY <2>2
  <2>7. Leaves(t)
    BY <1>0, <2>4, <2>5, <2>6, TurnsTo
  <2> QED BY <2>1, <2>7, CashUntouched, LeavesSafely
<1>9. CASE Earn(t)
  <2>1. UNCHANGED Lines /\ order' = order
    BY <1>9 DEF Earn
  <2>2. Leaves(t)
    BY <1>0, <1>9, FinishLeaves, GotoLastLeaves DEF Earn
  <2>3. CashStays
    BY <1>0, <1>9, <2>1 DEF Earn, CashStays, TypesOK, WalletInt
  <2> QED BY <2>1, <2>2, <2>3, LeavesSafely
<1> QED BY <1>1, <1>2, <1>3, <1>4, <1>5, <1>6, <1>7, <1>8, <1>9 DEF Refunding

\* The saves of the other handlers of a return.
LEMMA ReturningGives ==
    ASSUME MoneyInv, BackedInv, NEW t \in Threads, Returning(t) PROVE CashSafe
<1>0. TypesOK
  BY DEF MoneyInv
<1>1. thread[t].o \in Orders
  BY HasOrder DEF Returning, SaveRequest, SaveRejection, SaveFailed, SavePassed, At, MoneyInv
<1>2. PICK ret : Saves(t, ret)
  BY DEF Returning, SaveRequest, SaveRejection, SaveFailed, SavePassed
<1>3. UNCHANGED Lines /\ wallet' = wallet
  BY <1>2 DEF Saves, Money
<1>4. CashStays
  BY <1>0, <1>1, <1>2, <1>3, ReturnKeepsCash DEF Saves
<1>5. Leaves(t)
  BY <1>0, FinishLeaves, GotoLeaves, GotoLastLeaves
     DEF Returning, SaveRequest, SaveRejection, SaveFailed, SavePassed
<1> QED BY <1>3, <1>4, <1>5, LeavesSafely

LEMMA ArrivingGives ==
    ASSUME MoneyInv, BackedInv, NEW t \in Threads, Arrives(t) PROVE CashSafe
<1>0. TypesOK
  BY DEF MoneyInv
<1>1. ASSUME NEW o \in Orders, NEW pc, NEW snap, pc # "submit",
             Start(t, [Idle EXCEPT !.pc = pc, !.o = o])
             \/ Start(t, [Idle EXCEPT !.pc = pc, !.o = o, !.snap = snap])
      PROVE  Leaves(t)
  <2> DEFINE th == [Idle EXCEPT !.pc = pc, !.o = o]
             tg == [Idle EXCEPT !.pc = pc, !.o = o, !.snap = snap]
  <2>1. th.pc = pc /\ tg.pc = pc
    BY IdleTyped DEF ThreadState
  <2>2. thread' = [thread EXCEPT ![t] = th] \/ thread' = [thread EXCEPT ![t] = tg]
    BY <1>1 DEF Start
  <2> HIDE DEF th, tg
  <2> QED BY <1>0, <1>1, <2>1, <2>2, TurnsTo
<1>2. ASSUME NEW o \in Orders, Deliver(t, o) PROVE CashSafe
  <2>1. Leaves(t) /\ UNCHANGED Lines
    BY <1>1, <1>2 DEF Deliver, Money
  <2>2. CashStays
    BY <1>0, <1>2, ReturnKeepsCash DEF Deliver, Money
  <2> QED BY <2>1, <2>2, LeavesSafely
<1>3. ASSUME NEW o \in Orders, SettleAgain(t, o) PROVE CashSafe
  <2>1. Leaves(t) /\ UNCHANGED Lines /\ UNCHANGED <<order, wallet>>
    BY <1>1, <1>3 DEF SettleAgain, Money
  <2> QED BY <2>1, CashUntouched, LeavesSafely
<1>4. ASSUME NEW o \in Orders, RequestReturn(t, o) \/ RejectReturn(t, o) \/ QcFail(t, o)
                                \/ QcPass(t, o)
      PROVE  CashSafe
  <2>1. PICK pc \in {"request", "reject", "fail", "pass"} : Decide(t, o, pc)
    BY <1>4 DEF RequestReturn, RejectReturn, QcFail, QcPass
  <2>2. Leaves(t)
    BY <1>1, <2>1 DEF Decide
  <2>3. UNCHANGED Lines /\ UNCHANGED <<order, wallet>>
    BY <2>1 DEF Decide, Money
  <2> QED BY <2>2, <2>3, CashUntouched, LeavesSafely
<1>p. ASSUME NEW o \in Orders, PickUp(t, o) PROVE CashSafe
  <2>1. Leaves(t) /\ UNCHANGED Lines
    BY <1>1, <1>p DEF PickUp, Money
  <2>2. CashStays
    BY <1>0, <1>p, ReturnKeepsCash DEF PickUp, Money
  <2> QED BY <2>1, <2>2, LeavesSafely
<1>5. ASSUME NEW amount \in 1 .. wallet.cashInHand, SubmitRead(t, amount) PROVE CashSafe
  <2>1. UNCHANGED Lines /\ UNCHANGED <<order, wallet>>
    BY <1>5 DEF SubmitRead, Money
  <2> DEFINE due == [q \in Orders |-> Owed(q)]
             th == [Idle EXCEPT !.pc = "submit", !.due = due, !.left = amount, !.sum = amount]
  <2>2. thread' = [thread EXCEPT ![t] = th]
    BY <1>5 DEF SubmitRead, Start
  <2>3. th.sum = amount /\ th.left = amount
    BY IdleTyped DEF ThreadState
  <2>4. amount \in Int
    BY <1>0 DEF TypesOK, WalletInt
  <2> HIDE DEF th
  <2>5. Given(th) = 0
    BY <2>3, <2>4 DEF Given
  <2>6. Leaves(t)
    BY <1>0, <2>2, <2>5 DEF Leaves, TypesOK
  <2> QED BY <2>1, <2>6, CashUntouched, LeavesSafely
<1> QED BY <1>2, <1>3, <1>4, <1>p, <1>5 DEF Arrives

LEMMA StartingGives ==
    ASSUME MoneyInv, BackedInv, NEW t \in Threads, JobStarts(t) PROVE CashSafe
<1>1. UNCHANGED Lines /\ UNCHANGED <<order, wallet>>
  BY DEF JobStarts, BatchRead, ReleaseRead, Money
<1>2. PICK pc \in {"batch", "holds"} :
         \E list : thread' = [thread EXCEPT ![t] = [Idle EXCEPT !.pc = pc, !.rest = list]]
  <2>1. CASE BatchRead(t)
    BY <2>1 DEF BatchRead, Start
  <2>2. CASE ReleaseRead(t)
    BY <2>2 DEF ReleaseRead, Start
  <2> QED BY <2>1, <2>2 DEF JobStarts
<1>3. \A list : [Idle EXCEPT !.pc = pc, !.rest = list].pc = pc
  BY IdleTyped DEF ThreadState
<1>4. Leaves(t)
  BY <1>2, <1>3, TurnsTo DEF MoneyInv
<1> QED BY <1>1, <1>4, CashUntouched, LeavesSafely

LEMMA ElsewhereGives ==
    ASSUME MoneyInv, BackedInv, NEW o \in Orders, Elsewhere(o) PROVE CashSafe
<1>1. TypesOK /\ wallet.admin \in Nat
  BY DEF MoneyInv, TypesOK, WalletInt
<1>2. thread' = thread /\ Stated' = Stated
  BY DEF Elsewhere, Capture, WindowCloses, MarkCollected, Reconcile, Money, Lines, Stated
<1>3. CASE WindowCloses(o)
  BY <1>1, <1>2, <1>3, CashUntouched DEF WindowCloses, Money, CashSafe, CashGoes, NobodyGives
<1>4. CASE Capture(o)
  <2>1. wallet' = wallet
    BY <1>4 DEF Capture, Money
  <2>2. CashStays
    BY <1>1, <1>4, <2>1, ReturnKeepsCash DEF Capture
  <2> QED BY <1>1, <1>2, <2>1, <2>2 DEF CashSafe, CashGoes, NobodyGives
<1>5. CASE MarkCollected(o)
  <2>1. PICK net \in Nets : Collects(o, net)
    BY <1>5 DEF MarkCollected
  <2>2. net \in Nat
    BY AmountsAssumption
  <2>3. wallet'.admin = wallet.admin
    BY <1>1, <2>1 DEF Collects, TypesOK, WalletInt
  <2> QED BY <1>1, <1>2, <2>1, <2>2, <2>3 DEF CashSafe, CashGoes, NobodyGives
<1>6. ASSUME NEW amount, Reconcile(o, amount) PROVE CashSafe
  <2>1. Pending(order[o]) \in Int
    BY DocKnown DEF Pending
  <2>2. amount \in Nat /\ Reconciles(o, amount)
    BY <1>6, <2>1 DEF Reconcile
  <2>3. wallet'.admin = wallet.admin + amount
    BY <1>1, <2>2 DEF Reconciles, TypesOK, WalletInt
  <2> QED BY <1>1, <1>2, <2>2, <2>3 DEF CashSafe, CashGoes, NobodyGives
<1> QED BY <1>3, <1>4, <1>5, <1>6 DEF Elsewhere

LEMMA StepGives == ASSUME MoneyInv, BackedInv, [Next]_vars PROVE CashSafe
<1>1. ASSUME NEW t \in Threads, Continue(t) PROVE CashSafe
  BY <1>1, SettlingGives, SubmittingGives, PayingGives, ReturningGives, RefundingGives
     DEF Continue
<1>2. ASSUME NEW t \in Threads, Abandon(t) PROVE CashSafe
  BY <1>2, FinishLeaves, CashUntouched, LeavesSafely DEF Abandon, Money, MoneyInv
<1>3. ASSUME NEW t \in Requests, Arrives(t) PROVE CashSafe
  BY <1>3, ArrivingGives DEF Threads
<1>4. ASSUME NEW t \in Jobs, JobStarts(t) PROVE CashSafe
  BY <1>4, StartingGives DEF Threads
<1>5. ASSUME NEW o \in Orders, Elsewhere(o) PROVE CashSafe
  BY <1>5, ElsewhereGives
<1>6. ASSUME NEW amount \in HandAmounts, SettleCash(amount) PROVE CashSafe
  <2>1. amount \in Nat /\ statement \in Nat /\ byHand \in Nat /\ wallet.admin \in Nat
    BY AmountsAssumption DEF MoneyInv, TypesOK, WalletInt
  <2>2. UNCHANGED <<order, wallet, thread>> /\ Stated' = Stated
    BY <1>6, <2>1 DEF SettleCash, Stated
  <2> QED BY <2>1, <2>2, CashUntouched DEF CashSafe, CashGoes, NobodyGives
<1>7. CASE UNCHANGED vars
  <2>1. UNCHANGED <<order, wallet, thread>> /\ Stated' = Stated /\ wallet.admin \in Nat
    BY <1>7 DEF vars, Money, Lines, Stated, MoneyInv, TypesOK, WalletInt
  <2> QED BY <2>1, CashUntouched DEF CashSafe, CashGoes, NobodyGives
<1> QED BY <1>1, <1>2, <1>3, <1>4, <1>5, <1>6, <1>7 DEF Next

LEMMA CashInit == Init => CashInv
<1> SUFFICES ASSUME Init PROVE CashInv
  OBVIOUS
<1>1. \A o \in Orders : order[o].collected = 0 /\ order[o].remitted = 0
  BY DEF Init, Placed
<1>2. wallet.cashInHand = 0 /\ wallet.admin = 0 /\ Stated = 0
  BY DEF Init, Stated
<1>3. CashAddsUp
  <2>1. SumFunctionOnSet([o \in Orders |-> Pending(order[o])], Orders) = 0
    <3>1. \A o \in Orders : Pending(order[o]) = 0
      BY <1>1 DEF Pending
    <3> QED BY <3>1, OrdersAssumption, NothingAdds
  <2>2. SumFunctionOnSet([o \in Orders |-> order[o].remitted], Orders) = 0
    BY <1>1, OrdersAssumption, NothingAdds
  <2> QED BY <1>1, <1>2, <2>1, <2>2 DEF CashAddsUp, SumFunction
<1>4. BackedInv
  <2>1. \A t \in Threads : Given(thread[t]) = 0
    BY IdleTyped DEF Init, Given
  <2>2. \A T \in SUBSET Threads : IsFiniteSet(T) => SumFunctionOnSet(GivenNow, T) = 0
    <3> SUFFICES ASSUME NEW T \in SUBSET Threads, IsFiniteSet(T)
                 PROVE  SumFunctionOnSet(GivenNow, T) = 0
      OBVIOUS
    <3>1. \A t \in T : GivenNow[t] = 0
      BY <2>1 DEF GivenNow
    <3> QED BY <3>1, NothingAdds
  <2> QED BY <1>2, <2>1, <2>2 DEF BackedInv
<1> QED BY <1>3, <1>4 DEF CashInv

LEMMA CashAlways == Spec => [](MoneyInv /\ CashInv)
<1>1. MoneyInv /\ CashInv /\ [Next]_vars => MoneyInv' /\ CashInv'
  <2> SUFFICES ASSUME MoneyInv, CashAddsUp, BackedInv, [Next]_vars
               PROVE  MoneyInv' /\ CashAddsUp' /\ BackedInv'
    BY DEF CashInv
  <2>1. CashSafe
    BY StepGives
  <2>2. MoneyInv'
    BY MoneyNext
  <2> QED BY <2>1, <2>2, CashNext, BackedNext DEF CashSafe
<1> QED BY <1>1, MoneyInit, CashInit, PTL DEF Spec

\* The rider holds what he collected and did not hand over, and the platform has what
\* was handed over, whoever reports, reconciles and submits at once.
THEOREM CashIsAccounted == Spec => []CashAddsUp
<1>1. CashInv => CashAddsUp
  BY DEF CashInv
<1> QED BY <1>1, CashAlways, PTL

\* The lines that submissions write in a rider's statement show no cash that the platform
\* has not received, however many of them run and fail half way.
THEOREM StatementsAreBacked == Spec => []StatementBacked
<1>1. MoneyInv /\ CashInv => StatementBacked
  <2> SUFFICES ASSUME MoneyInv, BackedInv PROVE StatementBacked
    BY DEF CashInv
  <2>1. IsFiniteSet({}) /\ {} \in SUBSET Threads
    BY FS_EmptySet
  <2>2. SumFunctionOnSet(GivenNow, {}) = 0
    BY <2>1, SumStep
  <2>3. Stated + SumFunctionOnSet(GivenNow, {}) <= wallet.admin
    BY <2>1 DEF BackedInv
  <2>4. Stated \in Int /\ Stated = statement - byHand
    BY DEF MoneyInv, TypesOK, Stated
  <2> QED BY <2>2, <2>3, <2>4 DEF StatementBacked
<1> QED BY <1>1, CashAlways, PTL
-----------------------------------------------------------------------------
(* As deployed.  constants/finance.js does not declare the names that      *)
(* payoutService.js uses (~PayoutNames), so creating a payout throws.      *)

\* No order is settled, nothing is earned, no payout exists and nothing is owed: all a
\* rider can have is his commissions for returns.
NothingQueued ==
    /\ \A o \in Orders : /\ ~order[o].settled /\ earned[o] = 0
                         /\ \A ty \in PayoutType : payout[o][ty] = "none"
    /\ wallet.sellerPending = 0 /\ wallet.riderPending = 0
    /\ wallet.riderAvailable <= SumFunction(commission)

\* A settlement that has got no further than the seller's payout, and will not.
Doomed(th) ==
    /\ th.pc \notin {"rider", "commit"}
    /\ th.pc = "seller" => ~th.snap.sellerQueued

StuckInv ==
    /\ \A o \in Orders : /\ ~order[o].settled /\ ~order[o].sellerQueued /\ earned[o] = 0
                         /\ \A ty \in PayoutType : payout[o][ty] = "none"
    /\ \A t \in Threads : Doomed(thread[t])

FlagsStay == \A o \in Orders : /\ order'[o].settled = order[o].settled
                               /\ order'[o].sellerQueued = order[o].sellerQueued

Stuck == FlagsStay /\ UNCHANGED <<payout, earned>> /\ \A t \in Threads : Doomed(thread'[t])

LEMMA FlagsOfDoc ==
    ASSUME TypesOK, NEW o \in Orders, NEW d, order' = [order EXCEPT ![o] = d],
           d.settled = order[o].settled, d.sellerQueued = order[o].sellerQueued
    PROVE  FlagsStay
BY DEF TypesOK, FlagsStay

LEMMA DoomedTurns ==
    ASSUME TypesOK, StuckInv, NEW t \in Threads, NEW th, Doomed(th),
           thread' = [thread EXCEPT ![t] = th]
    PROVE  \A q \in Threads : Doomed(thread'[q])
BY DEF TypesOK, StuckInv

\* A handler that goes on elsewhere than in a settlement.
LEMMA DoomedElsewhere ==
    ASSUME NEW th, th.pc \notin {"seller", "rider", "commit"} PROVE Doomed(th)
BY DEF Doomed

LEMMA DoomedFinish ==
    ASSUME TypesOK, StuckInv, NEW t \in Threads, Finish(t)
    PROVE  \A q \in Threads : Doomed(thread'[q])
BY IdleTyped, DoomedElsewhere, DoomedTurns DEF Finish

LEMMA DoomedGoto ==
    ASSUME TypesOK, StuckInv, NEW t \in Threads, NEW pc \in PC \ {"seller", "rider", "commit"},
           Goto(t, pc) \/ GotoLast(t, pc)
    PROVE  \A q \in Threads : Doomed(thread'[q])
<1>1. [thread[t] EXCEPT !.pc = pc].pc = pc
  BY DEF TypesOK, ThreadState
<1>2. [Idle EXCEPT !.pc = pc, !.o = thread[t].o].pc = pc
  BY IdleTyped DEF ThreadState
<1> QED BY <1>1, <1>2, DoomedElsewhere, DoomedTurns DEF Goto, GotoLast

LEMMA DoomedRemaining ==
    ASSUME TypesOK, StuckInv, NEW t \in Threads, NEW x, Remaining(t, x)
    PROVE  \A q \in Threads : Doomed(thread'[q])
<1>1. CASE thread[t].rest = {x}
  BY <1>1, DoomedFinish DEF Remaining, Finish
<1>2. CASE thread[t].rest # {x}
  <2>1. PICK th : th = [thread[t] EXCEPT !.rest = @ \ {x}]
    OBVIOUS
  <2>2. th.pc = thread[t].pc /\ th.snap = thread[t].snap
    BY <2>1 DEF TypesOK, ThreadState
  <2>3. Doomed(th)
    BY <2>2 DEF Doomed, StuckInv
  <2> QED BY <1>2, <2>1, <2>3, DoomedTurns DEF Remaining
<1> QED BY <1>1, <1>2

\* A write to a field that settles nothing.
LEMMA OneFieldStays ==
    ASSUME TypesOK, NEW o \in Orders, NEW v,
           \/ order' = [order EXCEPT ![o].captured = v]
           \/ order' = [order EXCEPT ![o].delivered = v]
           \/ order' = [order EXCEPT ![o].seller = v]
           \/ order' = [order EXCEPT ![o].ret = v]
    PROVE  FlagsStay
<1>1. order[o] \in OrderDoc
  BY DEF TypesOK
<1>2. PICK d : /\ order' = [order EXCEPT ![o] = d]
               /\ \/ d = [order[o] EXCEPT !.captured = v]
                  \/ d = [order[o] EXCEPT !.delivered = v]
                  \/ d = [order[o] EXCEPT !.seller = v]
                  \/ d = [order[o] EXCEPT !.ret = v]
  OBVIOUS
<1>3. d.settled = order[o].settled /\ d.sellerQueued = order[o].sellerQueued
  BY <1>1, <1>2 DEF OrderDoc
<1> QED BY <1>2, <1>3, FlagsOfDoc

LEMMA CashFlagsStay ==
    ASSUME TypesOK, NEW o \in Orders, NEW n, Collects(o, n) \/ Reconciles(o, n)
    PROVE  FlagsStay
<1>1. order[o] \in OrderDoc
  BY DEF TypesOK
<1>2. PICK d : /\ order' = [order EXCEPT ![o] = d]
               /\ \/ d = [order[o] EXCEPT !.marked = TRUE, !.collected = @ + n]
                  \/ d = [order[o] EXCEPT !.remitted = @ + n]
  BY DEF Collects, Reconciles
<1>3. d.settled = order[o].settled /\ d.sellerQueued = order[o].sellerQueued
  BY <1>1, <1>2 DEF OrderDoc
<1> QED BY <1>2, <1>3, FlagsOfDoc

LEMMA Unwritten == ASSUME order' = order PROVE FlagsStay
BY DEF FlagsStay

LEMMA NothingToProcess ==
    ASSUME StuckInv, NEW o \in Orders, NEW ty \in PayoutType, Process(o, ty)
    PROVE  UNCHANGED <<payout, wallet, order>>
BY DEF StuckInv, Process

LEMMA SettlingStuck ==
    ASSUME ~PayoutNames, TypesOK, StuckInv, NEW t \in Threads, Settling(t) PROVE Stuck
<1>1. CASE SettleRead(t)
  <2>1. FlagsStay /\ UNCHANGED <<payout, earned>>
    BY <1>1, Unwritten DEF SettleRead, Money
  <2>2. CASE Finish(t)
    BY <2>1, <2>2, DoomedFinish DEF Stuck
  <2>3. CASE Goto(t, "collect")
    BY <2>1, <2>3, DoomedGoto DEF Stuck, PC
  <2>4. CASE thread' = [thread EXCEPT ![t].pc = "seller", ![t].snap = order[thread[t].o],
                                      ![t].hold = ~expired[thread[t].o]]
    <3>1. thread[t] \in ThreadState /\ thread[t].o \in Orders
      BY <1>1 DEF TypesOK, ThreadState, SettleRead, At
    <3>2. PICK th : th = [thread[t] EXCEPT !.pc = "seller", !.snap = order[thread[t].o],
                                           !.hold = ~expired[thread[t].o]]
      OBVIOUS
    <3>3. th.pc = "seller" /\ th.snap = order[thread[t].o]
      BY <3>1, <3>2 DEF ThreadState
    <3>4. Doomed(th)
      BY <3>1, <3>3 DEF Doomed, StuckInv
    <3>5. thread' = [thread EXCEPT ![t] = th]
      BY <2>4, <3>2
    <3> QED BY <2>1, <3>4, <3>5, DoomedTurns DEF Stuck
  <2> QED BY <1>1, <2>2, <2>3, <2>4 DEF SettleRead
<1>2. CASE QueueSeller(t)
  <2>1. ~thread[t].snap.sellerQueued /\ thread[t].o \in Orders
    BY <1>2 DEF QueueSeller, At, StuckInv, Doomed, TypesOK, ThreadState
  <2>2. CreateThrows(thread[t].o, "SELLER")
    BY <2>1 DEF CreateThrows, StuckInv, PayoutType
  <2>3. UNCHANGED <<order, payout, earned>> /\ Finish(t)
    BY <1>2, <2>1, <2>2 DEF QueueSeller
  <2> QED BY <2>3, DoomedFinish, Unwritten DEF Stuck
<1>3. CASE QueueRider(t) \/ SettleCommit(t)
  BY <1>3 DEF QueueRider, SettleCommit, At, StuckInv, Doomed
<1>4. CASE CodCollect(t)
  <2>1. thread[t].o \in Orders
    BY <1>4 DEF CodCollect, At, TypesOK, ThreadState
  <2>2. order' = order \/ \E net : Collects(thread[t].o, net)
    BY <1>4 DEF CodCollect
  <2>3. FlagsStay
    BY <2>1, <2>2, Unwritten, CashFlagsStay
  <2> QED BY <1>4, <2>3, DoomedFinish DEF CodCollect, Stuck
<1> QED BY <1>1, <1>2, <1>3, <1>4 DEF Settling

LEMMA SubmittingStuck ==
    ASSUME TypesOK, StuckInv, NEW t \in Threads, Submitting(t) PROVE Stuck
<1>1. ASSUME NEW o \in Orders, SubmitOne(t, o) PROVE Stuck
  <2>1. FlagsStay /\ UNCHANGED <<payout, earned>>
    BY <1>1, CashFlagsStay, Unwritten DEF SubmitOne
  <2>2. CASE Finish(t)
    BY <2>1, <2>2, DoomedFinish DEF Stuck
  <2>3. CASE ~Finish(t)
    <3>1. PICK th, amount : /\ thread' = [thread EXCEPT ![t] = th]
                            /\ th = [thread[t] EXCEPT !.due[o] = 0, !.left = @ - amount]
      BY <1>1, <2>3 DEF SubmitOne
    <3>2. thread[t] \in ThreadState /\ thread[t].pc = "submit"
      BY <1>1 DEF SubmitOne, At, TypesOK
    <3>3. th.pc = "submit"
      BY <3>1, <3>2 DEF ThreadState
    <3> QED BY <2>1, <3>1, <3>3, DoomedElsewhere, DoomedTurns DEF Stuck
  <2> QED BY <2>2, <2>3
<1>2. CASE SubmitEnd(t)
  BY <1>2, Unwritten, DoomedFinish DEF SubmitEnd, Stuck
<1> QED BY <1>1, <1>2 DEF Submitting

LEMMA PayingStuck ==
    ASSUME MoneyInv, StuckInv, NEW t \in Threads, Paying(t) PROVE Stuck
<1>1. TypesOK /\ Holds(thread[t])
  BY DEF MoneyInv, ThreadsHold
<1>2. \A x \in thread[t].rest : x[1] \in Orders /\ x[2] \in PayoutType
  BY <1>1 DEF TypesOK, ThreadState
<1>3. ASSUME NEW x \in thread[t].rest, BatchOne(t, x) PROVE Stuck
  <2>1. UNCHANGED <<order, payout, earned>>
    BY <1>2, <1>3, NothingToProcess DEF BatchOne
  <2> QED BY <1>1, <1>3, <2>1, Unwritten, DoomedRemaining DEF BatchOne, Stuck
<1>4. ASSUME NEW x \in thread[t].rest, ReleaseFind(t, x) PROVE Stuck
  <2>1. UNCHANGED <<order, payout, earned>>
    BY <1>4 DEF ReleaseFind, Money
  <2>2. Remaining(t, x)
    BY <1>2, <1>4 DEF ReleaseFind, StuckInv, PayoutType
  <2> QED BY <1>1, <2>1, <2>2, Unwritten, DoomedRemaining DEF Stuck
<1>5. CASE ReleaseDo(t)
  <2>1. thread[t].o \in Orders
    BY <1>1, <1>5 DEF ReleaseDo, At, TypesOK, ThreadState
  <2>2. FlagsStay /\ UNCHANGED <<payout, earned>>
    <3>1. CASE autoRelease
      BY <1>5, <2>1, <3>1, NothingToProcess, Unwritten DEF ReleaseDo, PayoutType
    <3>2. CASE ~autoRelease
      BY <1>1, <1>5, <2>1, <3>2, OneFieldStays DEF ReleaseDo, Unhold
    <3> QED BY <3>1, <3>2
  <2>3. \A rest : [Idle EXCEPT !.pc = "holds", !.rest = rest].pc = "holds"
    BY IdleTyped DEF ThreadState
  <2>4. \A rest : Doomed([Idle EXCEPT !.pc = "holds", !.rest = rest])
    BY <2>3 DEF Doomed
  <2>5. \/ thread' = [thread EXCEPT ![t] = Idle]
        \/ \E rest : thread' = [thread EXCEPT ![t] = [Idle EXCEPT !.pc = "holds", !.rest = rest]]
    BY <1>5 DEF ReleaseDo
  <2> QED BY <1>1, <2>2, <2>4, <2>5, DoomedTurns, DoomedFinish DEF Stuck, Finish
<1> QED BY <1>3, <1>4, <1>5 DEF Paying

LEMMA RefundingStuck ==
    ASSUME TypesOK, StuckInv, NEW t \in Threads, Refunding(t) PROVE Stuck
<1>1. thread[t].o \in Orders
  BY DEF Refunding, QcRelease, RefundCustomer, Recover, Debit, MarkCancelled, CloseReturn,
         EarnRead, Earn, EarnNothing, At, TypesOK, ThreadState
<1>2. CASE QcRelease(t)
  <2>1. FlagsStay /\ UNCHANGED <<payout, earned>>
    <3>1. CASE autoRelease
      BY <1>1, <1>2, <3>1, NothingToProcess, Unwritten DEF QcRelease, PayoutType
    <3>2. CASE ~autoRelease
      BY <1>1, <1>2, <3>2, OneFieldStays DEF QcRelease, Unhold
    <3> QED BY <3>1, <3>2
  <2> QED BY <1>2, <2>1, DoomedFinish DEF QcRelease, Stuck
<1>3. CASE RefundCustomer(t)
  BY <1>3, Unwritten, DoomedGoto DEF RefundCustomer, Stuck, PC
<1>4. CASE Recover(t)
  <2>1. UNCHANGED <<order, payout, earned>>
    BY <1>1, <1>4 DEF Recover, StuckInv, PayoutType
  <2>2. CASE GotoLast(t, "commission")
    BY <2>1, <2>2, Unwritten, DoomedGoto DEF Stuck, PC
  <2>3. CASE ~GotoLast(t, "commission")
    <3>1. PICK sum : thread' = [thread EXCEPT ![t] = [Idle EXCEPT !.pc = "debit",
                                                     !.o = thread[t].o, !.sum = sum]]
      BY <1>1, <1>4, <2>3 DEF Recover, StuckInv, PayoutType, GotoLast
    <3>2. [Idle EXCEPT !.pc = "debit", !.o = thread[t].o, !.sum = sum].pc = "debit"
      BY IdleTyped DEF ThreadState
    <3> QED BY <2>1, <3>1, <3>2, Unwritten, DoomedElsewhere, DoomedTurns DEF Stuck
  <2> QED BY <2>2, <2>3
<1>5. CASE Debit(t)
  BY <1>5, Unwritten, DoomedGoto DEF Debit, Stuck, PC
<1>6. CASE MarkCancelled(t)
  BY <1>1, <1>6, OneFieldStays, DoomedGoto DEF MarkCancelled, Stuck, PC, Money
<1>7. CASE CloseReturn(t)
  BY <1>1, <1>7, OneFieldStays, DoomedFinish DEF CloseReturn, Stuck, Money
<1>8. CASE EarnRead(t)
  <2>1. UNCHANGED <<order, payout, earned>>
    BY <1>8 DEF EarnRead, Money
  <2>2. PICK pc : pc = IF thread[t].pc = "earn" THEN "earned" ELSE "credit"
    OBVIOUS
  <2>3. PICK th : th = [thread[t] EXCEPT !.pc = pc, !.sum = wallet.riderAvailable]
    OBVIOUS
  <2>4. th.pc = pc
    BY <2>3 DEF TypesOK, ThreadState
  <2>5. thread' = [thread EXCEPT ![t] = th]
    BY <1>8, <2>2, <2>3 DEF EarnRead, TypesOK, ThreadState
  <2>6. pc \notin {"seller", "rider", "commit"}
    BY <2>2
  <2> QED BY <2>1, <2>4, <2>5, <2>6, Unwritten, DoomedElsewhere, DoomedTurns DEF Stuck
<1>9. CASE Earn(t)
  <2>1. FlagsStay /\ UNCHANGED <<payout, earned>>
    BY <1>9, Unwritten DEF Earn
  <2>2. CASE Finish(t)
    BY <2>1, <2>2, DoomedFinish DEF Stuck
  <2>3. CASE GotoLast(t, "close")
    BY <2>1, <2>3, DoomedGoto DEF Stuck, PC
  <2> QED BY <1>9, <2>2, <2>3 DEF Earn
<1>10. CASE EarnNothing(t)
  BY <1>10, Unwritten, DoomedGoto DEF EarnNothing, Stuck, PC, Money
<1> QED BY <1>2, <1>3, <1>4, <1>5, <1>6, <1>7, <1>8, <1>9, <1>10 DEF Refunding

LEMMA ReturningStuck ==
    ASSUME TypesOK, StuckInv, NEW t \in Threads, Returning(t) PROVE Stuck
<1>1. thread[t].o \in Orders
  BY DEF Returning, SaveRequest, SaveRejection, SaveFailed, SavePassed, At, TypesOK, ThreadState
<1>2. PICK ret : Saves(t, ret)
  BY DEF Returning, SaveRequest, SaveRejection, SaveFailed, SavePassed
<1>3. FlagsStay /\ UNCHANGED <<payout, earned>>
  BY <1>1, <1>2, OneFieldStays DEF Saves, Money
<1>4. Finish(t) \/ GotoLast(t, "qcRelease") \/ Goto(t, "refund")
  BY DEF Returning, SaveRequest, SaveRejection, SaveFailed, SavePassed
<1> QED BY <1>3, <1>4, DoomedFinish, DoomedGoto DEF Stuck, PC

LEMMA StartingStuck ==
    ASSUME TypesOK, StuckInv, NEW t \in Threads, Arrives(t) \/ JobStarts(t) PROVE Stuck
<1>1. UNCHANGED <<payout, earned>>
  BY DEF Arrives, JobStarts, Deliver, SettleAgain, PickUp, RequestReturn, RejectReturn, QcFail,
         QcPass, Decide, SubmitRead, BatchRead, ReleaseRead, Money
<1>2. FlagsStay
  <2>1. CASE \E o \in Orders : Deliver(t, o) \/ PickUp(t, o)
    BY <2>1, OneFieldStays DEF Deliver, PickUp
  <2>2. CASE ~ \E o \in Orders : Deliver(t, o) \/ PickUp(t, o)
    BY <2>2, Unwritten DEF Arrives, JobStarts, SettleAgain, RequestReturn, RejectReturn, QcFail,
                           QcPass, Decide, SubmitRead, BatchRead, ReleaseRead
  <2> QED BY <2>1, <2>2
<1>3. PICK th : thread' = [thread EXCEPT ![t] = th]
                /\ th.pc \notin {"seller", "rider", "commit"}
  <2>1. ASSUME NEW o, NEW pc \in {"settle", "earn", "request", "reject", "fail"},
               thread' = [thread EXCEPT ![t] = [Idle EXCEPT !.pc = pc, !.o = o]]
        PROVE  \E th : thread' = [thread EXCEPT ![t] = th]
                       /\ th.pc \notin {"seller", "rider", "commit"}
    <3>1. [Idle EXCEPT !.pc = pc, !.o = o].pc = pc
      BY IdleTyped DEF ThreadState
    <3> QED BY <2>1, <3>1
  <2>2. ASSUME NEW o \in Orders, \/ Deliver(t, o) \/ SettleAgain(t, o) \/ PickUp(t, o)
                                \/ RequestReturn(t, o) \/ RejectReturn(t, o) \/ QcFail(t, o)
        PROVE  \E th : thread' = [thread EXCEPT ![t] = th]
                       /\ th.pc \notin {"seller", "rider", "commit"}
    <3>1. PICK pc \in {"settle", "earn", "request", "reject", "fail"} :
             thread' = [thread EXCEPT ![t] = [Idle EXCEPT !.pc = pc, !.o = o]]
      <4>1. CASE Deliver(t, o) \/ SettleAgain(t, o) \/ PickUp(t, o)
        BY <4>1 DEF Deliver, SettleAgain, PickUp, Start
      <4>2. CASE RequestReturn(t, o) \/ RejectReturn(t, o) \/ QcFail(t, o)
        BY <4>2 DEF RequestReturn, RejectReturn, QcFail, Decide, Start
      <4> QED BY <2>2, <4>1, <4>2
    <3> QED BY <2>1, <3>1
  <2>p. ASSUME NEW o \in Orders, QcPass(t, o)
        PROVE  \E th : thread' = [thread EXCEPT ![t] = th]
                       /\ th.pc \notin {"seller", "rider", "commit"}
    <3>1. thread' = [thread EXCEPT ![t] = [Idle EXCEPT !.pc = "pass", !.o = o,
                                                       !.snap = order[o]]]
      BY <2>p DEF QcPass, Decide, Start
    <3>2. [Idle EXCEPT !.pc = "pass", !.o = o, !.snap = order[o]].pc = "pass"
      BY IdleTyped DEF ThreadState
    <3> QED BY <3>1, <3>2
  <2>3. ASSUME NEW amount, SubmitRead(t, amount)
        PROVE  \E th : thread' = [thread EXCEPT ![t] = th]
                       /\ th.pc \notin {"seller", "rider", "commit"}
    <3>1. PICK th : /\ thread' = [thread EXCEPT ![t] = th]
                    /\ \E due : th = [Idle EXCEPT !.pc = "submit", !.due = due,
                                                  !.left = amount, !.sum = amount]
      BY <2>3 DEF SubmitRead, Start
    <3>2. th.pc = "submit"
      BY <3>1, IdleTyped DEF ThreadState
    <3> QED BY <3>1, <3>2
  <2>4. ASSUME JobStarts(t)
        PROVE  \E th : thread' = [thread EXCEPT ![t] = th]
                       /\ th.pc \notin {"seller", "rider", "commit"}
    <3>1. PICK th : /\ thread' = [thread EXCEPT ![t] = th]
                    /\ \E pc \in {"batch", "holds"} : \E list :
                          th = [Idle EXCEPT !.pc = pc, !.rest = list]
      BY <2>4 DEF JobStarts, BatchRead, ReleaseRead, Start
    <3>2. th.pc \in {"batch", "holds"}
      BY <3>1, IdleTyped DEF ThreadState
    <3> QED BY <3>1, <3>2
  <2> QED BY <2>2, <2>p, <2>3, <2>4 DEF Arrives
<1> QED BY <1>1, <1>2, <1>3, DoomedElsewhere, DoomedTurns DEF Stuck

LEMMA ElsewhereStuck ==
    ASSUME TypesOK, StuckInv, NEW o \in Orders, Elsewhere(o) PROVE Stuck
<1>1. UNCHANGED <<payout, earned, thread>>
  BY DEF Elsewhere, Capture, WindowCloses, MarkCollected, Reconcile, Money
<1>2. FlagsStay
  <2>1. CASE Capture(o)
    BY <2>1, OneFieldStays DEF Capture
  <2>2. CASE WindowCloses(o)
    BY <2>2, Unwritten DEF WindowCloses
  <2>3. CASE MarkCollected(o) \/ \E amount \in 1 .. wallet.cashInHand : Reconcile(o, amount)
    BY <2>3, CashFlagsStay DEF MarkCollected, Reconcile
  <2> QED BY <2>1, <2>2, <2>3 DEF Elsewhere
<1> QED BY <1>1, <1>2 DEF Stuck, StuckInv

LEMMA StuckNext ==
    ASSUME ~PayoutNames, MoneyInv, StuckInv, [Next]_vars PROVE StuckInv'
<1>0. TypesOK
  BY DEF MoneyInv
<1>1. ASSUME NEW t \in Threads, Continue(t) PROVE Stuck
  BY <1>0, <1>1, SettlingStuck, SubmittingStuck, PayingStuck, ReturningStuck, RefundingStuck
     DEF Continue
<1>2. ASSUME NEW t \in Threads, Abandon(t) PROVE Stuck
  BY <1>0, <1>2, DoomedFinish, Unwritten DEF Abandon, Money, Stuck
<1>3. ASSUME NEW t \in Requests, Arrives(t) PROVE Stuck
  BY <1>0, <1>3, StartingStuck DEF Threads
<1>4. ASSUME NEW t \in Jobs, JobStarts(t) PROVE Stuck
  BY <1>0, <1>4, StartingStuck DEF Threads
<1>5. ASSUME NEW o \in Orders, Elsewhere(o) PROVE Stuck
  BY <1>0, <1>5, ElsewhereStuck
<1>8. ASSUME NEW amount \in HandAmounts, SettleCash(amount) PROVE Stuck
  <2>1. UNCHANGED <<order, payout, earned, thread>>
    BY <1>8 DEF SettleCash
  <2> QED BY <2>1, Unwritten DEF Stuck, StuckInv
<1>6. ASSUME UNCHANGED vars PROVE Stuck
  <2>1. UNCHANGED <<order, payout, earned, thread>>
    BY <1>6 DEF vars, Money
  <2> QED BY <2>1, Unwritten DEF Stuck, StuckInv
<1>7. Stuck
  BY <1>1, <1>2, <1>3, <1>4, <1>5, <1>6, <1>8 DEF Next
<1> QED BY <1>7 DEF Stuck, FlagsStay, StuckInv

\* As the program is deployed, nobody is ever paid: a settlement throws at the seller's
\* payout, whatever runs beside it and however often it is asked for again, so that no
\* order settles, no earning is recognised, and no payout or pending balance exists; all a
\* rider can be credited is his commissions for returns.
THEOREM NobodyIsPaidAsDeployed ==
    ASSUME ~PayoutNames PROVE Spec => []NothingQueued
<1>1. Init => StuckInv
  <2> SUFFICES ASSUME Init PROVE StuckInv
    OBVIOUS
  <2>1. \A o \in Orders : ~order[o].settled /\ ~order[o].sellerQueued
    BY DEF Init, Placed
  <2>2. \A t \in Threads : Doomed(thread[t])
    BY IdleTyped, DoomedElsewhere DEF Init
  <2> QED BY <2>1, <2>2 DEF Init, StuckInv
<1>2. MoneyInv /\ StuckInv /\ [Next]_vars => StuckInv'
  BY StuckNext
<1>3. MoneyInv /\ StuckInv /\ WalletInv => NothingQueued
  <2> SUFFICES ASSUME MoneyInv, StuckInv, WalletsAddUp PROVE NothingQueued
    BY WalletsAdd
  <2>1. \A ty \in PayoutType, status \in {"PENDING", "COMPLETED"} : CountOf(ty, status) = 0
    BY FS_EmptySet DEF StuckInv, CountOf
  <2>2. SellerShare * 0 = 0 /\ RiderShare * 0 = 0
    BY AmountsAssumption
  <2>3. SumFunction(commission) \in Int /\ wallet.riderAvailable \in Int
    BY RiderTotalType DEF MoneyInv, TypesOK, WalletInt
  <2>4. "SELLER" \in PayoutType /\ "DELIVERY_PARTNER" \in PayoutType
    BY DEF PayoutType
  <2>5. wallet.riderAvailable <= 0 + SumFunction(commission)
    BY <2>1, <2>2, <2>4 DEF WalletsAddUp
  <2> QED BY <2>1, <2>2, <2>3, <2>4, <2>5 DEF StuckInv, WalletsAddUp, NothingQueued
<1> QED BY <1>1, <1>2, <1>3, WalletsAlways, PTL DEF Spec
===============================================================================
