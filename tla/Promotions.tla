------------------------------ MODULE Promotions ------------------------------
(***************************************************************************)
(* What a customer's checkouts take from promotions and give back: the     *)
(* units of one flash sale (flashSaleService.js), and the one-time rewards *)
(* won by spinning or by referring friends (spinRedemption.js,             *)
(* referralService.js).                                                    *)
(*                                                                         *)
(* Placement and the completion of a referral are transactions on a        *)
(* snapshot: a thread reads it at once, and aborts when another thread     *)
(* writes a document it is to write too before it commits.  Every other    *)
(* handler is a sequence of single writes, between which it may die.       *)
(*                                                                         *)
(* A checkout makes an order with the flash units and may make a second    *)
(* one, with another seller's goods; both carry the checkout's reward.     *)
(***************************************************************************)
EXTENDS Integers, Sequences, FiniteSetsExt

CONSTANTS
    Checkouts,          \* checkouts of one customer
    Shared,             \* those of them with goods of two sellers
    Threads,            \* handlers running at once
    Referrals,          \* friends that customer has referred
    Spins,              \* rewards won by spinning
    None,               \* no reward
    MaxUnits,           \* the most units the sale can be given
    Limit,              \* perCustomerLimit of the sale
    MaxReferrals,       \* maxReferralsPerUser
    RestoreOnCancel,    \* the settings of spin and win
    RestoreOnRefund,
    MaxTroubles         \* bound: handlers that die, edits of an order's status and
                        \* edits of the sale, together

Rewards == Referrals \cup Spins
Orders == (Checkouts \X {"deal"}) \cup (Shared \X {"rest"})

ASSUME BoundsAssumption ==
    /\ {MaxUnits, Limit, MaxReferrals} \subseteq Nat \ {0}
    /\ MaxTroubles \in Nat
ASSUME FiniteAssumption == IsFiniteSet(Checkouts) /\ IsFiniteSet(Referrals)
ASSUME SharedAssumption == Shared \subseteq Checkouts
ASSUME RewardsAssumption == Referrals \cap Spins = {} /\ None \notin Rewards
ASSUME PolicyAssumption == {RestoreOnCancel, RestoreOnRefund} \subseteq BOOLEAN

VARIABLES
    deal,           \* the item on sale: units sold, and units on sale
    order,          \* order[o]: its status ("live" is any but cancelled), how far the
                    \* workflow is, its flash units and whether they were released,
                    \* its reward
    reward,         \* reward[w]: its status; "none" before it is issued
    referral,       \* referral[i]: pending, or what the referrer got
    thread,         \* thread[t]: where a handler is, and what it has read
    overlapped,     \* history: which decisions were taken on something overtaken
    trouble         \* what has gone wrong so far: "death", "status", "sale"

vars == <<deal, order, reward, referral, thread, overlapped, trouble>>

Idle == [pc |-> "idle"]

\* A thread that gives back what the order o held: for the workflow, which goes on to
\* the reward, or for a status edit, which goes on to save the status.
At(pc, o, why) == [pc |-> pc, order |-> o, why |-> why]

ThreadStates ==
    {Idle}
    \cup [pc : {"place"}, checkout : Checkouts, units : 0 .. Limit,
          reward : Rewards \cup {None}]
    \cup [pc : {"release", "give", "restore", "write", "status"}, order : Orders,
          why : {"cancelled", "refund", "edit"}]
    \cup [pc : {"sale"}, sold : 0 .. MaxUnits]
    \cup [pc : {"complete"}, referral : Referrals, issued : 0 .. Cardinality(Referrals),
          coupon : BOOLEAN]

TypeOK ==
    /\ deal \in [sold : 0 .. MaxUnits, total : 1 .. MaxUnits]
    /\ order \in [Orders ->
         [status : {"none", "live", "cancelled"},
          workflow : {"open", "cancelled", "returned"},
          units : 0 .. Limit, released : BOOLEAN, reward : Rewards \cup {None}]]
    /\ reward \in [Rewards -> {"none", "available", "redeemed", "expired"}]
    /\ referral \in [Referrals -> {"pending", "wallet", "coupon", "skipped"}]
    /\ thread \in [Threads -> ThreadStates]
    /\ overlapped \subseteq {"referral", "restore", "edit"}
    /\ trouble \in Seq({"death", "status", "sale"})
    /\ Len(trouble) <= MaxTroubles

Init ==
    /\ deal = [sold |-> 0, total |-> MaxUnits]
    /\ order = [o \in Orders |-> [status |-> "none", workflow |-> "open", units |-> 0,
                                  released |-> FALSE, reward |-> None]]
    /\ reward = [w \in Rewards |-> IF w \in Spins THEN "available" ELSE "none"]
    /\ referral = [i \in Referrals |-> "pending"]
    /\ thread = [t \in Threads |-> Idle]
    /\ overlapped = {}
    /\ trouble = <<>>
-------------------------------------------------------------------------------
(* Threads and the documents their transactions write; a referral and the  *)
(* coupon issued for it go by one name.                                    *)

\* Mutated form: the account is credited outside the transaction.
WritesNoAccount(th) ==
    CASE th.pc = "place" ->
             (IF th.units > 0 THEN {"deal"} ELSE {})
             \cup (IF th.reward # None THEN {th.reward} ELSE {})
      [] th.pc = "complete" -> {th.referral}
      [] OTHER -> {}

\* Mutated form: the reward is redeemed outside the transaction.
WritesNoReward(th) ==
    CASE th.pc = "place" -> IF th.units > 0 THEN {"deal"} ELSE {}
      [] th.pc = "complete" ->
             {th.referral} \cup (IF th.coupon THEN {} ELSE {"customer"})
      [] OTHER -> {}


Writes(th) ==
    CASE th.pc = "place" ->
             (IF th.units > 0 THEN {"deal"} ELSE {})
             \cup (IF th.reward # None THEN {th.reward} ELSE {})
      [] th.pc = "complete" ->
             {th.referral} \cup (IF th.coupon THEN {} ELSE {"customer"})
      [] OTHER -> {}

\* The threads, docs having been written: the open transactions that were to write one
\* of them can only abort.
Overtaken(docs) ==
    [u \in Threads |->
        IF Writes(thread[u]) \cap docs # {} THEN Idle ELSE thread[u]]

\* t moves to th, having written docs.
Move(t, th, docs) == thread' = [Overtaken(docs) EXCEPT ![t] = th]

Had(what) == \E n \in DOMAIN trouble : trouble[n] = what

Trouble(what) == Len(trouble) < MaxTroubles /\ trouble' = Append(trouble, what)

Units(some) == Cardinality(UNION {{o} \X (1 .. order[o].units) : o \in some})

\* getCustomerFlashUsage: units of orders whose units were not released.
Usage == Units({o \in Orders : ~order[o].released})
-------------------------------------------------------------------------------
(* placeOrderAtomic, as far as it goes to promotions.                      *)

\* The customer asks for q units, none of them while the sale is live if q = 0, and for
\* the reward w.  As many units are priced as flash units as the sale has left and the
\* limit allows; the others are not.
Place(t, c, q, w) ==
    /\ thread[t] = Idle
    /\ \A o \in Orders : o[1] = c => order[o].status = "none"
    /\ \A u \in Threads : thread[u].pc = "place" => thread[u].checkout # c
    /\ w # None => reward[w] = "available"
    /\ LET units == Max({0, Min({q, deal.total - deal.sold, Limit - Usage})})
       IN  Move(t, [pc |-> "place", checkout |-> c, units |-> units, reward |-> w], {})
    /\ UNCHANGED <<deal, order, reward, referral, overlapped, trouble>>

Commit(t) ==
    /\ thread[t].pc = "place"
    /\ LET th == thread[t]
           New(o) == [status |-> "live", workflow |-> "open",
                      units |-> IF o[2] = "deal" THEN th.units ELSE 0,
                      released |-> FALSE, reward |-> th.reward]
       IN  /\ deal' = [deal EXCEPT !.sold = @ + th.units]
           /\ order' = [o \in Orders |->
                IF o[1] = th.checkout THEN New(o) ELSE order[o]]
           /\ reward' = [w \in Rewards |->
                IF w = th.reward THEN "redeemed" ELSE reward[w]]
           /\ Move(t, Idle, Writes(th))
    /\ UNCHANGED <<referral, overlapped, trouble>>

\* A transaction that fails, or meets a conflict; an edit that is refused.
Abort(t) ==
    /\ thread[t].pc \in {"place", "complete", "sale"}
    /\ Move(t, Idle, {})
    /\ UNCHANGED <<deal, order, reward, referral, overlapped, trouble>>
-------------------------------------------------------------------------------
(* An order's end, and compensateOrderCancellation.                        *)

\* What follows the flash units: the status of an edit, the reward, or nothing.
Onward(th) ==
    IF th.why = "edit" THEN [th EXCEPT !.pc = "status"]
    ELSE IF order[th.order].reward # None THEN [th EXCEPT !.pc = "restore"] ELSE Idle

Cancel(t, o) ==
    /\ thread[t] = Idle
    /\ order[o].status # "none"
    /\ order[o].workflow = "open"
    /\ order' = [order EXCEPT ![o].status = "cancelled", ![o].workflow = "cancelled"]
    /\ Move(t, At("release", o, "cancelled"), {})
    /\ UNCHANGED <<deal, reward, referral, overlapped, trouble>>

\* The end of a delivered order that is returned in full.  Delivery by itself changes
\* nothing that is modelled here; it leaves any earlier edit of the status behind, and a
\* refund leaves the status as it is.
Refund(t, o) ==
    /\ thread[t] = Idle
    /\ order[o].status # "none"
    /\ order[o].workflow = "open"
    /\ order' = [order EXCEPT ![o].status = "live", ![o].workflow = "returned"]
    /\ Move(t, Onward(At("restore", o, "refund")), {})
    /\ UNCHANGED <<deal, reward, referral, overlapped, trouble>>

\* updateOrderStatus: nothing keeps an order that was cancelled, or delivered, as it is.
EditStatus(t, o, status) ==
    /\ thread[t] = Idle
    /\ order[o].status \notin {"none", status}
    /\ Trouble("status")
    /\ IF status = "cancelled"
       THEN Move(t, At("release", o, "edit"), {}) /\ UNCHANGED order
       ELSE order' = [order EXCEPT ![o].status = status] /\ UNCHANGED thread
    /\ UNCHANGED <<deal, reward, referral, overlapped>>

\* Mutated form: the flag is set, but not looked at.
ReleaseAgain(t) ==
    /\ thread[t].pc = "release"
    /\ LET o == thread[t].order
       IN  IF order[o].units > 0
           THEN /\ order' = [order EXCEPT ![o].released = TRUE]
                /\ Move(t, [thread[t] EXCEPT !.pc = "give"], {})
           ELSE Move(t, Onward(thread[t]), {}) /\ UNCHANGED order
    /\ UNCHANGED <<deal, reward, referral, overlapped, trouble>>

\* releaseFlashSaleForOrder: the order is flagged first, and only once.
Release(t) ==
    /\ thread[t].pc = "release"
    /\ LET o == thread[t].order
       IN  IF order[o].units > 0 /\ ~order[o].released
           THEN /\ order' = [order EXCEPT ![o].released = TRUE]
                /\ Move(t, [thread[t] EXCEPT !.pc = "give"], {})
           ELSE Move(t, Onward(thread[t]), {}) /\ UNCHANGED order
    /\ UNCHANGED <<deal, reward, referral, overlapped, trouble>>

GiveBack(t) ==
    /\ thread[t].pc = "give"
    /\ LET n == order[thread[t].order].units
       IN  deal' = [deal EXCEPT !.sold = IF @ >= n THEN @ - n ELSE @]
    /\ Move(t, Onward(thread[t]), {"deal"})
    /\ UNCHANGED <<order, reward, referral, overlapped, trouble>>

SaveStatus(t) ==
    /\ thread[t].pc = "status"
    /\ order' = [order EXCEPT ![thread[t].order].status = "cancelled"]
    /\ Move(t, Idle, {})
    /\ UNCHANGED <<deal, reward, referral, overlapped, trouble>>

\* Whether a reward may come back: coupons for a referral after a cancellation, others
\* as the settings say.
Restorable(w, why) ==
    IF w \in Referrals THEN why = "cancelled"
    ELSE IF why = "refund" THEN RestoreOnRefund ELSE RestoreOnCancel

\* Mutated form: any other order counts, also one that is cancelled.
AnyOthers(o) ==
    {p \in Orders \ {o} : order[p].reward = order[o].reward /\ order[p].status # "none"}

ActiveOthers(o) ==
    {p \in Orders \ {o} : /\ order[p].reward = order[o].reward
                          /\ order[p].status = "live"}

Restoring(t, w) == thread[t].pc = "write" /\ order[thread[t].order].reward = w

\* restoreRewardForOrder counts, and writes later.
RestoreCount(t) ==
    /\ thread[t].pc = "restore"
    /\ LET o == thread[t].order
           w == order[o].reward
       IN  IF /\ reward[w] = "redeemed"
              /\ Restorable(w, thread[t].why)
              /\ ActiveOthers(o) = {}
           THEN /\ Move(t, [thread[t] EXCEPT !.pc = "write"], {})
                /\ overlapped' = overlapped \cup
                     IF \E u \in Threads : Restoring(u, w) THEN {"restore"} ELSE {}
           ELSE Move(t, Idle, {}) /\ UNCHANGED overlapped
    /\ UNCHANGED <<deal, order, reward, referral, trouble>>

RestoreWrite(t) ==
    /\ thread[t].pc = "write"
    /\ LET w == order[thread[t].order].reward
       IN  IF reward[w] = "redeemed"
           THEN /\ \E status \in {"available", "expired"} :
                     reward' = [reward EXCEPT ![w] = status]
                /\ Move(t, Idle, {w})
           ELSE Move(t, Idle, {}) /\ UNCHANGED reward
    /\ UNCHANGED <<deal, order, referral, overlapped, trouble>>

\* The reward's time passes before it is used, and listMyRewards stores that.
Expire(w) ==
    /\ reward[w] = "available"
    /\ reward' = [reward EXCEPT ![w] = "expired"]
    /\ thread' = Overtaken({w})
    /\ UNCHANGED <<deal, order, referral, overlapped, trouble>>
-------------------------------------------------------------------------------
(* updateFlashSale, which reads the sale and saves it later.               *)

EditSale(t) ==
    /\ thread[t] = Idle
    /\ Trouble("sale")
    /\ Move(t, [pc |-> "sale", sold |-> deal.sold], {})
    /\ UNCHANGED <<deal, order, reward, referral, overlapped>>

\* The whole array of items is saved, with the units sold as they were read.
SaveSale(t, total) ==
    /\ thread[t].pc = "sale"
    /\ total >= thread[t].sold
    /\ deal' = [deal EXCEPT !.sold = thread[t].sold, !.total = total]
    /\ overlapped' = overlapped \cup IF deal.sold # thread[t].sold THEN {"edit"} ELSE {}
    /\ Move(t, Idle, {"deal"})
    /\ UNCHANGED <<order, reward, referral, trouble>>
-------------------------------------------------------------------------------
(* processDeliveredOrderForReferral, for the order of the friend i.        *)

Issued == {i \in Referrals : referral[i] \in {"wallet", "coupon"}}

\* The limit is held against the rewards issued in the transaction's snapshot.
StartCompletion(t, i, coupon) ==
    /\ thread[t] = Idle
    /\ referral[i] = "pending"
    /\ Move(t, [pc |-> "complete", referral |-> i, issued |-> Cardinality(Issued),
                coupon |-> coupon], {})
    /\ UNCHANGED <<deal, order, reward, referral, overlapped, trouble>>

\* Cash is added to the referrer's account, a coupon is a document of its own.
Complete(t) ==
    /\ thread[t].pc = "complete"
    /\ LET th == thread[t]
           i == th.referral
           outcome == IF th.issued >= MaxReferrals THEN "skipped"
                      ELSE IF th.coupon THEN "coupon" ELSE "wallet"
           written == IF outcome = "wallet" THEN Writes(th) ELSE {i}
       IN  /\ referral' = [referral EXCEPT ![i] = outcome]
           /\ reward' = IF outcome = "coupon"
                        THEN [reward EXCEPT ![i] = "available"] ELSE reward
           /\ overlapped' = overlapped \cup
                IF th.issued # Cardinality(Issued) THEN {"referral"} ELSE {}
           /\ Move(t, Idle, written)
    /\ UNCHANGED <<deal, order, trouble>>
-------------------------------------------------------------------------------
\* A handler dies, or one of its writes fails, and it goes no further.
Die(t) ==
    /\ thread[t].pc \in {"release", "give", "restore", "write", "status"}
    /\ Trouble("death")
    /\ Move(t, Idle, {})
    /\ UNCHANGED <<deal, order, reward, referral, overlapped>>

Next ==
    \/ \E t \in Threads :
         \/ \E c \in Checkouts, q \in 0 .. MaxUnits, w \in Rewards \cup {None} :
              Place(t, c, q, w)
         \/ Commit(t) \/ Abort(t)
         \/ \E o \in Orders :
              \/ Cancel(t, o) \/ Refund(t, o)
              \/ \E status \in {"live", "cancelled"} : EditStatus(t, o, status)
         \/ Release(t) \/ GiveBack(t) \/ SaveStatus(t)
         \/ RestoreCount(t) \/ RestoreWrite(t)
         \/ EditSale(t)
         \/ \E total \in 1 .. MaxUnits : SaveSale(t, total)
         \/ \E i \in Referrals, coupon \in BOOLEAN : StartCompletion(t, i, coupon)
         \/ Complete(t)
         \/ Die(t)
    \/ \E w \in Rewards : Expire(w)

Spec == Init /\ [][Next]_vars
-------------------------------------------------------------------------------
(* Properties.                                                             *)

GivingBack(o) == \E t \in Threads : thread[t].pc = "give" /\ thread[t].order = o

Accounted == Units({o \in Orders : order[o].released => GivingBack(o)})

\* The units the sale counts as sold are those the orders hold, or a cancelled order is
\* giving back (more only after a handler died between its two writes), and never more
\* than are on sale; this holds until an edit of the sale is saved over units sold or
\* given back since it was read.  No customer ever holds more than the limit.
UnitsHonest ==
    /\ "edit" \notin overlapped =>
         /\ deal.sold \in Accounted .. deal.total
         /\ ~Had("death") => deal.sold = Accounted
    /\ Usage <= Limit

Uses(o, w) == /\ order[o].reward = w
              /\ order[o].status = "live"
              /\ order[o].workflow # "returned"

\* A reward an order was priced with is redeemed, and for that order's checkout alone.
\* Two restorations of it that overlap, and an administrator who revives a cancelled
\* order, are excepted.
RewardBacked ==
    "restore" \notin overlapped /\ ~Had("status") =>
        \A o \in Orders, w \in Rewards :
            Uses(o, w) =>
                /\ reward[w] = "redeemed"
                /\ \A p \in Orders : Uses(p, w) => p[1] = o[1]

\* The cancellation of every order of a checkout gives its reward back, however the
\* cancellations interleave: once nothing is under way, a reward that is redeemed has an
\* order that is not cancelled.  A handler that dies, and a status edit, lose it.
RewardComesBack ==
    ~Had("death") /\ ~Had("status") /\ (\A t \in Threads : thread[t] = Idle) =>
        \A w \in {v \in Rewards : Restorable(v, "cancelled")} :
            reward[w] = "redeemed" =>
                \E o \in Orders : /\ order[o].reward = w
                                  /\ order[o].status = "live"

\* A referrer is rewarded at most MaxReferrals times: with cash always, since it goes to
\* one account, with coupons as long as no completion overlaps another.
ReferralLimit ==
    "referral" \notin overlapped \/ (\A i \in Referrals : referral[i] # "coupon") =>
        Cardinality(Issued) <= MaxReferrals
===============================================================================
