--------------------------- MODULE PromotionsProofs ---------------------------
(***************************************************************************)
(* For every set of checkouts, handlers, friends and rewards, and any      *)
(* limits: the types, and the properties of Promotions.                    *)
(*                                                                         *)
(* What an open transaction has read stays true as long as it is open,     *)
(* since whoever changes it makes it abort (SnapshotsOK).  A handler that  *)
(* writes later than it reads has no such help; what it may rely on is in  *)
(* the parts about units, rewards and referrals.                           *)
(***************************************************************************)
EXTENDS Promotions, FiniteSetTheorems, SequenceTheorems, TLAPS

Of(c) == {o \in Orders : o[1] = c}

\* What a checkout being placed has read.
PlaceOK(th) ==
    th.pc = "place" =>
        /\ \A o \in Of(th.checkout) : order[o].status = "none"
        /\ th.reward # None => reward[th.reward] = "available"
        /\ th.units > 0 => /\ deal.sold + th.units <= deal.total
                           /\ Usage + th.units <= Limit

SnapshotsOK ==
    /\ \A t \in Threads : PlaceOK(thread[t])
    /\ \A t, u \in Threads :
           /\ thread[t].pc = "place" /\ thread[u].pc = "place"
           /\ thread[t].checkout = thread[u].checkout
           => t = u
    /\ \A t \in Threads :
           thread[t].pc = "complete" => referral[thread[t].referral] = "pending"

\* Orders as they are made.
OrdersOK ==
    /\ \A o \in Orders :
           order[o].status = "none" =>
               /\ order[o].units = 0 /\ ~order[o].released /\ order[o].workflow = "open"
               /\ order[o].reward = None
    /\ \A t \in Threads :
           thread[t].pc \in {"release", "give", "restore", "write", "status"} =>
               order[thread[t].order].status # "none"
    /\ \A i \in Referrals : referral[i] = "pending" => reward[i] = "none"

\* Units.
UnitsInv ==
    /\ deal.sold <= deal.total
    /\ \A t \in Threads : thread[t].pc = "give" => order[thread[t].order].released
    /\ \A t, u \in Threads :
           /\ thread[t].pc = "give" /\ thread[u].pc = "give"
           /\ thread[t].order = thread[u].order
           => t = u
    /\ UnitsHonest

\* Rewards, as long as no administrator has edited the status of an order.
WorkflowInv ==
    /\ \A t \in Threads :
           thread[t].pc \in {"release", "give", "restore", "write"} =>
               /\ thread[t].why # "edit"
               /\ order[thread[t].order].workflow
                    = IF thread[t].why = "refund" THEN "returned" ELSE "cancelled"
    /\ \A t \in Threads : thread[t].pc # "status"
    /\ \A o \in Orders :
           order[o].status = "cancelled" <=> order[o].workflow = "cancelled"

NobodyUses(w) == \A o \in Orders : ~Uses(o, w)

WriteInv ==
    /\ \A t \in Threads, w \in Rewards :
           Restoring(t, w) => reward[w] = "redeemed" /\ NobodyUses(w)
    /\ \A t, u \in Threads, w \in Rewards : Restoring(t, w) /\ Restoring(u, w) => t = u

\* The rewards in use are redeemed, each for one checkout.
Backed ==
    \A o \in Orders, w \in Rewards :
        Uses(o, w) => /\ reward[w] = "redeemed"
                      /\ \A p \in Orders : Uses(p, w) => p[1] = o[1]

\* Somebody is about to give the reward w back.
Returning(w) ==
    \E t \in Threads : /\ thread[t].pc \in {"release", "give", "restore", "write"}
                       /\ thread[t].why = "cancelled"
                       /\ order[thread[t].order].reward = w

StillLive(w) == \E o \in Orders : order[o].reward = w /\ order[o].status = "live"

ReturnInv ==
    \A w \in Rewards :
        Restorable(w, "cancelled") /\ reward[w] = "redeemed" => StillLive(w) \/ Returning(w)

RewardInv ==
    ~Had("status") =>
        /\ WorkflowInv
        /\ "restore" \notin overlapped => WriteInv /\ Backed
        /\ ~Had("death") => ReturnInv

\* Referrals.
ReferralInv ==
    /\ ReferralLimit
    /\ (\A i \in Referrals : referral[i] # "coupon") =>
           \A t \in Threads :
               thread[t].pc = "complete" /\ ~thread[t].coupon =>
                   thread[t].issued = Cardinality(Issued)

PromotionsInv ==
    TypeOK /\ SnapshotsOK /\ OrdersOK /\ UnitsInv /\ RewardInv /\ ReferralInv
-----------------------------------------------------------------------------
(* Threads.                                                                *)

After == {"release", "give", "restore", "write", "status"}

LEMMA ThreadsAre ==
    ASSUME NEW th \in ThreadStates
    PROVE  /\ th.pc \in {"idle", "place", "complete", "sale"} \cup After
           /\ th.pc = "idle" => th = Idle
           /\ th.pc = "place" =>
                  /\ th.checkout \in Checkouts /\ th.units \in 0 .. Limit
                  /\ th.reward \in Rewards \cup {None}
           /\ th.pc \in After =>
                  /\ th.order \in Orders /\ th.why \in {"cancelled", "refund", "edit"}
                  /\ th = At(th.pc, th.order, th.why)
           /\ th.pc = "sale" => th.sold \in 0 .. MaxUnits
           /\ th.pc = "complete" =>
                  /\ th.referral \in Referrals
                  /\ th.issued \in 0 .. Cardinality(Referrals) /\ th.coupon \in BOOLEAN
BY DEF ThreadStates, Idle, At, After

LEMMA AfterTyped ==
    ASSUME NEW pc \in After, NEW o \in Orders, NEW why \in {"cancelled", "refund", "edit"}
    PROVE  /\ At(pc, o, why) \in ThreadStates
           /\ At(pc, o, why).pc = pc /\ At(pc, o, why).order = o /\ At(pc, o, why).why = why
           /\ \A to : [At(pc, o, why) EXCEPT !.pc = to] = At(to, o, why)
BY DEF ThreadStates, At, After

LEMMA IdleTyped == Idle \in ThreadStates /\ Idle.pc = "idle" /\ Writes(Idle) = {}
BY DEF ThreadStates, Idle, Writes

\* What a move does to the other threads.
LEMMA Moves ==
    ASSUME NEW t \in Threads, NEW th, NEW docs, thread \in [Threads -> ThreadStates],
           Move(t, th, docs)
    PROVE  /\ thread'[t] = th
           /\ th \in ThreadStates => thread' \in [Threads -> ThreadStates]
           /\ \A u \in Threads \ {t} :
                  \/ thread'[u] = thread[u] /\ Writes(thread[u]) \cap docs = {}
                  \/ thread'[u] = Idle /\ Writes(thread[u]) \cap docs # {}
BY IdleTyped DEF Move, Overtaken

LEMMA Overtakes ==
    ASSUME NEW docs, thread \in [Threads -> ThreadStates], thread' = Overtaken(docs)
    PROVE  /\ thread' \in [Threads -> ThreadStates]
           /\ \A u \in Threads :
                  \/ thread'[u] = thread[u] /\ Writes(thread[u]) \cap docs = {}
                  \/ thread'[u] = Idle /\ Writes(thread[u]) \cap docs # {}
BY IdleTyped DEF Overtaken

\* What has gone wrong stays so.
LEMMA Troubles ==
    ASSUME trouble \in Seq({"death", "status", "sale"}), Len(trouble) <= MaxTroubles,
           NEW what \in {"death", "status", "sale"}, Trouble(what)
    PROVE  /\ trouble' \in Seq({"death", "status", "sale"}) /\ Len(trouble') <= MaxTroubles
           /\ Had(what)'
           /\ \A old \in {"death", "status", "sale"} : Had(old) => Had(old)'
<1> DEFINE new == Append(trouble, what)
<1>1. /\ new \in Seq({"death", "status", "sale"}) /\ Len(new) = Len(trouble) + 1
      /\ DOMAIN new = 1 .. Len(trouble) + 1 /\ DOMAIN trouble = 1 .. Len(trouble)
      /\ \A n \in 1 .. Len(trouble) : new[n] = trouble[n]
      /\ new[Len(trouble) + 1] = what
      /\ Len(trouble) \in Nat
  BY AppendProperties, LenProperties
<1>2. trouble' = new /\ Len(trouble) < MaxTroubles
  BY DEF Trouble
<1> HIDE DEF new
<1>3. Len(new) <= MaxTroubles
  BY <1>1, <1>2, BoundsAssumption
<1>4. \E n \in DOMAIN new : new[n] = what
  BY <1>1
<1>5. \A old : Had(old) => \E n \in DOMAIN new : new[n] = old
  BY <1>1 DEF Had
<1> QED BY <1>1, <1>2, <1>3, <1>4, <1>5 DEF Had
-----------------------------------------------------------------------------
(* Counting units: the slots that orders hold, those of f for the orders in S. *)

OrderState ==
    [status : {"none", "live", "cancelled"},
     workflow : {"open", "cancelled", "returned"},
     units : 0 .. Limit, released : BOOLEAN, reward : Rewards \cup {None}]

Slots(f, S) == UNION {{o} \X (1 .. f[o].units) : o \in S}

LEMMA OrdersFinite == IsFiniteSet(Orders)
<1>1. IsFiniteSet(Checkouts \X {"deal", "rest"})
  <2>1. IsFiniteSet({"deal"} \cup {"rest"})
    BY FS_Singleton, FS_Union
  <2>2. IsFiniteSet({"deal", "rest"}) /\ IsFiniteSet(Checkouts)
    <3>1. {"deal"} \cup {"rest"} = {"deal", "rest"}
      OBVIOUS
    <3> QED BY <2>1, <3>1, FiniteAssumption
  <2> QED BY <2>2, FS_Product
<1>2. Orders \in SUBSET (Checkouts \X {"deal", "rest"})
  BY SharedAssumption DEF Orders
<1> QED BY <1>1, <1>2, FS_Subset

LEMMA SlotsFinite ==
    ASSUME NEW f \in [Orders -> OrderState], NEW S \in SUBSET Orders
    PROVE  IsFiniteSet(Slots(f, S)) /\ Cardinality(Slots(f, S)) \in Nat
<1>1. IsFiniteSet(1 .. Limit)
  BY FS_Interval, BoundsAssumption
<1>2. IsFiniteSet(Orders \X (1 .. Limit))
  BY <1>1, OrdersFinite, FS_Product
<1>3. Slots(f, S) \in SUBSET (Orders \X (1 .. Limit))
  <2>1. \A o \in S : f[o].units \in 0 .. Limit
    BY DEF OrderState
  <2> QED BY <2>1, BoundsAssumption DEF Slots
<1>4. IsFiniteSet(Slots(f, S))
  BY <1>2, <1>3, FS_Subset
<1> QED BY <1>4, FS_CardinalityType

LEMMA SlotsGrow ==
    ASSUME NEW f \in [Orders -> OrderState], NEW T \in SUBSET Orders, NEW S \in SUBSET T
    PROVE  Cardinality(Slots(f, S)) <= Cardinality(Slots(f, T))
<1>1. IsFiniteSet(Slots(f, T))
  BY SlotsFinite
<1>2. Slots(f, S) \in SUBSET Slots(f, T)
  BY DEF Slots
<1> QED BY <1>1, <1>2, FS_Subset

\* The units of one more order.
LEMMA SlotsOfOneMore ==
    ASSUME NEW f \in [Orders -> OrderState], NEW S \in SUBSET Orders, NEW o \in Orders \ S
    PROVE  Cardinality(Slots(f, S \cup {o})) = Cardinality(Slots(f, S)) + f[o].units
<1>1. PICK n \in Nat : n = f[o].units
  BY BoundsAssumption DEF OrderState
<1> DEFINE own == {o} \X (1 .. n)
<1>2. IsFiniteSet(1 .. n) /\ Cardinality(1 .. n) = n
  BY FS_Interval
<1>3. IsFiniteSet(own) /\ Cardinality(own) = n
  <2>1. IsFiniteSet({o}) /\ Cardinality({o}) = 1
    BY FS_Singleton
  <2>2. IsFiniteSet(own) /\ Cardinality(own) = 1 * n
    BY <1>2, <2>1, FS_Product
  <2> HIDE DEF own
  <2> QED BY <2>2
<1>4. Slots(f, S \cup {o}) = Slots(f, S) \cup own
  BY <1>1 DEF Slots
<1>5. Slots(f, S) \cap own = {}
  BY DEF Slots
<1>6. IsFiniteSet(Slots(f, S)) /\ Cardinality(Slots(f, S)) \in Nat
  BY SlotsFinite
<1>7. PICK k \in Nat : k = Cardinality(Slots(f, S))
  BY <1>6
<1> HIDE DEF own
<1>8. Cardinality(Slots(f, S) \cup own) = k + n - 0
  BY <1>3, <1>5, <1>6, <1>7, FS_Union, FS_EmptySet
<1>9. Cardinality(Slots(f, S \cup {o})) = Cardinality(Slots(f, S) \cup own)
  BY <1>4
<1>10. Cardinality(Slots(f, S \cup {o})) = k + n
  <2>1. k + n - 0 = k + n
    OBVIOUS
  <2> QED BY <1>8, <1>9, <2>1
<1> QED BY <1>1, <1>7, <1>10

\* Only the units of the orders counted matter.
LEMMA SameSlots ==
    ASSUME NEW f, NEW g, NEW S, \A o \in S : f[o].units = g[o].units
    PROVE  Slots(f, S) = Slots(g, S)
BY DEF Slots

Unreleased == {o \in Orders : ~order[o].released}
Counted == {o \in Orders : order[o].released => GivingBack(o)}

LEMMA Counts ==
    ASSUME order \in [Orders -> OrderState]
    PROVE  /\ Usage = Cardinality(Slots(order, Unreleased)) /\ Usage \in Nat
           /\ Accounted = Cardinality(Slots(order, Counted)) /\ Accounted \in Nat
<1>1. Unreleased \in SUBSET Orders /\ Counted \in SUBSET Orders
  BY DEF Unreleased, Counted
<1>2. /\ Usage = Cardinality(Slots(order, Unreleased))
      /\ Accounted = Cardinality(Slots(order, Counted))
  BY DEF Usage, Accounted, Units, Slots, Unreleased, Counted
<1> QED BY <1>1, <1>2, SlotsFinite
-----------------------------------------------------------------------------
(* Types.                                                                  *)

LEMMA OnwardTyped ==
    ASSUME TypeOK, NEW pc \in After, NEW o \in Orders,
           NEW why \in {"cancelled", "refund", "edit"}
    PROVE  /\ Onward(At(pc, o, why)) \in ThreadStates
           /\ \/ Onward(At(pc, o, why)) = Idle /\ why # "edit" /\ order[o].reward = None
              \/ Onward(At(pc, o, why)) = At("restore", o, why) /\ why # "edit"
              \/ Onward(At(pc, o, why)) = At("status", o, why) /\ why = "edit"
<1>1. /\ At(pc, o, why).why = why /\ At(pc, o, why).order = o
      /\ \A to : [At(pc, o, why) EXCEPT !.pc = to] = At(to, o, why)
  BY AfterTyped
<1>2. /\ At("restore", o, why) \in ThreadStates /\ At("status", o, why) \in ThreadStates
      /\ Idle \in ThreadStates
  BY AfterTyped, IdleTyped DEF After
<1> QED BY <1>1, <1>2 DEF Onward
LEMMA Clamped ==
    ASSUME NEW a \in Int, NEW b \in Int, NEW c \in Int,
           NEW k, k = Max({0, Min({a, b, c})})
    PROVE  k \in Nat /\ (k > 0 => k <= a /\ k <= b /\ k <= c)
<1>1. PICK m : m = Min({a, b, c})
  OBVIOUS
<1>2. \E x \in {a, b, c} : \A y \in {a, b, c} : x =< y
  OBVIOUS
<1>3. m \in Int /\ m <= a /\ m <= b /\ m <= c
  BY <1>1, <1>2 DEF Min
<1>4. k = Max({0, m})
  BY <1>1
<1>5. \E x \in {0, m} : \A y \in {0, m} : x >= y
  BY <1>3
<1>6. k \in {0, m} /\ k >= 0
  BY <1>3, <1>4, <1>5 DEF Max
<1> QED BY <1>1, <1>3, <1>4, <1>6

\* The units priced are among those left, and within the customer's limit.
LEMMA Priced ==
    ASSUME TypeOK, NEW t \in Threads, NEW c \in Checkouts, NEW q \in 0 .. MaxUnits,
           NEW w \in Rewards \cup {None}, Place(t, c, q, w)
    PROVE  \E units \in Nat :
             /\ Move(t, [pc |-> "place", checkout |-> c, units |-> units, reward |-> w], {})
             /\ units <= Limit
             /\ units > 0 => deal.sold + units <= deal.total /\ Usage + units <= Limit
<1>1. /\ order \in [Orders -> OrderState]
      /\ deal.sold \in Int /\ deal.total \in Int /\ MaxUnits \in Nat /\ Limit \in Nat
  BY BoundsAssumption DEF TypeOK, OrderState
<1>2. Usage \in Nat
  BY <1>1, Counts
<1>3. PICK a, b \in Int : a = deal.total - deal.sold /\ b = Limit - Usage
  BY <1>1, <1>2
<1>4. PICK units : units = Max({0, Min({q, a, b})})
  OBVIOUS
<1>5. units \in Nat /\ (units > 0 => units <= a /\ units <= b)
  <2>1. q \in Int
    BY <1>1
  <2> QED BY <1>4, <2>1, Clamped
<1>6. Move(t, [pc |-> "place", checkout |-> c, units |-> units, reward |-> w], {})
  BY <1>3, <1>4 DEF Place
<1>7. units <= Limit
  BY <1>1, <1>2, <1>3, <1>5
<1>8. units > 0 => deal.sold + units <= deal.total /\ Usage + units <= Limit
  BY <1>1, <1>2, <1>3, <1>5
<1> QED BY <1>5, <1>6, <1>7, <1>8
\* What an update of one order leaves.
LEMMA StatusSaved ==
    ASSUME order \in [Orders -> OrderState], NEW o \in Orders,
           NEW s \in {"none", "live", "cancelled"}, order' = [order EXCEPT ![o].status = s]
    PROVE  /\ order' \in [Orders -> OrderState]
           /\ order'[o].status = s
           /\ \A p \in Orders :
                  /\ p # o => order'[p] = order[p]
                  /\ order'[p].workflow = order[p].workflow
                  /\ order'[p].reward = order[p].reward
                  /\ order'[p].units = order[p].units
                  /\ order'[p].released = order[p].released
BY DEF OrderState

LEMMA Flagged ==
    ASSUME order \in [Orders -> OrderState], NEW o \in Orders,
           order' = [order EXCEPT ![o].released = TRUE]
    PROVE  /\ order' \in [Orders -> OrderState]
           /\ order'[o].released
           /\ \A p \in Orders :
                  /\ p # o => order'[p] = order[p]
                  /\ order'[p].workflow = order[p].workflow
                  /\ order'[p].reward = order[p].reward
                  /\ order'[p].units = order[p].units
                  /\ order'[p].status = order[p].status
BY DEF OrderState

\* A step that changes no more than the threads, and the history.
LEMMA QuietTypes ==
    ASSUME TypeOK, UNCHANGED <<deal, order, reward, referral>>,
           thread' \in [Threads -> ThreadStates],
           overlapped' \subseteq {"referral", "restore", "edit"},
           \/ UNCHANGED trouble
           \/ \E what \in {"death", "status", "sale"} : Trouble(what)
    PROVE  TypeOK'
<1>1. /\ trouble' \in Seq({"death", "status", "sale"})
      /\ Len(trouble') <= MaxTroubles
  BY Troubles DEF TypeOK
<1> QED BY <1>1 DEF TypeOK

LEMMA TypeStep ==
    ASSUME TypeOK, SnapshotsOK, Next
    PROVE  TypeOK'
<1>0. /\ thread \in [Threads -> ThreadStates] /\ order \in [Orders -> OrderState]
      /\ overlapped \subseteq {"referral", "restore", "edit"}
      /\ trouble \in Seq({"death", "status", "sale"}) /\ Len(trouble) <= MaxTroubles
      /\ deal \in [sold : 0 .. MaxUnits, total : 1 .. MaxUnits]
      /\ reward \in [Rewards -> {"none", "available", "redeemed", "expired"}]
      /\ referral \in [Referrals -> {"pending", "wallet", "coupon", "skipped"}]
  BY DEF TypeOK, OrderState
<1>00. Idle \in ThreadStates /\ MaxUnits \in Nat /\ Limit \in Nat
  BY IdleTyped, BoundsAssumption
<1>1. ASSUME NEW t \in Threads, NEW c \in Checkouts, NEW q \in 0 .. MaxUnits,
             NEW w \in Rewards \cup {None}, Place(t, c, q, w)
      PROVE  TypeOK'
  <2>1. PICK units \in Nat :
          /\ Move(t, [pc |-> "place", checkout |-> c, units |-> units, reward |-> w], {})
          /\ units <= Limit
    BY <1>1, Priced
  <2>2. [pc |-> "place", checkout |-> c, units |-> units, reward |-> w] \in ThreadStates
    BY <2>1, <1>00 DEF ThreadStates
  <2> QED BY <1>0, <1>1, <2>1, <2>2, Moves, QuietTypes DEF Place
<1>2. ASSUME NEW t \in Threads, Commit(t) PROVE TypeOK'
  <2>1. PICK th \in ThreadStates : th = thread[t]
    BY <1>0
  <2>2. /\ th.pc = "place" /\ th.checkout \in Checkouts /\ th.units \in 0 .. Limit
        /\ th.reward \in Rewards \cup {None}
    BY <1>2, <2>1, ThreadsAre DEF Commit
  <2>3. thread' \in [Threads -> ThreadStates]
    BY <1>0, <1>00, <1>2, Moves DEF Commit
  <2>4. deal' \in [sold : 0 .. MaxUnits, total : 1 .. MaxUnits]
    <3>1. deal' = [deal EXCEPT !.sold = deal.sold + th.units]
      BY <1>2, <2>1 DEF Commit
    <3>2. th.units > 0 => deal.sold + th.units <= deal.total
      BY <2>1, <2>2 DEF SnapshotsOK, PlaceOK
    <3>3. deal.sold + th.units \in 0 .. MaxUnits
      BY <1>0, <1>00, <2>2, <3>2
    <3> QED BY <1>0, <3>1, <3>3
  <2>5. order' \in [Orders -> OrderState]
    <3>1. \A o \in Orders : order'[o] \in OrderState
      BY <1>0, <1>00, <1>2, <2>1, <2>2 DEF Commit, OrderState
    <3> QED BY <1>2, <3>1 DEF Commit
  <2>6. reward' \in [Rewards -> {"none", "available", "redeemed", "expired"}]
    BY <1>0, <1>2 DEF Commit
  <2> QED BY <1>2, <2>3, <2>4, <2>5, <2>6 DEF Commit, TypeOK, OrderState
<1>3. ASSUME NEW t \in Threads, Abort(t) PROVE TypeOK'
  BY <1>0, <1>00, <1>3, Moves, QuietTypes DEF Abort
<1>4. ASSUME NEW t \in Threads, NEW o \in Orders, Cancel(t, o) PROVE TypeOK'
  <2>1. At("release", o, "cancelled") \in ThreadStates
    BY AfterTyped DEF After
  <2>2. thread' \in [Threads -> ThreadStates]
    BY <1>0, <1>4, <2>1, Moves DEF Cancel
  <2>3. order' \in [Orders -> OrderState]
    BY <1>0, <1>4 DEF Cancel, OrderState
  <2> QED BY <1>4, <2>2, <2>3 DEF Cancel, TypeOK, OrderState
<1>5. ASSUME NEW t \in Threads, NEW o \in Orders, Refund(t, o) PROVE TypeOK'
  <2>1. Onward(At("restore", o, "refund")) \in ThreadStates
    BY OnwardTyped DEF After
  <2>2. thread' \in [Threads -> ThreadStates]
    BY <1>0, <1>5, <2>1, Moves DEF Refund
  <2>3. order' \in [Orders -> OrderState]
    BY <1>0, <1>5 DEF Refund, OrderState
  <2> QED BY <1>5, <2>2, <2>3 DEF Refund, TypeOK, OrderState
<1>6. ASSUME NEW t \in Threads, NEW o \in Orders, NEW status \in {"live", "cancelled"},
             EditStatus(t, o, status)
      PROVE  TypeOK'
  <2>1. At("release", o, "edit") \in ThreadStates
    BY AfterTyped DEF After
  <2>2. thread' \in [Threads -> ThreadStates]
    BY <1>0, <1>6, <2>1, Moves DEF EditStatus
  <2>3. order' \in [Orders -> OrderState]
    <3>1. order' = order \/ order' = [order EXCEPT ![o].status = status]
      BY <1>6 DEF EditStatus
    <3>2. CASE order' = order
      BY <1>0, <3>2
    <3>3. CASE order' = [order EXCEPT ![o].status = status]
      <4>1. status \in {"none", "live", "cancelled"}
        OBVIOUS
      <4> QED BY <1>0, <3>3, <4>1, StatusSaved
    <3> QED BY <3>1, <3>2, <3>3
  <2>4. trouble' \in Seq({"death", "status", "sale"}) /\ Len(trouble') <= MaxTroubles
    BY <1>0, <1>6, Troubles DEF EditStatus
  <2> QED BY <1>6, <2>2, <2>3, <2>4 DEF EditStatus, TypeOK, OrderState
<1>7. ASSUME NEW t \in Threads, Release(t) PROVE TypeOK'
  <2>1. PICK o \in Orders, why \in {"cancelled", "refund", "edit"} :
          thread[t] = At("release", o, why)
    BY <1>0, <1>7, ThreadsAre DEF Release, After
  <2>2. /\ At("give", o, why) \in ThreadStates /\ Onward(At("release", o, why)) \in ThreadStates
        /\ [At("release", o, why) EXCEPT !.pc = "give"] = At("give", o, why)
        /\ At("release", o, why).order = o
    BY AfterTyped, OnwardTyped DEF After
  <2>3. thread' \in [Threads -> ThreadStates]
    <3>1. \/ Move(t, At("give", o, why), {})
          \/ Move(t, Onward(At("release", o, why)), {})
      <4>1. [thread[t] EXCEPT !.pc = "give"] = At("give", o, why)
        BY <2>1, <2>2
      <4>2. \/ Move(t, [thread[t] EXCEPT !.pc = "give"], {})
            \/ Move(t, Onward(thread[t]), {})
        BY <1>7 DEF Release
      <4> QED BY <2>1, <4>1, <4>2
    <3>2. CASE Move(t, At("give", o, why), {})
      BY <1>0, <2>2, <3>2, Moves
    <3>3. CASE Move(t, Onward(At("release", o, why)), {})
      BY <1>0, <2>2, <3>3, Moves
    <3> QED BY <3>1, <3>2, <3>3
  <2>4. order' \in [Orders -> OrderState]
    <3>1. PICK p \in Orders : p = thread[t].order
      BY <2>1, <2>2
    <3>2. order' = order \/ order' = [order EXCEPT ![p].released = TRUE]
      BY <1>7, <3>1 DEF Release
    <3> QED BY <1>0, <3>2, Flagged
  <2> QED BY <1>7, <2>3, <2>4 DEF Release, TypeOK, OrderState
<1>8. ASSUME NEW t \in Threads, GiveBack(t) PROVE TypeOK'
  <2>1. PICK o \in Orders, why \in {"cancelled", "refund", "edit"} :
          thread[t] = At("give", o, why)
    BY <1>0, <1>8, ThreadsAre DEF GiveBack, After
  <2>2. Onward(At("give", o, why)) \in ThreadStates /\ At("give", o, why).order = o
    BY AfterTyped, OnwardTyped DEF After
  <2>3. thread' \in [Threads -> ThreadStates]
    BY <1>0, <1>8, <2>1, <2>2, Moves DEF GiveBack
  <2>4. PICK n \in 0 .. Limit : n = order[o].units
    BY <1>0 DEF OrderState
  <2>5. deal' = [deal EXCEPT !.sold = IF deal.sold >= n THEN deal.sold - n ELSE deal.sold]
    BY <1>8, <2>1, <2>2, <2>4 DEF GiveBack
  <2>6. (IF deal.sold >= n THEN deal.sold - n ELSE deal.sold) \in 0 .. MaxUnits
    BY <1>0, <1>00, <2>4
  <2>7. deal' \in [sold : 0 .. MaxUnits, total : 1 .. MaxUnits]
    BY <1>0, <2>5, <2>6
  <2> QED BY <1>8, <2>3, <2>7 DEF GiveBack, TypeOK
<1>9. ASSUME NEW t \in Threads, SaveStatus(t) PROVE TypeOK'
  <2>1. thread[t].order \in Orders
    BY <1>0, <1>9, ThreadsAre DEF SaveStatus, After
  <2>2. thread' \in [Threads -> ThreadStates]
    BY <1>0, <1>00, <1>9, Moves DEF SaveStatus
  <2>3. order' \in [Orders -> OrderState]
    <3>1. PICK o \in Orders : o = thread[t].order
      BY <2>1
    <3>2. order' = [order EXCEPT ![o].status = "cancelled"]
      BY <1>9, <3>1 DEF SaveStatus
    <3> QED BY <1>0, <3>2, StatusSaved
  <2> QED BY <1>9, <2>2, <2>3 DEF SaveStatus, TypeOK, OrderState
<1>10. ASSUME NEW t \in Threads, RestoreCount(t) PROVE TypeOK'
  <2>1. PICK o \in Orders, why \in {"cancelled", "refund", "edit"} :
          thread[t] = At("restore", o, why)
    BY <1>0, <1>10, ThreadsAre DEF RestoreCount, After
  <2>2. /\ At("write", o, why) \in ThreadStates
        /\ [At("restore", o, why) EXCEPT !.pc = "write"] = At("write", o, why)
    BY AfterTyped DEF After
  <2>3. /\ thread' \in [Threads -> ThreadStates]
        /\ overlapped' \subseteq {"referral", "restore", "edit"}
    BY <1>0, <1>00, <1>10, <2>1, <2>2, Moves DEF RestoreCount
  <2> QED BY <1>10, <2>3, QuietTypes DEF RestoreCount
<1>11. ASSUME NEW t \in Threads, RestoreWrite(t) PROVE TypeOK'
  <2>1. thread' \in [Threads -> ThreadStates]
    BY <1>0, <1>00, <1>11, Moves DEF RestoreWrite
  <2>2. reward' \in [Rewards -> {"none", "available", "redeemed", "expired"}]
    BY <1>0, <1>11 DEF RestoreWrite
  <2> QED BY <1>11, <2>1, <2>2 DEF RestoreWrite, TypeOK
<1>12. ASSUME NEW t \in Threads, EditSale(t) PROVE TypeOK'
  <2>1. [pc |-> "sale", sold |-> deal.sold] \in ThreadStates
    BY <1>0 DEF ThreadStates
  <2> QED BY <1>0, <1>12, <2>1, Moves, QuietTypes DEF EditSale
<1>13. ASSUME NEW t \in Threads, NEW total \in 1 .. MaxUnits, SaveSale(t, total) PROVE TypeOK'
  <2>1. thread[t].sold \in 0 .. MaxUnits
    BY <1>0, <1>13, ThreadsAre DEF SaveSale
  <2>2. thread' \in [Threads -> ThreadStates]
    BY <1>0, <1>00, <1>13, Moves DEF SaveSale
  <2>3. deal' \in [sold : 0 .. MaxUnits, total : 1 .. MaxUnits]
    BY <1>0, <1>13, <2>1 DEF SaveSale
  <2>4. overlapped' \subseteq {"referral", "restore", "edit"}
    BY <1>0, <1>13 DEF SaveSale
  <2> QED BY <1>13, <2>2, <2>3, <2>4 DEF SaveSale, TypeOK
<1>14. ASSUME NEW t \in Threads, NEW i \in Referrals, NEW coupon \in BOOLEAN,
              StartCompletion(t, i, coupon)
       PROVE  TypeOK'
  <2>1. Cardinality(Issued) \in 0 .. Cardinality(Referrals)
    BY FiniteAssumption, FS_Subset, FS_CardinalityType DEF Issued
  <2>2. [pc |-> "complete", referral |-> i, issued |-> Cardinality(Issued),
         coupon |-> coupon] \in ThreadStates
    BY <2>1 DEF ThreadStates
  <2> QED BY <1>0, <1>14, <2>2, Moves, QuietTypes DEF StartCompletion
<1>15. ASSUME NEW t \in Threads, Complete(t) PROVE TypeOK'
  <2>1. thread' \in [Threads -> ThreadStates]
    BY <1>0, <1>00, <1>15, Moves DEF Complete
  <2>2. referral' \in [Referrals -> {"pending", "wallet", "coupon", "skipped"}]
    BY <1>0, <1>15 DEF Complete
  <2>3. reward' \in [Rewards -> {"none", "available", "redeemed", "expired"}]
    BY <1>0, <1>15 DEF Complete
  <2>4. overlapped' \subseteq {"referral", "restore", "edit"}
    BY <1>0, <1>15 DEF Complete
  <2> QED BY <1>15, <2>1, <2>2, <2>3, <2>4 DEF Complete, TypeOK
<1>16. ASSUME NEW t \in Threads, Die(t) PROVE TypeOK'
  BY <1>0, <1>00, <1>16, Moves, QuietTypes DEF Die
<1>17. ASSUME NEW w \in Rewards, Expire(w) PROVE TypeOK'
  <2>1. thread' \in [Threads -> ThreadStates]
    BY <1>0, <1>17, Overtakes DEF Expire
  <2>2. reward' \in [Rewards -> {"none", "available", "redeemed", "expired"}]
    BY <1>0, <1>17 DEF Expire
  <2> QED BY <1>17, <2>1, <2>2 DEF Expire, TypeOK
<1> QED BY <1>1, <1>2, <1>3, <1>4, <1>5, <1>6, <1>7, <1>8, <1>9, <1>10, <1>11, <1>12,
           <1>13, <1>14, <1>15, <1>16, <1>17 DEF Next
-----------------------------------------------------------------------------
(* Referrals.                                                              *)

\* Where a handler goes on from the release of an order, or from an idle thread.
LEMMA ReleaseGoes ==
    ASSUME TypeOK, NEW t \in Threads, Release(t)
    PROVE  \E o \in Orders, why \in {"cancelled", "refund", "edit"} :
             /\ thread[t] = At("release", o, why)
             /\ \/ /\ order[o].units > 0 /\ ~order[o].released
                   /\ order' = [order EXCEPT ![o].released = TRUE]
                   /\ Move(t, At("give", o, why), {})
                \/ /\ ~ (order[o].units > 0 /\ ~order[o].released)
                   /\ order' = order
                   /\ Move(t, Onward(At("release", o, why)), {})
<1>1. PICK o \in Orders, why \in {"cancelled", "refund", "edit"} :
        thread[t] = At("release", o, why)
  BY ThreadsAre DEF Release, After, TypeOK
<1>2. thread[t].order = o
  BY <1>1, AfterTyped DEF After
<1>3. [thread[t] EXCEPT !.pc = "give"] = At("give", o, why)
  BY <1>1, AfterTyped DEF After
<1>4. CASE order[o].units > 0 /\ ~order[o].released
  <2>1. /\ order' = [order EXCEPT ![o].released = TRUE]
        /\ Move(t, [thread[t] EXCEPT !.pc = "give"], {})
    BY <1>2, <1>4 DEF Release
  <2>2. Move(t, At("give", o, why), {})
    BY <1>3, <2>1
  <2> QED BY <1>1, <1>4, <2>1, <2>2
<1>5. CASE ~ (order[o].units > 0 /\ ~order[o].released)
  <2>1. order' = order /\ Move(t, Onward(thread[t]), {})
    BY <1>2, <1>5 DEF Release
  <2>2. Move(t, Onward(At("release", o, why)), {})
    BY <1>1, <2>1
  <2> QED BY <1>1, <1>5, <2>1, <2>2
<1> QED BY <1>4, <1>5

LEMMA GiveBackGoes ==
    ASSUME TypeOK, NEW t \in Threads, GiveBack(t)
    PROVE  \E o \in Orders, why \in {"cancelled", "refund", "edit"} :
             /\ thread[t] = At("give", o, why)
             /\ deal' = [deal EXCEPT !.sold = IF deal.sold >= order[o].units
                                              THEN deal.sold - order[o].units
                                              ELSE deal.sold]
             /\ Move(t, Onward(At("give", o, why)), {"deal"})
<1>1. PICK o \in Orders, why \in {"cancelled", "refund", "edit"} :
        thread[t] = At("give", o, why)
  BY ThreadsAre DEF GiveBack, After, TypeOK
<1>2. thread[t].order = o
  BY <1>1, AfterTyped DEF After
<1> QED BY <1>1, <1>2 DEF GiveBack

LEMMA RestoreCountGoes ==
    ASSUME TypeOK, NEW t \in Threads, RestoreCount(t)
    PROVE  \E o \in Orders, why \in {"cancelled", "refund", "edit"} :
             /\ thread[t] = At("restore", o, why)
             /\ \/ /\ reward[order[o].reward] = "redeemed" /\ ActiveOthers(o) = {}
                   /\ Move(t, At("write", o, why), {})
                   /\ overlapped' = overlapped \cup
                        IF \E u \in Threads : Restoring(u, order[o].reward)
                        THEN {"restore"} ELSE {}
                \/ /\ ~ (/\ reward[order[o].reward] = "redeemed"
                         /\ Restorable(order[o].reward, why)
                         /\ ActiveOthers(o) = {})
                   /\ Move(t, Idle, {})
                   /\ overlapped' = overlapped
<1>1. PICK o \in Orders, why \in {"cancelled", "refund", "edit"} :
        thread[t] = At("restore", o, why)
  <2>1. thread[t].pc = "restore" /\ thread[t] \in ThreadStates
    BY DEF RestoreCount, TypeOK
  <2> QED BY <2>1, ThreadsAre DEF After
<1>2. thread[t].order = o /\ thread[t].why = why
  BY <1>1, AfterTyped DEF After
<1>3. [thread[t] EXCEPT !.pc = "write"] = At("write", o, why)
  BY <1>1, AfterTyped DEF After
<1>4. CASE /\ reward[order[o].reward] = "redeemed"
           /\ Restorable(order[o].reward, why)
           /\ ActiveOthers(o) = {}
  <2>1. /\ Move(t, [thread[t] EXCEPT !.pc = "write"], {})
        /\ overlapped' = overlapped \cup
             IF \E u \in Threads : Restoring(u, order[o].reward) THEN {"restore"} ELSE {}
    BY <1>2, <1>4 DEF RestoreCount
  <2>2. Move(t, At("write", o, why), {})
    BY <1>3, <2>1
  <2> QED BY <1>1, <1>4, <2>1, <2>2
<1>5. CASE ~ (/\ reward[order[o].reward] = "redeemed"
              /\ Restorable(order[o].reward, why)
              /\ ActiveOthers(o) = {})
  BY <1>1, <1>2, <1>5 DEF RestoreCount
<1> QED BY <1>4, <1>5

\* The threads after a step, as far as the steps are alike: one thread t goes on, and
\* others stay or abort.
Goes(t, pcs) ==
    /\ thread'[t] = thread[t] \/ thread'[t].pc \in pcs
    /\ \A u \in Threads \ {t} : thread'[u] = thread[u] \/ thread'[u] = Idle

LEMMA Going ==
    ASSUME TypeOK, NEW t \in Threads, NEW th, NEW docs, Move(t, th, docs), NEW pcs,
           th.pc \in pcs
    PROVE  Goes(t, pcs)
BY Moves DEF Goes, TypeOK

LEMMA OnwardGoes ==
    ASSUME TypeOK, NEW pc \in After, NEW o \in Orders,
           NEW why \in {"cancelled", "refund", "edit"}
    PROVE  Onward(At(pc, o, why)).pc \in {"idle", "restore", "status"}
<1>1. At("restore", o, why).pc = "restore" /\ At("status", o, why).pc = "status"
  BY DEF At
<1> QED BY <1>1, OnwardTyped, IdleTyped

LEMMA OtherSteps ==
    ASSUME TypeOK, Next
    PROVE  \/ \E t \in Threads : \E c \in Checkouts, q \in 0 .. MaxUnits,
                                   w \in Rewards \cup {None} : Place(t, c, q, w)
           \/ \E t \in Threads : Complete(t)
           \/ \E t \in Threads, i \in Referrals, coupon \in BOOLEAN :
                StartCompletion(t, i, coupon)
           \/ /\ referral' = referral /\ overlapped \subseteq overlapped'
              /\ \E t \in Threads : Goes(t, {"idle", "sale"} \cup After)
           \/ \E w \in Rewards : Expire(w)
<1> DEFINE Calm == /\ referral' = referral /\ overlapped \subseteq overlapped'
                   /\ \E t \in Threads : Goes(t, {"idle", "sale"} \cup After)
<1>0. Idle.pc = "idle" /\ \A pc, o, why : At(pc, o, why).pc = pc
  BY DEF Idle, At
<1>1. ASSUME NEW t \in Threads, Commit(t) \/ Abort(t) \/ SaveStatus(t) \/ RestoreWrite(t)
                                \/ Die(t)
      PROVE  Calm
  <2>1. referral' = referral /\ overlapped' = overlapped /\ \E docs : Move(t, Idle, docs)
    BY <1>1 DEF Commit, Abort, SaveStatus, RestoreWrite, Die
  <2> QED BY <1>0, <2>1, Going
<1>2. ASSUME NEW t \in Threads, NEW o \in Orders, Cancel(t, o) PROVE Calm
  <2>1. /\ referral' = referral /\ overlapped' = overlapped
        /\ Move(t, At("release", o, "cancelled"), {})
    BY <1>2 DEF Cancel
  <2> QED BY <1>0, <2>1, Going DEF After
<1>3. ASSUME NEW t \in Threads, NEW o \in Orders, Refund(t, o) PROVE Calm
  <2>1. /\ referral' = referral /\ overlapped' = overlapped
        /\ Move(t, Onward(At("restore", o, "refund")), {})
    BY <1>3 DEF Refund
  <2>2. Onward(At("restore", o, "refund")).pc \in {"idle", "sale"} \cup After
    BY OnwardGoes DEF After
  <2> QED BY <2>1, <2>2, Going
<1>4. ASSUME NEW t \in Threads, NEW o \in Orders, NEW status \in {"live", "cancelled"},
             EditStatus(t, o, status)
      PROVE  Calm
  <2>1. /\ referral' = referral /\ overlapped' = overlapped
        /\ thread' = thread \/ Move(t, At("release", o, "edit"), {})
    BY <1>4 DEF EditStatus
  <2>2. CASE thread' = thread
    BY <2>1, <2>2 DEF Goes
  <2>3. CASE Move(t, At("release", o, "edit"), {})
    BY <1>0, <2>1, <2>3, Going DEF After
  <2> QED BY <2>1, <2>2, <2>3
<1>5. ASSUME NEW t \in Threads, Release(t) PROVE Calm
  <2>1. PICK o \in Orders, why \in {"cancelled", "refund", "edit"} :
          Move(t, At("give", o, why), {}) \/ Move(t, Onward(At("release", o, why)), {})
    BY <1>5, ReleaseGoes
  <2>2. Onward(At("release", o, why)).pc \in {"idle", "sale"} \cup After
    BY OnwardGoes DEF After
  <2>3. At("give", o, why).pc \in {"idle", "sale"} \cup After
    BY <1>0 DEF After
  <2>4. Goes(t, {"idle", "sale"} \cup After)
    BY <2>1, <2>2, <2>3, Going
  <2> QED BY <1>5, <2>4 DEF Release
<1>6. ASSUME NEW t \in Threads, GiveBack(t) PROVE Calm
  <2>1. PICK o \in Orders, why \in {"cancelled", "refund", "edit"} :
          Move(t, Onward(At("give", o, why)), {"deal"})
    BY <1>6, GiveBackGoes
  <2>2. Onward(At("give", o, why)).pc \in {"idle", "sale"} \cup After
    BY OnwardGoes DEF After
  <2> QED BY <1>6, <2>1, <2>2, Going DEF GiveBack
<1>7. ASSUME NEW t \in Threads, RestoreCount(t) PROVE Calm
  <2>1. PICK o \in Orders, why \in {"cancelled", "refund", "edit"} :
          /\ Move(t, At("write", o, why), {}) \/ Move(t, Idle, {})
          /\ overlapped \subseteq overlapped'
    BY <1>7, RestoreCountGoes
  <2>2. At("write", o, why).pc \in {"idle", "sale"} \cup After
    BY <1>0 DEF After
  <2>3. Goes(t, {"idle", "sale"} \cup After)
    BY <1>0, <2>1, <2>2, Going
  <2> QED BY <1>7, <2>1, <2>3 DEF RestoreCount
<1>8. ASSUME NEW t \in Threads, EditSale(t) PROVE Calm
  <2>1. [pc |-> "sale", sold |-> deal.sold].pc \in {"idle", "sale"} \cup After
    OBVIOUS
  <2> QED BY <1>8, <2>1, Going DEF EditSale
<1>9. ASSUME NEW t \in Threads, NEW total \in 1 .. MaxUnits, SaveSale(t, total) PROVE Calm
  <2>1. /\ referral' = referral /\ overlapped \subseteq overlapped'
        /\ Move(t, Idle, {"deal"})
    BY <1>9 DEF SaveSale
  <2> QED BY <1>0, <2>1, Going
<1> QED BY <1>1, <1>2, <1>3, <1>4, <1>5, <1>6, <1>7, <1>8, <1>9 DEF Next
LEMMA IssuedCount ==
    ASSUME TypeOK
    PROVE  Cardinality(Issued) \in Nat /\ IsFiniteSet(Issued)
<1>1. IsFiniteSet(Issued)
  BY FiniteAssumption, FS_Subset DEF Issued
<1> QED BY <1>1, FS_CardinalityType

\* One more, where the outcome is a reward.
LEMMA IssuedMore ==
    ASSUME TypeOK, NEW i \in Referrals, referral[i] = "pending", NEW outcome,
           referral' = [referral EXCEPT ![i] = outcome]
    PROVE  /\ outcome = "skipped" => Cardinality(Issued') = Cardinality(Issued)
           /\ outcome \in {"wallet", "coupon"} =>
                  Cardinality(Issued') = Cardinality(Issued) + 1
<1>1. referral \in [Referrals -> {"pending", "wallet", "coupon", "skipped"}]
  BY DEF TypeOK
<1>2. i \notin Issued
  BY DEF Issued
<1>3. outcome = "skipped" => Issued' = Issued
  BY <1>1, <1>2 DEF Issued
<1>4. outcome \in {"wallet", "coupon"} => Issued' = Issued \cup {i}
  BY <1>1, <1>2 DEF Issued
<1>5. IsFiniteSet(Issued) /\ Cardinality(Issued) \in Nat
  BY IssuedCount
<1>6. Cardinality(Issued \cup {i}) = Cardinality(Issued) + 1
  BY <1>2, <1>5, FS_AddElement
<1> QED BY <1>3, <1>4, <1>6

LEMMA ReferralKept ==
    ASSUME ReferralInv, referral' = referral, overlapped \subseteq overlapped',
           \A u \in Threads : \/ thread'[u].pc # "complete" \/ thread'[u] = thread[u]
                              \/ thread'[u].issued = Cardinality(Issued)
    PROVE  ReferralInv'
<1>1. Issued' = Issued
  BY DEF Issued
<1> QED BY <1>1 DEF ReferralInv, ReferralLimit

LEMMA CompleteReferral ==
    ASSUME TypeOK, SnapshotsOK, ReferralInv, NEW t \in Threads, Complete(t)
    PROVE  ReferralInv'
<1>0. thread \in [Threads -> ThreadStates] /\ overlapped \subseteq {"referral", "restore", "edit"}
  BY DEF TypeOK
<1>1. PICK th \in ThreadStates : th = thread[t]
  BY <1>0
<1>2. PICK i \in Referrals : i = th.referral
  BY <1>1, ThreadsAre DEF Complete
<1>3. th.pc = "complete" /\ th.issued \in 0 .. Cardinality(Referrals) /\ th.coupon \in BOOLEAN
  BY <1>1, ThreadsAre DEF Complete
<1>4. referral[i] = "pending"
  BY <1>1, <1>2, <1>3 DEF SnapshotsOK
<1>5. PICK n \in Nat : n = Cardinality(Issued)
  BY IssuedCount
<1>6. th.issued \in Nat /\ MaxReferrals \in Nat \ {0}
  <2>1. Cardinality(Referrals) \in Nat
    BY FiniteAssumption, FS_CardinalityType
  <2> QED BY <1>3, <2>1, BoundsAssumption
<1>7. PICK outcome : outcome = IF th.issued >= MaxReferrals THEN "skipped"
                               ELSE IF th.coupon THEN "coupon" ELSE "wallet"
  OBVIOUS
<1>8. /\ referral' = [referral EXCEPT ![i] = outcome]
      /\ overlapped' = overlapped \cup IF th.issued # n THEN {"referral"} ELSE {}
      /\ Move(t, Idle, IF outcome = "wallet" THEN Writes(th) ELSE {i})
  BY <1>1, <1>2, <1>5, <1>7 DEF Complete
<1>9. /\ outcome = "skipped" => Cardinality(Issued') = n
      /\ outcome \in {"wallet", "coupon"} => Cardinality(Issued') = n + 1
  BY <1>4, <1>5, <1>8, IssuedMore
<1>10. thread'[t].pc = "idle"
  BY <1>0, <1>8, Moves, IdleTyped
<1>11. \A u \in Threads \ {t} :
         \/ thread'[u] = Idle
         \/ /\ thread'[u] = thread[u]
            /\ outcome = "wallet" => Writes(thread[u]) \cap Writes(th) = {}
  BY <1>0, <1>8, Moves
<1>12. referral \in [Referrals -> {"pending", "wallet", "coupon", "skipped"}]
  BY DEF TypeOK
<1>13. (\A j \in Referrals : referral'[j] # "coupon")
         => outcome # "coupon" /\ \A j \in Referrals : referral[j] # "coupon"
  BY <1>4, <1>8, <1>12
<1>14. (\A j \in Referrals : referral'[j] # "coupon") => th.issued = n \/ th.coupon
  BY <1>1, <1>3, <1>5, <1>13 DEF ReferralInv
<1>15. ReferralLimit'
  <2>1. CASE outcome = "skipped"
    <3>1. n <= MaxReferrals \/ ~ ("referral" \notin overlapped \/
                                  \A j \in Referrals : referral[j] # "coupon")
      BY <1>5 DEF ReferralInv, ReferralLimit
    <3> QED BY <1>8, <1>9, <1>13, <2>1, <3>1 DEF ReferralLimit
  <2>2. CASE outcome # "skipped"
    <3>1. outcome \in {"wallet", "coupon"} /\ th.issued < MaxReferrals
      BY <1>6, <1>7, <2>2
    <3>2. "referral" \notin overlapped' => th.issued = n
      BY <1>8
    <3>3. (\A j \in Referrals : referral'[j] # "coupon") => th.issued = n
      BY <1>7, <1>13, <1>14, <3>1
    <3>4. th.issued = n => n + 1 <= MaxReferrals
      BY <1>6, <3>1
    <3> QED BY <1>9, <3>1, <3>2, <3>3, <3>4 DEF ReferralLimit
  <2> QED BY <2>1, <2>2
<1>16. ASSUME \A j \in Referrals : referral'[j] # "coupon", NEW u \in Threads,
              thread'[u].pc = "complete", ~thread'[u].coupon
       PROVE  thread'[u].issued = Cardinality(Issued')
  <2>1. u # t /\ thread'[u] = thread[u] /\ thread[u].pc = "complete" /\ ~thread[u].coupon
    BY <1>10, <1>11, <1>16, IdleTyped
  <2>2. thread[u].issued = n
    BY <1>5, <1>13, <1>16, <2>1 DEF ReferralInv
  <2>3. outcome # "wallet"
    <3>1. SUFFICES ASSUME outcome = "wallet" PROVE FALSE
      OBVIOUS
    <3>2. ~th.coupon
      BY <1>7, <3>1
    <3>3. "customer" \in Writes(th) /\ "customer" \in Writes(thread[u])
      BY <1>3, <2>1, <3>2 DEF Writes
    <3> QED BY <1>11, <2>1, <3>1, <3>3, IdleTyped
  <2>4. outcome = "skipped"
    BY <1>7, <1>13, <1>16, <2>3
  <2> QED BY <1>9, <2>1, <2>2, <2>4
<1> QED BY <1>15, <1>16 DEF ReferralInv

LEMMA ReferralStep ==
    ASSUME TypeOK, SnapshotsOK, ReferralInv, Next
    PROVE  ReferralInv'
<1>0. thread \in [Threads -> ThreadStates] /\ Idle.pc = "idle"
  BY IdleTyped DEF TypeOK
<1>1. ASSUME NEW t \in Threads, NEW c \in Checkouts, NEW q \in 0 .. MaxUnits,
             NEW w \in Rewards \cup {None}, Place(t, c, q, w)
      PROVE  ReferralInv'
  <2>1. PICK units :
          Move(t, [pc |-> "place", checkout |-> c, units |-> units, reward |-> w], {})
    BY <1>1, Priced
  <2>2. Goes(t, {"place"})
    BY <2>1, Going
  <2> QED BY <1>0, <1>1, <2>2, ReferralKept DEF Place, Goes
<1>2. ASSUME NEW t \in Threads, Complete(t) PROVE ReferralInv'
  BY <1>2, CompleteReferral
<1>3. ASSUME NEW t \in Threads, NEW i \in Referrals, NEW coupon \in BOOLEAN,
             StartCompletion(t, i, coupon)
      PROVE  ReferralInv'
  <2>1. /\ thread'[t].issued = Cardinality(Issued)
        /\ \A u \in Threads \ {t} : thread'[u] = thread[u] \/ thread'[u] = Idle
    BY <1>0, <1>3, Moves DEF StartCompletion
  <2> QED BY <1>0, <1>3, <2>1, ReferralKept DEF StartCompletion
<1>4. ASSUME referral' = referral, overlapped \subseteq overlapped',
             NEW t \in Threads, Goes(t, {"idle", "sale"} \cup After)
      PROVE  ReferralInv'
  BY <1>0, <1>4, ReferralKept DEF Goes, After
<1>5. ASSUME NEW w \in Rewards, Expire(w) PROVE ReferralInv'
  BY <1>0, <1>5, Overtakes, ReferralKept DEF Expire
<1> QED BY <1>1, <1>2, <1>3, <1>4, <1>5, OtherSteps
-----------------------------------------------------------------------------
(* Orders, and what placements and completions have read.                  *)

\* What every step but the commit of a placement leaves of the orders.
Evolve ==
    /\ order' \in [Orders -> OrderState]
    /\ \A o \in Orders :
           /\ order'[o].units = order[o].units /\ order'[o].reward = order[o].reward
           /\ order[o].released => order'[o].released
           /\ order[o].status = "none" => order'[o] = order[o]
           /\ order[o].status # "none" => order'[o].status # "none"

LEMMA Evolution ==
    ASSUME TypeOK, OrdersOK, Next
    PROVE  (\E t \in Threads : Commit(t)) \/ Evolve
<1>0. thread \in [Threads -> ThreadStates] /\ order \in [Orders -> OrderState]
  BY DEF TypeOK, OrderState
<1>1. ASSUME order' = order PROVE Evolve
  BY <1>0, <1>1 DEF Evolve
<1>2. ASSUME NEW t \in Threads, NEW o \in Orders, Cancel(t, o) \/ Refund(t, o) PROVE Evolve
  <2>1. /\ order[o].status # "none"
        /\ \/ order' = [order EXCEPT ![o].status = "cancelled", ![o].workflow = "cancelled"]
           \/ order' = [order EXCEPT ![o].status = "live", ![o].workflow = "returned"]
    BY <1>2 DEF Cancel, Refund
  <2> QED BY <1>0, <2>1 DEF Evolve, OrderState
<1>3. ASSUME NEW o \in Orders, NEW s \in {"live", "cancelled"}, order[o].status # "none",
             order' = [order EXCEPT ![o].status = s]
      PROVE  Evolve
  BY <1>0, <1>3, StatusSaved DEF Evolve
<1>4. ASSUME NEW t \in Threads, NEW o \in Orders, NEW status \in {"live", "cancelled"},
             EditStatus(t, o, status)
      PROVE  Evolve
  <2>1. order' = order \/ order' = [order EXCEPT ![o].status = status]
    BY <1>4 DEF EditStatus
  <2>2. order[o].status # "none"
    BY <1>4 DEF EditStatus
  <2> QED BY <1>1, <1>3, <2>1, <2>2
<1>5. ASSUME NEW t \in Threads, Release(t) PROVE Evolve
  <2>1. PICK o \in Orders :
          \/ order' = order
          \/ order[o].units > 0 /\ (order' = [order EXCEPT ![o].released = TRUE])
    <3>1. PICK o \in Orders, why \in {"cancelled", "refund", "edit"} :
            \/ /\ order[o].units > 0
               /\ order' = [order EXCEPT ![o].released = TRUE]
            \/ order' = order
      BY <1>5, ReleaseGoes
    <3> QED BY <3>1
  <2>2. CASE order' = order
    BY <1>1, <2>2
  <2>3. CASE order[o].units > 0 /\ (order' = [order EXCEPT ![o].released = TRUE])
    <3>1. order[o].status # "none"
      BY <2>3 DEF OrdersOK
    <3> QED BY <1>0, <2>3, <3>1, Flagged DEF Evolve
  <2> QED BY <2>1, <2>2, <2>3
<1>6. ASSUME NEW t \in Threads, SaveStatus(t) PROVE Evolve
  <2>1. PICK o \in Orders : o = thread[t].order
    BY <1>0, <1>6, ThreadsAre DEF SaveStatus, After
  <2>2. order' = [order EXCEPT ![o].status = "cancelled"] /\ order[o].status # "none"
    BY <1>6, <2>1 DEF SaveStatus, OrdersOK
  <2> QED BY <1>3, <2>2
<1>7. ASSUME NEW t \in Threads,
             \/ \E c \in Checkouts, q \in 0 .. MaxUnits, w \in Rewards \cup {None} :
                  Place(t, c, q, w)
             \/ Abort(t) \/ GiveBack(t) \/ RestoreCount(t) \/ RestoreWrite(t) \/ EditSale(t)
             \/ \E total \in 1 .. MaxUnits : SaveSale(t, total)
             \/ \E i \in Referrals, coupon \in BOOLEAN : StartCompletion(t, i, coupon)
             \/ Complete(t) \/ Die(t)
      PROVE  Evolve
  <2>1. order' = order
    BY <1>7 DEF Place, Abort, GiveBack, RestoreCount, RestoreWrite, EditSale, SaveSale,
                StartCompletion, Complete, Die
  <2> QED BY <1>1, <2>1
<1>8. ASSUME NEW w \in Rewards, Expire(w) PROVE Evolve
  BY <1>1, <1>8 DEF Expire
<1> QED BY <1>2, <1>4, <1>5, <1>6, <1>7, <1>8 DEF Next

LEMMA UsageShrinks ==
    ASSUME TypeOK, Evolve
    PROVE  Usage' <= Usage /\ Usage' \in Nat
<1>0. order \in [Orders -> OrderState] /\ order' \in [Orders -> OrderState]
  BY DEF TypeOK, OrderState, Evolve
<1>1. PICK g : g = order'
  OBVIOUS
<1>2. PICK S \in SUBSET Orders : S = {o \in Orders : ~g[o].released}
  OBVIOUS
<1>3. S \in SUBSET Unreleased /\ Unreleased \in SUBSET Orders
  BY <1>1, <1>2 DEF Evolve, Unreleased
<1>4. Slots(g, S) = Slots(order, S)
  BY <1>1, SameSlots DEF Evolve
<1>5. Usage' = Cardinality(Slots(g, S))
  BY <1>1, <1>2 DEF Usage, Units, Slots
<1>6. Cardinality(Slots(order, S)) <= Cardinality(Slots(order, Unreleased))
  BY <1>0, <1>3, SlotsGrow
<1>7. Usage = Cardinality(Slots(order, Unreleased)) /\ Cardinality(Slots(g, S)) \in Nat
  BY <1>0, <1>1, Counts, SlotsFinite
<1> QED BY <1>4, <1>5, <1>6, <1>7

\* A placement that stays open stays true.
LEMMA PlaceKept ==
    ASSUME TypeOK, SnapshotsOK, Evolve, NEW u \in Threads, thread'[u] = thread[u],
           thread[u].pc = "place" =>
               /\ thread[u].reward # None /\ reward[thread[u].reward] = "available" =>
                      reward'[thread[u].reward] = "available"
               /\ thread[u].units > 0 => deal' = deal
    PROVE  PlaceOK(thread[u])'
<1>0. PICK th \in ThreadStates : th = thread[u]
  BY DEF TypeOK
<1>1. SUFFICES ASSUME th.pc = "place" PROVE PlaceOK(thread[u])'
  BY <1>0 DEF PlaceOK
<1>2. PlaceOK(th)
  BY <1>0 DEF SnapshotsOK
<1>3. \A o \in Of(th.checkout) : order'[o].status = "none"
  BY <1>1, <1>2 DEF PlaceOK, Of, Evolve
<1>4. th.reward # None => reward'[th.reward] = "available"
  BY <1>0, <1>1, <1>2 DEF PlaceOK
<1>5. ASSUME th.units > 0
      PROVE  deal'.sold + th.units <= deal'.total /\ Usage' + th.units <= Limit
  <2>1. deal' = deal
    BY <1>0, <1>1, <1>5
  <2>2. PICK n \in Nat, m \in Nat : n = Usage' /\ m = Usage /\ n <= m
    <3>1. order \in [Orders -> OrderState]
      BY DEF TypeOK, OrderState
    <3> QED BY <3>1, Counts, UsageShrinks
  <2>3. th.units \in 0 .. Limit /\ Limit \in Nat
    BY <1>1, ThreadsAre, BoundsAssumption
  <2>4. m + th.units <= Limit /\ deal.sold + th.units <= deal.total
    BY <1>1, <1>2, <1>5, <2>2 DEF PlaceOK
  <2>5. n + th.units <= Limit
    BY <2>2, <2>3, <2>4
  <2> QED BY <2>1, <2>2, <2>4, <2>5
<1>6. thread'[u] = th
  BY <1>0
<1> QED BY <1>1, <1>3, <1>4, <1>5, <1>6 DEF PlaceOK, Of
\* What the open placement u still may rely on after a step.
Undisturbed(u) ==
    thread[u].pc = "place" =>
        /\ thread[u].reward # None /\ reward[thread[u].reward] = "available" =>
               reward'[thread[u].reward] = "available"
        /\ thread[u].units > 0 => deal' = deal

LEMMA SnapshotsKept ==
    ASSUME TypeOK, SnapshotsOK, Evolve, referral' = referral,
           \A u \in Threads : \/ thread'[u].pc \notin {"place", "complete"}
                              \/ thread'[u] = thread[u] /\ Undisturbed(u)
    PROVE  SnapshotsOK'
<1>1. ASSUME NEW u \in Threads PROVE PlaceOK(thread[u])'
  <2>1. CASE thread'[u] = thread[u] /\ Undisturbed(u)
    BY <2>1, PlaceKept DEF Undisturbed
  <2>2. CASE thread'[u].pc \notin {"place", "complete"}
    BY <2>2 DEF PlaceOK
  <2> QED BY <2>1, <2>2
<1>2. \A t, u \in Threads :
        /\ thread'[t].pc = "place" /\ thread'[u].pc = "place"
        /\ thread'[t].checkout = thread'[u].checkout
        => t = u
  BY DEF SnapshotsOK
<1>3. \A t \in Threads :
        thread'[t].pc = "complete" => referral'[thread'[t].referral] = "pending"
  BY DEF SnapshotsOK
<1> QED BY <1>1, <1>2, <1>3 DEF SnapshotsOK

LEMMA SnapshotsOfOthers ==
    ASSUME TypeOK, SnapshotsOK, OrdersOK, Evolve, NEW t \in Threads,
           \/ Abort(t)
           \/ \E o \in Orders :
                \/ Cancel(t, o) \/ Refund(t, o)
                \/ \E status \in {"live", "cancelled"} : EditStatus(t, o, status)
           \/ Release(t) \/ GiveBack(t) \/ SaveStatus(t)
           \/ RestoreCount(t) \/ RestoreWrite(t)
           \/ EditSale(t)
           \/ \E total \in 1 .. MaxUnits : SaveSale(t, total)
           \/ Die(t)
    PROVE  SnapshotsOK'
<1>0. /\ thread \in [Threads -> ThreadStates] /\ Idle.pc = "idle"
      /\ \A pc, o, why : At(pc, o, why).pc = pc
  BY IdleTyped DEF TypeOK, At
<1>1. ASSUME NEW th, NEW docs, Move(t, th, docs), th.pc \notin {"place", "complete"},
             referral' = referral,
             \A u \in Threads : Writes(thread[u]) \cap docs = {} => Undisturbed(u)
      PROVE  SnapshotsOK'
  <2>1. \A u \in Threads : \/ thread'[u].pc \notin {"place", "complete"}
                           \/ thread'[u] = thread[u] /\ Undisturbed(u)
    BY <1>0, <1>1, Moves
  <2> QED BY <1>1, <2>1, SnapshotsKept
<1>2. ASSUME deal' = deal, reward' = reward, NEW u \in Threads PROVE Undisturbed(u)
  BY <1>2 DEF Undisturbed
<1>3. CASE Abort(t) \/ SaveStatus(t) \/ Die(t)
  <2>1. Move(t, Idle, {}) /\ UNCHANGED <<deal, reward, referral>>
    BY <1>3 DEF Abort, SaveStatus, Die
  <2> QED BY <1>0, <1>1, <1>2, <2>1
<1>4. ASSUME NEW o \in Orders, Cancel(t, o) PROVE SnapshotsOK'
  <2>1. Move(t, At("release", o, "cancelled"), {}) /\ UNCHANGED <<deal, reward, referral>>
    BY <1>4 DEF Cancel
  <2>2. At("release", o, "cancelled").pc \notin {"place", "complete"}
    BY <1>0
  <2> QED BY <1>1, <1>2, <2>1, <2>2
<1>5. ASSUME NEW o \in Orders, Refund(t, o) PROVE SnapshotsOK'
  <2>1. /\ Move(t, Onward(At("restore", o, "refund")), {})
        /\ UNCHANGED <<deal, reward, referral>>
    BY <1>5 DEF Refund
  <2>2. Onward(At("restore", o, "refund")).pc \notin {"place", "complete"}
    BY OnwardGoes DEF After
  <2> QED BY <1>1, <1>2, <2>1, <2>2
<1>6. ASSUME NEW o \in Orders, NEW status \in {"live", "cancelled"}, EditStatus(t, o, status)
      PROVE  SnapshotsOK'
  <2>1. /\ UNCHANGED <<deal, reward, referral>>
        /\ thread' = thread \/ Move(t, At("release", o, "edit"), {})
    BY <1>6 DEF EditStatus
  <2>2. CASE thread' = thread
    BY <1>2, <2>1, <2>2, SnapshotsKept
  <2>3. CASE Move(t, At("release", o, "edit"), {})
    <3>1. At("release", o, "edit").pc \notin {"place", "complete"}
      BY <1>0
    <3> QED BY <1>1, <1>2, <2>1, <2>3, <3>1
  <2> QED BY <2>1, <2>2, <2>3
<1>7. CASE Release(t)
  <2>1. PICK o \in Orders, why \in {"cancelled", "refund", "edit"} :
          Move(t, At("give", o, why), {}) \/ Move(t, Onward(At("release", o, why)), {})
    BY <1>7, ReleaseGoes
  <2>2. /\ At("give", o, why).pc \notin {"place", "complete"}
        /\ Onward(At("release", o, why)).pc \notin {"place", "complete"}
    BY <1>0, OnwardGoes DEF After
  <2>3. UNCHANGED <<deal, reward, referral>>
    BY <1>7 DEF Release
  <2> QED BY <1>1, <1>2, <2>1, <2>2, <2>3
<1>8. ASSUME NEW u \in Threads, reward' = reward, Writes(thread[u]) \cap {"deal"} = {}
      PROVE  Undisturbed(u)
  BY <1>8 DEF Undisturbed, Writes
<1>9. CASE GiveBack(t)
  <2>1. PICK o \in Orders, why \in {"cancelled", "refund", "edit"} :
          Move(t, Onward(At("give", o, why)), {"deal"})
    BY <1>9, GiveBackGoes
  <2>2. Onward(At("give", o, why)).pc \notin {"place", "complete"}
    BY <1>0, OnwardGoes DEF After
  <2>3. UNCHANGED <<reward, referral>>
    BY <1>9 DEF GiveBack
  <2> QED BY <1>1, <1>8, <2>1, <2>2, <2>3
<1>10. CASE RestoreCount(t)
  <2>1. PICK o \in Orders, why \in {"cancelled", "refund", "edit"} :
          Move(t, At("write", o, why), {}) \/ Move(t, Idle, {})
    BY <1>10, RestoreCountGoes
  <2>2. /\ At("write", o, why).pc \notin {"place", "complete"}
        /\ Idle.pc \notin {"place", "complete"}
    BY <1>0
  <2>3. UNCHANGED <<deal, reward, referral>>
    BY <1>10 DEF RestoreCount
  <2> QED BY <1>1, <1>2, <2>1, <2>2, <2>3
<1>11. CASE RestoreWrite(t)
  <2>1. PICK o \in Orders : o = thread[t].order
    BY <1>0, <1>11, ThreadsAre DEF RestoreWrite, After
  <2>2. PICK w : w = order[o].reward
    OBVIOUS
  <2>3. /\ UNCHANGED <<deal, referral>>
        /\ \E docs : Move(t, Idle, docs)
        /\ \/ reward' = reward
           \/ /\ reward[w] = "redeemed"
              /\ \E status \in {"available", "expired"} :
                   reward' = [reward EXCEPT ![w] = status]
    BY <1>11, <2>1, <2>2 DEF RestoreWrite
  <2>4. \A u \in Threads : Undisturbed(u)
    <3>1. ASSUME NEW v \in Rewards, reward[v] = "available" PROVE reward'[v] = "available"
      BY <2>3, <3>1 DEF TypeOK
    <3>2. \A u \in Threads : thread[u].pc = "place" => thread[u].reward \in Rewards \cup {None}
      BY <1>0, ThreadsAre
    <3> QED BY <2>3, <3>1, <3>2 DEF Undisturbed
  <2> QED BY <1>0, <1>1, <2>3, <2>4
<1>12. CASE EditSale(t)
  <2>1. /\ UNCHANGED <<deal, reward, referral>>
        /\ Move(t, [pc |-> "sale", sold |-> deal.sold], {})
    BY <1>12 DEF EditSale
  <2>2. [pc |-> "sale", sold |-> deal.sold].pc \notin {"place", "complete"}
    OBVIOUS
  <2> QED BY <1>1, <1>2, <2>1, <2>2
<1>13. ASSUME NEW total \in 1 .. MaxUnits, SaveSale(t, total) PROVE SnapshotsOK'
  <2>1. UNCHANGED <<reward, referral>> /\ Move(t, Idle, {"deal"})
    BY <1>13 DEF SaveSale
  <2> QED BY <1>0, <1>1, <1>8, <2>1
<1> QED BY <1>3, <1>4, <1>5, <1>6, <1>7, <1>9, <1>10, <1>11, <1>12, <1>13
LEMMA SlotsTaken ==
    ASSUME NEW f \in [Orders -> OrderState], NEW g \in [Orders -> OrderState],
           NEW S \in SUBSET Orders, NEW d \in S, f[d].units = 0,
           \A o \in S \ {d} : f[o].units = g[o].units
    PROVE  Cardinality(Slots(g, S)) = Cardinality(Slots(f, S)) + g[d].units
<1>1. S \ {d} \in SUBSET Orders /\ d \in Orders \ (S \ {d}) /\ (S \ {d}) \cup {d} = S
  OBVIOUS
<1>2. /\ Cardinality(Slots(g, S)) = Cardinality(Slots(g, S \ {d})) + g[d].units
      /\ Cardinality(Slots(f, S)) = Cardinality(Slots(f, S \ {d})) + f[d].units
  BY <1>1, SlotsOfOneMore
<1>3. Slots(f, S \ {d}) = Slots(g, S \ {d})
  BY SameSlots
<1>4. PICK k \in Nat : k = Cardinality(Slots(f, S \ {d}))
  BY <1>1, SlotsFinite
<1>5. PICK n \in Nat : n = g[d].units
  BY BoundsAssumption DEF OrderState
<1> QED BY <1>2, <1>3, <1>4, <1>5

\* What a commit makes of the orders, and of the units.
LEMMA Committed ==
    ASSUME TypeOK, SnapshotsOK, OrdersOK, NEW t \in Threads, Commit(t)
    PROVE  LET th == thread[t]
           IN  /\ th.pc = "place" /\ th.checkout \in Checkouts
               /\ th.units \in Nat /\ th.units <= Limit /\ th.reward \in Rewards \cup {None}
               /\ <<th.checkout, "deal">> \in Of(th.checkout)
               /\ order' \in [Orders -> OrderState]
               /\ \A o \in Of(th.checkout) :
                      /\ order[o].status = "none" /\ order[o].units = 0
                      /\ ~order[o].released /\ order[o].workflow = "open"
                      /\ order[o].reward = None
                      /\ order'[o].status = "live" /\ order'[o].workflow = "open"
                      /\ ~order'[o].released /\ order'[o].reward = th.reward
                      /\ order'[o].units = IF o = <<th.checkout, "deal">> THEN th.units ELSE 0
               /\ \A o \in Orders \ Of(th.checkout) : order'[o] = order[o]
<1>1. PICK th \in ThreadStates : th = thread[t]
  BY DEF TypeOK
<1>2. /\ th.pc = "place" /\ th.checkout \in Checkouts /\ th.units \in 0 .. Limit
      /\ th.reward \in Rewards \cup {None}
  BY <1>1, ThreadsAre DEF Commit
<1>3. PlaceOK(th) /\ order \in [Orders -> OrderState] /\ Limit \in Nat
  BY <1>1, BoundsAssumption DEF SnapshotsOK, TypeOK, OrderState
<1>4. <<th.checkout, "deal">> \in Of(th.checkout)
  BY <1>2 DEF Of, Orders
<1>5. \A o \in Of(th.checkout) :
        /\ order[o].status = "none" /\ order[o].units = 0 /\ ~order[o].released
        /\ order[o].workflow = "open" /\ order[o].reward = None
  BY <1>2, <1>3 DEF PlaceOK, OrdersOK, Of
<1>6. order' = [o \in Orders |->
        IF o[1] = th.checkout
        THEN [status |-> "live", workflow |-> "open",
              units |-> IF o[2] = "deal" THEN th.units ELSE 0,
              released |-> FALSE, reward |-> th.reward]
        ELSE order[o]]
  BY <1>1 DEF Commit
<1>7. ASSUME NEW o \in Of(th.checkout)
      PROVE  /\ order'[o].status = "live" /\ order'[o].workflow = "open"
             /\ ~order'[o].released /\ order'[o].reward = th.reward
             /\ order'[o].units = IF o = <<th.checkout, "deal">> THEN th.units ELSE 0
             /\ order'[o] \in OrderState
  <2>1. o \in Orders /\ o[1] = th.checkout
    BY DEF Of
  <2>2. (o[2] = "deal") = (o = <<th.checkout, "deal">>)
    BY <2>1 DEF Orders
  <2>3. order'[o] = [status |-> "live", workflow |-> "open",
                     units |-> IF o[2] = "deal" THEN th.units ELSE 0,
                     released |-> FALSE, reward |-> th.reward]
    BY <1>6, <2>1
  <2> QED BY <1>2, <1>3, <2>2, <2>3 DEF OrderState
<1>8. \A o \in Orders \ Of(th.checkout) : order'[o] = order[o]
  BY <1>6 DEF Of
<1>9. order' \in [Orders -> OrderState]
  BY <1>3, <1>6, <1>7, <1>8
<1> QED BY <1>1, <1>2, <1>3, <1>4, <1>5, <1>7, <1>8, <1>9

LEMMA CommitCounts ==
    ASSUME TypeOK, SnapshotsOK, OrdersOK, NEW t \in Threads, Commit(t)
    PROVE  /\ Usage' = Usage + thread[t].units /\ Accounted' = Accounted + thread[t].units
           /\ deal' = [deal EXCEPT !.sold = deal.sold + thread[t].units]
<1>0. order \in [Orders -> OrderState] /\ thread \in [Threads -> ThreadStates]
  BY DEF TypeOK, OrderState
<1>1. PICK th \in ThreadStates, g \in [Orders -> OrderState] : th = thread[t] /\ g = order'
  BY <1>0, Committed
<1>2. PICK d \in Orders : d = <<th.checkout, "deal">>
  BY <1>1, Committed DEF Of
<1>3. /\ order[d].units = 0 /\ g[d].units = th.units
      /\ \A o \in Orders \ {d} : order[o].units = g[o].units
  BY <1>1, <1>2, Committed DEF Of
<1>4. ASSUME NEW o \in Orders PROVE order[o].released <=> g[o].released
  <2>1. CASE o \in Of(th.checkout)
    BY <1>1, <2>1, Committed
  <2>2. CASE o \in Orders \ Of(th.checkout)
    BY <1>1, <2>2, Committed
  <2> QED BY <2>1, <2>2
<1>5. ~order[d].released
  BY <1>1, <1>2, Committed
<1>6. \A o \in Orders : GivingBack(o)' <=> GivingBack(o)
  <2>1. Move(t, Idle, Writes(th)) /\ thread[t].pc = "place" /\ Idle.pc = "idle"
    BY <1>1, IdleTyped DEF Commit
  <2>2. \A u \in Threads : thread[u].pc = "give" => Writes(thread[u]) = {}
    BY DEF Writes
  <2>3. \A u \in Threads : (thread'[u].pc = "give" <=> thread[u].pc = "give")
                           /\ (thread'[u].pc = "give" => thread'[u] = thread[u])
    BY <1>0, <2>1, <2>2, Moves
  <2> QED BY <2>3 DEF GivingBack
<1>7. d \in Unreleased /\ d \in Counted
      /\ Unreleased \in SUBSET Orders /\ Counted \in SUBSET Orders
  BY <1>5 DEF Unreleased, Counted
<1>8. Usage' = Cardinality(Slots(g, Unreleased))
  <2>1. {o \in Orders : ~g[o].released} = Unreleased
    BY <1>4 DEF Unreleased
  <2> QED BY <1>1, <2>1 DEF Usage, Units, Slots
<1>9. Accounted' = Cardinality(Slots(g, Counted))
  <2>1. {o \in Orders : g[o].released => GivingBack(o)'} = Counted
    BY <1>4, <1>6 DEF Counted
  <2> QED BY <1>1, <2>1 DEF Accounted, Units, Slots
<1>10. /\ Usage = Cardinality(Slots(order, Unreleased))
       /\ Accounted = Cardinality(Slots(order, Counted))
  BY <1>0, Counts
<1>11. /\ Cardinality(Slots(g, Unreleased)) = Cardinality(Slots(order, Unreleased)) + th.units
       /\ Cardinality(Slots(g, Counted)) = Cardinality(Slots(order, Counted)) + th.units
  <2>1. /\ \A o \in Unreleased \ {d} : order[o].units = g[o].units
        /\ \A o \in Counted \ {d} : order[o].units = g[o].units
    BY <1>3, <1>7
  <2> QED BY <1>0, <1>3, <1>7, <2>1, SlotsTaken
<1>12. deal' = [deal EXCEPT !.sold = deal.sold + th.units]
  BY <1>1 DEF Commit
<1> QED BY <1>1, <1>8, <1>9, <1>10, <1>11, <1>12
LEMMA CommitSnapshots ==
    ASSUME TypeOK, SnapshotsOK, OrdersOK, NEW t \in Threads, Commit(t)
    PROVE  SnapshotsOK' /\ OrdersOK'
<1>0. /\ thread \in [Threads -> ThreadStates] /\ order \in [Orders -> OrderState]
      /\ reward \in [Rewards -> {"none", "available", "redeemed", "expired"}]
  BY DEF TypeOK, OrderState
<1>1. PICK th \in ThreadStates : th = thread[t]
  BY <1>0
<1>2. /\ th.pc = "place" /\ th.units \in Nat /\ th.reward \in Rewards \cup {None}
      /\ \A o \in Orders \ Of(th.checkout) : order'[o] = order[o]
      /\ \A o \in Of(th.checkout) : order[o].status = "none" /\ order'[o].status = "live"
  BY <1>1, Committed
<1>3. /\ \A w \in Rewards : reward'[w] = IF w = th.reward THEN "redeemed" ELSE reward[w]
      /\ referral' = referral /\ Move(t, Idle, Writes(th))
  BY <1>1 DEF Commit
<1>4. /\ thread'[t] = Idle /\ Idle.pc = "idle"
      /\ \A u \in Threads \ {t} :
           \/ thread'[u] = thread[u] /\ Writes(thread[u]) \cap Writes(th) = {}
           \/ thread'[u] = Idle
  BY <1>0, <1>3, Moves, IdleTyped
<1>5. th.reward # None => reward[th.reward] = "available"
  BY <1>1, <1>2 DEF SnapshotsOK, PlaceOK
<1>6. ASSUME NEW u \in Threads PROVE PlaceOK(thread[u])'
  <2>1. SUFFICES ASSUME thread'[u].pc = "place" PROVE PlaceOK(thread[u])'
    BY DEF PlaceOK
  <2>2. /\ u # t /\ thread'[u] = thread[u] /\ thread[u].pc = "place"
        /\ Writes(thread[u]) \cap Writes(th) = {}
    BY <1>4, <2>1
  <2>3. PICK pl \in ThreadStates : pl = thread[u]
    BY <1>0
  <2>4. PlaceOK(pl) /\ pl.checkout # th.checkout
    BY <1>1, <1>2, <2>2, <2>3 DEF SnapshotsOK
  <2>5. pl.units \in Nat /\ pl.reward \in Rewards \cup {None}
    BY <2>2, <2>3, ThreadsAre
  <2>6. \A o \in Of(pl.checkout) : order'[o].status = "none"
    <3>1. \A o \in Of(pl.checkout) : o \in Orders \ Of(th.checkout)
      BY <2>4 DEF Of
    <3> QED BY <1>2, <2>2, <2>3, <2>4, <3>1 DEF PlaceOK
  <2>7. pl.reward # None => reward'[pl.reward] = "available"
    <3>1. SUFFICES ASSUME pl.reward # None PROVE reward'[pl.reward] = "available"
      OBVIOUS
    <3>2. pl.reward \in Writes(pl)
      BY <2>2, <2>3, <3>1 DEF Writes
    <3>3. th.reward = pl.reward => pl.reward \in Writes(th)
      BY <1>2, <3>1 DEF Writes
    <3>4. th.reward # pl.reward
      BY <2>2, <2>3, <3>2, <3>3
    <3> QED BY <1>3, <2>2, <2>3, <2>4, <2>5, <3>1, <3>4 DEF PlaceOK
  <2>8. ASSUME pl.units > 0
        PROVE  deal'.sold + pl.units <= deal'.total /\ Usage' + pl.units <= Limit
    <3>1. "deal" \in Writes(pl)
      BY <2>2, <2>3, <2>8 DEF Writes
    <3>2. th.units > 0 => "deal" \in Writes(th)
      BY <1>2 DEF Writes
    <3>3. th.units = 0
      BY <1>2, <2>2, <2>3, <3>1, <3>2
    <3>4. PICK n \in Nat : n = Usage
      BY <1>0, Counts
    <3>5. Usage' = n /\ deal' = [deal EXCEPT !.sold = deal.sold + 0]
      <4>1. Usage' = n + 0
        BY <1>1, <3>3, <3>4, CommitCounts
      <4> QED BY <1>1, <3>3, <4>1, CommitCounts
    <3>6. deal' = deal
      BY <3>5 DEF TypeOK
    <3> QED BY <2>2, <2>3, <2>4, <2>8, <3>4, <3>5, <3>6 DEF PlaceOK
  <2>9. thread'[u] = pl
    BY <2>2, <2>3
  <2> QED BY <2>6, <2>7, <2>8, <2>9 DEF PlaceOK, Of
<1>7. SnapshotsOK'
  <2>1. \A u, v \in Threads :
          /\ thread'[u].pc = "place" /\ thread'[v].pc = "place"
          /\ thread'[u].checkout = thread'[v].checkout
          => u = v
    BY <1>4 DEF SnapshotsOK
  <2>2. \A u \in Threads :
          thread'[u].pc = "complete" => referral'[thread'[u].referral] = "pending"
    BY <1>3, <1>4 DEF SnapshotsOK
  <2> QED BY <1>6, <2>1, <2>2 DEF SnapshotsOK
<1>8. OrdersOK'
  <2>1. ASSUME NEW o \in Orders, order'[o].status = "none"
        PROVE  /\ order'[o].units = 0 /\ ~order'[o].released
               /\ order'[o].workflow = "open" /\ order'[o].reward = None
    BY <1>2, <2>1 DEF OrdersOK
  <2>2. ASSUME NEW u \in Threads,
               thread'[u].pc \in {"release", "give", "restore", "write", "status"}
        PROVE  order'[thread'[u].order].status # "none"
    <3>1. thread'[u] = thread[u]
      BY <1>4, <2>2
    <3>2. PICK o \in Orders : o = thread[u].order
      BY <1>0, <2>2, <3>1, ThreadsAre DEF After
    <3>3. order[o].status # "none"
      BY <2>2, <3>1, <3>2 DEF OrdersOK
    <3>4. order'[o] = order[o]
      BY <1>2, <3>3
    <3> QED BY <3>1, <3>2, <3>3, <3>4
  <2>3. ASSUME NEW i \in Referrals, referral'[i] = "pending" PROVE reward'[i] = "none"
    <3>1. reward[i] = "none" /\ i \in Rewards
      BY <1>3, <2>3 DEF OrdersOK, Rewards
    <3>2. i # th.reward
      BY <1>5, <3>1, RewardsAssumption
    <3> QED BY <1>3, <3>1, <3>2
  <2> QED BY <2>1, <2>2, <2>3 DEF OrdersOK
<1> QED BY <1>7, <1>8

LEMMA SnapshotsStep ==
    ASSUME TypeOK, SnapshotsOK, OrdersOK, Next
    PROVE  SnapshotsOK'
<1>0. thread \in [Threads -> ThreadStates] /\ Idle.pc = "idle"
  BY IdleTyped DEF TypeOK
<1>1. ASSUME NEW t \in Threads, Commit(t) PROVE SnapshotsOK'
  BY <1>1, CommitSnapshots
<1>2. SUFFICES ASSUME Evolve PROVE SnapshotsOK'
  BY <1>1, Evolution
<1>3. ASSUME NEW t \in Threads, NEW c \in Checkouts, NEW q \in 0 .. MaxUnits,
             NEW w \in Rewards \cup {None}, Place(t, c, q, w)
      PROVE  SnapshotsOK'
  <2>1. PICK units \in Nat :
          /\ Move(t, [pc |-> "place", checkout |-> c, units |-> units, reward |-> w], {})
          /\ units > 0 => deal.sold + units <= deal.total /\ Usage + units <= Limit
    BY <1>3, Priced
  <2>2. PICK th : th = [pc |-> "place", checkout |-> c, units |-> units, reward |-> w]
    OBVIOUS
  <2>3. /\ thread'[t] = th
        /\ \A u \in Threads \ {t} : thread'[u] = thread[u] \/ thread'[u] = Idle
    BY <1>0, <2>1, <2>2, Moves
  <2>4. /\ \A o \in Orders : o[1] = c => order[o].status = "none"
        /\ \A u \in Threads : thread[u].pc = "place" => thread[u].checkout # c
        /\ w # None => reward[w] = "available"
        /\ deal' = deal /\ order' = order /\ reward' = reward /\ referral' = referral
    BY <1>3 DEF Place
  <2>5. PlaceOK(th)
    BY <2>1, <2>2, <2>4 DEF PlaceOK, Of
  <2>6. Usage' = Usage
    BY <2>4 DEF Usage, Units
  <2>7. \A x : PlaceOK(x) => /\ x.pc = "place" =>
                               /\ \A o \in Of(x.checkout) : order'[o].status = "none"
                               /\ x.reward # None => reward'[x.reward] = "available"
                               /\ x.units > 0 => /\ deal'.sold + x.units <= deal'.total
                                                 /\ Usage' + x.units <= Limit
    BY <2>4, <2>6 DEF PlaceOK
  <2>8. \A u \in Threads : PlaceOK(thread[u])'
    <3>1. ASSUME NEW u \in Threads, thread'[u].pc = "place" PROVE PlaceOK(thread'[u])
      <4>1. CASE u = t
        BY <2>3, <2>5, <4>1
      <4>2. CASE u # t
        BY <1>0, <2>3, <3>1, <4>2 DEF SnapshotsOK
      <4> QED BY <4>1, <4>2
    <3> QED BY <2>7, <3>1 DEF PlaceOK, Of
  <2>9. th.pc = "place" /\ th.checkout = c
    BY <2>2
  <2>10. \A u, v \in Threads :
           /\ thread'[u].pc = "place" /\ thread'[v].pc = "place"
           /\ thread'[u].checkout = thread'[v].checkout
           => u = v
    BY <1>0, <2>3, <2>4, <2>9 DEF SnapshotsOK
  <2>11. \A u \in Threads :
           thread'[u].pc = "complete" => referral'[thread'[u].referral] = "pending"
    BY <1>0, <2>3, <2>4, <2>9 DEF SnapshotsOK
  <2> QED BY <2>8, <2>10, <2>11 DEF SnapshotsOK
<1>4. ASSUME NEW t \in Threads, NEW i \in Referrals, NEW coupon \in BOOLEAN,
             StartCompletion(t, i, coupon)
      PROVE  SnapshotsOK'
  <2>1. /\ referral[i] = "pending"
        /\ UNCHANGED <<deal, reward, referral>>
        /\ thread'[t].pc = "complete" /\ thread'[t].referral = i
        /\ \A u \in Threads \ {t} : thread'[u] = thread[u] \/ thread'[u] = Idle
    BY <1>0, <1>4, Moves DEF StartCompletion
  <2>2. \A u \in Threads : Undisturbed(u)
    BY <2>1 DEF Undisturbed
  <2>3. ASSUME NEW u \in Threads PROVE PlaceOK(thread[u])'
    <3>1. CASE thread'[u] = thread[u]
      BY <1>2, <2>2, <3>1, PlaceKept DEF Undisturbed
    <3>2. CASE thread'[u].pc # "place"
      BY <3>2 DEF PlaceOK
    <3> QED BY <1>0, <2>1, <3>1, <3>2
  <2>4. \A u, v \in Threads :
          /\ thread'[u].pc = "place" /\ thread'[v].pc = "place"
          /\ thread'[u].checkout = thread'[v].checkout
          => u = v
    BY <1>0, <2>1 DEF SnapshotsOK
  <2>5. \A u \in Threads :
          thread'[u].pc = "complete" => referral'[thread'[u].referral] = "pending"
    BY <1>0, <2>1 DEF SnapshotsOK
  <2> QED BY <2>3, <2>4, <2>5 DEF SnapshotsOK
<1>5. ASSUME NEW t \in Threads, Complete(t) PROVE SnapshotsOK'
  <2>1. PICK th \in ThreadStates : th = thread[t]
    BY <1>0
  <2>2. PICK i \in Referrals : i = th.referral /\ th.pc = "complete"
    BY <1>5, <2>1, ThreadsAre DEF Complete
  <2>3. referral[i] = "pending" /\ reward[i] = "none"
    BY <2>1, <2>2 DEF SnapshotsOK, OrdersOK
  <2>4. PICK docs : i \in docs /\ Move(t, Idle, docs)
    <3>1. i \in Writes(th)
      BY <2>2 DEF Writes
    <3> QED BY <1>5, <2>1, <2>2, <3>1 DEF Complete
  <2>5. /\ deal' = deal
        /\ \A j \in Referrals \ {i} : referral'[j] = referral[j]
        /\ \A w \in Rewards \ {i} : reward'[w] = reward[w]
    BY <1>5, <2>1, <2>2 DEF Complete, TypeOK
  <2>6. /\ thread'[t] = Idle
        /\ \A u \in Threads \ {t} :
             \/ thread'[u] = thread[u] /\ Writes(thread[u]) \cap docs = {}
             \/ thread'[u] = Idle
    BY <1>0, <2>4, Moves
  <2>7. ASSUME NEW u \in Threads PROVE PlaceOK(thread[u])'
    <3>1. Undisturbed(u)
      <4>1. thread[u].pc = "place" => thread[u].reward \in Rewards \cup {None}
        BY <1>0, ThreadsAre
      <4> QED BY <2>3, <2>5, <4>1 DEF Undisturbed
    <3>2. CASE thread'[u] = thread[u]
      BY <1>2, <3>1, <3>2, PlaceKept DEF Undisturbed
    <3>3. CASE thread'[u].pc # "place"
      BY <3>3 DEF PlaceOK
    <3> QED BY <1>0, <2>6, <3>2, <3>3
  <2>8. \A u, v \in Threads :
          /\ thread'[u].pc = "place" /\ thread'[v].pc = "place"
          /\ thread'[u].checkout = thread'[v].checkout
          => u = v
    BY <1>0, <2>6 DEF SnapshotsOK
  <2>9. ASSUME NEW u \in Threads, thread'[u].pc = "complete"
        PROVE  referral'[thread'[u].referral] = "pending"
    <3>1. thread'[u] = thread[u] /\ Writes(thread[u]) \cap docs = {}
      BY <1>0, <2>6, <2>9
    <3>2. PICK j \in Referrals : j = thread[u].referral
      BY <1>0, <2>9, <3>1, ThreadsAre
    <3>3. j \in Writes(thread[u])
      BY <2>9, <3>1, <3>2 DEF Writes
    <3>4. j # i
      BY <2>4, <3>1, <3>3
    <3> QED BY <2>5, <2>9, <3>1, <3>2, <3>4 DEF SnapshotsOK
  <2> QED BY <2>7, <2>8, <2>9 DEF SnapshotsOK
<1>6. ASSUME NEW w \in Rewards, Expire(w) PROVE SnapshotsOK'
  <2>1. /\ deal' = deal /\ referral' = referral
        /\ \A v \in Rewards \ {w} : reward'[v] = reward[v]
        /\ thread' = Overtaken({w})
    BY <1>6 DEF Expire, TypeOK
  <2>2. ASSUME NEW u \in Threads, Writes(thread[u]) \cap {w} = {} PROVE Undisturbed(u)
    <3>1. thread[u].pc = "place" => thread[u].reward \in Rewards \cup {None}
      BY <1>0, ThreadsAre
    <3>2. thread[u].pc = "place" /\ thread[u].reward # None
            => thread[u].reward \in Writes(thread[u])
      BY DEF Writes
    <3> QED BY <2>1, <2>2, <3>1, <3>2 DEF Undisturbed
  <2> QED BY <1>0, <1>2, <2>1, <2>2, Overtakes, SnapshotsKept
<1> QED BY <1>2, <1>3, <1>4, <1>5, <1>6, <1>1, SnapshotsOfOthers DEF Next
\* A handler gives back only what an order holds that was placed.
LEMMA GivenBackOrders ==
    ASSUME TypeOK, OrdersOK, Next
    PROVE  \A u \in Threads : thread'[u].pc \in After =>
             \E o \in Orders : thread'[u].order = o /\ order[o].status # "none"
<1> DEFINE Placed(th) == th.pc \in After =>
                             \E o \in Orders : th.order = o /\ order[o].status # "none"
<1>0. /\ thread \in [Threads -> ThreadStates] /\ Idle.pc = "idle"
      /\ \A pc, o, why : At(pc, o, why).pc = pc /\ At(pc, o, why).order = o
  BY IdleTyped DEF TypeOK, At
<1>1. \A u \in Threads : Placed(thread[u])
  BY <1>0, ThreadsAre DEF OrdersOK, After
<1>2. Placed(Idle)
  BY <1>0 DEF After
<1>3. ASSUME NEW t \in Threads, NEW th, NEW docs, Move(t, th, docs), Placed(th)
      PROVE  \A u \in Threads : Placed(thread'[u])
  <2>1. thread'[t] = th /\ \A u \in Threads \ {t} : thread'[u] = thread[u] \/ thread'[u] = Idle
    BY <1>0, <1>3, Moves
  <2> HIDE DEF Placed
  <2> QED BY <1>1, <1>2, <1>3, <2>1
<1>4. ASSUME NEW t \in Threads, Commit(t) \/ Abort(t) \/ SaveStatus(t) \/ RestoreWrite(t)
                                \/ Die(t) \/ Complete(t)
                                \/ \E total \in 1 .. MaxUnits : SaveSale(t, total)
      PROVE  \A u \in Threads : Placed(thread'[u])
  <2>1. \E docs : Move(t, Idle, docs)
    <3>1. CASE Commit(t) \/ Abort(t) \/ SaveStatus(t) \/ RestoreWrite(t) \/ Die(t)
      <4>1. CASE RestoreWrite(t)
        <5>1. \/ Move(t, Idle, {order[thread[t].order].reward}) \/ Move(t, Idle, {})
          BY <4>1 DEF RestoreWrite
        <5> QED BY <5>1
      <4>2. CASE Commit(t) \/ Abort(t) \/ SaveStatus(t) \/ Die(t)
        BY <4>2 DEF Commit, Abort, SaveStatus, Die
      <4> QED BY <3>1, <4>1, <4>2
    <3>2. CASE Complete(t)
      BY <3>2 DEF Complete
    <3>3. CASE \E total \in 1 .. MaxUnits : SaveSale(t, total)
      BY <3>3 DEF SaveSale
    <3> QED BY <1>4, <3>1, <3>2, <3>3
  <2> HIDE DEF Placed
  <2> QED BY <1>2, <1>3, <2>1
<1>5. ASSUME NEW t \in Threads, NEW c \in Checkouts, NEW q \in 0 .. MaxUnits,
             NEW w \in Rewards \cup {None}, Place(t, c, q, w)
      PROVE  \A u \in Threads : Placed(thread'[u])
  <2>1. PICK units :
          Move(t, [pc |-> "place", checkout |-> c, units |-> units, reward |-> w], {})
    BY <1>5, Priced
  <2>2. Placed([pc |-> "place", checkout |-> c, units |-> units, reward |-> w])
    BY DEF After
  <2> HIDE DEF Placed
  <2> QED BY <1>3, <2>1, <2>2
<1>6. ASSUME NEW t \in Threads,
             \/ EditSale(t)
             \/ \E i \in Referrals, coupon \in BOOLEAN : StartCompletion(t, i, coupon)
      PROVE  \A u \in Threads : Placed(thread'[u])
  <2>1. CASE EditSale(t)
    <3>1. Move(t, [pc |-> "sale", sold |-> deal.sold], {})
      BY <2>1 DEF EditSale
    <3>2. Placed([pc |-> "sale", sold |-> deal.sold])
      BY DEF After
    <3> HIDE DEF Placed
    <3> QED BY <1>3, <3>1, <3>2
  <2>2. ASSUME NEW i \in Referrals, NEW coupon \in BOOLEAN, StartCompletion(t, i, coupon)
        PROVE  \A u \in Threads : Placed(thread'[u])
    <3>1. PICK n : n = Cardinality(Issued)
      OBVIOUS
    <3>2. Move(t, [pc |-> "complete", referral |-> i, issued |-> n, coupon |-> coupon], {})
      BY <2>2, <3>1 DEF StartCompletion
    <3>3. Placed([pc |-> "complete", referral |-> i, issued |-> n, coupon |-> coupon])
      BY DEF After
    <3> HIDE DEF Placed
    <3> QED BY <1>3, <3>2, <3>3
  <2> QED BY <1>6, <2>1, <2>2
<1>7. ASSUME NEW o \in Orders, order[o].status # "none", NEW pc \in After,
             NEW why \in {"cancelled", "refund", "edit"}
      PROVE  Placed(At(pc, o, why)) /\ Placed(Onward(At(pc, o, why)))
  <2>1. \A to : Placed(At(to, o, why))
    BY <1>0, <1>7
  <2> HIDE DEF Placed
  <2> QED BY <1>2, <2>1, OnwardTyped
<1>8. ASSUME NEW t \in Threads, NEW o \in Orders,
             \/ Cancel(t, o) \/ Refund(t, o)
             \/ \E status \in {"live", "cancelled"} : EditStatus(t, o, status)
      PROVE  \A u \in Threads : Placed(thread'[u])
  <2>1. order[o].status # "none"
    BY <1>8 DEF Cancel, Refund, EditStatus
  <2>2. \/ thread' = thread \/ Move(t, At("release", o, "cancelled"), {})
        \/ Move(t, Onward(At("restore", o, "refund")), {})
        \/ Move(t, At("release", o, "edit"), {})
    BY <1>8 DEF Cancel, Refund, EditStatus
  <2>3. /\ Placed(At("release", o, "cancelled")) /\ Placed(Onward(At("restore", o, "refund")))
        /\ Placed(At("release", o, "edit"))
    <3>1. "release" \in After /\ "restore" \in After
      BY DEF After
    <3> HIDE DEF Placed
    <3> QED BY <1>7, <2>1, <3>1
  <2> HIDE DEF Placed
  <2> QED BY <1>1, <1>3, <2>2, <2>3
<1>9. ASSUME NEW t \in Threads, Release(t) \/ GiveBack(t) \/ RestoreCount(t)
      PROVE  \A u \in Threads : Placed(thread'[u])
  <2>1. ASSUME NEW o \in Orders, NEW why \in {"cancelled", "refund", "edit"},
               NEW pc \in {"release", "give", "restore"}, NEW docs,
               thread[t] = At(pc, o, why),
               \/ Move(t, At("give", o, why), docs) \/ Move(t, At("write", o, why), docs)
               \/ Move(t, Onward(At(pc, o, why)), docs) \/ Move(t, Idle, docs)
        PROVE  \A u \in Threads : Placed(thread'[u])
    <3>1. order[o].status # "none"
      <4>1. thread[t].pc = pc /\ thread[t].order = o
        BY <1>0, <2>1
      <4> QED BY <4>1 DEF OrdersOK, After
    <3>2. /\ Placed(At("give", o, why)) /\ Placed(At("write", o, why))
          /\ Placed(Onward(At(pc, o, why)))
      <4>1. "give" \in After /\ "write" \in After /\ pc \in After
        BY DEF After
      <4> HIDE DEF Placed
      <4> QED BY <1>7, <3>1, <4>1
    <3> HIDE DEF Placed
    <3> QED BY <1>2, <1>3, <2>1, <3>2
  <2> HIDE DEF Placed
  <2>2. CASE Release(t)
    <3>1. PICK o \in Orders, why \in {"cancelled", "refund", "edit"} :
            /\ thread[t] = At("release", o, why)
            /\ Move(t, At("give", o, why), {}) \/ Move(t, Onward(At("release", o, why)), {})
      BY <2>2, ReleaseGoes
    <3> QED BY <2>1, <3>1
  <2>3. CASE GiveBack(t)
    <3>1. PICK o \in Orders, why \in {"cancelled", "refund", "edit"} :
            /\ thread[t] = At("give", o, why)
            /\ Move(t, Onward(At("give", o, why)), {"deal"})
      BY <2>3, GiveBackGoes
    <3> QED BY <2>1, <3>1
  <2>4. CASE RestoreCount(t)
    <3>1. PICK o \in Orders, why \in {"cancelled", "refund", "edit"} :
            /\ thread[t] = At("restore", o, why)
            /\ Move(t, At("write", o, why), {}) \/ Move(t, Idle, {})
      BY <2>4, RestoreCountGoes
    <3> QED BY <2>1, <3>1
  <2> QED BY <1>9, <2>2, <2>3, <2>4
<1>10. ASSUME NEW w \in Rewards, Expire(w) PROVE \A u \in Threads : Placed(thread'[u])
  <2>1. \A u \in Threads : thread'[u] = thread[u] \/ thread'[u] = Idle
    BY <1>0, <1>10, Overtakes DEF Expire
  <2> HIDE DEF Placed
  <2> QED BY <1>1, <1>2, <2>1
<1>11. \A u \in Threads : Placed(thread'[u])
  <2> HIDE DEF Placed
  <2> QED BY <1>4, <1>5, <1>6, <1>8, <1>9, <1>10 DEF Next
<1> QED BY <1>11

LEMMA OrdersStep ==
    ASSUME TypeOK, SnapshotsOK, OrdersOK, Next
    PROVE  OrdersOK'
<1>0. /\ thread \in [Threads -> ThreadStates]
      /\ reward \in [Rewards -> {"none", "available", "redeemed", "expired"}]
      /\ referral \in [Referrals -> {"pending", "wallet", "coupon", "skipped"}]
  BY DEF TypeOK
<1>1. SUFFICES ASSUME Evolve, ~ \E t \in Threads : Commit(t) PROVE OrdersOK'
  BY CommitSnapshots, Evolution
<1>2. ASSUME NEW o \in Orders, order'[o].status = "none"
      PROVE  /\ order'[o].units = 0 /\ ~order'[o].released
             /\ order'[o].workflow = "open" /\ order'[o].reward = None
  BY <1>1, <1>2 DEF OrdersOK, Evolve
<1>3. \A u \in Threads :
        thread'[u].pc \in {"release", "give", "restore", "write", "status"} =>
            order'[thread'[u].order].status # "none"
  BY <1>1, GivenBackOrders DEF Evolve, After
<1>4. ASSUME NEW i \in Referrals, referral'[i] = "pending" PROVE reward'[i] = "none"
  <2>1. i \in Rewards
    BY DEF Rewards
  <2>2. referral' = referral => reward[i] = "none"
    BY <1>4 DEF OrdersOK
  <2>7. ASSUME NEW w, NEW x, referral' = referral, reward[w] \in {"redeemed", "available"},
               reward' = [reward EXCEPT ![w] = x]
        PROVE  reward'[i] = "none"
    <3>1. i # w
      BY <2>2, <2>7
    <3> QED BY <1>0, <2>1, <2>2, <2>7, <3>1
  <2>3. ASSUME NEW t \in Threads, Complete(t) PROVE reward'[i] = "none"
    <3>1. PICK j \in Referrals : j = thread[t].referral
      BY <1>0, <2>3, ThreadsAre DEF Complete
    <3>2. i # j
      BY <1>0, <1>4, <2>3, <3>1 DEF Complete
    <3>3. referral'[i] = referral[i] /\ reward'[i] = reward[i]
      BY <1>0, <2>3, <3>1, <3>2 DEF Complete
    <3> QED BY <1>4, <3>3 DEF OrdersOK
  <2>4. ASSUME NEW t \in Threads, RestoreWrite(t) PROVE reward'[i] = "none"
    <3>1. PICK w : w = order[thread[t].order].reward
      OBVIOUS
    <3>2. /\ referral' = referral
          /\ \/ reward' = reward
             \/ /\ reward[w] = "redeemed"
                /\ \E status \in {"available", "expired"} :
                     reward' = [reward EXCEPT ![w] = status]
      BY <2>4, <3>1 DEF RestoreWrite
    <3>3. CASE reward' = reward
      BY <2>2, <3>2, <3>3
    <3>4. CASE reward' # reward
      <4>1. PICK x : reward' = [reward EXCEPT ![w] = x]
        BY <3>2, <3>4
      <4>2. reward[w] \in {"redeemed", "available"}
        BY <3>2, <3>4
      <4> QED BY <2>7, <3>2, <4>1, <4>2
    <3> QED BY <3>3, <3>4
  <2>5. ASSUME NEW w \in Rewards, Expire(w) PROVE reward'[i] = "none"
    BY <2>5, <2>7 DEF Expire
  <2>6. ASSUME NEW t \in Threads,
               \/ \E c \in Checkouts, q \in 0 .. MaxUnits, w \in Rewards \cup {None} :
                    Place(t, c, q, w)
               \/ Abort(t)
               \/ \E o \in Orders :
                    \/ Cancel(t, o) \/ Refund(t, o)
                    \/ \E status \in {"live", "cancelled"} : EditStatus(t, o, status)
               \/ Release(t) \/ GiveBack(t) \/ SaveStatus(t)
               \/ RestoreCount(t) \/ EditSale(t)
               \/ \E total \in 1 .. MaxUnits : SaveSale(t, total)
               \/ \E j \in Referrals, coupon \in BOOLEAN : StartCompletion(t, j, coupon)
               \/ Die(t)
        PROVE  reward'[i] = "none"
    <3>1. referral' = referral /\ reward' = reward
      BY <2>6 DEF Place, Abort, Cancel, Refund, EditStatus, Release, GiveBack, SaveStatus,
                  RestoreCount, EditSale, SaveSale, StartCompletion, Die
    <3> QED BY <2>2, <3>1
  <2> QED BY <1>1, <2>3, <2>4, <2>5, <2>6 DEF Next
<1> QED BY <1>2, <1>3, <1>4 DEF OrdersOK
-----------------------------------------------------------------------------
(* Units.                                                                  *)

\* The handlers that give units back are the same after the step.
SameGivers ==
    \A u \in Threads : (thread'[u].pc = "give" \/ thread[u].pc = "give") => thread'[u] = thread[u]

LEMMA GiversKept ==
    ASSUME TypeOK, NEW t \in Threads, NEW th, NEW docs, Move(t, th, docs),
           thread[t].pc # "give", th.pc # "give"
    PROVE  SameGivers
<1>1. \A u \in Threads : thread[u].pc = "give" => Writes(thread[u]) = {}
  BY DEF Writes
<1>2. /\ thread'[t] = th
      /\ \A u \in Threads \ {t} :
           \/ thread'[u] = thread[u]
           \/ thread'[u] = Idle /\ Writes(thread[u]) \cap docs # {}
  BY Moves DEF TypeOK
<1> QED BY <1>1, <1>2, IdleTyped DEF SameGivers

LEMMA AccountedKept ==
    ASSUME TypeOK, Evolve, SameGivers,
           \A o \in Orders : order'[o].released <=> order[o].released
    PROVE  Accounted' = Accounted
<1>1. \A o \in Orders : GivingBack(o)' <=> GivingBack(o)
  BY DEF SameGivers, GivingBack
<1>2. PICK g : g = order'
  OBVIOUS
<1>3. Accounted' = Cardinality(Slots(g, Counted))
  <2>1. {o \in Orders : g[o].released => GivingBack(o)'} = Counted
    BY <1>1, <1>2 DEF Counted
  <2> QED BY <1>2, <2>1 DEF Accounted, Units, Slots
<1>4. Slots(g, Counted) = Slots(order, Counted)
  BY <1>2, SameSlots DEF Evolve, Counted
<1>5. Accounted = Cardinality(Slots(order, Counted))
  BY Counts DEF TypeOK, OrderState
<1> QED BY <1>3, <1>4, <1>5

\* One of the handlers no longer gives back what its order held.
LEMMA AccountedLess ==
    ASSUME TypeOK, UnitsInv, order' = order, NEW t \in Threads, thread[t].pc = "give",
           thread'[t].pc # "give",
           \A u \in Threads \ {t} :
               (thread'[u].pc = "give" \/ thread[u].pc = "give") => thread'[u] = thread[u]
    PROVE  Accounted = Accounted' + order[thread[t].order].units
<1>0. order \in [Orders -> OrderState] /\ thread \in [Threads -> ThreadStates]
  BY DEF TypeOK, OrderState
<1>1. PICK o \in Orders : o = thread[t].order
  BY <1>0, ThreadsAre DEF After
<1>2. order[o].released /\ GivingBack(o)
  BY <1>1 DEF UnitsInv, GivingBack
<1>3. ~GivingBack(o)'
  BY <1>1 DEF UnitsInv, GivingBack
<1>4. \A p \in Orders \ {o} : GivingBack(p)' <=> GivingBack(p)
  BY <1>1 DEF GivingBack
<1>5. PICK S \in SUBSET Orders : S = Counted \ {o}
  BY DEF Counted
<1>6. o \in Orders \ S /\ S \cup {o} = Counted
  BY <1>2, <1>5 DEF Counted
<1>7. Accounted' = Cardinality(Slots(order, S))
  <2>1. {p \in Orders : order[p].released => GivingBack(p)'} = S
    BY <1>2, <1>3, <1>4, <1>5 DEF Counted
  <2> QED BY <2>1 DEF Accounted, Units, Slots
<1>8. Accounted = Cardinality(Slots(order, S \cup {o}))
  BY <1>0, <1>6, Counts
<1> QED BY <1>0, <1>1, <1>6, <1>7, <1>8, SlotsOfOneMore

Grows ==
    /\ "edit" \in overlapped => "edit" \in overlapped'
    /\ Had("death") => Had("death")'

LEMMA UnitsKept ==
    ASSUME TypeOK, UnitsInv, Evolve, Grows, deal' = deal, SameGivers,
           \A o \in Orders : order'[o].released <=> order[o].released
    PROVE  UnitsInv'
<1>0. thread \in [Threads -> ThreadStates] /\ order \in [Orders -> OrderState]
  BY DEF TypeOK, OrderState
<1>1. PICK a \in Nat : a = Accounted /\ Accounted' = a
  BY <1>0, AccountedKept, Counts
<1>2. PICK n \in Nat, m \in Nat : n = Usage' /\ m = Usage /\ n <= m
  BY <1>0, UsageShrinks, Counts
<1>3. n <= Limit
  BY <1>2, BoundsAssumption DEF UnitsInv, UnitsHonest
<1>4. UnitsHonest'
  BY <1>1, <1>2, <1>3 DEF UnitsInv, UnitsHonest, Grows
<1>5. \A t \in Threads : thread'[t].pc = "give" => order'[thread'[t].order].released
  <2>1. \A t \in Threads : thread[t].pc = "give" => thread[t].order \in Orders
    BY <1>0, ThreadsAre DEF After
  <2> QED BY <2>1 DEF UnitsInv, SameGivers
<1>6. \A t, u \in Threads :
        /\ thread'[t].pc = "give" /\ thread'[u].pc = "give"
        /\ thread'[t].order = thread'[u].order
        => t = u
  BY DEF UnitsInv, SameGivers
<1> QED BY <1>4, <1>5, <1>6 DEF UnitsInv

LEMMA CalmUnits ==
    ASSUME TypeOK, UnitsInv, Evolve, NEW t \in Threads,
           \/ \E c \in Checkouts, q \in 0 .. MaxUnits, w \in Rewards \cup {None} :
                Place(t, c, q, w)
           \/ Abort(t)
           \/ \E o \in Orders :
                \/ Cancel(t, o) \/ Refund(t, o)
                \/ \E status \in {"live", "cancelled"} : EditStatus(t, o, status)
           \/ SaveStatus(t) \/ RestoreCount(t) \/ RestoreWrite(t) \/ EditSale(t)
           \/ \E i \in Referrals, coupon \in BOOLEAN : StartCompletion(t, i, coupon)
           \/ Complete(t)
           \/ Die(t) /\ thread[t].pc # "give"
    PROVE  UnitsInv'
<1>0. /\ Idle.pc = "idle" /\ \A pc, o, why : At(pc, o, why).pc = pc
      /\ trouble \in Seq({"death", "status", "sale"}) /\ Len(trouble) <= MaxTroubles
      /\ order \in [Orders -> OrderState]
  BY IdleTyped DEF At, TypeOK, OrderState
<1>1. ASSUME NEW th, NEW docs, Move(t, th, docs), thread[t].pc # "give", th.pc # "give",
             Grows, deal' = deal,
             \A o \in Orders : order'[o].released <=> order[o].released
      PROVE  UnitsInv'
  BY <1>1, GiversKept, UnitsKept
<1>2. ASSUME trouble' = trouble, overlapped \subseteq overlapped' PROVE Grows
  BY <1>2 DEF Grows, Had
<1>3. ASSUME NEW what \in {"death", "status", "sale"}, Trouble(what), overlapped' = overlapped
      PROVE  Grows
  BY <1>0, <1>3, Troubles DEF Grows
<1>4. CASE \E c \in Checkouts, q \in 0 .. MaxUnits, w \in Rewards \cup {None} :
             Place(t, c, q, w)
  <2>1. PICK c \in Checkouts, q \in 0 .. MaxUnits, w \in Rewards \cup {None} :
          Place(t, c, q, w)
    BY <1>4
  <2>2. PICK units :
          Move(t, [pc |-> "place", checkout |-> c, units |-> units, reward |-> w], {})
    BY <2>1, Priced
  <2>3. /\ thread[t].pc # "give" /\ UNCHANGED <<deal, order, overlapped, trouble>>
        /\ [pc |-> "place", checkout |-> c, units |-> units, reward |-> w].pc # "give"
    BY <1>0, <2>1 DEF Place
  <2> QED BY <1>1, <1>2, <2>2, <2>3
<1>5. CASE Abort(t)
  <2>1. /\ thread[t].pc # "give" /\ UNCHANGED <<deal, order, overlapped, trouble>>
        /\ Move(t, Idle, {})
    BY <1>5 DEF Abort
  <2> QED BY <1>0, <1>1, <1>2, <2>1
<1>6. ASSUME NEW o \in Orders, Cancel(t, o) PROVE UnitsInv'
  <2>1. /\ thread[t].pc # "give" /\ UNCHANGED <<deal, overlapped, trouble>>
        /\ Move(t, At("release", o, "cancelled"), {})
        /\ order' = [order EXCEPT ![o].status = "cancelled", ![o].workflow = "cancelled"]
    BY <1>0, <1>6 DEF Cancel
  <2>2. \A p \in Orders : order'[p].released <=> order[p].released
    BY <1>0, <2>1 DEF OrderState
  <2>3. At("release", o, "cancelled").pc # "give"
    BY <1>0
  <2> QED BY <1>1, <1>2, <2>1, <2>2, <2>3
<1>7. ASSUME NEW o \in Orders, Refund(t, o) PROVE UnitsInv'
  <2>1. /\ thread[t].pc # "give" /\ UNCHANGED <<deal, overlapped, trouble>>
        /\ Move(t, Onward(At("restore", o, "refund")), {})
        /\ order' = [order EXCEPT ![o].status = "live", ![o].workflow = "returned"]
    BY <1>0, <1>7 DEF Refund
  <2>2. \A p \in Orders : order'[p].released <=> order[p].released
    BY <1>0, <2>1 DEF OrderState
  <2>3. Onward(At("restore", o, "refund")).pc # "give"
    BY OnwardGoes DEF After
  <2> QED BY <1>1, <1>2, <2>1, <2>2, <2>3
<1>8. ASSUME NEW o \in Orders, NEW status \in {"live", "cancelled"}, EditStatus(t, o, status)
      PROVE  UnitsInv'
  <2>1. /\ thread[t].pc # "give" /\ deal' = deal
        /\ Trouble("status") /\ overlapped' = overlapped
    BY <1>0, <1>8 DEF EditStatus
  <2>2. Grows
    BY <1>3, <2>1
  <2>3. \/ Move(t, At("release", o, "edit"), {}) /\ order' = order
        \/ order' = [order EXCEPT ![o].status = status] /\ thread' = thread
    BY <1>8 DEF EditStatus
  <2>4. CASE Move(t, At("release", o, "edit"), {}) /\ order' = order
    <3>1. At("release", o, "edit").pc # "give"
      BY <1>0
    <3> QED BY <1>1, <2>1, <2>2, <2>4, <3>1
  <2>5. CASE order' = [order EXCEPT ![o].status = status] /\ thread' = thread
    <3>1. \A p \in Orders : order'[p].released <=> order[p].released
      BY <1>0, <2>5, StatusSaved
    <3>2. SameGivers
      BY <2>5 DEF SameGivers
    <3> QED BY <2>1, <2>2, <3>1, <3>2, UnitsKept
  <2> QED BY <2>3, <2>4, <2>5
<1>9. CASE SaveStatus(t)
  <2>1. PICK o \in Orders : o = thread[t].order
    BY <1>9, ThreadsAre DEF SaveStatus, After, TypeOK
  <2>2. /\ thread[t].pc # "give" /\ UNCHANGED <<deal, overlapped, trouble>>
        /\ order' = [order EXCEPT ![o].status = "cancelled"]
        /\ Move(t, Idle, {})
    BY <1>9, <2>1 DEF SaveStatus
  <2>3. \A p \in Orders : order'[p].released <=> order[p].released
    BY <1>0, <2>2, StatusSaved
  <2> QED BY <1>0, <1>1, <1>2, <2>2, <2>3
<1>10. CASE RestoreCount(t)
  <2>1. PICK o \in Orders, why \in {"cancelled", "refund", "edit"} :
          /\ thread[t] = At("restore", o, why)
          /\ Move(t, At("write", o, why), {}) \/ Move(t, Idle, {})
          /\ overlapped \subseteq overlapped'
    BY <1>10, RestoreCountGoes
  <2>2. /\ thread[t].pc # "give" /\ At("write", o, why).pc # "give" /\ Idle.pc # "give"
        /\ UNCHANGED <<deal, order, trouble>>
    BY <1>0, <1>10, <2>1 DEF RestoreCount
  <2> QED BY <1>1, <1>2, <2>1, <2>2
<1>11. CASE RestoreWrite(t)
  <2>1. thread[t].pc # "give" /\ UNCHANGED <<deal, order, overlapped, trouble>>
    BY <1>11 DEF RestoreWrite
  <2>2. \/ Move(t, Idle, {order[thread[t].order].reward}) \/ Move(t, Idle, {})
    BY <1>11 DEF RestoreWrite
  <2> QED BY <1>0, <1>1, <1>2, <2>1, <2>2
<1>12. CASE EditSale(t)
  <2>1. /\ thread[t].pc # "give" /\ UNCHANGED <<deal, order, overlapped>> /\ Trouble("sale")
        /\ Move(t, [pc |-> "sale", sold |-> deal.sold], {})
        /\ [pc |-> "sale", sold |-> deal.sold].pc # "give"
    BY <1>0, <1>12 DEF EditSale
  <2> QED BY <1>1, <1>3, <2>1
<1>13. ASSUME NEW i \in Referrals, NEW coupon \in BOOLEAN, StartCompletion(t, i, coupon)
       PROVE  UnitsInv'
  <2>1. PICK n : n = Cardinality(Issued)
    OBVIOUS
  <2>2. /\ thread[t].pc # "give" /\ UNCHANGED <<deal, order, overlapped, trouble>>
        /\ Move(t, [pc |-> "complete", referral |-> i, issued |-> n, coupon |-> coupon], {})
        /\ [pc |-> "complete", referral |-> i, issued |-> n, coupon |-> coupon].pc # "give"
    BY <1>0, <1>13, <2>1 DEF StartCompletion
  <2> QED BY <1>1, <1>2, <2>2
<1>14. CASE Complete(t)
  <2>1. /\ thread[t].pc # "give" /\ UNCHANGED <<deal, order, trouble>>
        /\ overlapped \subseteq overlapped' /\ \E docs : Move(t, Idle, docs)
    BY <1>14 DEF Complete
  <2> QED BY <1>0, <1>1, <1>2, <2>1
<1>15. CASE Die(t) /\ thread[t].pc # "give"
  <2>1. /\ UNCHANGED <<deal, order, overlapped>> /\ Trouble("death") /\ Move(t, Idle, {})
    BY <1>15 DEF Die
  <2> QED BY <1>0, <1>1, <1>3, <1>15, <2>1
<1> QED BY <1>4, <1>5, <1>6, <1>7, <1>8, <1>9, <1>10, <1>11, <1>12, <1>13, <1>14, <1>15
LEMMA CommitUnits ==
    ASSUME TypeOK, SnapshotsOK, OrdersOK, UnitsInv, NEW t \in Threads, Commit(t)
    PROVE  UnitsInv'
<1>0. /\ thread \in [Threads -> ThreadStates] /\ order \in [Orders -> OrderState]
      /\ deal \in [sold : 0 .. MaxUnits, total : 1 .. MaxUnits]
      /\ MaxUnits \in Nat /\ Limit \in Nat
  BY BoundsAssumption DEF TypeOK, OrderState
<1>1. PICK th \in ThreadStates : th = thread[t]
  BY <1>0
<1>2. /\ th.pc = "place" /\ th.units \in Nat /\ PlaceOK(th)
      /\ \A o \in Of(th.checkout) : ~order[o].released
      /\ \A o \in Orders \ Of(th.checkout) : order'[o] = order[o]
  BY <1>1, Committed DEF SnapshotsOK
<1>3. PICK a \in Nat, n \in Nat : a = Accounted /\ n = Usage
  BY <1>0, Counts
<1>4. PICK b, m : b = Accounted' /\ m = Usage'
  OBVIOUS
<1>5. b = a + th.units /\ m = n + th.units
  BY <1>1, <1>3, <1>4, CommitCounts
<1>6. PICK s \in Nat, to \in Nat : s = deal.sold /\ to = deal.total /\ s <= to
  BY <1>0 DEF UnitsInv
<1>7. deal'.sold = s + th.units /\ deal'.total = to
  BY <1>0, <1>1, <1>6, CommitCounts
<1>8. s + th.units <= to /\ m <= Limit
  <2>1. CASE th.units > 0
    BY <1>2, <1>3, <1>5, <1>6, <2>1 DEF PlaceOK
  <2>2. CASE th.units = 0
    <3>1. n <= Limit
      BY <1>3 DEF UnitsInv, UnitsHonest
    <3> QED BY <1>3, <1>5, <1>6, <2>2, <3>1
  <2> QED BY <1>2, <2>1, <2>2
<1>9. overlapped' = overlapped /\ trouble' = trouble
  BY DEF Commit
<1>10. UnitsHonest'
  <2>1. "edit" \notin overlapped => a <= s /\ (~Had("death") => s = a)
    BY <1>3, <1>6 DEF UnitsInv, UnitsHonest
  <2>2. "edit" \notin overlapped => b <= s + th.units /\ (~Had("death") => s + th.units = b)
    BY <1>2, <1>3, <1>5, <1>6, <2>1
  <2>3. Had("death")' <=> Had("death")
    BY <1>9 DEF Had
  <2>4. "edit" \notin overlapped => s + th.units \in b .. to
    BY <1>2, <1>3, <1>5, <1>6, <1>8, <2>2
  <2> QED BY <1>4, <1>7, <1>8, <1>9, <2>2, <2>3, <2>4 DEF UnitsHonest
<1>11. SameGivers
  <2>1. Move(t, Idle, Writes(th)) /\ thread[t].pc # "give" /\ Idle.pc # "give"
    BY <1>1, <1>2, IdleTyped DEF Commit
  <2> QED BY <2>1, GiversKept
<1>12. \A u \in Threads : thread'[u].pc = "give" => order'[thread'[u].order].released
  <2>1. ASSUME NEW u \in Threads, thread'[u].pc = "give"
        PROVE  order'[thread'[u].order].released
    <3>1. thread'[u] = thread[u]
      BY <1>11, <2>1 DEF SameGivers
    <3>2. PICK o \in Orders : o = thread[u].order
      BY <1>0, <2>1, <3>1, ThreadsAre DEF After
    <3>3. order[o].released
      BY <2>1, <3>1, <3>2 DEF UnitsInv
    <3> QED BY <1>2, <3>1, <3>2, <3>3
  <2> QED BY <2>1
<1>13. \A u, v \in Threads :
         /\ thread'[u].pc = "give" /\ thread'[v].pc = "give"
         /\ thread'[u].order = thread'[v].order
         => u = v
  BY <1>11 DEF UnitsInv, SameGivers
<1>14. deal'.sold <= deal'.total
  BY <1>7, <1>8
<1> QED BY <1>10, <1>12, <1>13, <1>14 DEF UnitsInv

LEMMA ReleaseUnits ==
    ASSUME TypeOK, OrdersOK, UnitsInv, Evolve, NEW t \in Threads, Release(t)
    PROVE  UnitsInv'
<1>0. /\ thread \in [Threads -> ThreadStates] /\ order \in [Orders -> OrderState]
      /\ \A pc, o, why : At(pc, o, why).pc = pc /\ At(pc, o, why).order = o
  BY DEF TypeOK, OrderState, At
<1>1. PICK o \in Orders, why \in {"cancelled", "refund", "edit"} :
        /\ thread[t] = At("release", o, why)
        /\ \/ /\ ~order[o].released
              /\ order' = [order EXCEPT ![o].released = TRUE]
              /\ Move(t, At("give", o, why), {})
           \/ /\ order' = order
              /\ Move(t, Onward(At("release", o, why)), {})
  BY ReleaseGoes
<1>2. /\ UNCHANGED <<deal, overlapped, trouble>> /\ thread[t].pc # "give" /\ Grows
      /\ (Had("death")' <=> Had("death"))
  BY <1>0, <1>1 DEF Release, Grows, Had
<1>3. CASE order' = order /\ Move(t, Onward(At("release", o, why)), {})
  <2>1. Onward(At("release", o, why)).pc # "give"
    BY OnwardGoes DEF After
  <2>2. SameGivers
    BY <1>2, <1>3, <2>1, GiversKept
  <2> QED BY <1>2, <1>3, <2>2, UnitsKept
<1>4. CASE /\ ~order[o].released
           /\ order' = [order EXCEPT ![o].released = TRUE]
           /\ Move(t, At("give", o, why), {})
  <2>1. /\ thread'[t] = At("give", o, why)
        /\ \A u \in Threads \ {t} : thread'[u] = thread[u]
    BY <1>0, <1>4, Moves
  <2>2. /\ order'[o].released
        /\ \A p \in Orders \ {o} : order'[p].released <=> order[p].released
        /\ \A p \in Orders : order'[p].units = order[p].units
    BY <1>0, <1>4, Flagged
  <2>3. GivingBack(o)'
    BY <1>0, <2>1 DEF GivingBack
  <2>4. \A p \in Orders \ {o} : GivingBack(p)' <=> GivingBack(p)
    BY <1>0, <1>1, <2>1 DEF GivingBack
  <2>5. Accounted' = Accounted
    <3>1. PICK g : g = order'
      OBVIOUS
    <3>2. {p \in Orders : g[p].released => GivingBack(p)'} = Counted
      BY <1>4, <2>2, <2>3, <2>4, <3>1 DEF Counted
    <3>3. Accounted' = Cardinality(Slots(g, Counted))
      BY <3>1, <3>2 DEF Accounted, Units, Slots
    <3>4. Slots(g, Counted) = Slots(order, Counted)
      BY <2>2, <3>1, SameSlots DEF Counted
    <3> QED BY <1>0, <3>3, <3>4, Counts
  <2>6. PICK n \in Nat, m \in Nat : n = Usage' /\ m = Usage /\ n <= m
    BY <1>0, UsageShrinks, Counts
  <2>7. n <= Limit
    BY <2>6, BoundsAssumption DEF UnitsInv, UnitsHonest
  <2>8. PICK a : a = Accounted /\ a = Accounted'
    BY <2>5
  <2>9. UnitsHonest'
    BY <1>2, <2>6, <2>7, <2>8 DEF UnitsInv, UnitsHonest
  <2>10. ASSUME NEW u \in Threads, u # t, thread'[u].pc = "give"
         PROVE  /\ thread'[u] = thread[u] /\ thread[u].order \in Orders
                /\ order[thread[u].order].released /\ thread[u].order # o
    BY <1>0, <1>4, <2>1, <2>10, ThreadsAre DEF UnitsInv, After
  <2>11. \A u \in Threads : thread'[u].pc = "give" => order'[thread'[u].order].released
    BY <1>0, <2>1, <2>2, <2>10
  <2>12. \A u, v \in Threads :
           /\ thread'[u].pc = "give" /\ thread'[v].pc = "give"
           /\ thread'[u].order = thread'[v].order
           => u = v
    <3>1. ASSUME NEW u \in Threads, NEW v \in Threads, u # v,
                 thread'[u].pc = "give", thread'[v].pc = "give"
          PROVE  thread'[u].order # thread'[v].order
      <4>1. CASE u = t
        BY <1>0, <2>1, <2>10, <3>1, <4>1
      <4>2. CASE v = t
        BY <1>0, <2>1, <2>10, <3>1, <4>2
      <4>3. CASE u # t /\ v # t
        BY <2>10, <3>1, <4>3 DEF UnitsInv
      <4> QED BY <4>1, <4>2, <4>3
    <3> QED BY <3>1
  <2> QED BY <1>2, <2>9, <2>11, <2>12 DEF UnitsInv
<1> QED BY <1>1, <1>3, <1>4

\* A handler that gave units back, or died before it could.
LEMMA GivenUnits ==
    ASSUME TypeOK, UnitsInv, Evolve, Grows, order' = order, NEW t \in Threads,
           thread[t].pc = "give", thread'[t].pc # "give",
           \A u \in Threads \ {t} :
               (thread'[u].pc = "give" \/ thread[u].pc = "give") => thread'[u] = thread[u],
           NEW n \in Nat, n = order[thread[t].order].units,
           deal'.total = deal.total,
           \/ deal'.sold = IF deal.sold >= n THEN deal.sold - n ELSE deal.sold
           \/ deal'.sold = deal.sold /\ Had("death")',
           overlapped' = overlapped
    PROVE  UnitsInv'
<1>0. /\ thread \in [Threads -> ThreadStates] /\ order \in [Orders -> OrderState]
      /\ deal \in [sold : 0 .. MaxUnits, total : 1 .. MaxUnits]
      /\ MaxUnits \in Nat /\ Limit \in Nat
  BY BoundsAssumption DEF TypeOK, OrderState
<1>1. PICK a \in Nat : a = Accounted
  BY <1>0, Counts
<1>2. PICK b \in Nat : b = Accounted'
  <2>1. PICK g \in [Orders -> OrderState] : g = order'
    BY <1>0
  <2>2. PICK S \in SUBSET Orders : S = {p \in Orders : g[p].released => GivingBack(p)'}
    OBVIOUS
  <2>3. Accounted' = Cardinality(Slots(g, S))
    BY <2>1, <2>2 DEF Accounted, Units, Slots
  <2> QED BY <2>3, SlotsFinite
<1>3. a = b + n
  BY <1>1, <1>2, AccountedLess
<1>4. PICK s \in Nat, to \in Nat : s = deal.sold /\ to = deal.total /\ s <= to
  BY <1>0 DEF UnitsInv
<1>5. PICK z : z = deal'.sold
  OBVIOUS
<1>6. \/ z = IF s >= n THEN s - n ELSE s
      \/ z = s /\ Had("death")'
  BY <1>4, <1>5
<1>7. z \in Nat /\ z <= to
  BY <1>4, <1>6
<1>8. "edit" \notin overlapped => a <= s /\ (~Had("death") => s = a)
  BY <1>1, <1>4 DEF UnitsInv, UnitsHonest
<1>9. "edit" \notin overlapped => b <= z /\ (~Had("death")' => z = b)
  <2>1. SUFFICES ASSUME "edit" \notin overlapped PROVE b <= z /\ (~Had("death")' => z = b)
    OBVIOUS
  <2>2. s >= n
    BY <1>3, <1>4, <1>8, <2>1
  <2>3. CASE z = s /\ Had("death")'
    BY <1>3, <1>8, <2>1, <2>3
  <2>4. CASE z = s - n
    BY <1>3, <1>4, <1>8, <2>1, <2>4 DEF Grows
  <2> QED BY <1>6, <2>2, <2>3, <2>4
<1>10. PICK k \in Nat, m \in Nat : k = Usage' /\ m = Usage /\ k <= m
  BY <1>0, UsageShrinks, Counts
<1>11. k <= Limit
  BY <1>0, <1>10 DEF UnitsInv, UnitsHonest
<1>12. "edit" \notin overlapped => z \in b .. to
  BY <1>4, <1>7, <1>9
<1>13. UnitsHonest'
  BY <1>2, <1>4, <1>5, <1>9, <1>10, <1>11, <1>12 DEF UnitsHonest
<1>14. \A u \in Threads : thread'[u].pc = "give" => order'[thread'[u].order].released
  BY DEF UnitsInv
<1>15. \A u, v \in Threads :
         /\ thread'[u].pc = "give" /\ thread'[v].pc = "give"
         /\ thread'[u].order = thread'[v].order
         => u = v
  BY DEF UnitsInv
<1>16. deal'.sold <= deal'.total
  BY <1>4, <1>5, <1>7
<1> QED BY <1>13, <1>14, <1>15, <1>16 DEF UnitsInv

LEMMA SaveSaleUnits ==
    ASSUME TypeOK, UnitsInv, Evolve, NEW t \in Threads, NEW total \in 1 .. MaxUnits,
           SaveSale(t, total)
    PROVE  UnitsInv'
<1>0. /\ thread \in [Threads -> ThreadStates] /\ order \in [Orders -> OrderState]
      /\ deal \in [sold : 0 .. MaxUnits, total : 1 .. MaxUnits]
      /\ MaxUnits \in Nat /\ Limit \in Nat
  BY BoundsAssumption DEF TypeOK, OrderState
<1>1. PICK s \in Nat : s = thread[t].sold
  BY <1>0, ThreadsAre DEF SaveSale
<1>2. /\ deal'.sold = s /\ deal'.total = total /\ s <= total
      /\ overlapped' = overlapped \cup IF deal.sold # s THEN {"edit"} ELSE {}
      /\ UNCHANGED <<order, trouble>> /\ Move(t, Idle, {"deal"}) /\ thread[t].pc # "give"
  BY <1>0, <1>1 DEF SaveSale
<1>3. SameGivers
  BY <1>2, GiversKept, IdleTyped
<1>4. PICK a \in Nat : a = Accounted /\ a = Accounted'
  BY <1>0, <1>2, <1>3, AccountedKept, Counts
<1>5. PICK k \in Nat, m \in Nat : k = Usage' /\ m = Usage /\ k <= m
  BY <1>0, UsageShrinks, Counts
<1>6. k <= Limit
  BY <1>0, <1>5 DEF UnitsInv, UnitsHonest
<1>7. "edit" \notin overlapped' => s \in a .. total /\ (~Had("death") => s = a)
  <2>1. SUFFICES ASSUME "edit" \notin overlapped'
                 PROVE  s \in a .. total /\ (~Had("death") => s = a)
    OBVIOUS
  <2>2. deal.sold = s /\ "edit" \notin overlapped
    BY <1>2, <2>1
  <2>3. a <= s /\ (~Had("death") => s = a)
    BY <1>0, <1>4, <2>2 DEF UnitsInv, UnitsHonest
  <2> QED BY <1>0, <1>2, <2>3
<1>8. Had("death")' <=> Had("death")
  BY <1>2 DEF Had
<1>9. UnitsHonest'
  BY <1>2, <1>4, <1>5, <1>6, <1>7, <1>8 DEF UnitsHonest
<1>10. /\ \A u \in Threads : thread'[u].pc = "give" => order'[thread'[u].order].released
       /\ \A u, v \in Threads :
            /\ thread'[u].pc = "give" /\ thread'[v].pc = "give"
            /\ thread'[u].order = thread'[v].order
            => u = v
  BY <1>2, <1>3 DEF UnitsInv, SameGivers
<1> QED BY <1>2, <1>9, <1>10 DEF UnitsInv

LEMMA UnitsStep ==
    ASSUME TypeOK, SnapshotsOK, OrdersOK, UnitsInv, Next
    PROVE  UnitsInv'
<1>0. /\ thread \in [Threads -> ThreadStates] /\ order \in [Orders -> OrderState]
      /\ Idle.pc = "idle" /\ \A pc, o, why : At(pc, o, why).pc = pc /\ At(pc, o, why).order = o
      /\ deal \in [sold : 0 .. MaxUnits, total : 1 .. MaxUnits]
  BY IdleTyped DEF TypeOK, OrderState, At
<1>1. ASSUME NEW t \in Threads, Commit(t) PROVE UnitsInv'
  BY <1>1, CommitUnits
<1>2. SUFFICES ASSUME Evolve PROVE UnitsInv'
  BY <1>1, Evolution
<1>3. ASSUME NEW t \in Threads, Release(t) PROVE UnitsInv'
  BY <1>2, <1>3, ReleaseUnits
<1>4. ASSUME NEW t \in Threads, NEW th, NEW docs, Move(t, th, docs)
      PROVE  \A u \in Threads \ {t} :
               (thread'[u].pc = "give" \/ thread[u].pc = "give") => thread'[u] = thread[u]
  <2>1. \A u \in Threads : thread[u].pc = "give" => Writes(thread[u]) = {}
    BY DEF Writes
  <2> QED BY <1>0, <1>4, <2>1, Moves
<1>5. ASSUME NEW t \in Threads, GiveBack(t) PROVE UnitsInv'
  <2>1. PICK o \in Orders, why \in {"cancelled", "refund", "edit"} :
          /\ thread[t] = At("give", o, why)
          /\ deal' = [deal EXCEPT !.sold = IF deal.sold >= order[o].units
                                           THEN deal.sold - order[o].units
                                           ELSE deal.sold]
          /\ Move(t, Onward(At("give", o, why)), {"deal"})
    BY <1>5, GiveBackGoes
  <2>2. thread[t].pc = "give" /\ thread[t].order = o
    BY <1>0, <2>1
  <2>3. thread'[t].pc # "give"
    <3>1. thread'[t] = Onward(At("give", o, why))
      BY <1>0, <2>1, Moves
    <3> QED BY <3>1, OnwardGoes DEF After
  <2>4. PICK n \in Nat : n = order[o].units
    BY <1>0, BoundsAssumption DEF OrderState
  <2>5. /\ deal'.total = deal.total
        /\ deal'.sold = IF deal.sold >= n THEN deal.sold - n ELSE deal.sold
    BY <1>0, <2>1, <2>4
  <2>6. UNCHANGED <<order, overlapped, trouble>> /\ Grows
    BY <1>5 DEF GiveBack, Grows, Had
  <2>7. \A u \in Threads \ {t} :
          (thread'[u].pc = "give" \/ thread[u].pc = "give") => thread'[u] = thread[u]
    BY <1>4, <2>1
  <2> QED BY <1>2, <2>2, <2>3, <2>4, <2>5, <2>6, <2>7, GivenUnits
<1>6. ASSUME NEW t \in Threads, NEW total \in 1 .. MaxUnits, SaveSale(t, total)
      PROVE  UnitsInv'
  BY <1>2, <1>6, SaveSaleUnits
<1>7. ASSUME NEW t \in Threads, Die(t), thread[t].pc = "give" PROVE UnitsInv'
  <2>1. /\ UNCHANGED <<deal, order, overlapped>> /\ Trouble("death") /\ Move(t, Idle, {})
    BY <1>7 DEF Die
  <2>2. Had("death")' /\ Grows
    BY <2>1, Troubles DEF TypeOK, Grows
  <2>3. thread'[t].pc # "give"
    BY <1>0, <2>1, Moves
  <2>4. PICK n \in Nat : n = order[thread[t].order].units
    <3>1. thread[t].order \in Orders
      BY <1>0, <1>7, ThreadsAre DEF After
    <3> QED BY <1>0, <3>1, BoundsAssumption DEF OrderState
  <2>5. \A u \in Threads \ {t} :
          (thread'[u].pc = "give" \/ thread[u].pc = "give") => thread'[u] = thread[u]
    BY <1>4, <2>1
  <2> QED BY <1>2, <1>7, <2>1, <2>2, <2>3, <2>4, <2>5, GivenUnits
<1>8. ASSUME NEW w \in Rewards, Expire(w) PROVE UnitsInv'
  <2>1. /\ UNCHANGED <<deal, order, overlapped, trouble>> /\ thread' = Overtaken({w})
    BY <1>8 DEF Expire
  <2>2. SameGivers
    <3>1. \A u \in Threads : thread[u].pc = "give" => Writes(thread[u]) = {}
      BY DEF Writes
    <3> QED BY <1>0, <2>1, <3>1, Overtakes DEF SameGivers
  <2>3. Grows
    BY <2>1 DEF Grows, Had
  <2> QED BY <1>2, <2>1, <2>2, <2>3, UnitsKept
<1> QED BY <1>1, <1>2, <1>3, <1>5, <1>6, <1>7, <1>8, CalmUnits DEF Next
-----------------------------------------------------------------------------
(* Rewards.                                                                *)

GivesBack == {"release", "give", "restore", "write"}

\* Nothing is taken from the history.
LEMMA HistoryGrows ==
    ASSUME TypeOK, Next
    PROVE  /\ overlapped \subseteq overlapped'
           /\ \A what \in {"death", "status", "sale"} : Had(what) => Had(what)'
<1>0. trouble \in Seq({"death", "status", "sale"}) /\ Len(trouble) <= MaxTroubles
  BY DEF TypeOK
<1>1. ASSUME trouble' = trouble
      PROVE  \A what \in {"death", "status", "sale"} : Had(what) => Had(what)'
  BY <1>1 DEF Had
<1>2. ASSUME NEW w \in {"death", "status", "sale"}, Trouble(w)
      PROVE  \A what \in {"death", "status", "sale"} : Had(what) => Had(what)'
  BY <1>0, <1>2, Troubles
<1>3. ASSUME NEW t \in Threads,
             \/ \E o \in Orders, status \in {"live", "cancelled"} : EditStatus(t, o, status)
             \/ EditSale(t) \/ Die(t)
      PROVE  /\ overlapped \subseteq overlapped'
             /\ \A what \in {"death", "status", "sale"} : Had(what) => Had(what)'
  <2>1. overlapped' = overlapped /\ \E w \in {"death", "status", "sale"} : Trouble(w)
    BY <1>3 DEF EditStatus, EditSale, Die
  <2> QED BY <1>2, <2>1
<1>4. ASSUME NEW t \in Threads, RestoreCount(t)
      PROVE  overlapped \subseteq overlapped' /\ trouble' = trouble
  BY <1>4 DEF RestoreCount
<1>5. ASSUME NEW t \in Threads, Complete(t)
      PROVE  overlapped \subseteq overlapped' /\ trouble' = trouble
  BY <1>5 DEF Complete
<1>6. ASSUME NEW t \in Threads, NEW total \in 1 .. MaxUnits, SaveSale(t, total)
      PROVE  overlapped \subseteq overlapped' /\ trouble' = trouble
  BY <1>6 DEF SaveSale
<1>7. ASSUME NEW t \in Threads,
             \/ \E c \in Checkouts, q \in 0 .. MaxUnits, w \in Rewards \cup {None} :
                  Place(t, c, q, w)
             \/ Commit(t) \/ Abort(t)
             \/ \E o \in Orders : Cancel(t, o) \/ Refund(t, o)
             \/ Release(t) \/ GiveBack(t) \/ SaveStatus(t) \/ RestoreWrite(t)
             \/ \E i \in Referrals, coupon \in BOOLEAN : StartCompletion(t, i, coupon)
      PROVE  overlapped' = overlapped /\ trouble' = trouble
  BY <1>7 DEF Place, Commit, Abort, Cancel, Refund, Release, GiveBack, SaveStatus,
              RestoreWrite, StartCompletion
<1>8. ASSUME NEW w \in Rewards, Expire(w) PROVE overlapped' = overlapped /\ trouble' = trouble
  BY <1>8 DEF Expire
<1> QED BY <1>1, <1>3, <1>4, <1>5, <1>6, <1>7, <1>8 DEF Next

\* A handler that gives back stays with its order.
Carried(u) ==
    \/ thread'[u] = thread[u]
    \/ thread'[u].pc \notin After
    \/ /\ thread[u].pc \in {"release", "give", "restore"}
       /\ \E pc \in {"give", "restore", "write"} :
            thread'[u] = At(pc, thread[u].order, thread[u].why)

SameUses ==
    \A o \in Orders : /\ order'[o].status = order[o].status
                      /\ order'[o].workflow = order[o].workflow
                      /\ order'[o].reward = order[o].reward

LEMMA CarryOn ==
    ASSUME TypeOK, OrdersOK, WorkflowInv, Next, ~Had("status")'
    PROVE  \/ \E t \in Threads : Commit(t)
           \/ \E t \in Threads, o \in Orders : Cancel(t, o)
           \/ \E t \in Threads, o \in Orders : Refund(t, o)
           \/ SameUses /\ \A u \in Threads : Carried(u)
<1>0. /\ thread \in [Threads -> ThreadStates] /\ order \in [Orders -> OrderState]
      /\ Idle.pc = "idle"
      /\ \A pc, o, why : /\ At(pc, o, why).pc = pc /\ At(pc, o, why).order = o
                         /\ At(pc, o, why).why = why
      /\ trouble \in Seq({"death", "status", "sale"}) /\ Len(trouble) <= MaxTroubles
  BY IdleTyped DEF TypeOK, OrderState, At
<1> DEFINE Calm == SameUses /\ \A u \in Threads : Carried(u)
<1>1. ASSUME order' = order PROVE SameUses
  BY <1>1 DEF SameUses
<1>2. ASSUME NEW t \in Threads, NEW th, NEW docs, Move(t, th, docs),
             \/ th.pc \notin After
             \/ /\ thread[t].pc \in {"release", "give", "restore"}
                /\ \E pc \in {"give", "restore", "write"} :
                     th = At(pc, thread[t].order, thread[t].why)
      PROVE  \A u \in Threads : Carried(u)
  <2>1. thread'[t] = th /\ \A u \in Threads \ {t} : thread'[u] = thread[u] \/ thread'[u] = Idle
    BY <1>0, <1>2, Moves
  <2> QED BY <1>0, <1>2, <2>1 DEF Carried, After
<1>3. ASSUME NEW t \in Threads, Abort(t) \/ RestoreWrite(t) \/ Die(t) \/ Complete(t)
                                \/ \E total \in 1 .. MaxUnits : SaveSale(t, total)
      PROVE  Calm
  <2>1. order' = order /\ \E docs : Move(t, Idle, docs)
    <3>1. CASE Abort(t) \/ Die(t)
      BY <3>1 DEF Abort, Die
    <3>2. CASE RestoreWrite(t)
      <4>1. \/ Move(t, Idle, {order[thread[t].order].reward}) \/ Move(t, Idle, {})
        BY <3>2 DEF RestoreWrite
      <4> QED BY <3>2, <4>1 DEF RestoreWrite
    <3>3. CASE Complete(t)
      BY <3>3 DEF Complete
    <3>4. CASE \E total \in 1 .. MaxUnits : SaveSale(t, total)
      BY <3>4 DEF SaveSale
    <3> QED BY <1>3, <3>1, <3>2, <3>3, <3>4
  <2> QED BY <1>0, <1>1, <1>2, <2>1 DEF After
<1>4. ASSUME NEW t \in Threads, NEW c \in Checkouts, NEW q \in 0 .. MaxUnits,
             NEW w \in Rewards \cup {None}, Place(t, c, q, w)
      PROVE  Calm
  <2>1. PICK units :
          Move(t, [pc |-> "place", checkout |-> c, units |-> units, reward |-> w], {})
    BY <1>4, Priced
  <2>2. [pc |-> "place", checkout |-> c, units |-> units, reward |-> w].pc \notin After
    BY DEF After
  <2> QED BY <1>1, <1>2, <1>4, <2>1, <2>2 DEF Place
<1>5. ASSUME NEW t \in Threads, EditSale(t) PROVE Calm
  <2>1. [pc |-> "sale", sold |-> deal.sold].pc \notin After
    BY DEF After
  <2> QED BY <1>1, <1>2, <1>5, <2>1 DEF EditSale
<1>6. ASSUME NEW t \in Threads, NEW i \in Referrals, NEW coupon \in BOOLEAN,
             StartCompletion(t, i, coupon)
      PROVE  Calm
  <2>1. PICK n : n = Cardinality(Issued)
    OBVIOUS
  <2>2. Move(t, [pc |-> "complete", referral |-> i, issued |-> n, coupon |-> coupon], {})
    BY <1>6, <2>1 DEF StartCompletion
  <2>3. [pc |-> "complete", referral |-> i, issued |-> n, coupon |-> coupon].pc \notin After
    BY DEF After
  <2> QED BY <1>1, <1>2, <1>6, <2>2, <2>3 DEF StartCompletion
<1>7. ASSUME NEW t \in Threads, NEW o \in Orders, NEW status, EditStatus(t, o, status)
      PROVE  FALSE
  BY <1>0, <1>7, Troubles DEF EditStatus
<1>8. ASSUME NEW t \in Threads, SaveStatus(t) PROVE FALSE
  BY <1>8 DEF SaveStatus, WorkflowInv
<1>9. ASSUME NEW t \in Threads, NEW o \in Orders, NEW why \in {"cancelled", "refund", "edit"},
             NEW pc \in {"release", "give", "restore"}, thread[t] = At(pc, o, why),
             NEW docs, Move(t, Onward(At(pc, o, why)), docs)
      PROVE  \A u \in Threads : Carried(u)
  <2>1. thread[t].pc = pc /\ thread[t].order = o /\ thread[t].why = why
    BY <1>0, <1>9
  <2>2. why # "edit"
    BY <2>1 DEF WorkflowInv
  <2>3. Onward(At(pc, o, why)) = Idle \/ Onward(At(pc, o, why)) = At("restore", o, why)
    BY <2>2, OnwardTyped DEF After
  <2>4. Idle.pc \notin After
    BY <1>0 DEF After
  <2>5. CASE Onward(At(pc, o, why)) = Idle
    BY <1>2, <1>9, <2>4, <2>5
  <2>6. CASE Onward(At(pc, o, why)) = At("restore", o, why)
    BY <1>2, <1>9, <2>1, <2>6
  <2> QED BY <2>3, <2>5, <2>6
<1>10. ASSUME NEW t \in Threads, Release(t) PROVE Calm
  <2>1. PICK o \in Orders, why \in {"cancelled", "refund", "edit"} :
          /\ thread[t] = At("release", o, why)
          /\ \/ /\ order' = [order EXCEPT ![o].released = TRUE]
                /\ Move(t, At("give", o, why), {})
             \/ /\ order' = order
                /\ Move(t, Onward(At("release", o, why)), {})
    BY <1>10, ReleaseGoes
  <2>2. thread[t].pc = "release" /\ thread[t].order = o /\ thread[t].why = why
    BY <1>0, <2>1
  <2>3. CASE order' = [order EXCEPT ![o].released = TRUE] /\ Move(t, At("give", o, why), {})
    <3>1. SameUses
      BY <1>0, <2>3, Flagged DEF SameUses
    <3>2. \A u \in Threads : Carried(u)
      BY <1>2, <2>2, <2>3
    <3> QED BY <3>1, <3>2
  <2>4. CASE order' = order /\ Move(t, Onward(At("release", o, why)), {})
    BY <1>1, <1>9, <2>1, <2>4
  <2> QED BY <2>1, <2>3, <2>4
<1>11. ASSUME NEW t \in Threads, GiveBack(t) PROVE Calm
  <2>1. PICK o \in Orders, why \in {"cancelled", "refund", "edit"} :
          /\ thread[t] = At("give", o, why)
          /\ Move(t, Onward(At("give", o, why)), {"deal"})
    BY <1>11, GiveBackGoes
  <2>2. SameUses
    BY <1>1, <1>11 DEF GiveBack
  <2>3. \A u \in Threads : Carried(u)
    BY <1>9, <2>1
  <2> QED BY <2>2, <2>3
<1>12. ASSUME NEW t \in Threads, RestoreCount(t) PROVE Calm
  <2>1. PICK o \in Orders, why \in {"cancelled", "refund", "edit"} :
          /\ thread[t] = At("restore", o, why)
          /\ Move(t, At("write", o, why), {}) \/ Move(t, Idle, {})
    BY <1>12, RestoreCountGoes
  <2>2. thread[t].pc = "restore" /\ thread[t].order = o /\ thread[t].why = why
    BY <1>0, <2>1
  <2>3. SameUses
    BY <1>1, <1>12 DEF RestoreCount
  <2>4. Idle.pc \notin After
    BY <1>0 DEF After
  <2>5. \A u \in Threads : Carried(u)
    BY <1>2, <2>1, <2>2, <2>4
  <2> QED BY <2>3, <2>5
<1>13. ASSUME NEW w \in Rewards, Expire(w) PROVE Calm
  <2>1. order' = order /\ \A u \in Threads : thread'[u] = thread[u] \/ thread'[u] = Idle
    BY <1>0, <1>13, Overtakes DEF Expire
  <2> QED BY <1>0, <1>1, <2>1 DEF Carried, After
<1> QED BY <1>3, <1>4, <1>5, <1>6, <1>7, <1>8, <1>10, <1>11, <1>12, <1>13 DEF Next
\* The two ends of an order.
LEMMA Ends ==
    ASSUME TypeOK, NEW t \in Threads, NEW o \in Orders, Cancel(t, o) \/ Refund(t, o)
    PROVE  /\ thread[t] = Idle /\ order[o].workflow = "open" /\ reward' = reward
           /\ \A u \in Threads \ {t} : thread'[u] = thread[u]
           /\ \A p \in Orders \ {o} : order'[p] = order[p]
           /\ order'[o].reward = order[o].reward
           /\ Cancel(t, o) =>
                  /\ order'[o].status = "cancelled" /\ order'[o].workflow = "cancelled"
                  /\ thread'[t] = At("release", o, "cancelled")
           /\ Refund(t, o) =>
                  /\ order'[o].status = "live" /\ order'[o].workflow = "returned"
                  /\ thread'[t] \in {Idle, At("restore", o, "refund")}
<1>0. thread \in [Threads -> ThreadStates] /\ order \in [Orders -> OrderState]
  BY DEF TypeOK, OrderState
<1>1. ASSUME Cancel(t, o)
      PROVE  /\ thread[t] = Idle /\ order[o].workflow = "open" /\ reward' = reward
             /\ order' = [order EXCEPT ![o].status = "cancelled", ![o].workflow = "cancelled"]
             /\ Move(t, At("release", o, "cancelled"), {})
  BY <1>1 DEF Cancel
<1>2. ASSUME Refund(t, o)
      PROVE  /\ thread[t] = Idle /\ order[o].workflow = "open" /\ reward' = reward
             /\ order' = [order EXCEPT ![o].status = "live", ![o].workflow = "returned"]
             /\ Move(t, Onward(At("restore", o, "refund")), {})
  BY <1>2 DEF Refund
<1>3. Onward(At("restore", o, "refund")) \in {Idle, At("restore", o, "refund")}
  BY OnwardTyped DEF After
<1>4. ASSUME NEW th, Move(t, th, {})
      PROVE  thread'[t] = th /\ \A u \in Threads \ {t} : thread'[u] = thread[u]
  BY <1>0, <1>4, Moves
<1>5. CASE Cancel(t, o)
  <2>1. /\ \A p \in Orders \ {o} : order'[p] = order[p]
        /\ order'[o].reward = order[o].reward
        /\ order'[o].status = "cancelled" /\ order'[o].workflow = "cancelled"
    BY <1>0, <1>1, <1>5 DEF OrderState
  <2>2. ~Refund(t, o)
    <3>1. Refund(t, o) => order'[o].workflow = "returned"
      BY <1>0, <1>2 DEF OrderState
    <3> QED BY <2>1, <3>1
  <2> QED BY <1>1, <1>4, <1>5, <2>1, <2>2
<1>6. CASE Refund(t, o)
  <2>1. /\ \A p \in Orders \ {o} : order'[p] = order[p]
        /\ order'[o].reward = order[o].reward
        /\ order'[o].status = "live" /\ order'[o].workflow = "returned"
    BY <1>0, <1>2, <1>6 DEF OrderState
  <2>2. ~Cancel(t, o)
    <3>1. Cancel(t, o) => order'[o].workflow = "cancelled"
      BY <1>0, <1>1 DEF OrderState
    <3> QED BY <2>1, <3>1
  <2> QED BY <1>2, <1>3, <1>4, <1>6, <2>1, <2>2
<1> QED BY <1>5, <1>6

\* The commit of a placement, for those who give back.
LEMMA CommitThreads ==
    ASSUME TypeOK, OrdersOK, SnapshotsOK, NEW t \in Threads, Commit(t)
    PROVE  /\ thread'[t] = Idle /\ thread[t].pc \notin After
           /\ \A u \in Threads : thread[u].pc \in After \/ thread'[u].pc \in After =>
                  /\ thread'[u] = thread[u] /\ thread[u].order \in Orders
                  /\ order'[thread[u].order] = order[thread[u].order]
<1>0. thread \in [Threads -> ThreadStates] /\ order \in [Orders -> OrderState]
  BY DEF TypeOK, OrderState
<1>1. thread[t].pc = "place" /\ Move(t, Idle, Writes(thread[t]))
  BY DEF Commit
<1>2. /\ thread'[t] = Idle
      /\ \A u \in Threads \ {t} :
           \/ thread'[u] = thread[u]
           \/ thread'[u] = Idle /\ Writes(thread[u]) # {}
  BY <1>0, <1>1, Moves
<1>3. \A u \in Threads : thread[u].pc \in After => Writes(thread[u]) = {}
  BY DEF Writes, After
<1>4. ASSUME NEW u \in Threads, thread[u].pc \in After \/ thread'[u].pc \in After
      PROVE  thread'[u] = thread[u]
  BY <1>1, <1>2, <1>3, <1>4, IdleTyped DEF After
<1>5. ASSUME NEW u \in Threads, thread[u].pc \in After \/ thread'[u].pc \in After
      PROVE  thread[u].order \in Orders /\ order'[thread[u].order] = order[thread[u].order]
  <2>1. thread[u].pc \in After
    BY <1>4, <1>5
  <2>2. PICK o \in Orders : o = thread[u].order
    BY <1>0, <2>1, ThreadsAre
  <2>3. order[o].status # "none"
    BY <2>1, <2>2 DEF OrdersOK, After
  <2>4. order'[o] = order[o]
    BY <2>3, Committed
  <2> QED BY <2>2, <2>4
<1> QED BY <1>1, <1>2, <1>4, <1>5 DEF After

LEMMA WorkflowStep ==
    ASSUME TypeOK, SnapshotsOK, OrdersOK, WorkflowInv, Next, ~Had("status")'
    PROVE  WorkflowInv'
<1>0. /\ thread \in [Threads -> ThreadStates] /\ order \in [Orders -> OrderState]
      /\ Idle.pc = "idle"
      /\ \A pc, o, why : /\ At(pc, o, why).pc = pc /\ At(pc, o, why).order = o
                         /\ At(pc, o, why).why = why
  BY IdleTyped DEF TypeOK, OrderState, At
<1>1. \A u \in Threads : thread[u].pc \in After => thread[u].order \in Orders
  BY <1>0, ThreadsAre
<1>2. ASSUME NEW t \in Threads, Commit(t) PROVE WorkflowInv'
  <2>1. /\ \A o \in Of(thread[t].checkout) :
             order'[o].status = "live" /\ order'[o].workflow = "open"
        /\ \A o \in Orders \ Of(thread[t].checkout) : order'[o] = order[o]
    BY <1>2, Committed
  <2>2. \A o \in Orders : order'[o].status = "cancelled" <=> order'[o].workflow = "cancelled"
    BY <2>1 DEF WorkflowInv
  <2>3. \A u \in Threads :
          /\ thread'[u].pc \in GivesBack =>
               /\ thread'[u].why # "edit"
               /\ order'[thread'[u].order].workflow
                    = IF thread'[u].why = "refund" THEN "returned" ELSE "cancelled"
          /\ thread'[u].pc # "status"
    BY <1>2, CommitThreads DEF WorkflowInv, After, GivesBack
  <2> QED BY <2>2, <2>3 DEF WorkflowInv, GivesBack
<1>3. ASSUME NEW t \in Threads, NEW o \in Orders, Cancel(t, o) \/ Refund(t, o)
      PROVE  WorkflowInv'
  <2>1. \A p \in Orders : order'[p].status = "cancelled" <=> order'[p].workflow = "cancelled"
    BY <1>3, Ends DEF WorkflowInv
  <2>2. ASSUME NEW u \in Threads
        PROVE  /\ thread'[u].pc \in GivesBack =>
                    /\ thread'[u].why # "edit"
                    /\ order'[thread'[u].order].workflow
                         = IF thread'[u].why = "refund" THEN "returned" ELSE "cancelled"
               /\ thread'[u].pc # "status"
    <3>1. CASE u = t
      BY <1>0, <1>3, <3>1, Ends DEF GivesBack
    <3>2. CASE u # t
      <4>1. thread'[u] = thread[u] /\ thread[u].pc # "status"
        BY <1>3, <3>2, Ends DEF WorkflowInv
      <4>2. CASE thread[u].pc \in GivesBack
        <5>1. PICK p \in Orders : p = thread[u].order
          BY <1>1, <4>2 DEF After, GivesBack
        <5>2. /\ thread[u].why # "edit"
              /\ order[p].workflow = IF thread[u].why = "refund" THEN "returned" ELSE "cancelled"
          BY <4>2, <5>1 DEF WorkflowInv, GivesBack
        <5>3. order'[p] = order[p]
          BY <1>3, <5>2, Ends
        <5> QED BY <4>1, <5>1, <5>2, <5>3
      <4> QED BY <4>1, <4>2
    <3> QED BY <3>1, <3>2
  <2> QED BY <2>1, <2>2 DEF WorkflowInv, GivesBack
<1>4. ASSUME SameUses, \A u \in Threads : Carried(u) PROVE WorkflowInv'
  <2>1. \A o \in Orders : order'[o].status = "cancelled" <=> order'[o].workflow = "cancelled"
    BY <1>4 DEF WorkflowInv, SameUses
  <2>2. ASSUME NEW u \in Threads
        PROVE  /\ thread'[u].pc \in GivesBack =>
                    /\ thread'[u].why # "edit"
                    /\ order'[thread'[u].order].workflow
                         = IF thread'[u].why = "refund" THEN "returned" ELSE "cancelled"
               /\ thread'[u].pc # "status"
    <3>1. CASE thread'[u].pc \notin After
      BY <3>1 DEF After, GivesBack
    <3>2. CASE thread'[u].pc \in After
      <4>1. /\ thread'[u].order = thread[u].order /\ thread'[u].why = thread[u].why
            /\ thread[u].pc \in GivesBack /\ thread'[u].pc # "status"
        BY <1>0, <1>4, <3>2 DEF Carried, After, GivesBack, WorkflowInv
      <4>2. PICK p \in Orders : p = thread[u].order
        BY <1>1, <4>1 DEF After, GivesBack
      <4> QED BY <1>4, <4>1, <4>2 DEF WorkflowInv, SameUses, GivesBack
    <3> QED BY <3>1, <3>2
  <2> QED BY <2>1, <2>2 DEF WorkflowInv, GivesBack
<1> QED BY <1>2, <1>3, <1>4, CarryOn
LEMMA BackedKept ==
    ASSUME WriteInv, Backed,
           \A o \in Orders, w \in Rewards : Uses(o, w)' => Uses(o, w),
           \A u \in Threads, w \in Rewards : Restoring(u, w)' => Restoring(u, w),
           \A w \in Rewards :
               reward[w] = "redeemed" =>
                   \/ reward'[w] = "redeemed"
                   \/ NobodyUses(w) /\ \A u \in Threads : ~Restoring(u, w)'
    PROVE  WriteInv' /\ Backed'
<1>1. ASSUME NEW u \in Threads, NEW w \in Rewards, Restoring(u, w)'
      PROVE  reward'[w] = "redeemed" /\ NobodyUses(w)'
  <2>1. Restoring(u, w) /\ reward[w] = "redeemed" /\ NobodyUses(w)
    BY <1>1 DEF WriteInv
  <2>2. reward'[w] = "redeemed"
    BY <1>1, <2>1
  <2>3. \A o \in Orders : ~Uses(o, w)'
    BY <2>1 DEF NobodyUses
  <2> QED BY <2>2, <2>3 DEF NobodyUses
<1>2. \A t, u \in Threads, w \in Rewards : Restoring(t, w)' /\ Restoring(u, w)' => t = u
  BY DEF WriteInv
<1>3. ASSUME NEW o \in Orders, NEW w \in Rewards, Uses(o, w)'
      PROVE  /\ reward'[w] = "redeemed"
             /\ \A p \in Orders : Uses(p, w)' => p[1] = o[1]
  <2>1. Uses(o, w) /\ reward[w] = "redeemed"
    BY <1>3 DEF Backed
  <2>2. reward'[w] = "redeemed"
    BY <2>1 DEF NobodyUses
  <2>3. \A p \in Orders : Uses(p, w)' => p[1] = o[1]
    BY <2>1 DEF Backed
  <2> QED BY <2>2, <2>3
<1>4. WriteInv'
  BY <1>1, <1>2 DEF WriteInv
<1>5. Backed'
  BY <1>3 DEF Backed
<1> QED BY <1>4, <1>5

LEMMA CommitBacked ==
    ASSUME TypeOK, SnapshotsOK, OrdersOK, WriteInv, Backed, NEW t \in Threads, Commit(t)
    PROVE  WriteInv' /\ Backed'
<1>0. /\ thread \in [Threads -> ThreadStates] /\ order \in [Orders -> OrderState]
      /\ reward \in [Rewards -> {"none", "available", "redeemed", "expired"}]
  BY DEF TypeOK, OrderState
<1>1. PICK th \in ThreadStates : th = thread[t]
  BY <1>0
<1>2. /\ \A o \in Orders \ Of(th.checkout) : order'[o] = order[o]
      /\ \A o \in Of(th.checkout) : order'[o].reward = th.reward
      /\ th.reward \in Rewards \cup {None} /\ th.pc = "place" /\ PlaceOK(th)
  BY <1>1, Committed DEF SnapshotsOK
<1>3. \A w \in Rewards : reward'[w] = IF w = th.reward THEN "redeemed" ELSE reward[w]
  BY <1>1 DEF Commit
<1>4. /\ \A o \in Orders, w \in Rewards : o \notin Of(th.checkout) =>
                                              (Uses(o, w)' <=> Uses(o, w))
      /\ \A o \in Of(th.checkout), w \in Rewards : Uses(o, w)' => w = th.reward
  BY <1>2 DEF Uses
<1>5. \A u \in Threads, w \in Rewards : Restoring(u, w)' => Restoring(u, w)
  <2>1. \A u \in Threads : thread'[u].pc = "write" =>
          thread'[u] = thread[u] /\ order'[thread[u].order] = order[thread[u].order]
    BY CommitThreads DEF After
  <2> QED BY <2>1 DEF Restoring
<1>6. ASSUME th.reward \in Rewards
      PROVE  /\ \A o \in Orders : ~Uses(o, th.reward)
             /\ \A u \in Threads : ~Restoring(u, th.reward)
  <2>1. reward[th.reward] = "available"
    BY <1>2, <1>6, RewardsAssumption DEF PlaceOK
  <2> QED BY <1>6, <2>1 DEF WriteInv, Backed
<1>7. ASSUME NEW u \in Threads, NEW w \in Rewards, Restoring(u, w)'
      PROVE  reward'[w] = "redeemed" /\ NobodyUses(w)'
  <2>1. Restoring(u, w) /\ reward[w] = "redeemed" /\ NobodyUses(w)
    BY <1>5, <1>7 DEF WriteInv
  <2>2. w # th.reward
    BY <1>6, <2>1
  <2>3. \A o \in Orders : ~Uses(o, w)'
    BY <1>4, <2>1, <2>2 DEF NobodyUses
  <2> QED BY <1>3, <2>1, <2>3 DEF NobodyUses
<1>8. \A v, u \in Threads, w \in Rewards : Restoring(v, w)' /\ Restoring(u, w)' => v = u
  BY <1>5 DEF WriteInv
<1>9. ASSUME NEW o \in Orders, NEW w \in Rewards, Uses(o, w)'
      PROVE  /\ reward'[w] = "redeemed"
             /\ \A p \in Orders : Uses(p, w)' => p[1] = o[1]
  <2>1. CASE w = th.reward
    <3>1. \A p \in Orders : Uses(p, w)' => p \in Of(th.checkout)
      BY <1>4, <1>6, <2>1
    <3> QED BY <1>3, <1>9, <2>1, <3>1 DEF Of
  <2>2. CASE w # th.reward
    <3>1. \A p \in Orders : Uses(p, w)' => Uses(p, w)
      BY <1>4, <2>2
    <3>2. reward[w] = "redeemed" /\ \A p \in Orders : Uses(p, w) => p[1] = o[1]
      BY <1>9, <3>1 DEF Backed
    <3> QED BY <1>3, <2>2, <3>1, <3>2
  <2> QED BY <2>1, <2>2
<1>10. WriteInv'
  BY <1>7, <1>8 DEF WriteInv
<1>11. Backed'
  BY <1>9 DEF Backed
<1> QED BY <1>10, <1>11

\* A handler that has counted, and found the reward unused.
LEMMA CountBacked ==
    ASSUME TypeOK, WorkflowInv, WriteInv, Backed, NEW t \in Threads, RestoreCount(t),
           "restore" \notin overlapped'
    PROVE  WriteInv' /\ Backed'
<1>0. /\ thread \in [Threads -> ThreadStates] /\ order \in [Orders -> OrderState]
      /\ Idle.pc = "idle"
      /\ \A pc, o, why : At(pc, o, why).pc = pc /\ At(pc, o, why).order = o
                         /\ At(pc, o, why).why = why
  BY IdleTyped DEF TypeOK, OrderState, At
<1>1. PICK o \in Orders, why \in {"cancelled", "refund", "edit"} :
        /\ thread[t] = At("restore", o, why)
        /\ \/ /\ reward[order[o].reward] = "redeemed" /\ ActiveOthers(o) = {}
              /\ Move(t, At("write", o, why), {})
              /\ overlapped' = overlapped \cup
                   IF \E u \in Threads : Restoring(u, order[o].reward)
                   THEN {"restore"} ELSE {}
           \/ /\ Move(t, Idle, {})
              /\ overlapped' = overlapped
  BY RestoreCountGoes
<1>2. order' = order /\ reward' = reward
  BY DEF RestoreCount
<1>3. \A p \in Orders, w \in Rewards : Uses(p, w)' <=> Uses(p, w)
  BY <1>2 DEF Uses
<1>4. ASSUME NEW th, Move(t, th, {})
      PROVE  thread'[t] = th /\ \A u \in Threads \ {t} : thread'[u] = thread[u]
  BY <1>0, <1>4, Moves
<1>5. CASE Move(t, Idle, {})
  <2>1. \A u \in Threads, w \in Rewards : Restoring(u, w)' => Restoring(u, w)
    BY <1>0, <1>2, <1>4, <1>5 DEF Restoring
  <2> QED BY <1>2, <1>3, <2>1, BackedKept
<1>6. CASE /\ reward[order[o].reward] = "redeemed" /\ ActiveOthers(o) = {}
           /\ Move(t, At("write", o, why), {})
           /\ overlapped' = overlapped \cup
                IF \E u \in Threads : Restoring(u, order[o].reward)
                THEN {"restore"} ELSE {}
  <2>1. \A u \in Threads : ~Restoring(u, order[o].reward)
    BY <1>6
  <2>2. /\ thread'[t] = At("write", o, why)
        /\ \A u \in Threads \ {t} : thread'[u] = thread[u]
    BY <1>4, <1>6
  <2>3. /\ \A w : Restoring(t, w)' => w = order[o].reward
        /\ \A u \in Threads \ {t}, w \in Rewards : Restoring(u, w)' => Restoring(u, w)
    BY <1>0, <1>2, <2>2 DEF Restoring
  <2>4. NobodyUses(order[o].reward)
    <3>1. \A p \in Orders \ {o} : ~Uses(p, order[o].reward)
      BY <1>6 DEF ActiveOthers, Uses
    <3>2. order[o].workflow \in {"returned", "cancelled"}
      <4>1. thread[t].pc = "restore" /\ thread[t].order = o
        BY <1>0, <1>1
      <4> QED BY <4>1 DEF WorkflowInv
    <3>3. ~Uses(o, order[o].reward)
      BY <3>2 DEF WorkflowInv, Uses
    <3> QED BY <3>1, <3>3 DEF NobodyUses
  <2>5. ASSUME NEW u \in Threads, NEW w \in Rewards, Restoring(u, w)'
        PROVE  reward'[w] = "redeemed" /\ NobodyUses(w)'
    <3>1. reward[w] = "redeemed" /\ NobodyUses(w)
      <4>1. CASE u = t
        BY <1>6, <2>3, <2>4, <2>5, <4>1
      <4>2. CASE u # t
        BY <2>3, <2>5, <4>2 DEF WriteInv
      <4> QED BY <4>1, <4>2
    <3> QED BY <1>2, <1>3, <3>1 DEF NobodyUses
  <2>6. ASSUME NEW u \in Threads, NEW v \in Threads, NEW w \in Rewards,
               Restoring(u, w)', Restoring(v, w)'
        PROVE  u = v
    BY <2>1, <2>3, <2>6 DEF WriteInv
  <2>7. WriteInv'
    BY <2>5, <2>6 DEF WriteInv
  <2>8. Backed'
    BY <1>2, <1>3 DEF Backed
  <2> QED BY <2>7, <2>8
<1> QED BY <1>1, <1>5, <1>6
LEMMA RewardStays ==
    ASSUME Next
    PROVE  \/ \E t \in Threads : Commit(t) \/ RestoreWrite(t) \/ Complete(t)
           \/ \E w \in Rewards : Expire(w)
           \/ reward' = reward
<1>1. ASSUME NEW t \in Threads,
             \/ \E c \in Checkouts, q \in 0 .. MaxUnits, w \in Rewards \cup {None} :
                  Place(t, c, q, w)
             \/ Abort(t)
             \/ \E o \in Orders :
                  \/ Cancel(t, o) \/ Refund(t, o)
                  \/ \E status \in {"live", "cancelled"} : EditStatus(t, o, status)
             \/ Release(t) \/ GiveBack(t) \/ SaveStatus(t) \/ RestoreCount(t) \/ EditSale(t)
             \/ \E total \in 1 .. MaxUnits : SaveSale(t, total)
             \/ \E i \in Referrals, coupon \in BOOLEAN : StartCompletion(t, i, coupon)
             \/ Die(t)
      PROVE  reward' = reward
  BY <1>1 DEF Place, Abort, Cancel, Refund, EditStatus, Release, GiveBack, SaveStatus,
              RestoreCount, EditSale, SaveSale, StartCompletion, Die
<1> QED BY <1>1 DEF Next

\* What one thread may do to the handlers that give back: t alone goes on.
LEMMA OthersGiveBack ==
    ASSUME TypeOK, NEW t \in Threads, NEW th, NEW docs, Move(t, th, docs)
    PROVE  /\ thread'[t] = th
           /\ \A u \in Threads \ {t} :
                  (thread[u].pc \in After \/ thread'[u].pc \in After) => thread'[u] = thread[u]
<1>1. \A u \in Threads : thread[u].pc \in After => Writes(thread[u]) = {}
  BY DEF Writes, After
<1>2. thread \in [Threads -> ThreadStates] /\ Idle.pc \notin After
  BY IdleTyped DEF TypeOK, After
<1> QED BY <1>1, <1>2, Moves

\* A handler that is to give a reward back, and does not have to look at it yet, goes on.
StillReturns(u) ==
    /\ thread[u].pc \in GivesBack /\ thread[u].why # "edit"
    /\ order[thread[u].order].reward # None
    => /\ thread'[u].pc \in GivesBack /\ thread'[u].order = thread[u].order
       /\ thread'[u].why = thread[u].why

\* Only the count of a restoration makes one that is to write.
StillWrites(u) == thread'[u].pc = "write" => thread'[u] = thread[u]

LEMMA GoingBack ==
    ASSUME TypeOK, Next
    PROVE  \/ \E t \in Threads : RestoreCount(t)
           \/ /\ \A u \in Threads : StillWrites(u)
              /\ \/ \E t \in Threads : RestoreWrite(t) \/ Die(t)
                 \/ \A u \in Threads : StillReturns(u)
<1>0. /\ thread \in [Threads -> ThreadStates] /\ order \in [Orders -> OrderState]
      /\ Idle.pc = "idle"
      /\ \A pc, o, why : /\ At(pc, o, why).pc = pc /\ At(pc, o, why).order = o
                         /\ At(pc, o, why).why = why
  BY IdleTyped DEF TypeOK, OrderState, At
<1>1. ASSUME NEW t \in Threads, NEW th, NEW docs, Move(t, th, docs), th.pc # "write"
      PROVE  \A u \in Threads : StillWrites(u)
  BY <1>1, OthersGiveBack DEF StillWrites, After
<1>2. ASSUME NEW t \in Threads, NEW th, NEW docs, Move(t, th, docs),
             thread[t].pc \notin GivesBack
      PROVE  \A u \in Threads : StillReturns(u)
  BY <1>2, OthersGiveBack DEF StillReturns, After, GivesBack
<1>3. ASSUME NEW t \in Threads, Commit(t) \/ Abort(t) \/ SaveStatus(t) \/ Complete(t)
                                \/ \E total \in 1 .. MaxUnits : SaveSale(t, total)
      PROVE  \A u \in Threads : StillWrites(u) /\ StillReturns(u)
  <2>1. thread[t].pc \notin GivesBack /\ \E docs : Move(t, Idle, docs)
    <3>1. CASE Commit(t) \/ Abort(t) \/ SaveStatus(t)
      BY <3>1 DEF Commit, Abort, SaveStatus, GivesBack
    <3>2. CASE Complete(t)
      BY <3>2 DEF Complete, GivesBack
    <3>3. CASE \E total \in 1 .. MaxUnits : SaveSale(t, total)
      BY <3>3 DEF SaveSale, GivesBack
    <3> QED BY <1>3, <3>1, <3>2, <3>3
  <2> QED BY <1>0, <1>1, <1>2, <2>1
<1>4. ASSUME NEW t \in Threads, RestoreWrite(t) \/ Die(t)
      PROVE  \A u \in Threads : StillWrites(u)
  <2>1. \E docs : Move(t, Idle, docs)
    <3>1. CASE Die(t)
      BY <3>1 DEF Die
    <3>2. CASE RestoreWrite(t)
      <4>1. \/ Move(t, Idle, {order[thread[t].order].reward}) \/ Move(t, Idle, {})
        BY <3>2 DEF RestoreWrite
      <4> QED BY <4>1
    <3> QED BY <1>4, <3>1, <3>2
  <2> QED BY <1>0, <1>1, <2>1
<1>5. ASSUME NEW t \in Threads, NEW th, Move(t, th, {}), thread[t] = Idle, th.pc # "write"
      PROVE  \A u \in Threads : StillWrites(u) /\ StillReturns(u)
  BY <1>0, <1>1, <1>2, <1>5 DEF GivesBack
<1>6. ASSUME NEW t \in Threads, NEW c \in Checkouts, NEW q \in 0 .. MaxUnits,
             NEW w \in Rewards \cup {None}, Place(t, c, q, w)
      PROVE  \A u \in Threads : StillWrites(u) /\ StillReturns(u)
  <2>1. PICK units :
          Move(t, [pc |-> "place", checkout |-> c, units |-> units, reward |-> w], {})
    BY <1>6, Priced
  <2>2. /\ [pc |-> "place", checkout |-> c, units |-> units, reward |-> w].pc # "write"
        /\ thread[t] = Idle
    BY <1>6 DEF Place
  <2> QED BY <1>5, <2>1, <2>2
<1>7. ASSUME NEW t \in Threads, EditSale(t)
      PROVE  \A u \in Threads : StillWrites(u) /\ StillReturns(u)
  <2>1. /\ [pc |-> "sale", sold |-> deal.sold].pc # "write" /\ thread[t] = Idle
        /\ Move(t, [pc |-> "sale", sold |-> deal.sold], {})
    BY <1>7 DEF EditSale
  <2> QED BY <1>5, <2>1
<1>8. ASSUME NEW t \in Threads, NEW i \in Referrals, NEW coupon \in BOOLEAN,
             StartCompletion(t, i, coupon)
      PROVE  \A u \in Threads : StillWrites(u) /\ StillReturns(u)
  <2>1. PICK n : n = Cardinality(Issued)
    OBVIOUS
  <2>2. /\ Move(t, [pc |-> "complete", referral |-> i, issued |-> n, coupon |-> coupon], {})
        /\ [pc |-> "complete", referral |-> i, issued |-> n, coupon |-> coupon].pc # "write"
        /\ thread[t] = Idle
    BY <1>8, <2>1 DEF StartCompletion
  <2> QED BY <1>5, <2>2
<1>9. ASSUME NEW t \in Threads, NEW o \in Orders,
             \/ Cancel(t, o) \/ Refund(t, o)
             \/ \E status \in {"live", "cancelled"} : EditStatus(t, o, status)
      PROVE  \A u \in Threads : StillWrites(u) /\ StillReturns(u)
  <2>1. CASE Cancel(t, o)
    <3>1. Move(t, At("release", o, "cancelled"), {}) /\ thread[t] = Idle
      BY <2>1 DEF Cancel
    <3>2. At("release", o, "cancelled").pc # "write"
      BY <1>0
    <3> QED BY <1>5, <3>1, <3>2
  <2>2. CASE Refund(t, o)
    <3>1. Move(t, Onward(At("restore", o, "refund")), {}) /\ thread[t] = Idle
      BY <2>2 DEF Refund
    <3>2. Onward(At("restore", o, "refund")).pc # "write"
      BY OnwardGoes DEF After
    <3> QED BY <1>5, <3>1, <3>2
  <2>3. ASSUME NEW status \in {"live", "cancelled"}, EditStatus(t, o, status)
        PROVE  \A u \in Threads : StillWrites(u) /\ StillReturns(u)
    <3>1. thread[t] = Idle /\ (thread' = thread \/ Move(t, At("release", o, "edit"), {}))
      BY <2>3 DEF EditStatus
    <3>2. At("release", o, "edit").pc # "write"
      BY <1>0
    <3>3. CASE thread' = thread
      BY <3>3 DEF StillWrites, StillReturns
    <3>4. CASE Move(t, At("release", o, "edit"), {})
      BY <1>5, <3>1, <3>2, <3>4
    <3> QED BY <3>1, <3>3, <3>4
  <2> QED BY <1>9, <2>1, <2>2, <2>3
<1>10. ASSUME NEW t \in Threads, NEW o \in Orders, NEW why \in {"cancelled", "refund", "edit"},
              NEW pc \in {"release", "give"}, thread[t] = At(pc, o, why), NEW docs,
              Move(t, At("give", o, why), docs) \/ Move(t, Onward(At(pc, o, why)), docs)
       PROVE  \A u \in Threads : StillWrites(u) /\ StillReturns(u)
  <2>1. At("give", o, why).pc # "write" /\ Onward(At(pc, o, why)).pc # "write"
    BY <1>0, OnwardGoes DEF After
  <2>2. \A u \in Threads : StillWrites(u)
    BY <1>1, <1>10, <2>1
  <2>3. thread[t].order = o /\ thread[t].why = why
    BY <1>0, <1>10
  <2>4. StillReturns(t)
    <3>1. SUFFICES ASSUME why # "edit", order[o].reward # None
                   PROVE  /\ thread'[t].pc \in GivesBack /\ thread'[t].order = o
                          /\ thread'[t].why = why
      BY <2>3 DEF StillReturns
    <3>2. Onward(At(pc, o, why)) = At("restore", o, why)
      BY <3>1, OnwardTyped DEF After
    <3>3. thread'[t] \in {At("give", o, why), At("restore", o, why)}
      BY <1>10, <3>2, OthersGiveBack
    <3> QED BY <1>0, <3>3 DEF GivesBack
  <2>5. \A u \in Threads \ {t} : StillReturns(u)
    BY <1>10, OthersGiveBack DEF StillReturns, After, GivesBack
  <2> QED BY <2>2, <2>4, <2>5
<1>11. ASSUME NEW t \in Threads, Release(t)
       PROVE  \A u \in Threads : StillWrites(u) /\ StillReturns(u)
  <2>1. PICK o \in Orders, why \in {"cancelled", "refund", "edit"} :
          /\ thread[t] = At("release", o, why)
          /\ Move(t, At("give", o, why), {}) \/ Move(t, Onward(At("release", o, why)), {})
    BY <1>11, ReleaseGoes
  <2> QED BY <1>10, <2>1
<1>12. ASSUME NEW t \in Threads, GiveBack(t)
       PROVE  \A u \in Threads : StillWrites(u) /\ StillReturns(u)
  <2>1. PICK o \in Orders, why \in {"cancelled", "refund", "edit"} :
          /\ thread[t] = At("give", o, why)
          /\ Move(t, Onward(At("give", o, why)), {"deal"})
    BY <1>12, GiveBackGoes
  <2> QED BY <1>10, <2>1
<1>13. ASSUME NEW w \in Rewards, Expire(w)
       PROVE  \A u \in Threads : StillWrites(u) /\ StillReturns(u)
  <2>1. \A u \in Threads : \/ thread'[u] = thread[u]
                           \/ thread'[u] = Idle /\ Writes(thread[u]) # {}
    BY <1>0, <1>13, Overtakes DEF Expire
  <2>2. \A u \in Threads : thread[u].pc \in GivesBack => Writes(thread[u]) = {}
    BY DEF Writes, GivesBack
  <2> QED BY <1>0, <2>1, <2>2 DEF StillWrites, StillReturns
<1> QED BY <1>3, <1>4, <1>6, <1>7, <1>8, <1>9, <1>11, <1>12, <1>13 DEF Next
LEMMA BackedStep ==
    ASSUME TypeOK, SnapshotsOK, OrdersOK, WorkflowInv, WriteInv, Backed, Next,
           ~Had("status")', "restore" \notin overlapped'
    PROVE  WriteInv' /\ Backed'
<1>0. /\ thread \in [Threads -> ThreadStates] /\ order \in [Orders -> OrderState]
      /\ reward \in [Rewards -> {"none", "available", "redeemed", "expired"}]
  BY DEF TypeOK, OrderState
<1>1. ASSUME NEW t \in Threads, Commit(t) PROVE WriteInv' /\ Backed'
  BY <1>1, CommitBacked
<1>2. ASSUME NEW t \in Threads, RestoreCount(t) PROVE WriteInv' /\ Backed'
  BY <1>2, CountBacked
<1>3. ASSUME NEW t \in Threads, NEW o \in Orders, Cancel(t, o) \/ Refund(t, o)
      PROVE  WriteInv' /\ Backed'
  <2>1. \A p \in Orders, w \in Rewards : Uses(p, w)' => Uses(p, w)
    <3>1. ~ (order'[o].status = "live" /\ order'[o].workflow # "returned")
      BY <1>3, Ends
    <3>2. \A p \in Orders \ {o} : order'[p] = order[p]
      BY <1>3, Ends
    <3> QED BY <3>1, <3>2 DEF Uses
  <2>2. \A u \in Threads, w \in Rewards : Restoring(u, w)' => Restoring(u, w)
    <3>1. thread'[t].pc # "write"
      <4>1. At("release", o, "cancelled").pc # "write" /\ At("restore", o, "refund").pc # "write"
            /\ Idle.pc # "write"
        BY IdleTyped DEF At
      <4> QED BY <1>3, <4>1, Ends
    <3>2. \A u \in Threads \ {t} : thread'[u] = thread[u]
      BY <1>3, Ends
    <3>3. \A p \in Orders : order'[p].reward = order[p].reward
      BY <1>3, Ends
    <3>4. \A u \in Threads : thread[u].pc = "write" => thread[u].order \in Orders
      BY <1>0, ThreadsAre DEF After
    <3> QED BY <3>1, <3>2, <3>3, <3>4 DEF Restoring
  <2>3. reward' = reward
    BY <1>3, Ends
  <2> QED BY <2>1, <2>2, <2>3, BackedKept
<1>4. ASSUME SameUses, \A u \in Threads : StillWrites(u) PROVE WriteInv' /\ Backed'
  <2>1. \A p \in Orders, w \in Rewards : Uses(p, w)' => Uses(p, w)
    BY <1>4 DEF SameUses, Uses
  <2>2. \A u \in Threads, w \in Rewards : Restoring(u, w)' => Restoring(u, w)
    <3>1. \A u \in Threads : thread[u].pc = "write" => thread[u].order \in Orders
      BY <1>0, ThreadsAre DEF After
    <3> QED BY <1>4, <3>1 DEF Restoring, SameUses, StillWrites
  <2>3. ASSUME NEW v \in Rewards, NEW x, reward' = [reward EXCEPT ![v] = x] \/ reward' = reward,
               reward[v] = "redeemed" =>
                   NobodyUses(v) /\ \A u \in Threads : ~Restoring(u, v)'
        PROVE  WriteInv' /\ Backed'
    <3>1. \A w \in Rewards \ {v} : reward'[w] = reward[w]
      BY <1>0, <2>3
    <3>2. \A w \in Rewards :
            reward[w] = "redeemed" =>
                \/ reward'[w] = "redeemed"
                \/ NobodyUses(w) /\ \A u \in Threads : ~Restoring(u, w)'
      BY <2>3, <3>1
    <3> QED BY <2>1, <2>2, <3>2, BackedKept
  <2>4. CASE reward' = reward
    BY <2>1, <2>2, <2>4, BackedKept
  <2>5. ASSUME NEW w \in Rewards, Expire(w) PROVE WriteInv' /\ Backed'
    <3>1. reward[w] = "available" /\ reward' = [reward EXCEPT ![w] = "expired"]
      BY <2>5 DEF Expire
    <3> QED BY <2>3, <3>1
  <2>6. ASSUME NEW t \in Threads, Complete(t) PROVE WriteInv' /\ Backed'
    <3>1. PICK i \in Referrals : i = thread[t].referral
      BY <1>0, <2>6, ThreadsAre DEF Complete
    <3>2. reward' = [reward EXCEPT ![i] = "available"] \/ reward' = reward
      BY <2>6, <3>1 DEF Complete
    <3>3. reward[i] = "none" /\ i \in Rewards
      BY <2>6, <3>1 DEF Complete, SnapshotsOK, OrdersOK, Rewards
    <3> QED BY <2>3, <3>2, <3>3
  <2>7. ASSUME NEW t \in Threads, RestoreWrite(t) PROVE WriteInv' /\ Backed'
    <3>1. PICK o \in Orders : o = thread[t].order
      BY <1>0, <2>7, ThreadsAre DEF RestoreWrite, After
    <3>2. PICK w : w = order[o].reward
      OBVIOUS
    <3>3. \/ reward' = reward
          \/ \E status \in {"available", "expired"} : reward' = [reward EXCEPT ![w] = status]
      BY <2>7, <3>1, <3>2 DEF RestoreWrite
    <3>4. CASE reward' = reward
      BY <2>4, <3>4
    <3>5. CASE w \notin Rewards
      <4>1. \A x : [reward EXCEPT ![w] = x] = reward
        BY <1>0, <3>5
      <4> QED BY <2>4, <3>3, <4>1
    <3>6. ASSUME w \in Rewards, NEW x, reward' = [reward EXCEPT ![w] = x]
          PROVE  WriteInv' /\ Backed'
      <4>1. Restoring(t, w)
        BY <2>7, <3>1, <3>2 DEF Restoring, RestoreWrite
      <4>2. NobodyUses(w)
        BY <3>6, <4>1 DEF WriteInv
      <4>3. thread'[t].pc # "write"
        <5>1. \/ Move(t, Idle, {order[thread[t].order].reward}) \/ Move(t, Idle, {})
          BY <2>7 DEF RestoreWrite
        <5> QED BY <5>1, OthersGiveBack, IdleTyped
      <4>4. \A u \in Threads : ~Restoring(u, w)'
        <5>1. \A u \in Threads : Restoring(u, w)' => u = t
          BY <2>2, <3>6, <4>1 DEF WriteInv
        <5> QED BY <4>3, <5>1 DEF Restoring
      <4> QED BY <2>3, <3>6, <4>2, <4>4
    <3> QED BY <3>3, <3>4, <3>5, <3>6
  <2> QED BY <1>1, <2>4, <2>5, <2>6, <2>7, RewardStays
<1> QED BY <1>1, <1>2, <1>3, <1>4, CarryOn, GoingBack

LEMMA ReturnKept ==
    ASSUME ReturnInv,
           \A w \in Rewards :
               Restorable(w, "cancelled") /\ reward'[w] = "redeemed" =>
                   /\ reward[w] = "redeemed"
                   /\ StillLive(w) \/ Returning(w) => StillLive(w)' \/ Returning(w)'
    PROVE  ReturnInv'
<1>1. \A w : Restorable(w, "cancelled")' <=> Restorable(w, "cancelled")
  BY DEF Restorable
<1> QED BY <1>1 DEF ReturnInv

LEMMA ReturnStep ==
    ASSUME TypeOK, SnapshotsOK, OrdersOK, WorkflowInv, ReturnInv, Next,
           ~Had("status")', ~Had("death")'
    PROVE  ReturnInv'
<1>0. /\ thread \in [Threads -> ThreadStates] /\ order \in [Orders -> OrderState]
      /\ reward \in [Rewards -> {"none", "available", "redeemed", "expired"}]
      /\ \A pc, o, why : /\ At(pc, o, why).pc = pc /\ At(pc, o, why).order = o
                         /\ At(pc, o, why).why = why
      /\ trouble \in Seq({"death", "status", "sale"}) /\ Len(trouble) <= MaxTroubles
      /\ \A u \in Threads : thread[u].pc \in GivesBack => thread[u].order \in Orders
      /\ None \notin Rewards
  BY ThreadsAre, RewardsAssumption DEF TypeOK, OrderState, At, After, GivesBack
<1>1. ASSUME NEW t \in Threads, Commit(t) PROVE ReturnInv'
  <2>1. PICK th \in ThreadStates : th = thread[t]
    BY <1>0
  <2>2. /\ \A o \in Orders \ Of(th.checkout) : order'[o] = order[o]
        /\ \A o \in Of(th.checkout) :
             order[o].status = "none" /\ order'[o].status = "live" /\ order'[o].reward = th.reward
        /\ <<th.checkout, "deal">> \in Of(th.checkout)
    BY <1>1, <2>1, Committed
  <2>3. \A w \in Rewards : reward'[w] = IF w = th.reward THEN "redeemed" ELSE reward[w]
    BY <1>1, <2>1 DEF Commit
  <2>4. ASSUME NEW w \in Rewards, StillLive(w) PROVE StillLive(w)'
    BY <2>2, <2>4 DEF StillLive
  <2>5. ASSUME NEW w \in Rewards, Returning(w) PROVE Returning(w)'
    <3>1. PICK u \in Threads : /\ thread[u].pc \in GivesBack /\ thread[u].why = "cancelled"
                               /\ order[thread[u].order].reward = w
      BY <2>5 DEF Returning, GivesBack
    <3>2. thread'[u] = thread[u] /\ order'[thread[u].order] = order[thread[u].order]
      BY <1>1, <3>1, CommitThreads DEF After, GivesBack
    <3> QED BY <3>1, <3>2 DEF Returning, GivesBack
  <2>6. StillLive(th.reward)'
    BY <2>2 DEF StillLive, Of
  <2>7. \A w : Restorable(w, "cancelled")' <=> Restorable(w, "cancelled")
    BY DEF Restorable
  <2>8. ASSUME NEW w \in Rewards, Restorable(w, "cancelled"), reward'[w] = "redeemed"
        PROVE  StillLive(w)' \/ Returning(w)'
    <3>1. CASE w = th.reward
      BY <2>6, <3>1
    <3>2. CASE w # th.reward
      BY <2>3, <2>4, <2>5, <2>8, <3>2 DEF ReturnInv
    <3> QED BY <3>1, <3>2
  <2> QED BY <2>7, <2>8 DEF ReturnInv
<1>2. ASSUME NEW t \in Threads, NEW o \in Orders, Cancel(t, o) \/ Refund(t, o)
      PROVE  ReturnInv'
  <2>1. /\ reward' = reward /\ thread[t] = Idle
        /\ \A u \in Threads \ {t} : thread'[u] = thread[u]
        /\ \A p \in Orders \ {o} : order'[p] = order[p]
        /\ order'[o].reward = order[o].reward
        /\ \/ thread'[t] = At("release", o, "cancelled")
           \/ order'[o].status = "live"
    BY <1>2, Ends
  <2>2. ASSUME NEW w \in Rewards, Returning(w) PROVE Returning(w)'
    <3>1. PICK u \in Threads : /\ thread[u].pc \in GivesBack /\ thread[u].why = "cancelled"
                               /\ order[thread[u].order].reward = w
      BY <2>2 DEF Returning, GivesBack
    <3>2. u # t
      BY <2>1, <3>1, IdleTyped DEF GivesBack
    <3>3. order'[thread[u].order].reward = w
      BY <1>0, <2>1, <3>1
    <3> QED BY <2>1, <3>1, <3>2, <3>3 DEF Returning, GivesBack
  <2>3. ASSUME NEW w \in Rewards, StillLive(w) PROVE StillLive(w)' \/ Returning(w)'
    <3>1. PICK p \in Orders : order[p].reward = w /\ order[p].status = "live"
      BY <2>3 DEF StillLive
    <3>2. CASE p # o \/ order'[o].status = "live"
      <4>1. order'[p].reward = w /\ order'[p].status = "live"
        BY <2>1, <3>1, <3>2
      <4> QED BY <4>1 DEF StillLive
    <3>3. CASE p = o /\ thread'[t] = At("release", o, "cancelled")
      <4>1. order'[o].reward = w
        BY <2>1, <3>1, <3>3
      <4>2. /\ thread'[t].pc = "release" /\ thread'[t].why = "cancelled"
            /\ thread'[t].order = o
        BY <1>0, <3>3
      <4> QED BY <4>1, <4>2 DEF Returning
    <3> QED BY <2>1, <3>2, <3>3
  <2> QED BY <2>1, <2>2, <2>3, ReturnKept
<1>3. ASSUME SameUses PROVE \A w : StillLive(w) => StillLive(w)'
  BY <1>3 DEF SameUses, StillLive
<1>4. ASSUME SameUses, NEW u \in Threads, NEW w \in Rewards, StillReturns(u),
             thread[u].pc \in GivesBack, thread[u].why = "cancelled",
             order[thread[u].order].reward = w
      PROVE  Returning(w)'
  <2>1. /\ thread'[u].pc \in GivesBack /\ thread'[u].order = thread[u].order
        /\ thread'[u].why = "cancelled"
    BY <1>0, <1>4 DEF StillReturns
  <2>2. order'[thread[u].order].reward = w
    BY <1>0, <1>4 DEF SameUses
  <2> QED BY <2>1, <2>2 DEF Returning, GivesBack
<1>5. ASSUME SameUses, NEW t \in Threads, RestoreCount(t) PROVE ReturnInv'
  <2>1. PICK o \in Orders, why \in {"cancelled", "refund", "edit"} :
          /\ thread[t] = At("restore", o, why)
          /\ \/ Move(t, At("write", o, why), {})
             \/ /\ ~ (/\ reward[order[o].reward] = "redeemed"
                      /\ Restorable(order[o].reward, why)
                      /\ ActiveOthers(o) = {})
                /\ Move(t, Idle, {})
    BY <1>5, RestoreCountGoes
  <2>2. reward' = reward
    BY <1>5 DEF RestoreCount
  <2>3. /\ thread[t].pc = "restore" /\ thread[t].order = o /\ thread[t].why = why
    BY <1>0, <2>1
  <2>4. \A u \in Threads \ {t} : StillReturns(u)
    BY <2>1, OthersGiveBack DEF StillReturns, After, GivesBack
  <2>5. ASSUME NEW w \in Rewards, Restorable(w, "cancelled"), reward[w] = "redeemed",
               Returning(w)
        PROVE  StillLive(w)' \/ Returning(w)'
    <3>1. PICK u \in Threads : /\ thread[u].pc \in GivesBack /\ thread[u].why = "cancelled"
                               /\ order[thread[u].order].reward = w
      BY <2>5 DEF Returning, GivesBack
    <3>2. CASE u # t
      BY <1>4, <1>5, <2>4, <3>1, <3>2
    <3>3. CASE u = t /\ Move(t, At("write", o, why), {})
      <4>1. thread'[t] = At("write", o, why)
        BY <3>3, OthersGiveBack
      <4>2. StillReturns(t)
        BY <1>0, <2>3, <4>1 DEF StillReturns, GivesBack
      <4> QED BY <1>4, <1>5, <3>1, <3>3, <4>2
    <3>4. CASE u = t /\ ActiveOthers(o) # {}
      <4>1. StillLive(w)
        BY <2>3, <3>1, <3>4 DEF ActiveOthers, StillLive
      <4> QED BY <1>3, <1>5, <4>1
    <3>5. u = t => Restorable(order[o].reward, why) /\ reward[order[o].reward] = "redeemed"
      BY <2>3, <2>5, <3>1
    <3> QED BY <2>1, <3>2, <3>3, <3>4, <3>5
  <2>6. \A w \in Rewards :
          Restorable(w, "cancelled") /\ reward'[w] = "redeemed" =>
              /\ reward[w] = "redeemed"
              /\ StillLive(w) \/ Returning(w) => StillLive(w)' \/ Returning(w)'
    BY <1>3, <1>5, <2>2, <2>5
  <2> QED BY <2>6, ReturnKept
<1>6. ASSUME SameUses, NEW t \in Threads, RestoreWrite(t) PROVE ReturnInv'
  <2>1. PICK o \in Orders : o = thread[t].order
    BY <1>0, <1>6, ThreadsAre DEF RestoreWrite, After
  <2>2. PICK v : v = order[o].reward
    OBVIOUS
  <2>3. /\ thread[t].pc = "write"
        /\ \/ reward[v] # "redeemed" /\ reward' = reward
           \/ \E status \in {"available", "expired"} : reward' = [reward EXCEPT ![v] = status]
        /\ Move(t, Idle, {v}) \/ Move(t, Idle, {})
    BY <1>6, <2>1, <2>2 DEF RestoreWrite
  <2>4. /\ \A w \in Rewards : reward'[w] = "redeemed" => reward[w] = "redeemed"
        /\ v \in Rewards => reward'[v] # "redeemed"
    BY <1>0, <2>3
  <2>5. \A u \in Threads \ {t} : StillReturns(u)
    BY <2>3, OthersGiveBack DEF StillReturns, After, GivesBack
  <2>6. ASSUME NEW w \in Rewards, reward'[w] = "redeemed", Returning(w) PROVE Returning(w)'
    <3>1. PICK u \in Threads : /\ thread[u].pc \in GivesBack /\ thread[u].why = "cancelled"
                               /\ order[thread[u].order].reward = w
      BY <2>6 DEF Returning, GivesBack
    <3>2. u # t
      BY <2>1, <2>2, <2>4, <2>6, <3>1
    <3> QED BY <1>4, <1>6, <2>5, <3>1, <3>2
  <2> QED BY <1>3, <1>6, <2>4, <2>6, ReturnKept
<1>7. ASSUME NEW t \in Threads, Die(t) PROVE FALSE
  BY <1>0, <1>7, Troubles DEF Die
<1>8. ASSUME SameUses, \A u \in Threads : StillReturns(u), ~ \E t \in Threads : RestoreWrite(t),
             ~ \E t \in Threads : Commit(t)
      PROVE  ReturnInv'
  <2>1. ASSUME NEW w \in Rewards, reward'[w] = "redeemed" PROVE reward[w] = "redeemed"
    <3>1. CASE reward' = reward
      BY <2>1, <3>1
    <3>2. ASSUME NEW v \in Rewards, Expire(v) PROVE reward[w] = "redeemed"
      BY <1>0, <2>1, <3>2 DEF Expire
    <3>3. ASSUME NEW t \in Threads, Complete(t) PROVE reward[w] = "redeemed"
      <4>1. PICK i : i = thread[t].referral
        OBVIOUS
      <4>2. reward' = [reward EXCEPT ![i] = "available"] \/ reward' = reward
        BY <3>3, <4>1 DEF Complete
      <4> QED BY <1>0, <2>1, <4>2
    <3> QED BY <1>8, <3>1, <3>2, <3>3, RewardStays
  <2>2. ASSUME NEW w \in Rewards, Returning(w) PROVE Returning(w)'
    <3>1. PICK u \in Threads : /\ thread[u].pc \in GivesBack /\ thread[u].why = "cancelled"
                               /\ order[thread[u].order].reward = w
      BY <2>2 DEF Returning, GivesBack
    <3> QED BY <1>4, <1>8, <3>1
  <2> QED BY <1>3, <1>8, <2>1, <2>2, ReturnKept
<1>9. CASE \E t \in Threads : Commit(t)
  BY <1>1, <1>9
<1>10. CASE \E t \in Threads, o \in Orders : Cancel(t, o) \/ Refund(t, o)
  BY <1>2, <1>10
<1>11. CASE SameUses /\ ~ \E t \in Threads : Commit(t)
  BY <1>5, <1>6, <1>7, <1>8, <1>11, GoingBack
<1> QED BY <1>9, <1>10, <1>11, CarryOn
LEMMA RewardStep ==
    ASSUME TypeOK, SnapshotsOK, OrdersOK, RewardInv, Next
    PROVE  RewardInv'
<1>1. SUFFICES ASSUME ~Had("status")'
               PROVE  /\ WorkflowInv'
                      /\ "restore" \notin overlapped' => WriteInv' /\ Backed'
                      /\ ~Had("death")' => ReturnInv'
  BY DEF RewardInv
<1>2. ~Had("status") /\ WorkflowInv
  BY <1>1, HistoryGrows DEF RewardInv
<1>3. ("restore" \notin overlapped' => "restore" \notin overlapped)
      /\ (~Had("death")' => ~Had("death"))
  BY HistoryGrows
<1>4. /\ "restore" \notin overlapped' => WriteInv /\ Backed
      /\ ~Had("death")' => ReturnInv
  BY <1>2, <1>3 DEF RewardInv
<1> QED BY <1>1, <1>2, <1>4, WorkflowStep, BackedStep, ReturnStep
-----------------------------------------------------------------------------
(* The invariant, and the theorems.                                        *)

LEMMA InitHolds == Init => PromotionsInv
<1>1. SUFFICES ASSUME Init PROVE PromotionsInv
  OBVIOUS
<1>0. MaxUnits \in Nat \ {0} /\ Limit \in Nat \ {0} /\ MaxReferrals \in Nat \ {0}
      /\ MaxTroubles \in Nat
  BY BoundsAssumption
<1>2. /\ \A t \in Threads : thread[t] = Idle
      /\ \A o \in Orders : order[o] = [status |-> "none", workflow |-> "open", units |-> 0,
                                       released |-> FALSE, reward |-> None]
      /\ deal = [sold |-> 0, total |-> MaxUnits] /\ overlapped = {} /\ trouble = <<>>
      /\ reward = [w \in Rewards |-> IF w \in Spins THEN "available" ELSE "none"]
      /\ referral = [i \in Referrals |-> "pending"]
  BY <1>1 DEF Init
<1>3. order \in [Orders -> OrderState]
  BY <1>0, <1>1 DEF Init, OrderState
<1>4. trouble \in Seq({"death", "status", "sale"}) /\ Len(trouble) = 0
  BY <1>2, EmptySeq
<1>5. TypeOK
  <2>1. deal \in [sold : 0 .. MaxUnits, total : 1 .. MaxUnits]
    BY <1>0, <1>2
  <2>2. thread \in [Threads -> ThreadStates]
    BY <1>1, IdleTyped DEF Init
  <2> QED BY <1>0, <1>2, <1>3, <1>4, <2>1, <2>2 DEF TypeOK, OrderState
<1>6. Idle.pc = "idle"
  BY DEF Idle
<1>7. SnapshotsOK
  BY <1>2, <1>6 DEF SnapshotsOK, PlaceOK
<1>8. OrdersOK
  <2>1. \A i \in Referrals : reward[i] = "none"
    BY <1>2, RewardsAssumption DEF Rewards
  <2> QED BY <1>2, <1>6, <2>1 DEF OrdersOK
<1>9. UnitsInv
  <2>1. \A S \in SUBSET Orders : Cardinality(Slots(order, S)) = 0
    <3>1. ASSUME NEW S \in SUBSET Orders PROVE Slots(order, S) = {}
      <4>1. \A o \in S : order[o].units = 0
        BY <1>2
      <4> QED BY <4>1 DEF Slots
    <3> QED BY <3>1, FS_EmptySet
  <2>2. Usage = 0 /\ Accounted = 0
    BY <1>3, <2>1, Counts DEF Unreleased, Counted
  <2> QED BY <1>0, <1>2, <1>6, <2>2 DEF UnitsInv, UnitsHonest
<1>10. RewardInv
  <2>1. WorkflowInv
    BY <1>2, <1>6 DEF WorkflowInv
  <2>2. WriteInv /\ Backed
    BY <1>2, <1>6 DEF WriteInv, Backed, Restoring, Uses
  <2>3. ReturnInv
    BY <1>2 DEF ReturnInv
  <2> QED BY <2>1, <2>2, <2>3 DEF RewardInv
<1>11. ReferralInv
  <2>1. Issued = {}
    BY <1>2 DEF Issued
  <2>2. Cardinality(Issued) = 0
    BY <2>1, FS_EmptySet
  <2> QED BY <1>0, <1>2, <1>6, <2>2 DEF ReferralInv, ReferralLimit
<1> QED BY <1>5, <1>7, <1>8, <1>9, <1>10, <1>11 DEF PromotionsInv

LEMMA StutterHolds ==
    ASSUME PromotionsInv, UNCHANGED vars
    PROVE  PromotionsInv'
<1>1. /\ deal' = deal /\ order' = order /\ reward' = reward /\ referral' = referral
      /\ thread' = thread /\ overlapped' = overlapped /\ trouble' = trouble
  BY DEF vars
<1>2. TypeOK' /\ OrdersOK'
  BY <1>1 DEF PromotionsInv, TypeOK, OrdersOK
<1>3. Usage' = Usage /\ Accounted' = Accounted /\ Issued' = Issued
  BY <1>1 DEF Usage, Accounted, Units, GivingBack, Issued
<1>4. \A what : Had(what)' <=> Had(what)
  BY <1>1 DEF Had
<1>5. SnapshotsOK'
  BY <1>1, <1>3 DEF PromotionsInv, SnapshotsOK, PlaceOK, Of
<1>6. UnitsInv'
  BY <1>1, <1>3, <1>4 DEF PromotionsInv, UnitsInv, UnitsHonest
<1>7. RewardInv'
  <2>1. \A o, w : Uses(o, w)' <=> Uses(o, w)
    BY <1>1 DEF Uses
  <2>2. \A t, w : Restoring(t, w)' <=> Restoring(t, w)
    BY <1>1 DEF Restoring
  <2>3. \A w : Restorable(w, "cancelled")' <=> Restorable(w, "cancelled")
    BY DEF Restorable
  <2>4. WorkflowInv => WorkflowInv'
    BY <1>1 DEF WorkflowInv
  <2>5. WriteInv => WriteInv'
    BY <1>1, <2>1, <2>2 DEF WriteInv, NobodyUses
  <2>6. Backed => Backed'
    BY <1>1, <2>1 DEF Backed
  <2>7. ReturnInv => ReturnInv'
    BY <1>1, <2>3 DEF ReturnInv, StillLive, Returning
  <2> QED BY <1>1, <1>4, <2>4, <2>5, <2>6, <2>7 DEF PromotionsInv, RewardInv
<1>8. ReferralInv'
  BY <1>1, <1>3 DEF PromotionsInv, ReferralInv, ReferralLimit
<1> QED BY <1>2, <1>5, <1>6, <1>7, <1>8 DEF PromotionsInv

\* What every step keeps, whatever the handlers do and wherever they stop.
THEOREM Invariant == Spec => []PromotionsInv
<1>1. PromotionsInv /\ [Next]_vars => PromotionsInv'
  <2>1. ASSUME PromotionsInv, Next PROVE PromotionsInv'
    BY <2>1, TypeStep, SnapshotsStep, OrdersStep, UnitsStep, RewardStep, ReferralStep
       DEF PromotionsInv
  <2> QED BY <2>1, StutterHolds
<1> QED BY <1>1, InitHolds, PTL DEF Spec

\* Every variable keeps its type, the trouble its bound.
THEOREM Types == Spec => []TypeOK
<1>1. PromotionsInv => TypeOK
  BY DEF PromotionsInv
<1> QED BY <1>1, Invariant, PTL

\* placeOrderAtomic, releaseFlashSaleForOrder: a flash sale counts the units its orders
\* hold, and a customer's checkouts hold no more than his limit.
THEOREM CountsUnits == Spec => []UnitsHonest
<1>1. PromotionsInv => UnitsHonest
  BY DEF PromotionsInv, UnitsInv
<1> QED BY <1>1, Invariant, PTL

\* redeemReward, restoreRewardForOrder: a reward that prices an order is redeemed, and
\* prices the orders of one checkout.
THEOREM BacksRewards == Spec => []RewardBacked
<1>1. PromotionsInv => RewardBacked
  BY DEF PromotionsInv, RewardInv, Backed, RewardBacked
<1> QED BY <1>1, Invariant, PTL

\* restoreRewardForOrder: the reward of a checkout that is cancelled in full comes back.
THEOREM ReturnsRewards == Spec => []RewardComesBack
<1>1. PromotionsInv => RewardComesBack
  <2>1. SUFFICES ASSUME PromotionsInv, ~Had("death"), ~Had("status"),
                        \A t \in Threads : thread[t] = Idle,
                        NEW w \in Rewards, Restorable(w, "cancelled"), reward[w] = "redeemed"
                 PROVE  StillLive(w)
    BY DEF RewardComesBack, StillLive
  <2>2. ~Returning(w)
    BY <2>1, IdleTyped DEF Returning
  <2>3. ReturnInv
    BY <2>1 DEF PromotionsInv, RewardInv
  <2> QED BY <2>1, <2>2, <2>3 DEF ReturnInv
<1> QED BY <1>1, Invariant, PTL

\* processDeliveredOrderForReferral: a referrer is rewarded maxReferralsPerUser times at
\* most, as far as the completions meet in one account, or do not overlap.
THEOREM BoundsReferrals == Spec => []ReferralLimit
<1>1. PromotionsInv => ReferralLimit
  BY DEF PromotionsInv, ReferralInv
<1> QED BY <1>1, Invariant, PTL
===============================================================================
