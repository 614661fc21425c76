--------------------------- MODULE PurchaseProofs ---------------------------
(***************************************************************************)
(* Proofs about buying: the orders of a user (SubscriptionOrder), the      *)
(* checkout dialog (SubscriptionCheckout) and topping up the wallet        *)
(* (WalletPayment).                                                        *)
(***************************************************************************)
EXTENDS SubscriptionCheckout, WalletPayment, FiniteSetTheorems, SequenceTheorems,
        WellFoundedInduction, TLAPS

-----------------------------------------------------------------------------
(* The inductive invariant of the orders. *)

\* The rows a binding locked are there, and it binds a plan.
BindingOK ==
    /\ binds \in Nat
    /\ binding \in [plan : Plans \cup {0}, rows : SUBSET Ids]
    /\ binding # NoBinding => binding.plan \in Plans

\* The status of the TopUp row of an order.
TopUpOf(s) ==
    CASE s = "none" -> "none"
      [] s \in {"pending", "paid_review"} -> "pending"
      [] s = "success" -> "success"
      [] s = "expired" -> "expired"

\* The rows of an order agree, and it names a row that is there.
OrderKept(o) ==
    /\ topup[o] = TopUpOf(order[o].status)
    /\ order[o].status # "none" => order[o].plan \in Plans
    /\ order[o].current <= Len(subs)

\* Row i is what order o was priced for.
AsPriced(o, i) ==
    /\ subs[i].by = o
    /\ subs[i].plan = order[o].plan
    /\ subs[i].version = order[o].version
    /\ subs[i].active => subs[i].end = IF order[o].current = 0 THEN order[o].at + Duration
                                       ELSE order[o].end

\* An order that succeeded granted one row as priced, in place of the one it
\* was quoted for; any other granted none.
OrderGranted(o) ==
    IF order[o].status = "success"
    THEN /\ \E i \in Ids : AsPriced(o, i) /\ GrantsOf(o) = {i}
         /\ order[o].current # 0 => ~ subs[order[o].current].active
    ELSE GrantsOf(o) = {}

\* While nothing was bound, one subscription is in force.
OneSelected == binds = 0 => binding = NoBinding /\ \A i, j \in Selected : i = j

OrdersInv ==
    /\ TypeOK
    /\ BindingOK
    /\ \A o \in Orders : OrderKept(o) /\ OrderGranted(o)
    /\ OneSelected
    /\ LimitKept

-----------------------------------------------------------------------------
(* The current subscription. *)

\* Natural numbers have a least one among them.
LEMMA LeastNatural ==
    ASSUME NEW S, S \subseteq Nat, S # {}
    PROVE  \E m \in S : \A k \in S : m <= k
<1> DEFINE R == OpToRel(<, Nat)
<1>1. PICK m \in S : \A k \in S : ~ (<<k, m>> \in R)
      BY WFMin, NatLessThanWellFounded
<1>2. \A k \in S : k < m => <<k, m>> \in R
      BY DEF OpToRel
<1>3. \A k \in S : ~ (k < m)
      BY <1>1, <1>2
<1> QED BY <1>3

\* Of some rows one ends first, the oldest among equals.
First(s, R) ==
    CHOOSE i \in R : \A j \in R : s[i].end < s[j].end \/ (s[i].end = s[j].end /\ i <= j)

\* There is such a row.
LEMMA FirstIsThere ==
    ASSUME NEW s, NEW R, R \subseteq Nat, R # {}, \A i \in R : s[i].end \in Nat
    PROVE  First(s, R) \in R
<1> DEFINE E == {s[i].end : i \in R}
<1>1. PICK e \in E : \A x \in E : e <= x
      BY LeastNatural
<1>2. \A i \in R : e <= s[i].end
      BY <1>1
<1> DEFINE Q == {i \in R : s[i].end = e}
<1>3. Q \subseteq Nat /\ Q # {}
      BY <1>1
<1>4. PICK m \in Q : \A k \in Q : m <= k
      BY <1>3, LeastNatural
<1>5. e \in Nat /\ m \in R /\ s[m].end = e
      BY <1>1, <1>4
<1>6. \A j \in R : s[m].end < s[j].end \/ (s[m].end = s[j].end /\ m <= j)
      BY <1>2, <1>4, <1>5
<1> QED BY <1>5, <1>6 DEF First

\* The fields of a row of UserSubscription.
LEMMA RowFields ==
    ASSUME TypeOK, NEW i \in Ids
    PROVE  /\ subs[i] \in SubRow /\ subs[i].plan \in Plans /\ subs[i].version \in Nat
           /\ subs[i].end \in Nat /\ subs[i].active \in BOOLEAN
           /\ subs[i].by \in Orders \cup {"balance", "admin"}
<1>1. subs[i] \in SubRow
      BY ElementOfSeq DEF TypeOK, Ids
<1> QED BY <1>1 DEF SubRow

\* The current subscription is one that is selected, if any is.
LEMMA CurrentSelected ==
    ASSUME TypeOK
    PROVE  /\ Selected \subseteq Ids
           /\ Selected = {} => Current = 0
           /\ Selected # {} => Current \in Selected /\ Current = First(subs, Selected)
<1>1. Selected \subseteq Ids
      BY DEF Selected
<1>2. Ids \subseteq Nat
      BY DEF Ids
<1>3. \A i \in Selected : subs[i].end \in Nat
      BY <1>1, RowFields
<1>4. Current = IF Selected = {} THEN 0 ELSE First(subs, Selected)
      BY DEF Current, First
<1> QED BY <1>1, <1>2, <1>3, <1>4, FirstIsThere

\* The current subscription has a number, and none has number 0.
LEMMA CurrentNumber ==
    ASSUME TypeOK
    PROVE  Current \in 0 .. Len(subs) /\ (Current = 0 <=> Selected = {})
<1>1. Len(subs) \in Nat
      BY LenProperties DEF TypeOK
<1>2. CASE Selected = {}
      BY <1>1, <1>2, CurrentSelected
<1>3. CASE Selected # {}
      BY <1>1, <1>3, CurrentSelected DEF Ids
<1> QED BY <1>2, <1>3

\* When the subscription granted in place of rows R ends.
EndOver(R) == IF R = {} THEN now + Duration ELSE subs[First(subs, R)].end

\* It is a time.
LEMMA EndOverTime ==
    ASSUME TypeOK, NEW R \in SUBSET Ids
    PROVE  EndOver(R) \in Nat
<1>1. CASE R = {}
      BY <1>1, OrderAssumptions DEF EndOver, TypeOK
<1>2. CASE R # {}
  <2>1. R \subseteq Nat
        BY DEF Ids
  <2>2. First(subs, R) \in R
        BY <1>2, <2>1, RowFields, FirstIsThere
  <2> QED BY <1>2, <2>2, RowFields DEF EndOver
<1> QED BY <1>1, <1>2

\* A row that ends now.
Ending(i) == [subs[i] EXCEPT !.active = FALSE, !.end = now]

\* It is a row as before but for the two fields.
LEMMA EndingFields ==
    ASSUME TypeOK, NEW i \in Ids
    PROVE  /\ Ending(i) \in SubRow /\ Ending(i).active = FALSE /\ Ending(i).end = now
           /\ Ending(i).plan = subs[i].plan /\ Ending(i).version = subs[i].version
           /\ Ending(i).by = subs[i].by
<1>1. subs[i] \in SubRow /\ now \in Nat
      BY RowFields DEF TypeOK
<1> QED BY <1>1 DEF Ending, SubRow

\* A grant ends the rows it replaces and adds one.
LEMMA GrantedRows ==
    ASSUME TypeOK, NEW p \in Plans, NEW v \in Nat, NEW by \in Orders \cup {"balance", "admin"},
           NEW R \in SUBSET Ids
    PROVE  /\ Granted(p, v, by, R) \in Seq(SubRow)
           /\ Len(Granted(p, v, by, R)) = Len(subs) + 1
           /\ \A i \in Ids : Granted(p, v, by, R)[i] = IF i \in R THEN Ending(i) ELSE subs[i]
           /\ Granted(p, v, by, R)[Len(subs) + 1] =
                  [plan |-> p, version |-> v, active |-> TRUE, by |-> by, end |-> EndOver(R)]
<1> DEFINE kept == [i \in Ids |-> IF i \in R THEN Ending(i) ELSE subs[i]]
           row == [plan |-> p, version |-> v, active |-> TRUE, by |-> by, end |-> EndOver(R)]
<1>1. Len(subs) \in Nat
      BY LenProperties DEF TypeOK
<1>2. \A i \in Ids : kept[i] \in SubRow
      BY RowFields, EndingFields
<1>3. kept \in Seq(SubRow) /\ Len(kept) = Len(subs)
      BY <1>1, <1>2, SeqDef DEF Ids
<1>4. row \in SubRow
      BY EndOverTime DEF SubRow
<1>5. Granted(p, v, by, R) = Append(kept, row)
      BY DEF Granted, EndOver, First, Ending
<1> HIDE DEF kept, row
<1>6. /\ Append(kept, row) \in Seq(SubRow) /\ Len(Append(kept, row)) = Len(subs) + 1
      /\ \A i \in Ids : Append(kept, row)[i] = kept[i]
      /\ Append(kept, row)[Len(subs) + 1] = row
      BY <1>1, <1>3, <1>4, AppendProperties DEF Ids
<1> QED BY <1>5, <1>6 DEF kept, row

-----------------------------------------------------------------------------
(* What a step does to the rows. *)

\* Rows stay, and can only stop being active.
RowsKept ==
    /\ Len(subs) <= Len(subs')
    /\ \A i \in Ids : /\ subs'[i].plan = subs[i].plan /\ subs'[i].version = subs[i].version
                      /\ subs'[i].by = subs[i].by
                      /\ subs'[i].active => subs[i].active /\ subs'[i].end = subs[i].end

\* A row of plan p is added in place of the rows R.
RowAdded(p, by, R) ==
    /\ RowsKept
    /\ Len(subs') = Len(subs) + 1
    /\ subs'[Len(subs')].plan = p /\ subs'[Len(subs')].by = by
    /\ \A i \in R : ~ subs'[i].active

\* A grant adds a row.
LEMMA GrantAdds ==
    ASSUME TypeOK, NEW p \in Plans, NEW v \in Nat, NEW by \in Orders \cup {"balance", "admin"},
           NEW R \in SUBSET Ids, Len(subs) < MaxSubs, subs' = Granted(p, v, by, R)
    PROVE  /\ RowAdded(p, by, R)
           /\ subs'[Len(subs')].version = v /\ subs'[Len(subs')].end = EndOver(R)
           /\ subs' \in Seq(SubRow) /\ Len(subs') <= MaxSubs
<1>1. Len(subs) \in Nat /\ MaxSubs \in Nat
      BY LenProperties, OrderAssumptions DEF TypeOK
<1>2. /\ subs' \in Seq(SubRow) /\ Len(subs') = Len(subs) + 1
      /\ \A i \in Ids : subs'[i] = IF i \in R THEN Ending(i) ELSE subs[i]
      /\ subs'[Len(subs')] = [plan |-> p, version |-> v, active |-> TRUE, by |-> by, end |-> EndOver(R)]
      BY GrantedRows
<1>3. ASSUME NEW i \in Ids
      PROVE  /\ subs'[i].plan = subs[i].plan /\ subs'[i].version = subs[i].version
             /\ subs'[i].by = subs[i].by
             /\ subs'[i].active => subs[i].active /\ subs'[i].end = subs[i].end
  <2>1. CASE i \in R
        BY <1>2, <2>1, EndingFields
  <2>2. CASE i \notin R
        BY <1>2, <2>2
  <2> QED BY <2>1, <2>2
<1>4. \A i \in R : subs'[i].active = FALSE
      BY <1>2, EndingFields
<1> QED BY <1>1, <1>2, <1>3, <1>4 DEF RowAdded, RowsKept

\* Rows nobody touches are kept.
LEMMA SameRowsKept ==
    ASSUME TypeOK, subs' = subs
    PROVE  RowsKept
<1>1. Len(subs) \in Nat
      BY LenProperties DEF TypeOK
<1> QED BY <1>1 DEF RowsKept

\* Invalidation keeps the rows, too.
LEMMA InvalidateKeeps ==
    ASSUME TypeOK, NEW i \in Ids, Invalidate(i)
    PROVE  RowsKept /\ Len(subs') = Len(subs) /\ subs' \in Seq(SubRow)
<1>1. Len(subs) \in Nat /\ DOMAIN subs = Ids /\ subs \in [Ids -> SubRow]
      BY LenProperties DEF TypeOK, Ids
<1>2. subs' = [subs EXCEPT ![i] = Ending(i)]
      BY DEF Invalidate, Ending
<1>3. /\ \A j \in Ids : subs'[j] = IF j = i THEN Ending(i) ELSE subs[j]
      /\ subs' \in Seq(SubRow) /\ Len(subs') = Len(subs)
      BY <1>1, <1>2, EndingFields, ExceptSeq DEF TypeOK, Ids
<1>4. ASSUME NEW j \in Ids
      PROVE  /\ subs'[j].plan = subs[j].plan /\ subs'[j].version = subs[j].version
             /\ subs'[j].by = subs[j].by
             /\ subs'[j].active => subs[j].active /\ subs'[j].end = subs[j].end
  <2>1. CASE j = i
        BY <1>3, <2>1, EndingFields
  <2>2. CASE j # i
        BY <1>3, <2>2
  <2> QED BY <2>1, <2>2
<1> QED BY <1>1, <1>3, <1>4 DEF RowsKept

-----------------------------------------------------------------------------
(* What it does to the orders. *)

\* An order that is left alone, and gets no row, stays as it should be.
LEMMA OrderSame ==
    ASSUME TypeOK, NEW o \in Orders, OrderKept(o), OrderGranted(o), RowsKept, Len(subs') \in Nat,
           order'[o] = order[o], topup'[o] = topup[o],
           \A i \in Ids' : i \notin Ids => subs'[i].by # o
    PROVE  OrderKept(o)' /\ OrderGranted(o)'
<1>1. Len(subs) \in Nat /\ Ids \subseteq Ids' /\ order[o].current \in Nat
      BY LenProperties DEF TypeOK, RowsKept, Ids, OrderRow
<1>2. OrderKept(o)'
      BY <1>1 DEF OrderKept, RowsKept
<1>3. GrantsOf(o)' = GrantsOf(o)
  <2>1. \A i \in Ids : subs'[i].by = subs[i].by
        BY DEF RowsKept
  <2>2. GrantsOf(o) = {i \in Ids : subs[i].by = o} /\ GrantsOf(o)' = {i \in Ids' : subs'[i].by = o}
        BY DEF GrantsOf
  <2> QED BY <1>1, <2>1, <2>2
<1>4. CASE order[o].status # "success"
      BY <1>2, <1>3, <1>4 DEF OrderGranted
<1>5. CASE order[o].status = "success"
  <2>1. PICK i \in Ids : AsPriced(o, i) /\ GrantsOf(o) = {i}
        BY <1>5 DEF OrderGranted
  <2>2. AsPriced(o, i)'
    <3>1. /\ subs'[i].plan = subs[i].plan /\ subs'[i].version = subs[i].version
          /\ subs'[i].by = subs[i].by
          /\ subs'[i].active => subs[i].active /\ subs'[i].end = subs[i].end
          BY DEF RowsKept
    <3> QED BY <2>1, <3>1 DEF AsPriced
  <2>3. order[o].current # 0 => order[o].current \in Ids /\ ~ subs[order[o].current].active
        BY <1>1, <1>5 DEF OrderGranted, OrderKept, Ids
  <2>4. order'[o].current # 0 => ~ subs'[order'[o].current].active
        BY <2>3 DEF RowsKept
  <2> QED BY <1>1, <1>2, <1>3, <1>5, <2>1, <2>2, <2>4 DEF OrderGranted
<1> QED BY <1>4, <1>5

\* A step that only changes the fields of an order that grants nothing.
LEMMA OrderMoved ==
    ASSUME TypeOK, NEW o \in Orders, OrderGranted(o), subs' = subs,
           order[o].status # "success", order'[o].status # "success"
    PROVE  OrderGranted(o)'
<1>1. GrantsOf(o)' = GrantsOf(o)
      BY DEF GrantsOf, Ids
<1> QED BY <1>1 DEF OrderGranted

-----------------------------------------------------------------------------
(* What it does to the counts. *)

\* The purchases of a plan are rows that can be counted.
LEMMA PurchasesFinite ==
    ASSUME TypeOK, NEW p
    PROVE  IsFiniteSet({i \in Ids : subs[i].plan = p}) /\ Purchases(p) \in Nat
<1>1. Len(subs) \in Nat
      BY LenProperties DEF TypeOK
<1>2. IsFiniteSet(Ids)
      BY <1>1, FS_Interval DEF Ids
<1>3. IsFiniteSet({i \in Ids : subs[i].plan = p})
      BY <1>2, FS_Subset
<1> QED BY <1>3, FS_CardinalityType DEF Purchases

\* A row more of the plan is one purchase more.
LEMMA PurchasesAdded ==
    ASSUME TypeOK, NEW p, NEW by, NEW R, NEW q, RowAdded(p, by, R)
    PROVE  Purchases(q)' = IF q = p THEN Purchases(q) + 1 ELSE Purchases(q)
<1> DEFINE S == {i \in Ids : subs[i].plan = q}
<1>1. Len(subs) \in Nat
      BY LenProperties DEF TypeOK
<1>2. Ids' = Ids \cup {Len(subs) + 1} /\ Len(subs) + 1 \notin Ids
      BY <1>1 DEF Ids, RowAdded
<1>3. {i \in Ids' : subs'[i].plan = q} = IF q = p THEN S \cup {Len(subs) + 1} ELSE S
      BY <1>2 DEF RowAdded, RowsKept
<1>4. IsFiniteSet(S) /\ Len(subs) + 1 \notin S
      BY <1>2, PurchasesFinite
<1> QED BY <1>3, <1>4, FS_AddElement DEF Purchases

\* With no row added there are as many.
LEMMA PurchasesSame ==
    ASSUME RowsKept, Len(subs') = Len(subs), NEW q
    PROVE  Purchases(q)' = Purchases(q)
<1>1. {i \in Ids' : subs'[i].plan = q} = {i \in Ids : subs[i].plan = q}
      BY DEF RowsKept, Ids
<1> QED BY <1>1 DEF Purchases

\* What is in force after a step was so before, or is new.
LEMMA SelectedAfter ==
    ASSUME TypeOK, RowsKept, now' >= now, now' \in Nat, Len(subs') \in Nat, subs' \in Seq(SubRow)
    PROVE  Selected' \cap Ids \subseteq Selected
<1> SUFFICES ASSUME NEW i \in Ids, i \in Selected' PROVE i \in Selected
    OBVIOUS
<1>1. subs'[i].active /\ subs'[i].end > now'
      BY DEF Selected
<1>2. subs[i].active /\ subs'[i].end = subs[i].end
      BY <1>1 DEF RowsKept
<1>3. subs[i].end \in Nat /\ now \in Nat
      BY RowFields DEF TypeOK
<1> QED BY <1>1, <1>2, <1>3 DEF Selected

-----------------------------------------------------------------------------
(* Every step keeps the invariant. *)

\* A step that adds no row and leaves a binding alone, or makes one.
LEMMA NoRowStep ==
    ASSUME OrdersInv, TypeOK', BindingOK', RowsKept, Len(subs') = Len(subs), now' >= now,
           binds' = 0 => binds = 0 /\ binding' = binding,
           \A o \in Orders : OrderKept(o)' /\ OrderGranted(o)'
    PROVE  OrdersInv'
<1>1. Len(subs) \in Nat /\ Ids' = Ids
      BY LenProperties DEF OrdersInv, TypeOK, Ids
<1>2. Selected' \subseteq Ids
      BY <1>1 DEF Selected
<1>3. Selected' \cap Ids \subseteq Selected
      BY <1>1, SelectedAfter DEF OrdersInv, TypeOK
<1>4. OneSelected'
  <2>1. SUFFICES ASSUME binds' = 0 PROVE binding' = NoBinding /\ \A i, j \in Selected' : i = j
        BY DEF OneSelected
  <2>2. binding = NoBinding /\ \A i, j \in Selected : i = j
        BY <2>1 DEF OrdersInv, OneSelected
  <2> QED BY <1>2, <1>3, <2>1, <2>2
<1>5. \A p : Purchases(p)' = Purchases(p)
      BY PurchasesSame
<1>6. LimitKept'
      BY <1>5 DEF OrdersInv, LimitKept
<1> QED BY <1>4, <1>6 DEF OrdersInv

\* A purchase within the limit replaces all that is in force.
LEMMA PurchaseStep ==
    ASSUME OrdersInv, TypeOK', BindingOK', NEW p \in Plans, NEW by, RowAdded(p, by, Selected),
           UnderLimit(p), now' = now, binds' = binds, binding' = binding,
           \A o \in Orders : OrderKept(o)' /\ OrderGranted(o)'
    PROVE  OrdersInv'
<1>1. Len(subs) \in Nat /\ Ids' = Ids \cup {Len(subs) + 1} /\ Len(subs') \in Nat
      BY LenProperties DEF OrdersInv, TypeOK, Ids, RowAdded
<1>2. Selected' \subseteq Ids \cup {Len(subs) + 1}
      BY <1>1 DEF Selected
<1>3. Selected' \cap Ids \subseteq Selected
      BY <1>1, SelectedAfter DEF OrdersInv, TypeOK, RowAdded
<1>4. Selected' \cap Selected = {}
      BY DEF RowAdded, Selected
<1>5. \A i, j \in Selected' : i = j
      BY <1>2, <1>3, <1>4
<1>6. OneSelected'
      BY <1>5 DEF OrdersInv, OneSelected
<1>7. ASSUME NEW q \in Plans, Limit[q] > 0, binds' = 0 PROVE Purchases(q)' <= Limit[q]
  <2>1. Purchases(q) <= Limit[q] /\ Purchases(q) \in Nat /\ Limit[q] \in Nat
        BY <1>7, PurchasesFinite, OrderAssumptions DEF OrdersInv, LimitKept
  <2>2. Purchases(q)' = IF q = p THEN Purchases(q) + 1 ELSE Purchases(q)
        BY PurchasesAdded DEF OrdersInv
  <2>3. q = p => Purchases(q) < Limit[q]
        BY <1>7 DEF UnderLimit
  <2> QED BY <2>1, <2>2, <2>3
<1>8. LimitKept'
      BY <1>7 DEF LimitKept
<1> QED BY <1>6, <1>8 DEF OrdersInv

\* A step that leaves rows and orders alone.
LEMMA QuietOrders ==
    ASSUME OrdersInv, subs' = subs, order' = order, topup' = topup
    PROVE  RowsKept /\ Len(subs') = Len(subs) /\ \A o \in Orders : OrderKept(o)' /\ OrderGranted(o)'
<1>1. RowsKept /\ Len(subs') \in Nat /\ Ids' = Ids
      BY SameRowsKept, LenProperties DEF OrdersInv, TypeOK, Ids
<1>2. ASSUME NEW o \in Orders PROVE OrderKept(o)' /\ OrderGranted(o)'
      BY <1>1, OrderSame DEF OrdersInv
<1> QED BY <1>1, <1>2

\* The bounds are numbers.
LEMMA BoundsNat ==
    /\ Duration \in Nat /\ MaxTime \in Nat /\ MaxSubs \in Nat /\ MaxEdits \in Nat
    /\ MaxRequests \in Nat /\ MaxBinds \in Nat /\ MaxGranted \in Nat /\ MaxNonce \in Nat
    /\ Duration > 0 /\ Plans \subseteq Nat /\ 0 \notin Plans /\ Limit \in [Plans -> Nat]
BY OrderAssumptions

\* An order that is made, and its TopUp row.
LEMMA CreateOrderInv ==
    ASSUME OrdersInv, NEW o \in Orders, NEW p \in Plans, CreateOrder(o, p)
    PROVE  OrdersInv'
<1>1. TypeOK /\ BindingOK /\ OrderKept(o) /\ OrderGranted(o)
      BY DEF OrdersInv
<1>2. Len(subs) \in Nat /\ Current \in 0 .. Len(subs) /\ version[p] \in Nat /\ nonce \in Nat
      BY <1>1, LenProperties, CurrentNumber, BoundsNat DEF TypeOK
<1>3. (IF Current = 0 THEN 0 ELSE subs[Current].end) \in Nat
      BY <1>1, <1>2, RowFields DEF Ids
<1> DEFINE row == [status |-> "pending", plan |-> p, version |-> version[p], current |-> Current,
                   end |-> IF Current = 0 THEN 0 ELSE subs[Current].end, nonce |-> nonce, at |-> 0]
<1>4. row \in OrderRow
      BY <1>2, <1>3 DEF OrderRow, Statuses
<1>5. order' = [order EXCEPT ![o] = row] /\ topup' = [topup EXCEPT ![o] = "pending"] /\ order[o].status = "none"
      BY DEF CreateOrder
<1>6. row.status = "pending" /\ row.plan = p /\ row.current = Current
      OBVIOUS
<1> HIDE DEF row
<1>7. subs' = subs /\ now' = now /\ binds' = binds /\ binding' = binding /\ Ids' = Ids
      BY DEF CreateOrder, world, Ids
<1>8. TypeOK'
  <2>1. order' \in [Orders -> OrderRow] /\ topup' \in [Orders -> {"none", "pending", "success", "expired"}]
        BY <1>1, <1>4, <1>5 DEF TypeOK
  <2>2. requests' \in [Orders -> 0 .. MaxRequests]
        BY <1>1, BoundsNat, SMTT(30) DEF TypeOK, CreateOrder
  <2> QED BY <1>1, <1>7, <2>1, <2>2 DEF TypeOK, CreateOrder, world
<1>9. BindingOK'
      BY <1>1, <1>7 DEF BindingOK, NoBinding
<1>10. RowsKept /\ Len(subs') = Len(subs) /\ Len(subs') \in Nat /\ now' >= now
      BY <1>1, <1>2, <1>7, SameRowsKept DEF TypeOK
<1>11. order'[o] = row /\ topup'[o] = "pending"
      BY <1>1, <1>5 DEF TypeOK
<1>12. ASSUME NEW x \in Orders PROVE OrderKept(x)' /\ OrderGranted(x)'
  <2>1. CASE x = o
    <3>1. OrderKept(o)'
          BY <1>2, <1>6, <1>7, <1>11 DEF OrderKept, TopUpOf
    <3>2. OrderGranted(o)'
          BY <1>1, <1>5, <1>6, <1>7, <1>11, OrderMoved
    <3> QED BY <2>1, <3>1, <3>2
  <2>2. CASE x # o
    <3>1. order'[x] = order[x] /\ topup'[x] = topup[x]
          BY <1>1, <1>5, <2>2 DEF TypeOK
    <3> QED BY <1>7, <1>10, <3>1, OrderSame DEF OrdersInv
  <2> QED BY <2>1, <2>2
<1> QED BY <1>7, <1>8, <1>9, <1>10, <1>12, NoRowStep

\* Steps that only change the plans, the account, the clock, the gateway or the
\* requests under way.
LEMMA QuietInv ==
    ASSUME OrdersInv, TypeOK', UNCHANGED <<subs, order, topup, binding, binds>>, now' >= now
    PROVE  OrdersInv'
<1>1. RowsKept /\ Len(subs') = Len(subs) /\ \A o \in Orders : OrderKept(o)' /\ OrderGranted(o)'
      BY QuietOrders
<1>2. BindingOK'
      BY DEF OrdersInv, BindingOK, Ids, NoBinding
<1> QED BY <1>1, <1>2, NoRowStep

\* Requests, payments and the world outside.
LEMMA QuietStepsInv ==
    ASSUME OrdersInv,
           \/ \E o \in Orders : RepeatOrder(o) \/ OpenGateway(o) \/ Pay(o)
           \/ \E p \in Plans : EditPlan(p)
           \/ ReplaceAccount
           \/ Tick
    PROVE  OrdersInv'
<1>1. TypeOK
      BY DEF OrdersInv
<1>2. now \in Nat /\ nonce \in Nat /\ subs \in Seq(SubRow)
      BY <1>1, BoundsNat DEF TypeOK
<1>3. ASSUME NEW o \in Orders, RepeatOrder(o) PROVE OrdersInv'
  <2>1. requests' \in [Orders -> 0 .. MaxRequests]
        BY <1>1, <1>3, BoundsNat DEF TypeOK, RepeatOrder
  <2>2. UNCHANGED <<now, version, enabled, nonce, subs, order, topup, gateway, binding, binds>>
        BY <1>3 DEF RepeatOrder, world, books
  <2> QED BY <1>1, <1>2, <2>1, <2>2, QuietInv DEF TypeOK, Ids
<1>4. ASSUME NEW o \in Orders, OpenGateway(o) PROVE OrdersInv'
  <2>1. requests' \in [Orders -> 0 .. MaxRequests]
        BY <1>1, <1>4, BoundsNat DEF TypeOK, OpenGateway
  <2>2. gateway' \in [Orders -> {"none", "open", "paid"}]
        BY <1>1, <1>4 DEF TypeOK, OpenGateway
  <2>3. UNCHANGED <<now, version, enabled, nonce, subs, order, topup, binding, binds>>
        BY <1>4 DEF OpenGateway, world, books
  <2> QED BY <1>1, <1>2, <2>1, <2>2, <2>3, QuietInv DEF TypeOK, Ids
<1>5. ASSUME NEW o \in Orders, Pay(o) PROVE OrdersInv'
  <2>1. gateway' \in [Orders -> {"none", "open", "paid"}]
        BY <1>1, <1>5 DEF TypeOK, Pay
  <2>2. UNCHANGED <<now, version, enabled, nonce, subs, order, topup, requests, binding, binds>>
        BY <1>5 DEF Pay, world, books
  <2> QED BY <1>1, <1>2, <2>1, <2>2, QuietInv DEF TypeOK, Ids
<1>6. ASSUME NEW p \in Plans, EditPlan(p) PROVE OrdersInv'
  <2>1. version' \in [Plans -> 0 .. MaxEdits] /\ enabled' \subseteq Plans
    <3>1. version[p] \in 0 .. MaxEdits /\ version[p] + 1 \in 0 .. MaxEdits
          BY <1>1, <1>6, BoundsNat DEF TypeOK, EditPlan
    <3>2. version' = [version EXCEPT ![p] = version[p] + 1]
          BY <1>6 DEF EditPlan
    <3> QED BY <1>1, <1>6, <3>1, <3>2 DEF TypeOK, EditPlan
  <2>2. UNCHANGED <<now, nonce, subs, order, topup, gateway, requests, binding, binds>>
        BY <1>6 DEF EditPlan, books
  <2> QED BY <1>1, <1>2, <2>1, <2>2, QuietInv DEF TypeOK, Ids
<1>7. CASE ReplaceAccount
  <2>1. nonce' \in 0 .. MaxNonce
        BY <1>1, <1>7, BoundsNat DEF TypeOK, ReplaceAccount
  <2>2. UNCHANGED <<now, version, enabled, subs, order, topup, gateway, requests, binding, binds>>
        BY <1>7 DEF ReplaceAccount, books
  <2> QED BY <1>1, <1>2, <2>1, <2>2, QuietInv DEF TypeOK, Ids
<1>8. CASE Tick
  <2>1. now' \in 0 .. MaxTime /\ now' >= now
        BY <1>1, <1>8, BoundsNat DEF TypeOK, Tick
  <2>2. UNCHANGED <<version, enabled, nonce, subs, order, topup, gateway, requests, binding, binds>>
        BY <1>8 DEF Tick, books
  <2> QED BY <1>1, <1>2, <2>1, <2>2, QuietInv DEF TypeOK, Ids
<1> QED BY <1>3, <1>4, <1>5, <1>6, <1>7, <1>8

\* An order that is moved to another status without a grant: given up, or set
\* aside for an administrator.
LEMMA OrderMovedInv ==
    ASSUME OrdersInv, NEW o \in Orders, NEW row \in OrderRow, NEW t,
           order[o].status = "pending", row.status \in {"expired", "paid_review"},
           row.plan = order[o].plan, row.current = order[o].current,
           order' = [order EXCEPT ![o] = row], topup' = [topup EXCEPT ![o] = t],
           t = TopUpOf(row.status), requests' \in [Orders -> 0 .. MaxRequests],
           UNCHANGED <<now, version, enabled, nonce, subs, gateway, binding, binds>>
    PROVE  OrdersInv'
<1>1. TypeOK /\ BindingOK /\ OrderKept(o) /\ OrderGranted(o)
      BY DEF OrdersInv
<1>2. order'[o] = row /\ topup'[o] = t
      BY <1>1 DEF TypeOK
<1>3. t \in {"none", "pending", "success", "expired"}
      BY DEF TopUpOf
<1>4. order' \in [Orders -> OrderRow] /\ topup' \in [Orders -> {"none", "pending", "success", "expired"}]
      BY <1>1, <1>3 DEF TypeOK
<1>5. TypeOK'
      BY <1>1, <1>4 DEF TypeOK, Ids
<1>6. BindingOK'
      BY <1>1 DEF BindingOK, Ids, NoBinding
<1>7. RowsKept /\ Len(subs') = Len(subs) /\ Len(subs') \in Nat /\ now' >= now /\ Ids' = Ids
      BY <1>1, SameRowsKept, LenProperties, BoundsNat DEF TypeOK, Ids
<1>8. ASSUME NEW x \in Orders PROVE OrderKept(x)' /\ OrderGranted(x)'
  <2>1. CASE x = o
    <3>1. OrderKept(o)'
          BY <1>1, <1>2 DEF OrderKept
    <3>2. OrderGranted(o)'
          BY <1>1, <1>2, OrderMoved
    <3> QED BY <2>1, <3>1, <3>2
  <2>2. CASE x # o
    <3>1. order'[x] = order[x] /\ topup'[x] = topup[x]
          BY <1>1, <2>2 DEF TypeOK
    <3> QED BY <1>7, <3>1, OrderSame DEF OrdersInv
  <2> QED BY <2>1, <2>2
<1> QED BY <1>5, <1>6, <1>7, <1>8, NoRowStep

\* A request that failed gives the order up, unless it was settled.
LEMMA ExpireOrderInv ==
    ASSUME OrdersInv, NEW o \in Orders, ExpireOrder(o)
    PROVE  OrdersInv'
<1>1. TypeOK /\ OrderKept(o) /\ order[o] \in OrderRow
      BY DEF OrdersInv, TypeOK
<1>2. requests' \in [Orders -> 0 .. MaxRequests]
  <2>1. requests[o] - 1 \in 0 .. MaxRequests
        BY <1>1, BoundsNat, SMTT(30) DEF TypeOK, ExpireOrder
  <2>2. requests' = [requests EXCEPT ![o] = requests[o] - 1]
        BY DEF ExpireOrder
  <2> QED BY <1>1, <2>1, <2>2 DEF TypeOK
<1>3. UNCHANGED <<now, version, enabled, nonce, subs, gateway, binding, binds>>
      BY DEF ExpireOrder, world
<1>4. CASE order[o].status = "pending"
  <2> DEFINE row == [order[o] EXCEPT !.status = "expired"]
  <2>1. /\ row \in OrderRow /\ row.status = "expired" /\ row.plan = order[o].plan
        /\ row.current = order[o].current
        BY <1>1 DEF OrderRow, Statuses
  <2>2. topup[o] = "pending"
        BY <1>1, <1>4 DEF OrderKept, TopUpOf
  <2>3. order' = [order EXCEPT ![o] = row] /\ topup' = [topup EXCEPT ![o] = "expired"]
        BY <1>4, <2>2 DEF ExpireOrder
  <2>4. "expired" = TopUpOf(row.status)
        BY <2>1 DEF TopUpOf
  <2> HIDE DEF row
  <2> QED BY <1>2, <1>3, <1>4, <2>1, <2>3, <2>4, OrderMovedInv
<1>5. CASE order[o].status # "pending"
  <2>1. UNCHANGED <<order, topup>>
        BY <1>5 DEF ExpireOrder, books
  <2>2. now \in Nat
        BY <1>1, BoundsNat DEF TypeOK
  <2> QED BY <1>1, <1>2, <1>3, <2>1, <2>2, QuietInv DEF TypeOK, Ids
<1> QED BY <1>4, <1>5

\* An order whose price no longer holds is set aside.
LEMMA ReviewInv ==
    ASSUME OrdersInv, NEW o \in Orders, CompleteOrder(o), Review(o)
    PROVE  OrdersInv'
<1>1. TypeOK /\ OrderKept(o) /\ order[o] \in OrderRow /\ now \in Nat
      BY BoundsNat DEF OrdersInv, TypeOK
<1>2. order[o].status = "pending"
      BY DEF CompleteOrder, Settles
<1>3. UNCHANGED <<now, version, enabled, nonce, subs, gateway, binding, binds, requests>>
      BY DEF CompleteOrder, Review, world
<1> DEFINE row == [order[o] EXCEPT !.status = "paid_review", !.at = now]
<1>4. /\ row \in OrderRow /\ row.status = "paid_review" /\ row.plan = order[o].plan
      /\ row.current = order[o].current
      BY <1>1 DEF OrderRow, Statuses
<1>5. topup[o] = "pending" /\ "pending" = TopUpOf("paid_review")
      BY <1>1, <1>2 DEF OrderKept, TopUpOf
<1>6. order' = [order EXCEPT ![o] = row]
      BY DEF Review
<1>7. topup' = [topup EXCEPT ![o] = "pending"]
      BY <1>1, <1>5 DEF Review, TypeOK
<1>8. requests' \in [Orders -> 0 .. MaxRequests]
      BY <1>1, <1>3 DEF TypeOK
<1> HIDE DEF row
<1> QED BY <1>2, <1>3, <1>4, <1>5, <1>6, <1>7, <1>8, OrderMovedInv

\* A payment that settles an order grants the plan as it was priced.
LEMMA GrantInv ==
    ASSUME OrdersInv, NEW o \in Orders, CompleteOrder(o), Grant(o)
    PROVE  OrdersInv'
<1>1. TypeOK /\ BindingOK /\ OrderKept(o) /\ OrderGranted(o) /\ order[o] \in OrderRow
      BY DEF OrdersInv, TypeOK
<1>2. order[o].status = "pending" /\ order[o].plan \in Plans /\ order[o].version \in Nat
      BY <1>1 DEF CompleteOrder, Settles, OrderKept, OrderRow
<1>3. UNCHANGED <<now, version, enabled, nonce, gateway, binding, binds, requests>>
      BY DEF CompleteOrder, world
<1>4. now \in Nat /\ Len(subs) \in Nat /\ order[o].current = Current /\ Selected \in SUBSET Ids
  <2>1. now \in Nat /\ Len(subs) \in Nat
        BY <1>1, BoundsNat, LenProperties DEF TypeOK
  <2>2. order[o].current = Current
        BY DEF Grant, Stale
  <2> QED BY <1>1, <2>1, <2>2, CurrentSelected
<1>5. subs' = Granted(order[o].plan, order[o].version, o, Selected) /\ Len(subs) < MaxSubs
      BY DEF Grant, PaidVersion
<1>6. /\ RowAdded(order[o].plan, o, Selected)
      /\ subs'[Len(subs')].version = order[o].version /\ subs'[Len(subs')].end = EndOver(Selected)
      /\ subs' \in Seq(SubRow) /\ Len(subs') <= MaxSubs
      BY <1>1, <1>2, <1>4, <1>5, GrantAdds
<1> DEFINE row == [order[o] EXCEPT !.status = "success", !.at = now]
<1>7. /\ row \in OrderRow /\ row.status = "success" /\ row.plan = order[o].plan /\ row.at = now
      /\ row.current = order[o].current /\ row.version = order[o].version /\ row.end = order[o].end
      BY <1>1, <1>4 DEF OrderRow, Statuses
<1>8. order' = [order EXCEPT ![o] = row] /\ topup' = [topup EXCEPT ![o] = "success"]
      BY DEF Grant
<1> HIDE DEF row
<1>9. order'[o] = row /\ topup'[o] = "success"
      BY <1>1, <1>8 DEF TypeOK
<1>10. Len(subs') = Len(subs) + 1 /\ Ids' = Ids \cup {Len(subs')} /\ Len(subs') \notin Ids
      BY <1>4, <1>6 DEF RowAdded, Ids
<1>11. PICK n : n = Len(subs')
      OBVIOUS
<1>12. TypeOK'
  <2>1. order' \in [Orders -> OrderRow] /\ topup' \in [Orders -> {"none", "pending", "success", "expired"}]
        BY <1>1, <1>7, <1>8 DEF TypeOK
  <2> QED BY <1>1, <1>3, <1>6, <1>10, <2>1 DEF TypeOK
<1>13. BindingOK'
      BY <1>1, <1>3, <1>10 DEF BindingOK, NoBinding
<1>14. OrderKept(o)'
  <2>1. row.current <= Len(subs')
        BY <1>1, <1>4, <1>7, <1>10, CurrentNumber
  <2> QED BY <1>2, <1>7, <1>9, <2>1 DEF OrderKept, TopUpOf
<1>15. AsPriced(o, n)'
  <2>1. CASE Selected = {}
    <3>1. order[o].current = 0 /\ EndOver(Selected) = now + Duration
          BY <1>1, <1>4, <2>1, CurrentSelected DEF EndOver
    <3> QED BY <1>3, <1>6, <1>7, <1>9, <1>11, <3>1 DEF AsPriced, RowAdded
  <2>2. CASE Selected # {}
    <3>1. Current # 0 /\ Current = First(subs, Selected)
          BY <1>1, <2>2, CurrentSelected, CurrentNumber
    <3>2. EndOver(Selected) = order[o].end
          BY <2>2, <3>1 DEF EndOver, Grant, Stale
    <3> QED BY <1>4, <1>6, <1>7, <1>9, <1>11, <3>1, <3>2 DEF AsPriced, RowAdded
  <2> QED BY <2>1, <2>2
<1>16. GrantsOf(o)' = {n}
  <2>1. \A i \in Ids : subs[i].by # o
        BY <1>1, <1>2 DEF OrderGranted, GrantsOf
  <2>2. subs'[Len(subs')].by = o /\ \A i \in Ids : subs'[i].by = subs[i].by
        BY <1>6 DEF RowAdded, RowsKept
  <2> QED BY <1>10, <1>11, <2>1, <2>2 DEF GrantsOf
<1>17. row.current # 0 => ~ subs'[row.current].active
  <2>1. Current # 0 => Current \in Selected
        BY <1>1, CurrentSelected
  <2> QED BY <1>4, <1>6, <1>7, <2>1 DEF RowAdded
<1>18. OrderGranted(o)'
      BY <1>7, <1>9, <1>10, <1>11, <1>15, <1>16, <1>17 DEF OrderGranted
<1>19. ASSUME NEW x \in Orders PROVE OrderKept(x)' /\ OrderGranted(x)'
  <2>1. CASE x = o
        BY <1>14, <1>18, <2>1
  <2>2. CASE x # o
    <3>1. order'[x] = order[x] /\ topup'[x] = topup[x]
          BY <1>1, <1>8, <2>2 DEF TypeOK
    <3>2. \A i \in Ids' : i \notin Ids => subs'[i].by # x
          BY <1>6, <1>10, <2>2 DEF RowAdded
    <3>3. RowsKept /\ Len(subs') \in Nat
          BY <1>4, <1>6, <1>10 DEF RowAdded
    <3> QED BY <3>1, <3>2, <3>3, OrderSame DEF OrdersInv
  <2> QED BY <2>1, <2>2
<1>20. UnderLimit(order[o].plan)
      BY DEF Grant
<1> QED BY <1>2, <1>3, <1>6, <1>12, <1>13, <1>19, <1>20, PurchaseStep

\* A row that no order granted leaves the orders as they are.
LEMMA OtherGrant ==
    ASSUME OrdersInv, NEW p \in Plans, NEW v \in Nat, NEW by \in {"balance", "admin"},
           NEW R \in SUBSET Ids, Len(subs) < MaxSubs, subs' = Granted(p, v, by, R),
           UNCHANGED <<now, version, enabled, nonce, order, topup, gateway, requests>>,
           BindingOK'
    PROVE  /\ TypeOK' /\ RowAdded(p, by, R)
           /\ \A o \in Orders : OrderKept(o)' /\ OrderGranted(o)'
<1>1. TypeOK /\ Len(subs) \in Nat
      BY LenProperties DEF OrdersInv, TypeOK
<1>2. RowAdded(p, by, R) /\ subs' \in Seq(SubRow) /\ Len(subs') <= MaxSubs
      BY <1>1, GrantAdds
<1>3. RowsKept /\ Len(subs') = Len(subs) + 1 /\ Ids' = Ids \cup {Len(subs')} /\ Len(subs') \in Nat
      BY <1>1, <1>2 DEF RowAdded, Ids
<1>4. TypeOK'
  <2>1. binding'.plan \in Plans \cup {0} /\ binding'.rows \subseteq Ids'
        BY DEF BindingOK
  <2> QED BY <1>1, <1>2, <2>1 DEF TypeOK
<1>5. ASSUME NEW x \in Orders PROVE OrderKept(x)' /\ OrderGranted(x)'
  <2>1. \A i \in Ids' : i \notin Ids => subs'[i].by # x
        BY <1>2, <1>3, TradeNumbersDistinct DEF RowAdded
  <2> QED BY <1>3, <2>1, OrderSame DEF OrdersInv
<1> QED BY <1>2, <1>4, <1>5

\* A purchase from the wallet.
LEMMA PurchaseWithBalanceInv ==
    ASSUME OrdersInv, NEW p \in Plans, PurchaseWithBalance(p)
    PROVE  OrdersInv'
<1>1. TypeOK /\ BindingOK
      BY DEF OrdersInv
<1>2. UNCHANGED <<now, version, enabled, nonce, order, topup, gateway, requests, binding, binds>>
      BY DEF PurchaseWithBalance, world, books
<1>3. subs' = Granted(p, version[p], "balance", Selected) /\ Len(subs) < MaxSubs /\ UnderLimit(p)
      BY DEF PurchaseWithBalance
<1>4. version[p] \in Nat /\ Selected \in SUBSET Ids /\ Len(subs) \in Nat
  <2>1. version[p] \in Nat /\ Len(subs) \in Nat
        BY <1>1, BoundsNat, LenProperties DEF TypeOK
  <2> QED BY <1>1, <2>1, CurrentSelected
<1>5. RowAdded(p, "balance", Selected)
      BY <1>1, <1>3, <1>4, GrantAdds
<1>6. BindingOK'
  <2>1. Ids \subseteq Ids'
        BY <1>4, <1>5 DEF Ids, RowAdded
  <2> QED BY <1>1, <1>2, <2>1 DEF BindingOK, NoBinding
<1>7. /\ TypeOK' /\ RowAdded(p, "balance", Selected)
      /\ \A o \in Orders : OrderKept(o)' /\ OrderGranted(o)'
      BY <1>2, <1>3, <1>4, <1>6, OtherGrant
<1> QED BY <1>2, <1>3, <1>6, <1>7, PurchaseStep

\* An administrator's binding, both of its steps.
LEMMA BindInv ==
    ASSUME OrdersInv, BindCommit \/ \E p \in Plans : BindSelect(p)
    PROVE  OrdersInv'
<1>1. TypeOK /\ BindingOK /\ Len(subs) \in Nat /\ now \in Nat
      BY LenProperties, BoundsNat DEF OrdersInv, TypeOK
<1>2. ASSUME NEW p \in Plans, BindSelect(p) PROVE OrdersInv'
  <2>1. UNCHANGED <<now, version, enabled, nonce, subs, order, topup, gateway, requests>>
        BY <1>2 DEF BindSelect, world, books
  <2>2. binding' = [plan |-> p, rows |-> Selected] /\ binds' = binds + 1 /\ Selected \subseteq Ids
        BY <1>1, <1>2, CurrentSelected DEF BindSelect
  <2>3. Ids' = Ids /\ now' >= now
        BY <1>1, <2>1 DEF Ids
  <2>4. BindingOK'
        BY <1>1, <2>2, <2>3 DEF BindingOK
  <2>5. TypeOK'
        BY <1>1, <2>1, <2>2, <2>3 DEF TypeOK
  <2>6. binds' # 0
        BY <1>1, <2>2 DEF BindingOK
  <2>7. RowsKept /\ Len(subs') = Len(subs) /\ \A o \in Orders : OrderKept(o)' /\ OrderGranted(o)'
        BY <2>1, QuietOrders
  <2> QED BY <2>3, <2>4, <2>5, <2>6, <2>7, NoRowStep
<1>3. CASE BindCommit
  <2>1. UNCHANGED <<now, version, enabled, nonce, order, topup, gateway, requests, binds>>
        BY <1>3 DEF BindCommit, world, books
  <2>2. /\ subs' = Granted(binding.plan, version[binding.plan], "admin", binding.rows)
        /\ Len(subs) < MaxSubs /\ binding' = NoBinding /\ binding # NoBinding
        BY <1>3 DEF BindCommit
  <2>3. binding.plan \in Plans /\ binding.rows \in SUBSET Ids
        BY <1>1, <2>2 DEF BindingOK
  <2>4. version[binding.plan] \in Nat
    <3>1. \A p \in Plans : version[p] \in Nat
          BY <1>1, BoundsNat DEF TypeOK
    <3> QED BY <2>3, <3>1
  <2>5. BindingOK'
        BY <1>1, <2>1, <2>2 DEF BindingOK, NoBinding
  <2>6. TypeOK' /\ \A o \in Orders : OrderKept(o)' /\ OrderGranted(o)'
        BY <2>1, <2>2, <2>3, <2>4, <2>5, OtherGrant
  <2>7. binds' # 0
        BY <2>1, <2>2 DEF OrdersInv, OneSelected
  <2> QED BY <2>5, <2>6, <2>7 DEF OrdersInv, OneSelected, LimitKept
<1> QED BY <1>2, <1>3

\* An invalidation.
LEMMA InvalidateInv ==
    ASSUME OrdersInv, NEW i \in Ids, Invalidate(i)
    PROVE  OrdersInv'
<1>1. TypeOK /\ BindingOK /\ Len(subs) \in Nat /\ now \in Nat
      BY LenProperties, BoundsNat DEF OrdersInv, TypeOK
<1>2. RowsKept /\ Len(subs') = Len(subs) /\ subs' \in Seq(SubRow) /\ Ids' = Ids
      BY <1>1, InvalidateKeeps DEF Ids
<1>3. UNCHANGED <<now, version, enabled, nonce, order, topup, gateway, requests, binding, binds>>
      BY DEF Invalidate, world, books
<1>4. TypeOK'
      BY <1>1, <1>2, <1>3 DEF TypeOK
<1>5. BindingOK'
      BY <1>1, <1>2, <1>3 DEF BindingOK, NoBinding
<1>6. ASSUME NEW o \in Orders PROVE OrderKept(o)' /\ OrderGranted(o)'
      BY <1>1, <1>2, <1>3, OrderSame DEF OrdersInv
<1> QED BY <1>1, <1>2, <1>3, <1>4, <1>5, <1>6, NoRowStep

\* The orders start as they should be.
LEMMA OrdersInitInv == Init => OrdersInv
<1> SUFFICES ASSUME Init PROVE OrdersInv
    OBVIOUS
<1>1. subs = <<>> /\ Len(subs) = 0 /\ Ids = {} /\ subs \in Seq(SubRow)
      BY DEF Init, Ids
<1>2. \A o \in Orders : order[o] = NoOrder /\ topup[o] = "none"
      BY DEF Init
<1>3. NoOrder \in OrderRow
      BY DEF NoOrder, OrderRow, Statuses
<1>4. TypeOK
  <2>1. order \in [Orders -> OrderRow] /\ topup \in [Orders -> {"none", "pending", "success", "expired"}]
        BY <1>3 DEF Init
  <2>2. version \in [Plans -> 0 .. MaxEdits] /\ requests \in [Orders -> 0 .. MaxRequests]
        BY BoundsNat DEF Init
  <2>3. binding.plan \in Plans \cup {0} /\ binding.rows \subseteq Ids
        BY DEF Init, NoBinding
  <2> QED BY <1>1, <2>1, <2>2, <2>3, BoundsNat DEF Init, TypeOK
<1>5. BindingOK
      BY DEF Init, BindingOK, NoBinding
<1>6. ASSUME NEW o \in Orders PROVE OrderKept(o) /\ OrderGranted(o)
      BY <1>1, <1>2 DEF NoOrder, OrderKept, TopUpOf, OrderGranted, GrantsOf
<1>7. OneSelected
      BY <1>1 DEF Init, OneSelected, Selected
<1>8. LimitKept
  <2>1. \A p \in Plans : Purchases(p) = 0
        BY <1>1, FS_EmptySet DEF Purchases
  <2> QED BY <2>1, BoundsNat DEF LimitKept
<1> QED BY <1>4, <1>5, <1>6, <1>7, <1>8 DEF OrdersInv

\* Every step keeps the invariant.
LEMMA OrdersNextInv == OrdersInv /\ [Next]_vars => OrdersInv'
<1> SUFFICES ASSUME OrdersInv, [Next]_vars PROVE OrdersInv'
    OBVIOUS
<1>1. ASSUME NEW o \in Orders, CompleteOrder(o) PROVE OrdersInv'
      BY <1>1, ReviewInv, GrantInv DEF CompleteOrder
<1>2. CASE UNCHANGED vars
  <2>1. TypeOK' /\ now' >= now
        BY <1>2, BoundsNat DEF OrdersInv, TypeOK, vars, Ids
  <2> QED BY <1>2, <2>1, QuietInv DEF vars
<1>3. CASE Next
      BY <1>1, <1>3, CreateOrderInv, QuietStepsInv, ExpireOrderInv, PurchaseWithBalanceInv,
         BindInv, InvalidateInv DEF Next
<1> QED BY <1>2, <1>3

\* The invariant says what the property says.
LEMMA OrdersInvSold == OrdersInv => SoldAsPriced
<1> SUFFICES ASSUME OrdersInv PROVE SoldAsPriced
    OBVIOUS
<1>1. TypeOK /\ LimitKept /\ \A o \in Orders : OrderKept(o) /\ OrderGranted(o)
      BY DEF OrdersInv
<1>2. GrantedOnce
  <2>1. ASSUME NEW o \in Orders
        PROVE  Cardinality(GrantsOf(o)) = IF order[o].status = "success" THEN 1 ELSE 0
        BY <1>1, FS_Singleton, FS_EmptySet DEF OrderGranted
  <2> QED BY <2>1 DEF GrantedOnce
<1>3. ASSUME NEW o \in Orders, NEW i \in GrantsOf(o)
      PROVE  AsPriced(o, i) /\ (order[o].current # 0 => ~ subs[order[o].current].active)
      BY <1>1 DEF OrderGranted
<1>4. GrantedAsPriced
      BY <1>3 DEF GrantedAsPriced, AsPriced
<1>5. CycleAsPriced
      BY <1>3 DEF CycleAsPriced, AsPriced
<1>6. HistoryAgrees
  <2>1. ASSUME NEW o \in Orders
        PROVE  /\ topup[o] = "success" <=> order[o].status = "success"
               /\ topup[o] = "expired" <=> order[o].status = "expired"
    <3>1. order[o].status \in Statuses
          BY <1>1 DEF TypeOK, OrderRow
    <3> QED BY <1>1, <3>1 DEF OrderKept, TopUpOf, Statuses
  <2> QED BY <2>1 DEF HistoryAgrees
<1>7. OneInForce
  <2>1. SUFFICES ASSUME binds = 0 PROVE Cardinality(Selected) <= 1
        BY DEF OneInForce
  <2>2. CASE Selected = {}
        BY <2>2, FS_EmptySet
  <2>3. CASE Selected # {}
    <3>1. PICK i : Selected = {i}
          BY <2>1, <2>3 DEF OrdersInv, OneSelected
    <3> QED BY <3>1, FS_Singleton
  <2> QED BY <2>2, <2>3
<1> QED BY <1>1, <1>2, <1>4, <1>5, <1>6, <1>7 DEF SoldAsPriced

\* Whatever happens to plans, subscriptions and the account between pricing and
\* payment, and however often a payment is reported: an order grants once, what
\* was priced, for the cycle that was priced, within the plan's limit, and the
\* history says so (CompleteSubscriptionOrder, ExpireSubscriptionOrder).
THEOREM OrdersSoldAsPriced == Spec => []SoldAsPriced
<1>1. Init => OrdersInv
      BY OrdersInitInv
<1>2. OrdersInv /\ [Next]_vars => OrdersInv'
      BY OrdersNextInv
<1>3. OrdersInv => SoldAsPriced
      BY OrdersInvSold
<1> QED BY <1>1, <1>2, <1>3, PTL DEF Spec

-----------------------------------------------------------------------------
(* Topping up the wallet: quotes. *)

PageRow == [input : Amounts \cup {0}, shown : Amounts \cup {0}, calculating : BOOLEAN,
            selecting : 0 .. MaxQuotes, dialog : BOOLEAN, processing : BOOLEAN,
            mounted : BOOLEAN]

QuoteRow == [amount : Amounts \cup {0}, pending : BOOLEAN]

\* The page and the quotes have their types, requests yet to come are not under
\* way, and the last request, if it is, asks for what is in the field.
QuotesInv ==
    /\ page \in PageRow
    /\ quote \in [1 .. MaxQuotes -> QuoteRow]
    /\ quoteRef \in 0 .. MaxQuotes
    /\ \A q \in 1 .. MaxQuotes : q > quoteRef => ~ quote[q].pending
    /\ \A q \in 1 .. MaxQuotes : q = quoteRef /\ quote[q].pending => quote[q].amount = page.input
    /\ QuoteIsForInput

\* A step that leaves the quotes alone, and of the page what they are about.
LEMMA QuotesSame ==
    ASSUME QuotesInv, page' \in PageRow, UNCHANGED <<quote, quoteRef>>, page'.input = page.input,
           page'.shown = page.shown, page'.calculating = page.calculating
    PROVE  QuotesInv'
BY DEF QuotesInv, QuoteIsForInput

\* A request for the amount that is in the field.
LEMMA AskQuotes ==
    ASSUME QuotesInv, NEW amount \in Amounts \cup {0}, NEW row \in PageRow, row.input = amount,
           Ask(amount, row)
    PROVE  QuotesInv'
<1>1. quoteRef < MaxQuotes /\ quoteRef' = quoteRef + 1 /\ quoteRef' \in 1 .. MaxQuotes /\ quoteRef \in Nat
      BY PaymentBounds DEF Ask, QuotesInv
<1>2. CASE amount = 0
  <2>1. page' = [row EXCEPT !.shown = 0, !.calculating = FALSE] /\ quote' = quote
        BY <1>2 DEF Ask
  <2>2. page' \in PageRow /\ page'.shown = 0
        BY <2>1 DEF PageRow
  <2>3. \A q \in 1 .. MaxQuotes : q >= quoteRef' => ~ quote'[q].pending
        BY <1>1, <2>1 DEF QuotesInv
  <2>4. QuoteIsForInput'
        BY <2>2 DEF QuoteIsForInput
  <2> QED BY <1>1, <2>1, <2>2, <2>3, <2>4 DEF QuotesInv
<1>3. CASE amount # 0
  <2>1. /\ page' = [row EXCEPT !.calculating = TRUE]
        /\ quote' = [quote EXCEPT ![quoteRef + 1] = [amount |-> amount, pending |-> TRUE]]
        BY <1>3 DEF Ask
  <2>2. page' \in PageRow /\ page'.input = amount /\ page'.calculating = TRUE
        BY <2>1 DEF PageRow
  <2>3. [amount |-> amount, pending |-> TRUE] \in QuoteRow
        BY DEF QuoteRow
  <2>4. quote' \in [1 .. MaxQuotes -> QuoteRow]
        BY <2>1, <2>3 DEF QuotesInv
  <2>5. \A q \in 1 .. MaxQuotes : q > quoteRef' => ~ quote'[q].pending
        BY <1>1, <2>1 DEF QuotesInv
  <2>6. \A q \in 1 .. MaxQuotes : q = quoteRef' /\ quote'[q].pending => quote'[q].amount = page'.input
        BY <1>1, <2>1, <2>2 DEF QuotesInv
  <2>7. QuoteIsForInput'
        BY <2>2 DEF QuoteIsForInput
  <2> QED BY <1>1, <2>2, <2>4, <2>5, <2>6, <2>7 DEF QuotesInv
<1> QED BY <1>2, <1>3

\* The fields of the page.
LEMMA PageFields ==
    ASSUME QuotesInv
    PROVE  /\ page.input \in Amounts \cup {0} /\ page.shown \in Amounts \cup {0}
           /\ page.calculating \in BOOLEAN /\ page.dialog \in BOOLEAN
           /\ page.processing \in BOOLEAN /\ page.mounted \in BOOLEAN
           /\ page.selecting \in 0 .. MaxQuotes
BY DEF QuotesInv, PageRow

\* An edit of the amount, or the choice of a method.
LEMMA EditQuotes ==
    ASSUME QuotesInv, SelectMethod \/ \E amount \in Amounts \cup {0} : EditAmount(amount)
    PROVE  QuotesInv'
<1>1. ASSUME NEW amount \in Amounts \cup {0}, EditAmount(amount) PROVE QuotesInv'
  <2> DEFINE row == [page EXCEPT !.input = amount]
  <2>1. row \in PageRow /\ row.input = amount
        BY DEF QuotesInv, PageRow
  <2>2. Ask(amount, row)
        BY <1>1 DEF EditAmount
  <2> QED BY <2>1, <2>2, AskQuotes
<1>2. CASE SelectMethod
  <2> DEFINE row == [page EXCEPT !.selecting = quoteRef + 1]
  <2>1. Ask(page.input, row)
        BY <1>2 DEF SelectMethod
  <2>2. quoteRef + 1 \in 0 .. MaxQuotes
        BY <2>1, PaymentBounds DEF Ask, QuotesInv
  <2>3. row \in PageRow /\ row.input = page.input
        BY <2>2 DEF QuotesInv, PageRow
  <2> HIDE DEF row
  <2> QED BY <2>1, <2>3, PageFields, AskQuotes
<1> QED BY <1>1, <1>2

\* An answer, of the last request or an earlier one.
LEMMA AnswerQuotes ==
    ASSUME QuotesInv, NEW q \in 1 .. MaxQuotes, QuoteAnswered(q)
    PROVE  QuotesInv' /\ page'.processing = page.processing
<1>1. PICK amount \in {quote[q].amount, 0} :
         page' = IF ShownAfter(q, amount).selecting = q
                 THEN [ShownAfter(q, amount) EXCEPT !.selecting = 0, !.dialog = ShownAfter(q, amount).mounted]
                 ELSE ShownAfter(q, amount)
      BY DEF QuoteAnswered
<1>2. quote[q] \in QuoteRow /\ quote[q].pending /\ quote' = [quote EXCEPT ![q].pending = FALSE]
      BY DEF QuoteAnswered, QuotesInv
<1>3. amount \in Amounts \cup {0}
      BY <1>1, <1>2 DEF QuoteRow
<1>4. PICK row : row = ShownAfter(q, amount)
      OBVIOUS
<1>5. /\ row \in PageRow /\ row.input = page.input /\ row.processing = page.processing
      /\ (~ row.calculating => row.shown \in {0, row.input})
  <2>1. CASE q = quoteRef
    <3>1. amount \in {0, page.input}
          BY <1>1, <1>2, <2>1 DEF QuotesInv
    <3>2. row = [page EXCEPT !.shown = amount, !.calculating = FALSE]
          BY <1>4, <2>1 DEF ShownAfter
    <3> QED BY <1>3, <3>1, <3>2 DEF QuotesInv, PageRow
  <2>2. CASE q # quoteRef
        BY <1>4, <2>2 DEF ShownAfter, QuotesInv, QuoteIsForInput
  <2> QED BY <2>1, <2>2
<1>6. /\ page' \in PageRow /\ page'.input = row.input /\ page'.shown = row.shown
      /\ page'.calculating = row.calculating /\ page'.processing = row.processing
  <2>1. page' = IF row.selecting = q THEN [row EXCEPT !.selecting = 0, !.dialog = row.mounted] ELSE row
        BY <1>1, <1>4
  <2>2. 0 \in 0 .. MaxQuotes
        BY PaymentBounds
  <2> QED BY <1>5, <2>1, <2>2 DEF PageRow
<1>7. [quote[q] EXCEPT !.pending = FALSE] \in QuoteRow
      BY <1>2 DEF QuoteRow
<1>8. /\ quote' \in [1 .. MaxQuotes -> QuoteRow]
      /\ \A x \in 1 .. MaxQuotes : x # q => quote'[x] = quote[x]
      /\ quote'[q].pending = FALSE
      BY <1>2, <1>7 DEF QuotesInv, QuoteRow
<1>9. quoteRef' = quoteRef
      BY DEF QuoteAnswered
<1>10. QuoteIsForInput'
      BY <1>5, <1>6 DEF QuoteIsForInput
<1>11. \A x \in 1 .. MaxQuotes : x > quoteRef' => ~ quote'[x].pending
      BY <1>8, <1>9 DEF QuotesInv
<1>12. \A x \in 1 .. MaxQuotes : x = quoteRef' /\ quote'[x].pending => quote'[x].amount = page'.input
      BY <1>5, <1>6, <1>8, <1>9 DEF QuotesInv
<1> QED BY <1>5, <1>6, <1>8, <1>9, <1>10, <1>11, <1>12 DEF QuotesInv

-----------------------------------------------------------------------------
(* Topping up the wallet: payments. *)

PayRow == [pc : {"none", "request", "check", "status", "result", "ended"},
           popup : {"none", "open", "closed"}, aborted : BOOLEAN, checks : 0 .. MaxPolls,
           grace : -1 .. GracePolls, result : {"none", "success", "failed", "pending", "cancelled"},
           reported : {"none", "success", "failed", "pending"}]

ServerStatus == {"none", "pending", "success", "failed"}

\* The request under way is the latest payment's, and nothing is active then; a
\* monitor at work that was not stopped is the active one, which is the latest
\* payment's; a verdict is the server's.
PaymentKept(n) ==
    /\ pay[n].pc = "status" => pay[n].checks < MaxPolls
    /\ pay[n].pc = "request" => page.processing /\ active = 0 /\ n = Latest
    /\ pay[n].pc \in {"none", "request"} => pay[n].result = "none"
    /\ pay[n].pc \in {"check", "status"} /\ ~ pay[n].aborted => active = n
    /\ pay[n].result \in {"success", "failed"} => status[n] = pay[n].result
    /\ active = n => n = Latest /\ pay[n].pc \notin {"none", "request"}

PaymentsTyped ==
    /\ pay \in [Payments -> PayRow]
    /\ active \in 0 .. MaxPayments
    /\ status \in [Payments -> ServerStatus]

\* Payments are started one after the other.
PaymentsInOrder == \E k \in 0 .. MaxPayments : Started = 1 .. k

PaymentsInv == PaymentsTyped /\ PaymentsInOrder /\ \A n \in Payments : PaymentKept(n)

PaymentInv == QuotesInv /\ PaymentsInv

\* The fields of a payment.
LEMMA PayFields ==
    ASSUME PaymentsTyped, NEW n \in Payments
    PROVE  /\ pay[n] \in PayRow /\ status[n] \in ServerStatus
           /\ pay[n].pc \in {"none", "request", "check", "status", "result", "ended"}
           /\ pay[n].popup \in {"none", "open", "closed"} /\ pay[n].aborted \in BOOLEAN
           /\ pay[n].checks \in 0 .. MaxPolls /\ pay[n].grace \in -1 .. GracePolls
           /\ pay[n].result \in {"none", "success", "failed", "pending", "cancelled"}
           /\ pay[n].reported \in {"none", "success", "failed", "pending"}
           /\ n \in Nat /\ n # 0
<1>1. pay[n] \in PayRow /\ status[n] \in ServerStatus
      BY DEF PaymentsTyped
<1>2. n \in Nat /\ n # 0
      BY DEF Payments
<1> QED BY <1>1, <1>2 DEF PayRow

\* The payments started are those up to the latest.
LEMMA LatestStarted ==
    ASSUME PaymentsInOrder
    PROVE  Latest \in 0 .. MaxPayments /\ Started = 1 .. Latest
<1>1. PICK k \in 0 .. MaxPayments : Started = 1 .. k
      BY DEF PaymentsInOrder
<1>2. Cardinality(1 .. k) = k
      BY <1>1, PaymentBounds, FS_Interval
<1> QED BY <1>1, <1>2 DEF Latest

\* The payments started stay the same when none is started.
LEMMA StartedSame ==
    ASSUME PaymentsInOrder, \A n \in Payments : pay'[n].pc = "none" <=> pay[n].pc = "none"
    PROVE  Latest' = Latest /\ PaymentsInOrder'
<1>1. Started' = Started
      BY DEF Started, Payments
<1> QED BY <1>1 DEF Latest, PaymentsInOrder

\* A payment that is left alone, and whose part of the rest is, too.
LEMMA PaymentSame ==
    ASSUME NEW n \in Payments, PaymentKept(n), pay'[n] = pay[n], status'[n] = status[n],
           active' = active, Latest' = Latest, page'.processing = page.processing
    PROVE  PaymentKept(n)'
BY DEF PaymentKept

\* A step that leaves the payments alone.
LEMMA PaymentsSame ==
    ASSUME PaymentsInv, UNCHANGED <<pay, active, status>>, page'.processing = page.processing
    PROVE  PaymentsInv'
<1>1. Latest' = Latest /\ PaymentsInOrder'
      BY StartedSame DEF PaymentsInv
<1>2. ASSUME NEW n \in Payments PROVE PaymentKept(n)'
      BY <1>1, PaymentSame DEF PaymentsInv
<1> QED BY <1>1, <1>2 DEF PaymentsInv, PaymentsTyped, Payments

\* One payment moves on, while the page is as it was and the active monitor too.
LEMMA PaymentMoves ==
    ASSUME PaymentsInv, NEW n \in Payments, NEW row \in PayRow, pay' = [pay EXCEPT ![n] = row],
           UNCHANGED <<active, status>>, page'.processing = page.processing,
           row.pc # "none", pay[n].pc # "none",
           row.pc = "request" => pay[n].pc = "request",
           pay[n].pc = "request" => row.pc = "request",
           row.pc = "request" => row.result = "none",
           row.pc = "status" => row.checks < MaxPolls,
           row.pc \in {"check", "status"} /\ ~ row.aborted => active = n,
           row.result \in {"success", "failed"} => status[n] = row.result
    PROVE  PaymentsInv'
<1>1. PaymentsTyped /\ PaymentsInOrder /\ \A m \in Payments : PaymentKept(m)
      BY DEF PaymentsInv
<1>2. pay' \in [Payments -> PayRow] /\ pay'[n] = row /\ \A m \in Payments : m # n => pay'[m] = pay[m]
      BY <1>1 DEF PaymentsTyped
<1>3. PaymentsTyped'
      BY <1>1, <1>2 DEF PaymentsTyped, Payments
<1>4. \A m \in Payments : pay'[m].pc = "none" <=> pay[m].pc = "none"
      BY <1>2
<1>5. Latest' = Latest /\ PaymentsInOrder'
      BY <1>1, <1>4, StartedSame
<1>6. PaymentKept(n)'
      BY <1>1, <1>2, <1>5 DEF PaymentKept
<1>7. ASSUME NEW m \in Payments, m # n PROVE PaymentKept(m)'
      BY <1>1, <1>2, <1>5, <1>7, PaymentSame
<1>8. \A m \in Payments : PaymentKept(m)'
      BY <1>6, <1>7
<1> QED BY <1>3, <1>5, <1>8 DEF PaymentsInv, Payments

\* One round of the loop begins.
LEMMA CheckInv ==
    ASSUME PaymentsInv, NEW n \in Payments, Check(n)
    PROVE  PaymentsInv'
<1>1. PaymentsTyped /\ PaymentKept(n) /\ pay[n].pc = "check" /\ pay[n] \in PayRow
      BY PayFields DEF PaymentsInv, Check
<1>2. UNCHANGED <<page, active, status>>
      BY DEF Check
<1>3. pay[n].checks \in 0 .. MaxPolls /\ MaxPolls \in Nat
      BY <1>1, PayFields, ChecksPositive
<1>4. ASSUME NEW r \in {"cancelled", "pending"}, pay' = Ended(n, r) PROVE PaymentsInv'
  <2> DEFINE row == [pay[n] EXCEPT !.pc = "result", !.result = r]
  <2>1. row \in PayRow /\ row.pc = "result" /\ row.result = r
        BY <1>1 DEF PayRow
  <2>2. pay' = [pay EXCEPT ![n] = row]
        BY <1>4 DEF Ended
  <2> HIDE DEF row
  <2> QED BY <1>1, <1>2, <2>1, <2>2, PaymentMoves
<1>5. CASE ~ pay[n].aborted /\ pay[n].checks # MaxPolls
  <2> DEFINE row == [pay[n] EXCEPT !.pc = "status"]
  <2>1. /\ row \in PayRow /\ row.pc = "status" /\ row.result = pay[n].result
        /\ row.checks = pay[n].checks /\ row.aborted = pay[n].aborted
        BY <1>1 DEF PayRow
  <2>2. pay' = [pay EXCEPT ![n] = row]
        BY <1>5 DEF Check, CheckLoop
  <2>3. row.checks < MaxPolls
        BY <1>3, <1>5, <2>1
  <2>4. active = n /\ (row.result \in {"success", "failed"} => status[n] = row.result)
        BY <1>1, <1>5, <2>1 DEF PaymentKept
  <2> HIDE DEF row
  <2> QED BY <1>1, <1>2, <2>1, <2>2, <2>3, <2>4, PaymentMoves
<1> QED BY <1>4, <1>5 DEF Check, CheckLoop

\* An answer to it, or none.
LEMMA StatusAnsweredInv ==
    ASSUME PaymentsInv, NEW n \in Payments, StatusAnswered(n)
    PROVE  PaymentsInv'
<1>1. PaymentsTyped /\ PaymentKept(n) /\ pay[n].pc = "status" /\ pay[n] \in PayRow
      BY PayFields DEF PaymentsInv, StatusAnswered
<1>2. UNCHANGED <<page, active, status>>
      BY DEF StatusAnswered
<1>3. /\ pay[n].checks \in 0 .. MaxPolls /\ MaxPolls \in Nat /\ GracePolls \in Nat
      /\ pay[n].grace \in -1 .. GracePolls /\ pay[n].checks < MaxPolls
      BY <1>1, PayFields, ChecksPositive DEF PaymentKept
<1>4. ASSUME NEW r \in {"success", "failed", "pending"}, pay' = Ended(n, r),
             r # "pending" => status[n] = r
      PROVE  PaymentsInv'
  <2> DEFINE row == [pay[n] EXCEPT !.pc = "result", !.result = r]
  <2>1. row \in PayRow /\ row.pc = "result" /\ row.result = r
        BY <1>1 DEF PayRow
  <2>2. pay' = [pay EXCEPT ![n] = row]
        BY <1>4 DEF Ended
  <2>3. row.result \in {"success", "failed"} => status[n] = row.result
        BY <1>4, <2>1
  <2> HIDE DEF row
  <2> QED BY <1>1, <1>2, <2>1, <2>2, <2>3, PaymentMoves
<1>5. ASSUME NEW g \in -1 .. GracePolls,
             pay' = [pay EXCEPT ![n] = [pay[n] EXCEPT !.pc = "check", !.checks = @ + 1, !.grace = g]]
      PROVE  PaymentsInv'
  <2> DEFINE row == [pay[n] EXCEPT !.pc = "check", !.checks = @ + 1, !.grace = g]
  <2>1. pay[n].checks + 1 \in 0 .. MaxPolls
        BY <1>3
  <2>2. row \in PayRow /\ row.pc = "check" /\ row.result = pay[n].result /\ row.aborted = pay[n].aborted
        BY <1>1, <2>1 DEF PayRow
  <2>3. /\ row.pc \in {"check", "status"} /\ ~ row.aborted => active = n
        /\ row.result \in {"success", "failed"} => status[n] = row.result
        BY <1>1, <2>2 DEF PaymentKept
  <2>4. pay' = [pay EXCEPT ![n] = row]
        BY <1>5
  <2> HIDE DEF row
  <2> QED BY <1>1, <1>2, <2>2, <2>3, <2>4, PaymentMoves
<1> DEFINE waiting == [pay EXCEPT ![n].pc = "check", ![n].checks = @ + 1]
<1>6. waiting = [pay EXCEPT ![n] = [pay[n] EXCEPT !.pc = "check", !.checks = @ + 1, !.grace = pay[n].grace]]
      BY <1>1 DEF PaymentsTyped, PayRow
<1>7. ASSUME NEW g
      PROVE  [waiting EXCEPT ![n].grace = g]
               = [pay EXCEPT ![n] = [pay[n] EXCEPT !.pc = "check", !.checks = @ + 1, !.grace = g]]
      BY <1>1 DEF PaymentsTyped, PayRow
<1>8. waiting[n].grace = pay[n].grace
      BY <1>1 DEF PaymentsTyped, PayRow
<1>9. \/ status[n] \in {"success", "failed"} /\ pay' = Ended(n, status[n])
      \/ pay' = waiting
      \/ pay' = Ended(n, "pending")
      \/ \E g \in -1 .. GracePolls : pay' = [waiting EXCEPT ![n].grace = g]
  <2>1. \/ status[n] \in {"success", "failed"} /\ pay' = Ended(n, status[n])
        \/ pay' = IF pay[n].popup # "closed" THEN waiting
                  ELSE IF pay[n].grace = 0 THEN Ended(n, "pending")
                  ELSE [waiting EXCEPT ![n].grace = IF waiting[n].grace = -1 THEN GracePolls
                                                    ELSE waiting[n].grace - 1]
        BY <1>1 DEF StatusAnswered, PaymentsTyped
  <2>2. pay[n].grace # 0 =>
           (IF waiting[n].grace = -1 THEN GracePolls ELSE waiting[n].grace - 1) \in -1 .. GracePolls
        BY <1>3, <1>8
  <2> HIDE DEF waiting
  <2> QED BY <2>1, <2>2
<1> HIDE DEF waiting
<1> QED BY <1>3, <1>4, <1>5, <1>6, <1>7, <1>9

\* The user closes a window.
LEMMA ClosePaymentInv ==
    ASSUME PaymentsInv, NEW n \in Payments, ClosePayment(n)
    PROVE  PaymentsInv'
<1>1. PaymentsTyped /\ PaymentsInOrder /\ \A m \in Payments : PaymentKept(m)
      BY DEF PaymentsInv
<1> DEFINE row == [pay[n] EXCEPT !.popup = "closed"]
<1>2. /\ row \in PayRow /\ row.pc = pay[n].pc /\ row.result = pay[n].result
      /\ row.aborted = pay[n].aborted /\ row.checks = pay[n].checks
      BY <1>1, PayFields DEF PayRow
<1>3. pay' = [pay EXCEPT ![n] = row] /\ UNCHANGED <<page, active, status>>
      BY DEF ClosePayment
<1> HIDE DEF row
<1>4. /\ pay' \in [Payments -> PayRow] /\ pay'[n] = row
      /\ \A m \in Payments : m # n => pay'[m] = pay[m]
      BY <1>1, <1>2, <1>3 DEF PaymentsTyped
<1>5. \A m \in Payments : /\ pay'[m].pc = pay[m].pc /\ pay'[m].result = pay[m].result
                          /\ pay'[m].aborted = pay[m].aborted /\ pay'[m].checks = pay[m].checks
      BY <1>2, <1>4
<1>6. Latest' = Latest /\ PaymentsInOrder'
      BY <1>1, <1>5, StartedSame
<1>7. ASSUME NEW m \in Payments PROVE PaymentKept(m)'
      BY <1>1, <1>3, <1>5, <1>6 DEF PaymentKept
<1> QED BY <1>1, <1>3, <1>4, <1>6, <1>7 DEF PaymentsInv, PaymentsTyped, Payments

\* The server settles an order.
LEMMA SettleOrderInv ==
    ASSUME PaymentsInv, NEW n \in Payments, SettleOrder(n)
    PROVE  PaymentsInv'
<1>1. PaymentsTyped /\ PaymentsInOrder /\ \A m \in Payments : PaymentKept(m)
      BY DEF PaymentsInv
<1>2. PICK s \in {"success", "failed"} : status' = [status EXCEPT ![n] = s]
      BY DEF SettleOrder
<1>3. status' \in [Payments -> ServerStatus] /\ \A m \in Payments : m # n => status'[m] = status[m]
      BY <1>1, <1>2 DEF PaymentsTyped, ServerStatus
<1>4. UNCHANGED <<page, pay, active>> /\ status[n] = "pending"
      BY DEF SettleOrder
<1>5. Latest' = Latest /\ PaymentsInOrder'
      BY <1>1, <1>4, StartedSame
<1>6. ASSUME NEW m \in Payments PROVE PaymentKept(m)'
      BY <1>1, <1>3, <1>4, <1>5 DEF PaymentKept
<1> QED BY <1>1, <1>3, <1>4, <1>5, <1>6 DEF PaymentsInv, PaymentsTyped, Payments

\* The request is answered: an order, whose monitor becomes the active one, or
\* none.  No other request is under way, and no monitor was active.
LEMMA AnsweredInv ==
    ASSUME PaymentsInv, NEW n \in Payments, pay[n].pc = "request", NEW row \in PayRow,
           row.pc \in {"check", "ended"}, row.result = "none", pay' = [pay EXCEPT ![n] = row],
           active' = IF row.pc = "check" THEN n ELSE active,
           NEW s \in ServerStatus, status' = [status EXCEPT ![n] = s]
    PROVE  PaymentsInv'
<1>1. PaymentsTyped /\ PaymentsInOrder /\ \A m \in Payments : PaymentKept(m)
      BY DEF PaymentsInv
<1>2. /\ pay' \in [Payments -> PayRow] /\ pay'[n] = row
      /\ \A m \in Payments : m # n => pay'[m] = pay[m] /\ status'[m] = status[m]
      /\ status' \in [Payments -> ServerStatus]
      BY <1>1 DEF PaymentsTyped
<1>3. n = Latest /\ active = 0 /\ n \in 0 .. MaxPayments /\ n # 0
      BY <1>1 DEF PaymentKept, Payments
<1>4. \A m \in Payments : pay'[m].pc = "none" <=> pay[m].pc = "none"
      BY <1>2
<1>5. Latest' = Latest /\ PaymentsInOrder'
      BY <1>1, <1>4, StartedSame
<1>6. PaymentKept(n)'
      BY <1>2, <1>3, <1>5 DEF PaymentKept
<1>7. ASSUME NEW m \in Payments, m # n PROVE PaymentKept(m)'
  <2>1. pay[m].pc # "request" /\ ~ (pay[m].pc \in {"check", "status"} /\ ~ pay[m].aborted)
        BY <1>1, <1>3, <1>7, PayFields DEF PaymentKept
  <2>2. active' # m
        BY <1>1, <1>3, <1>7, PayFields
  <2> QED BY <1>1, <1>2, <1>7, <2>1, <2>2 DEF PaymentKept
<1>8. PaymentsTyped'
      BY <1>1, <1>2, <1>3 DEF PaymentsTyped, Payments
<1>9. \A m \in Payments : PaymentKept(m)'
      BY <1>6, <1>7
<1> QED BY <1>5, <1>8, <1>9 DEF PaymentsInv, Payments

\* requestPayment answers.
LEMMA RequestAnsweredInv ==
    ASSUME PaymentsInv, NEW n \in Payments, OrderMade(n) \/ OrderRefused(n)
    PROVE  PaymentsInv'
<1>1. PaymentsTyped /\ PaymentKept(n) /\ pay[n].pc = "request" /\ pay[n] \in PayRow
      BY PayFields DEF PaymentsInv, OrderMade, OrderRefused
<1>2. pay[n].result = "none"
      BY <1>1 DEF PaymentKept
<1>3. CASE OrderMade(n)
  <2> DEFINE row == [pay[n] EXCEPT !.pc = "check"]
  <2>1. row \in PayRow /\ row.pc = "check" /\ row.result = "none"
        BY <1>1, <1>2 DEF PayRow
  <2>2. pay' = [pay EXCEPT ![n] = row] /\ active' = n /\ status' = [status EXCEPT ![n] = "pending"]
        BY <1>3 DEF OrderMade
  <2>3. "pending" \in ServerStatus
        BY DEF ServerStatus
  <2> HIDE DEF row
  <2> QED BY <1>1, <2>1, <2>2, <2>3, AnsweredInv
<1>4. CASE OrderRefused(n)
  <2> DEFINE row == [pay[n] EXCEPT !.pc = "ended", !.popup = "closed"]
  <2>1. row \in PayRow /\ row.pc = "ended" /\ row.result = "none"
        BY <1>1, <1>2 DEF PayRow
  <2>2. pay' = [pay EXCEPT ![n] = row] /\ active' = active
        BY <1>4 DEF OrderRefused
  <2>3. PICK s \in {"none", "pending"} : status' = [status EXCEPT ![n] = s]
        BY <1>4 DEF OrderRefused
  <2>4. s \in ServerStatus
        BY DEF ServerStatus
  <2> HIDE DEF row
  <2> QED BY <1>1, <2>1, <2>2, <2>3, <2>4, AnsweredInv
<1> QED BY <1>3, <1>4

\* A monitor returns: the active one reports and is over.
LEMMA ReportResultInv ==
    ASSUME PaymentsInv, NEW n \in Payments, ReportResult(n)
    PROVE  PaymentsInv'
<1>1. PaymentsTyped /\ PaymentsInOrder /\ \A m \in Payments : PaymentKept(m)
      BY DEF PaymentsInv
<1>2. pay[n].pc = "result" /\ pay[n] \in PayRow /\ UNCHANGED <<page, status>>
      BY <1>1, PayFields DEF ReportResult
<1>3. CASE active # n
  <2> DEFINE row == [pay[n] EXCEPT !.pc = "ended"]
  <2>1. row \in PayRow /\ row.pc = "ended" /\ row.result = pay[n].result
        BY <1>2 DEF PayRow
  <2>2. pay' = [pay EXCEPT ![n] = row] /\ active' = active
        BY <1>3 DEF ReportResult, IsActive
  <2>3. row.result \in {"success", "failed"} => status[n] = row.result
        BY <1>1, <2>1 DEF PaymentKept
  <2> HIDE DEF row
  <2> QED BY <1>2, <2>1, <2>2, <2>3, PaymentMoves
<1>4. CASE active = n
  <2>1. PICK said \in {"none", "success", "failed", "pending"} :
            said = IF pay[n].result = "cancelled" THEN "none" ELSE pay[n].result
        BY <1>1, PayFields
  <2>2. PICK window \in {"none", "open", "closed"} :
            window = IF pay[n].result = "success" THEN "closed" ELSE pay[n].popup
        BY <1>1, PayFields
  <2> DEFINE row == [pay[n] EXCEPT !.pc = "ended", !.reported = said, !.popup = window]
  <2>3. row \in PayRow /\ row.pc = "ended" /\ row.result = pay[n].result
        BY <1>2 DEF PayRow
  <2>4. pay' = [pay EXCEPT ![n] = row] /\ active' = 0
        BY <1>4, <2>1, <2>2 DEF ReportResult, IsActive
  <2> HIDE DEF row
  <2>5. /\ pay' \in [Payments -> PayRow] /\ pay'[n] = row
        /\ \A m \in Payments : m # n => pay'[m] = pay[m]
        BY <1>1, <2>3, <2>4 DEF PaymentsTyped
  <2>6. \A m \in Payments : pay'[m].pc = "none" <=> pay[m].pc = "none"
        BY <1>2, <2>3, <2>5
  <2>7. Latest' = Latest /\ PaymentsInOrder'
        BY <1>1, <2>6, StartedSame
  <2>8. PaymentKept(n)'
    <3>1. n # 0
          BY DEF Payments
    <3> QED BY <1>1, <1>2, <2>3, <2>4, <2>5, <3>1 DEF PaymentKept
  <2>9. ASSUME NEW m \in Payments, m # n PROVE PaymentKept(m)'
    <3>1. m # 0 /\ n # 0
          BY DEF Payments
    <3>2. pay[m].pc # "request" /\ ~ (pay[m].pc \in {"check", "status"} /\ ~ pay[m].aborted)
          BY <1>1, <1>4, <2>9, <3>1 DEF PaymentKept
    <3> QED BY <1>1, <1>2, <2>4, <2>5, <2>9, <3>1, <3>2 DEF PaymentKept
  <2>10. PaymentsTyped'
        BY <1>1, <1>2, <2>4, <2>5, PaymentBounds DEF PaymentsTyped, Payments
  <2>11. \A m \in Payments : PaymentKept(m)'
        BY <2>8, <2>9
  <2> QED BY <2>7, <2>10, <2>11 DEF PaymentsInv, Payments
<1> QED BY <1>3, <1>4

\* stopActiveMonitor: afterwards every monitor at work was stopped.
LEMMA Stopped ==
    ASSUME PaymentsInv, NEW c \in BOOLEAN
    PROVE  /\ StopActiveMonitor(c) \in [Payments -> PayRow]
           /\ \A n \in Payments :
                /\ StopActiveMonitor(c)[n].pc = pay[n].pc
                /\ StopActiveMonitor(c)[n].result = pay[n].result
                /\ StopActiveMonitor(c)[n].reported = pay[n].reported
                /\ StopActiveMonitor(c)[n].checks = pay[n].checks
                /\ pay[n].pc \in {"check", "status"} => StopActiveMonitor(c)[n].aborted
<1>1. PaymentsTyped /\ \A n \in Payments : PaymentKept(n)
      BY DEF PaymentsInv
<1>2. CASE active = 0
  <2>1. StopActiveMonitor(c) = pay
        BY <1>2 DEF StopActiveMonitor
  <2>2. \A n \in Payments : n # 0
        BY DEF Payments
  <2> QED BY <1>1, <1>2, <2>1, <2>2 DEF PaymentsTyped, PaymentKept
<1>3. CASE active # 0
  <2>1. active \in Payments
        BY <1>1, <1>3, PaymentBounds DEF PaymentsTyped, Payments
  <2> DEFINE row == [pay[active] EXCEPT !.aborted = TRUE, !.popup = IF c THEN "closed" ELSE @]
  <2>2. /\ row \in PayRow /\ row.pc = pay[active].pc /\ row.result = pay[active].result
        /\ row.reported = pay[active].reported /\ row.checks = pay[active].checks /\ row.aborted = TRUE
        BY <1>1, <2>1, PayFields DEF PayRow
  <2>3. StopActiveMonitor(c) = [pay EXCEPT ![active] = row]
        BY <1>1, <1>3, <2>1 DEF StopActiveMonitor, PaymentsTyped
  <2> HIDE DEF row
  <2> QED BY <1>1, <2>1, <2>2, <2>3 DEF PaymentsTyped, PaymentKept
<1> QED BY <1>2, <1>3

\* Leaving the page, or a window that the browser blocked: the active monitor is
\* stopped and none is active.
LEMMA StopInv ==
    ASSUME PaymentsInv, NEW c \in BOOLEAN, pay' = StopActiveMonitor(c), active' = 0,
           status' = status, page'.processing = page.processing
    PROVE  PaymentsInv'
<1>1. PaymentsTyped /\ PaymentsInOrder /\ \A m \in Payments : PaymentKept(m)
      BY DEF PaymentsInv
<1>2. /\ pay' \in [Payments -> PayRow]
      /\ \A n \in Payments : /\ pay'[n].pc = pay[n].pc /\ pay'[n].result = pay[n].result
                             /\ pay'[n].checks = pay[n].checks
                             /\ pay[n].pc \in {"check", "status"} => pay'[n].aborted
      BY Stopped
<1>3. Latest' = Latest /\ PaymentsInOrder'
      BY <1>1, <1>2, StartedSame
<1>4. ASSUME NEW m \in Payments PROVE PaymentKept(m)'
  <2>1. m # 0
        BY DEF Payments
  <2> QED BY <1>1, <1>2, <1>3, <2>1 DEF PaymentKept
<1>5. PaymentsTyped'
      BY <1>1, <1>2, PaymentBounds DEF PaymentsTyped, Payments
<1> QED BY <1>3, <1>4, <1>5 DEF PaymentsInv, Payments

\* The payments after a confirmation.
WithNext == [StopActiveMonitor(TRUE) EXCEPT ![Latest + 1].pc = "request",
                                            ![Latest + 1].popup = "open"]

\* A payment is started: it becomes the latest, and the one before it is stopped.
LEMMA StartInv ==
    ASSUME PaymentsInv, Latest < MaxPayments, ~ page.processing, pay' = WithNext,
           active' = 0, status' = status, page'.processing = TRUE
    PROVE  PaymentsInv'
<1>1. PaymentsTyped /\ PaymentsInOrder /\ \A m \in Payments : PaymentKept(m)
      BY DEF PaymentsInv
<1>2. Latest \in Nat /\ Latest + 1 \in Payments /\ Latest + 1 \in 0 .. MaxPayments /\ Started = 1 .. Latest
      BY <1>1, LatestStarted, PaymentBounds DEF Payments
<1>3. PICK new : new = Latest + 1
      OBVIOUS
<1>4. PICK base : base = StopActiveMonitor(TRUE)
      OBVIOUS
<1>5. /\ base \in [Payments -> PayRow]
      /\ \A n \in Payments : /\ base[n].pc = pay[n].pc /\ base[n].result = pay[n].result
                             /\ base[n].checks = pay[n].checks
                             /\ pay[n].pc \in {"check", "status"} => base[n].aborted
      BY <1>4, Stopped
<1>6. new \in Payments /\ new \notin Started
      BY <1>2, <1>3
<1>7. pay[new].pc = "none"
      BY <1>6 DEF Started
<1>8. pay[new].result = "none"
      BY <1>1, <1>6, <1>7 DEF PaymentKept
<1> DEFINE row == [base[new] EXCEPT !.pc = "request", !.popup = "open"]
<1>9. row \in PayRow /\ row.pc = "request" /\ row.result = base[new].result
  <2>1. base[new] \in PayRow
        BY <1>5, <1>6
  <2> QED BY <2>1 DEF PayRow
<1>10. pay' = [base EXCEPT ![new] = row]
      BY <1>3, <1>4, <1>5, <1>6 DEF WithNext
<1> HIDE DEF row
<1>11. /\ pay' \in [Payments -> PayRow] /\ pay'[new] = row
       /\ \A n \in Payments : n # new => pay'[n] = base[n]
      BY <1>5, <1>6, <1>9, <1>10
<1>12. Started' = Started \cup {new}
  <2>1. \A n \in Payments : pay'[n].pc # "none" <=> pay[n].pc # "none" \/ n = new
        BY <1>5, <1>9, <1>11
  <2> QED BY <1>6, <2>1 DEF Started, Payments
<1>13. Started' = 1 .. new
      BY <1>2, <1>3, <1>12
<1>14. PaymentsInOrder'
      BY <1>2, <1>3, <1>13 DEF PaymentsInOrder
<1>15. Latest' = new
  <2>1. Cardinality(1 .. new) = new
        BY <1>2, <1>3, FS_Interval
  <2> QED BY <1>13, <2>1 DEF Latest
<1>16. ASSUME NEW m \in Payments PROVE PaymentKept(m)'
  <2>1. m # 0
        BY DEF Payments
  <2>2. CASE m = new
        BY <1>5, <1>8, <1>9, <1>11, <1>15, <2>1, <2>2 DEF PaymentKept
  <2>3. CASE m # new
    <3>1. pay[m].pc # "request"
          BY <1>1 DEF PaymentKept
    <3> QED BY <1>1, <1>5, <1>11, <2>1, <2>3, <3>1 DEF PaymentKept
  <2> QED BY <2>2, <2>3
<1>17. PaymentsTyped'
      BY <1>1, <1>11, PaymentBounds DEF PaymentsTyped, Payments
<1> QED BY <1>14, <1>16, <1>17 DEF PaymentsInv, Payments

\* The user confirms.
LEMMA ConfirmPaymentInv ==
    ASSUME PaymentInv, ConfirmPayment
    PROVE  PaymentInv'
<1>1. QuotesInv /\ PaymentsInv /\ page \in PageRow
      BY DEF PaymentInv, QuotesInv
<1>2. Latest < MaxPayments /\ active' = 0 /\ UNCHANGED <<quote, quoteRef, status>> /\ ~ page.processing
      BY DEF ConfirmPayment
<1>3. CASE /\ pay' = [StopActiveMonitor(TRUE) EXCEPT ![Latest + 1].pc = "request",
                                                     ![Latest + 1].popup = "open"]
           /\ page' = [page EXCEPT !.processing = TRUE]
  <2>1. /\ page' \in PageRow /\ page'.processing = TRUE /\ page'.input = page.input
        /\ page'.shown = page.shown /\ page'.calculating = page.calculating
        BY <1>1, <1>3 DEF PageRow
  <2>2. QuotesInv'
        BY <1>1, <1>2, <2>1, QuotesSame
  <2>3. PaymentsInv'
        BY <1>1, <1>2, <1>3, <2>1, StartInv DEF WithNext
  <2> QED BY <2>2, <2>3 DEF PaymentInv
<1>4. CASE pay' = StopActiveMonitor(TRUE) /\ UNCHANGED page
  <2>1. QuotesInv'
        BY <1>1, <1>2, <1>4, QuotesSame
  <2>2. PaymentsInv'
        BY <1>1, <1>2, <1>4, StopInv
  <2> QED BY <2>1, <2>2 DEF PaymentInv
<1> QED BY <1>3, <1>4 DEF ConfirmPayment

\* The page starts with no payment and no quote.
LEMMA PaymentInitInv == PaymentInit => PaymentInv
<1> SUFFICES ASSUME PaymentInit PROVE PaymentInv
    OBVIOUS
<1>1. QuotesInv
  <2>1. page \in PageRow /\ page.shown = 0
        BY PaymentBounds DEF PaymentInit, PageRow
  <2>2. quote \in [1 .. MaxQuotes -> QuoteRow] /\ \A q \in 1 .. MaxQuotes : quote[q].pending = FALSE
        BY DEF PaymentInit, QuoteRow
  <2>3. quoteRef \in 0 .. MaxQuotes
        BY PaymentBounds DEF PaymentInit
  <2>4. QuoteIsForInput
        BY <2>1 DEF QuoteIsForInput
  <2> QED BY <2>1, <2>2, <2>3, <2>4 DEF QuotesInv
<1>2. NoPayment \in PayRow
  <2>1. 0 \in 0 .. MaxPolls /\ -1 \in -1 .. GracePolls
        BY ChecksPositive
  <2> QED BY <2>1 DEF NoPayment, PayRow
<1>3. \A n \in Payments : pay[n] = NoPayment /\ n # 0 /\ active = 0
      BY DEF PaymentInit, Payments
<1>4. PaymentsTyped
      BY <1>2, PaymentBounds DEF PaymentInit, PaymentsTyped, ServerStatus
<1>5. Started = 1 .. 0
      BY <1>3 DEF Started, NoPayment
<1>6. PaymentsInOrder
      BY <1>5, PaymentBounds DEF PaymentsInOrder
<1>7. ASSUME NEW n \in Payments PROVE PaymentKept(n)
      BY <1>3 DEF PaymentKept, NoPayment
<1> QED BY <1>1, <1>4, <1>6, <1>7 DEF PaymentInv, PaymentsInv

\* A step that changes only payments, orders and the flags of the dialog.
LEMMA PageMoves ==
    ASSUME QuotesInv, UNCHANGED <<quote, quoteRef>>, NEW d \in BOOLEAN, NEW b \in BOOLEAN, NEW m \in BOOLEAN,
           page' = [page EXCEPT !.dialog = d, !.processing = b, !.mounted = m]
    PROVE  QuotesInv' /\ page'.processing = b
<1>1. page \in PageRow
      BY DEF QuotesInv
<1>2. /\ page' \in PageRow /\ page'.processing = b /\ page'.input = page.input
      /\ page'.shown = page.shown /\ page'.calculating = page.calculating
      BY <1>1 DEF PageRow
<1> QED BY <1>2, QuotesSame

\* Every step keeps the invariant.
LEMMA PaymentNextInv == PaymentInv /\ [PaymentNext]_paymentVars => PaymentInv'
<1> SUFFICES ASSUME PaymentInv, [PaymentNext]_paymentVars PROVE PaymentInv'
    OBVIOUS
<1>1. QuotesInv /\ PaymentsInv
      BY DEF PaymentInv
<1>2. /\ page.dialog \in BOOLEAN /\ page.processing \in BOOLEAN /\ page.mounted \in BOOLEAN
      /\ page \in PageRow
      BY <1>1, PageFields DEF QuotesInv
<1>3. ASSUME SelectMethod \/ \E amount \in Amounts \cup {0} : EditAmount(amount)
      PROVE  PaymentInv'
  <2>1. QuotesInv'
        BY <1>1, <1>3, EditQuotes
  <2>2. UNCHANGED <<pay, active, status>>
        BY <1>3 DEF SelectMethod, EditAmount, Ask
  <2>3. page'.processing = page.processing
    <3>1. ASSUME NEW row \in PageRow, NEW amount, Ask(amount, row)
          PROVE  page'.processing = row.processing
          BY <3>1 DEF Ask, PageRow
    <3>2. CASE SelectMethod
      <4> DEFINE row == [page EXCEPT !.selecting = quoteRef + 1]
      <4>1. Ask(page.input, row)
            BY <3>2 DEF SelectMethod
      <4>2. quoteRef + 1 \in 0 .. MaxQuotes
            BY <1>1, <4>1, PaymentBounds DEF Ask, QuotesInv
      <4>3. row \in PageRow /\ row.processing = page.processing
            BY <1>2, <4>2 DEF PageRow
      <4> HIDE DEF row
      <4> QED BY <3>1, <4>1, <4>3
    <3>3. ASSUME NEW amount \in Amounts \cup {0}, EditAmount(amount)
          PROVE  page'.processing = page.processing
      <4> DEFINE row == [page EXCEPT !.input = amount]
      <4>1. Ask(amount, row)
            BY <3>3 DEF EditAmount
      <4>2. row \in PageRow /\ row.processing = page.processing
            BY <1>2 DEF PageRow
      <4> HIDE DEF row
      <4> QED BY <3>1, <4>1, <4>2
    <3> QED BY <1>3, <3>2, <3>3
  <2> QED BY <1>1, <2>1, <2>2, <2>3, PaymentsSame DEF PaymentInv
<1>4. ASSUME NEW q \in 1 .. MaxQuotes, QuoteAnswered(q) PROVE PaymentInv'
  <2>1. UNCHANGED <<pay, active, status>>
        BY <1>4 DEF QuoteAnswered
  <2> QED BY <1>1, <1>4, <2>1, AnswerQuotes, PaymentsSame DEF PaymentInv
<1>5. CASE CancelDialog
  <2>1. page' = [page EXCEPT !.dialog = FALSE, !.processing = page.processing, !.mounted = page.mounted]
        BY <1>2, <1>5 DEF CancelDialog, PageRow
  <2>2. UNCHANGED <<quote, quoteRef, pay, active, status>>
        BY <1>5 DEF CancelDialog
  <2> QED BY <1>1, <1>2, <2>1, <2>2, PageMoves, PaymentsSame DEF PaymentInv
<1>6. CASE Unmount
  <2>1. page' = [page EXCEPT !.dialog = FALSE, !.processing = page.processing, !.mounted = FALSE]
        BY <1>2, <1>6 DEF Unmount, PageRow
  <2>2. UNCHANGED <<quote, quoteRef, status>> /\ active' = 0 /\ pay' = StopActiveMonitor(FALSE)
        BY <1>6 DEF Unmount
  <2>3. QuotesInv' /\ page'.processing = page.processing
        BY <1>1, <1>2, <2>1, <2>2, PageMoves
  <2> QED BY <1>1, <2>2, <2>3, StopInv DEF PaymentInv
<1>7. ASSUME NEW n \in Payments, OrderMade(n) \/ OrderRefused(n) PROVE PaymentInv'
  <2>1. PICK d \in BOOLEAN : page' = [page EXCEPT !.dialog = d, !.processing = FALSE, !.mounted = page.mounted]
    <3>1. CASE OrderMade(n)
          BY <1>2, <3>1 DEF OrderMade, PageRow
    <3>2. CASE OrderRefused(n)
      <4>1. PICK open \in BOOLEAN : page' = [page EXCEPT !.processing = FALSE, !.dialog = @ /\ open]
            BY <3>2 DEF OrderRefused
      <4>2. PICK d \in BOOLEAN : d = (page.dialog /\ open)
            BY <1>2
      <4>3. page' = [page EXCEPT !.processing = FALSE, !.dialog = d]
            BY <4>1, <4>2
      <4> QED BY <1>2, <4>3 DEF PageRow
    <3> QED BY <1>7, <3>1, <3>2
  <2>2. UNCHANGED <<quote, quoteRef>>
        BY <1>7 DEF OrderMade, OrderRefused
  <2>3. QuotesInv'
        BY <1>1, <1>2, <2>1, <2>2, PageMoves
  <2> QED BY <1>1, <1>7, <2>3, RequestAnsweredInv DEF PaymentInv
<1>8. ASSUME NEW n \in Payments,
             Check(n) \/ StatusAnswered(n) \/ ReportResult(n) \/ ClosePayment(n) \/ SettleOrder(n)
      PROVE  PaymentInv'
  <2>1. UNCHANGED <<page, quote, quoteRef>>
        BY <1>8 DEF Check, StatusAnswered, ReportResult, ClosePayment, SettleOrder
  <2>2. QuotesInv'
        BY <1>1, <1>2, <2>1, QuotesSame
  <2> QED BY <1>1, <1>8, <2>2, CheckInv, StatusAnsweredInv, ReportResultInv, ClosePaymentInv, SettleOrderInv
          DEF PaymentInv
<1>9. CASE UNCHANGED paymentVars
      BY <1>1, <1>2, <1>9, QuotesSame, PaymentsSame DEF PaymentInv, paymentVars
<1>10. CASE ConfirmPayment
      BY <1>10, ConfirmPaymentInv
<1> QED BY <1>3, <1>4, <1>5, <1>6, <1>7, <1>8, <1>9, <1>10 DEF PaymentNext, PaymentStep

\* The invariant says what the property says.
LEMMA PaymentInvHonest == PaymentInv => PaymentHonest
<1> SUFFICES ASSUME PaymentInv PROVE PaymentHonest
    OBVIOUS
<1>1. QuotesInv /\ PaymentsTyped /\ \A n \in Payments : PaymentKept(n)
      BY DEF PaymentInv, PaymentsInv
<1>2. PaymentTypeOK
  <2>1. \A n \in Payments :
          /\ pay[n].pc \in {"none", "request", "check", "status", "result", "ended"}
          /\ pay[n].checks \in 0 .. MaxPolls /\ pay[n].grace \in -1 .. GracePolls
        BY <1>1, PayFields
  <2> QED BY <1>1, <2>1 DEF PaymentTypeOK, QuotesInv, PageRow, QuoteRow, PaymentsTyped, ServerStatus
<1> DEFINE W == {n \in Payments : /\ pay[n].pc \in {"request", "check", "status"}
                                  /\ pay[n].popup = "open" /\ ~ pay[n].aborted}
<1>3. ASSUME NEW n \in W, NEW m \in W PROVE n = m
  <2>1. n # 0 /\ m # 0
        BY DEF Payments
  <2> QED BY <1>1, <2>1 DEF PaymentKept
<1>4. Cardinality(W) <= 1
  <2> HIDE DEF W
  <2>1. CASE W = {}
        BY <2>1, FS_EmptySet
  <2>2. CASE W # {}
    <3>1. PICK n : W = {n}
          BY <1>3, <2>2
    <3> QED BY <3>1, FS_Singleton
  <2> QED BY <2>1, <2>2
<1>5. QuoteIsForInput
      BY <1>1 DEF QuotesInv
<1> QED BY <1>2, <1>4, <1>5 DEF PaymentHonest, OneWindowWatched

\* In whatever order quotes and answers come back: what the page shows is the
\* price of what is in the field, and one window at most is watched (usePayment).
THEOREM PaymentsHonest == PaymentSpec => []PaymentHonest
<1>1. PaymentInit => PaymentInv
      BY PaymentInitInv
<1>2. PaymentInv /\ [PaymentNext]_paymentVars => PaymentInv'
      BY PaymentNextInv
<1>3. PaymentInv => PaymentHonest
      BY PaymentInvHonest
<1> QED BY <1>1, <1>2, <1>3, PTL DEF PaymentSpec

\* What a step may report of a payment.
ReportsLatest ==
    \A n \in Payments : pay[n].reported # pay'[n].reported =>
         n = Latest /\ (pay'[n].reported \in {"success", "failed"} => pay'[n].reported = status[n])

\* A payment whose report stays says nothing.
LEMMA ReportKept ==
    ASSUME PaymentInv, [PaymentNext]_paymentVars
    PROVE  ReportsLatest
<1>1. PaymentsInv /\ PaymentsTyped /\ PaymentsInOrder /\ \A n \in Payments : PaymentKept(n)
      BY DEF PaymentInv, PaymentsInv
<1>2. ASSUME pay' = pay PROVE ReportsLatest
      BY <1>2 DEF ReportsLatest
<1>3. ASSUME NEW n \in Payments, ReportResult(n) PROVE ReportsLatest
  <2>1. CASE active = n
    <3>1. n = Latest /\ (pay[n].result \in {"success", "failed"} => status[n] = pay[n].result)
          BY <1>1, <2>1 DEF PaymentKept
    <3>2. pay' = [pay EXCEPT ![n].pc = "ended",
                         ![n].reported = IF pay[n].result = "cancelled" THEN "none" ELSE pay[n].result,
                         ![n].popup = IF pay[n].result = "success" THEN "closed" ELSE @]
          BY <1>3, <2>1 DEF ReportResult, IsActive
    <3>3. pay[n] \in PayRow
          BY <1>1, PayFields
    <3>4. \A m \in Payments : m # n => pay'[m] = pay[m]
          BY <1>1, <3>2 DEF PaymentsTyped
    <3>5. pay'[n].reported = IF pay[n].result = "cancelled" THEN "none" ELSE pay[n].result
          BY <1>1, <3>2, <3>3 DEF PaymentsTyped, PayRow
    <3> QED BY <3>1, <3>4, <3>5 DEF ReportsLatest
  <2>2. CASE active # n
    <3>1. pay' = [pay EXCEPT ![n].pc = "ended"]
          BY <1>3, <2>2 DEF ReportResult, IsActive
    <3>2. \A m \in Payments : pay'[m].reported = pay[m].reported
          BY <1>1, <3>1 DEF PaymentsTyped, PayRow
    <3> QED BY <3>2 DEF ReportsLatest
  <2> QED BY <2>1, <2>2
<1>4. ASSUME NEW n \in Payments,
             OrderMade(n) \/ OrderRefused(n) \/ Check(n) \/ StatusAnswered(n) \/ ClosePayment(n)
      PROVE  ReportsLatest
  <2>1. \A m \in Payments : pay'[m].reported = pay[m].reported
    <3>1. CASE OrderMade(n)
          BY <1>1, <3>1 DEF PaymentsTyped, PayRow, OrderMade
    <3>2. CASE OrderRefused(n)
          BY <1>1, <3>2 DEF PaymentsTyped, PayRow, OrderRefused
    <3>3. CASE Check(n)
          BY <1>1, <3>3 DEF PaymentsTyped, PayRow, Check, CheckLoop, Ended
    <3>4. CASE StatusAnswered(n)
          BY <1>1, <3>4 DEF PaymentsTyped, PayRow, StatusAnswered, Ended
    <3>5. CASE ClosePayment(n)
          BY <1>1, <3>5 DEF PaymentsTyped, PayRow, ClosePayment
    <3> QED BY <1>4, <3>1, <3>2, <3>3, <3>4, <3>5
  <2> QED BY <2>1 DEF ReportsLatest
<1>5. CASE Unmount
  <2>1. \A m \in Payments : pay'[m].reported = pay[m].reported
        BY <1>1, <1>5, Stopped DEF Unmount
  <2> QED BY <2>1 DEF ReportsLatest
<1>6. CASE ConfirmPayment
  <2>1. /\ StopActiveMonitor(TRUE) \in [Payments -> PayRow]
        /\ \A m \in Payments : StopActiveMonitor(TRUE)[m].reported = pay[m].reported
        BY <1>1, Stopped
  <2>2. pay' = StopActiveMonitor(TRUE) \/ pay' = WithNext
        BY <1>6 DEF ConfirmPayment, WithNext
  <2>3. \A m \in Payments : WithNext[m].reported = StopActiveMonitor(TRUE)[m].reported
    <3>1. PICK base \in [Payments -> PayRow] : base = StopActiveMonitor(TRUE)
          BY <2>1
    <3>2. PICK new : new = Latest + 1
          OBVIOUS
    <3>3. WithNext = [base EXCEPT ![new].pc = "request", ![new].popup = "open"]
          BY <3>1, <3>2 DEF WithNext
    <3>4. \A m \in Payments : [base EXCEPT ![new].pc = "request", ![new].popup = "open"][m].reported = base[m].reported
          BY DEF PayRow
    <3> QED BY <3>1, <3>3, <3>4
  <2> QED BY <2>1, <2>2, <2>3 DEF ReportsLatest
<1>7. ASSUME \/ SelectMethod \/ CancelDialog
             \/ \E amount \in Amounts \cup {0} : EditAmount(amount)
             \/ \E q \in 1 .. MaxQuotes : QuoteAnswered(q)
             \/ \E n \in Payments : SettleOrder(n)
             \/ UNCHANGED paymentVars
      PROVE  pay' = pay
      BY <1>7 DEF SelectMethod, CancelDialog, EditAmount, QuoteAnswered, SettleOrder, Ask, paymentVars
<1> QED BY <1>2, <1>3, <1>4, <1>5, <1>6, <1>7 DEF PaymentNext, PaymentStep

\* A verdict is reported only of the latest payment, and is the server's, however
\* late the polls of earlier windows come back (monitorPaymentWindow).
THEOREM OnlyLatestReported == PaymentSpec => OnlyLatestReports
<1>1. PaymentInit => PaymentInv
      BY PaymentInitInv
<1>2. PaymentInv /\ [PaymentNext]_paymentVars => PaymentInv'
      BY PaymentNextInv
<1>3. PaymentInv /\ [PaymentNext]_paymentVars => [ReportsLatest]_paymentVars
      BY ReportKept
<1>4. OnlyLatestReports <=> [][ReportsLatest]_paymentVars
      BY DEF OnlyLatestReports, ReportsLatest
<1> QED BY <1>1, <1>2, <1>3, <1>4, PTL DEF PaymentSpec

-----------------------------------------------------------------------------
(* The checkout dialog: its inductive invariant. *)

\* A request under way or an open payment has an order.
BooksOpen ==
    \A o \in Orders : requests[o] > 0 \/ gateway[o] # "none" => order[o].status # "none"

\* An order the user could pay.
Payable(o) == gateway[o] # "none" /\ order[o].status = "pending"

\* The verdict that the monitor returned is the server's.
ResultIsTrue ==
    /\ ui.result = "success" => order[ui.pendingOrder].status = "success"
    /\ ui.result = "failed" => order[ui.pendingOrder].status = "expired"
    /\ ui.result = "review" => order[ui.pendingOrder].status = "paid_review"

\* Where the confirmation stands.
UiKept ==
    /\ ui.pc \in {"request", "answer"} => /\ ui.method \in Methods /\ Asked \in Orders
                                          /\ ui.pendingOrder = None
    /\ ui.pc = "answer" => requests[Asked] > 0
    /\ ui.pc = "balance" => ui.method = "balance"
    /\ ui.pc \in {"monitor", "result"} => ui.method \in Methods /\ ui.pendingOrder \in Orders
    /\ ui.pc = "monitor" => ui.checks < MaxChecks
    /\ ui.pc = "result" => ResultIsTrue
    /\ ui.paid \/ ui.review => ui.pc = "idle"

\* The only order to pay is the one the dialog remembers.
PayableKnown == \A o \in Orders : Payable(o) => o = ui.pendingOrder

CheckoutInv ==
    /\ OrdersInv
    /\ BooksOpen
    /\ CheckoutTypeOK
    /\ UiKept
    /\ ShownIsTrue
    /\ PayableKnown

-----------------------------------------------------------------------------
(* What the server does meanwhile. *)

Settled == {"success", "expired", "paid_review"}

\* Rows stay, a settled order stays as it is, and no order becomes payable.
ServerStep ==
    /\ OrdersInv' /\ BooksOpen' /\ RowsKept
    /\ \A o \in Orders : order[o].status \in Settled => order'[o].status = order[o].status

NonePayable == \A o \in Orders : Payable(o)' => Payable(o)

\* Nothing happens on the server.
LEMMA ServerRests ==
    ASSUME OrdersInv, BooksOpen, UNCHANGED vars
    PROVE  ServerStep /\ NonePayable
<1>1. OrdersInv'
      BY OrdersNextInv
<1>2. RowsKept
      BY SameRowsKept DEF OrdersInv, vars
<1> QED BY <1>1, <1>2 DEF ServerStep, NonePayable, BooksOpen, Payable, vars

\* An order is created under a new trade number.
LEMMA ServerCreate ==
    ASSUME OrdersInv, BooksOpen, NEW o \in Orders, NEW p \in Plans, CreateOrder(o, p)
    PROVE  ServerStep /\ NonePayable /\ requests'[o] > 0
<1>1. OrdersInv' /\ RowsKept /\ TypeOK
      BY CreateOrderInv, SameRowsKept DEF OrdersInv, CreateOrder
<1>2. order[o].status = "none" /\ gateway' = gateway /\ gateway[o] = "none"
      BY DEF CreateOrder, BooksOpen
<1>3. order'[o].status = "pending" /\ \A x \in Orders : x # o => order'[x] = order[x]
      BY <1>1 DEF CreateOrder, TypeOK
<1>4. requests[o] \in Nat /\ requests'[o] = requests[o] + 1 /\ \A x \in Orders : x # o => requests'[x] = requests[x]
      BY <1>1, BoundsNat DEF CreateOrder, TypeOK
<1>5. BooksOpen'
      BY <1>2, <1>3, <1>4 DEF BooksOpen
<1>6. NonePayable
      BY <1>2, <1>3 DEF NonePayable, Payable
<1> QED BY <1>1, <1>2, <1>3, <1>4, <1>5, <1>6 DEF ServerStep, Settled

\* The requests under way change.
LEMMA ServerCounts ==
    ASSUME OrdersInv, BooksOpen, OrdersInv', NEW o \in Orders, order[o].status # "none",
           NEW k, requests' = [requests EXCEPT ![o] = k],
           UNCHANGED <<subs, order, gateway>>
    PROVE  ServerStep /\ NonePayable /\ requests'[o] = k
<1>1. RowsKept /\ TypeOK
      BY SameRowsKept DEF OrdersInv
<1>2. requests'[o] = k /\ \A x \in Orders : x # o => requests'[x] = requests[x]
      BY <1>1 DEF TypeOK
<1>3. BooksOpen'
      BY <1>2 DEF BooksOpen
<1> QED BY <1>1, <1>2, <1>3 DEF ServerStep, NonePayable, Payable

\* A request is repeated.
LEMMA ServerRepeat ==
    ASSUME OrdersInv, BooksOpen, NEW o \in Orders, RepeatOrder(o)
    PROVE  ServerStep /\ NonePayable /\ requests'[o] > 0
<1>1. OrdersInv' /\ TypeOK
      BY QuietStepsInv DEF OrdersInv
<1>2. /\ order[o].status # "none" /\ requests' = [requests EXCEPT ![o] = requests[o] + 1]
      /\ UNCHANGED <<subs, order, gateway>>
      BY DEF RepeatOrder, books
<1>3. requests[o] + 1 > 0
      BY <1>1, BoundsNat DEF TypeOK
<1>4. ServerStep /\ NonePayable /\ requests'[o] = requests[o] + 1
      BY <1>1, <1>2, ServerCounts
<1> QED BY <1>3, <1>4

\* A request is over without effect.
LEMMA ServerForgets ==
    ASSUME OrdersInv, BooksOpen, NEW o \in Orders, requests[o] > 0,
           requests' = [requests EXCEPT ![o] = @ - 1],
           UNCHANGED <<world, subs, books, gateway, binding, binds>>
    PROVE  ServerStep /\ NonePayable
<1>1. TypeOK /\ requests[o] \in 0 .. MaxRequests /\ now \in Nat /\ subs \in Seq(SubRow)
      BY BoundsNat DEF OrdersInv, TypeOK
<1>2. requests' \in [Orders -> 0 .. MaxRequests]
      BY <1>1, BoundsNat DEF TypeOK
<1>3. OrdersInv'
      BY <1>1, <1>2, QuietInv DEF TypeOK, world, books, Ids
<1>4. order[o].status # "none"
      BY DEF BooksOpen
<1> QED BY <1>3, <1>4, ServerCounts DEF books

\* The payment form is submitted.
LEMMA ServerOpens ==
    ASSUME OrdersInv, BooksOpen, NEW o \in Orders, OpenGateway(o)
    PROVE  ServerStep /\ \A x \in Orders : Payable(x)' => Payable(x) \/ x = o
<1>1. OrdersInv' /\ TypeOK
      BY QuietStepsInv DEF OrdersInv
<1>2. RowsKept /\ order' = order
      BY <1>1, SameRowsKept DEF OpenGateway, books
<1>3. \A x \in Orders : x # o => requests'[x] = requests[x] /\ gateway'[x] = gateway[x]
      BY <1>1 DEF OpenGateway, TypeOK
<1>4. order[o].status # "none"
      BY DEF OpenGateway, BooksOpen
<1>5. BooksOpen'
      BY <1>2, <1>3, <1>4 DEF BooksOpen
<1> QED BY <1>1, <1>2, <1>3, <1>5 DEF ServerStep, Payable

\* A request fails and gives its order up.
LEMMA ServerExpires ==
    ASSUME OrdersInv, BooksOpen, NEW o \in Orders, ExpireOrder(o)
    PROVE  ServerStep /\ NonePayable
<1>1. OrdersInv' /\ TypeOK
      BY ExpireOrderInv DEF OrdersInv
<1>2. RowsKept /\ gateway' = gateway
      BY <1>1, SameRowsKept DEF ExpireOrder
<1>3. /\ \A x \in Orders : x # o => order'[x] = order[x] /\ requests'[x] = requests[x]
      /\ IF order[o].status = "pending" THEN order'[o].status = "expired" ELSE order'[o] = order[o]
      BY <1>1 DEF ExpireOrder, TypeOK, OrderRow, books
<1>4. order[o].status # "none"
      BY DEF ExpireOrder, BooksOpen
<1>5. BooksOpen'
      BY <1>2, <1>3, <1>4 DEF BooksOpen
<1>6. NonePayable
      BY <1>2, <1>3 DEF NonePayable, Payable
<1>7. \A x \in Orders : order[x].status \in Settled => order'[x].status = order[x].status
      BY <1>3 DEF Settled
<1> QED BY <1>1, <1>2, <1>5, <1>6, <1>7 DEF ServerStep

\* The user pays.
LEMMA ServerPays ==
    ASSUME OrdersInv, BooksOpen, NEW o \in Orders, Pay(o)
    PROVE  ServerStep /\ NonePayable /\ requests' = requests
<1>1. OrdersInv' /\ TypeOK
      BY QuietStepsInv DEF OrdersInv
<1>2. RowsKept /\ order' = order /\ requests' = requests /\ gateway[o] = "open"
      BY <1>1, SameRowsKept DEF Pay, books
<1>3. \A x \in Orders : x # o => gateway'[x] = gateway[x]
      BY <1>1 DEF Pay, TypeOK
<1>4. BooksOpen'
      BY <1>2, <1>3 DEF BooksOpen
<1>5. NonePayable
      BY <1>2, <1>3 DEF NonePayable, Payable
<1> QED BY <1>1, <1>2, <1>4, <1>5 DEF ServerStep

\* A payment is reported.
LEMMA ServerCompletes ==
    ASSUME OrdersInv, BooksOpen, NEW o \in Orders, CompleteOrder(o)
    PROVE  ServerStep /\ NonePayable /\ requests' = requests
<1>1. OrdersInv' /\ TypeOK /\ order[o] \in OrderRow
      BY ReviewInv, GrantInv DEF OrdersInv, CompleteOrder, TypeOK
<1>2. order[o].status = "pending" /\ gateway' = gateway /\ requests' = requests
      BY DEF CompleteOrder, Settles
<1>3. /\ \A x \in Orders : x # o => order'[x] = order[x]
      /\ order'[o].status \in {"paid_review", "success"}
      BY <1>1 DEF CompleteOrder, Review, Grant, TypeOK, OrderRow
<1>4. RowsKept
  <2>1. CASE Review(o)
        BY <1>1, <2>1, SameRowsKept DEF Review
  <2>2. CASE Grant(o)
    <3>1. subs' = Granted(order[o].plan, order[o].version, o, Selected) /\ Len(subs) < MaxSubs
          BY <2>2 DEF Grant, PaidVersion
    <3>2. order[o].plan \in Plans /\ order[o].version \in Nat
          BY <1>1, <1>2 DEF OrdersInv, OrderKept, OrderRow
    <3>3. Selected \in SUBSET Ids
          BY <1>1, CurrentSelected
    <3>4. RowAdded(order[o].plan, o, Selected)
          BY <1>1, <3>1, <3>2, <3>3, GrantAdds
    <3> QED BY <3>4 DEF RowAdded
  <2> QED BY <2>1, <2>2 DEF CompleteOrder
<1>5. BooksOpen'
      BY <1>2, <1>3 DEF BooksOpen
<1>6. NonePayable
      BY <1>2, <1>3 DEF NonePayable, Payable
<1>7. \A x \in Orders : order[x].status \in Settled => order'[x].status = order[x].status
      BY <1>2, <1>3 DEF Settled
<1> QED BY <1>1, <1>2, <1>4, <1>5, <1>6, <1>7 DEF ServerStep

\* A purchase from the wallet.
LEMMA ServerSells ==
    ASSUME OrdersInv, BooksOpen, NEW p \in Plans, PurchaseWithBalance(p)
    PROVE  ServerStep /\ NonePayable /\ requests' = requests /\ \E i \in Ids' : subs'[i].by = "balance"
<1>1. OrdersInv' /\ TypeOK
      BY PurchaseWithBalanceInv DEF OrdersInv
<1>2. UNCHANGED <<order, gateway, requests>>
      BY DEF PurchaseWithBalance, books
<1>3. subs' = Granted(p, version[p], "balance", Selected) /\ Len(subs) < MaxSubs
      BY DEF PurchaseWithBalance
<1>4. version[p] \in Nat /\ Len(subs) \in Nat
      BY <1>1, BoundsNat, LenProperties DEF TypeOK
<1>5. Selected \in SUBSET Ids
      BY <1>1, CurrentSelected
<1>6. RowAdded(p, "balance", Selected)
      BY <1>1, <1>3, <1>4, <1>5, GrantAdds
<1>7. RowsKept /\ Len(subs') \in Ids' /\ subs'[Len(subs')].by = "balance"
      BY <1>4, <1>6 DEF RowAdded, Ids
<1> QED BY <1>1, <1>2, <1>7 DEF ServerStep, NonePayable, BooksOpen, Payable

-----------------------------------------------------------------------------
(* What the dialog does. *)

\* What is shown stays true, as rows stay and settled orders do.
LEMMA ShownStays ==
    ASSUME CheckoutInv, ServerStep, ui'.paid => ui.paid, ui'.review => ui.review,
           ui.paid \/ ui.review => ui'.method = ui.method /\ ui'.pendingOrder = ui.pendingOrder
    PROVE  ShownIsTrue'
<1>1. Ids \subseteq Ids' /\ \A i \in Ids : subs'[i].by = subs[i].by
  <2>1. Len(subs) \in Nat /\ Len(subs') \in Nat /\ RowsKept
        BY LenProperties DEF CheckoutInv, OrdersInv, TypeOK, ServerStep
  <2> QED BY <2>1 DEF RowsKept, Ids
<1>2. \A o \in Orders : /\ order[o].status = "success" => order'[o].status = "success"
                        /\ order[o].status = "paid_review" => order'[o].status = "paid_review"
      BY DEF ServerStep, Settled
<1>3. CheckoutInv => ShownIsTrue
      BY DEF CheckoutInv
<1>4. ASSUME ui'.paid
      PROVE  IF ui'.method = "balance" THEN \E i \in Ids' : subs'[i].by = "balance"
             ELSE \E o \in Orders : o = ui'.pendingOrder /\ order'[o].status = "success"
      BY <1>1, <1>2, <1>3, <1>4 DEF ShownIsTrue
<1>5. ASSUME ui'.review
      PROVE  \E o \in Orders : o = ui'.pendingOrder /\ order'[o].status = "paid_review"
      BY <1>2, <1>3, <1>5 DEF ShownIsTrue
<1> QED BY <1>4, <1>5 DEF ShownIsTrue

\* A step of the dialog that shows nothing new.
LEMMA UiMoves ==
    ASSUME CheckoutInv, ServerStep, ui' \in UiRow, requestIds' \in [Methods -> Orders \cup {None}],
           ui'.paid => ui.paid, ui'.review => ui.review,
           ui.paid \/ ui.review => ui'.method = ui.method /\ ui'.pendingOrder = ui.pendingOrder,
           NonePayable, ui.pendingOrder # None => ui'.pendingOrder = ui.pendingOrder, UiKept'
    PROVE  CheckoutInv'
<1>1. ShownIsTrue'
      BY ShownStays
<1>2. PayableKnown'
      BY CheckoutAssumptions DEF NonePayable, CheckoutInv, PayableKnown
<1> QED BY <1>1, <1>2 DEF CheckoutInv, CheckoutTypeOK, ServerStep

\* The fields of the dialog's state.
LEMMA UiFields ==
    ASSUME CheckoutInv
    PROVE  /\ ui \in UiRow /\ requestIds \in [Methods -> Orders \cup {None}]
           /\ ui.pc \in {"idle", "request", "answer", "balance", "monitor", "result"}
           /\ ui.method \in Methods \cup {"balance"} /\ ui.pendingOrder \in Orders \cup {None}
           /\ ui.checks \in 0 .. MaxChecks /\ ui.grace \in -1 .. GraceChecks
           /\ ui.paid \in BOOLEAN /\ ui.review \in BOOLEAN
           /\ ui.result \in {"none", "success", "failed", "review", "pending", "cancelled"}
           /\ OrdersInv /\ BooksOpen /\ UiKept
<1>1. ui \in UiRow /\ requestIds \in [Methods -> Orders \cup {None}]
      BY DEF CheckoutInv, CheckoutTypeOK
<1> QED BY <1>1 DEF UiRow, Running, CheckoutInv

\* The confirmation throws.
LEMMA FailedFields ==
    ASSUME NEW row \in UiRow
    PROVE  /\ Failed(row) \in UiRow /\ Failed(row).pc = "idle" /\ Failed(row).paid = row.paid
           /\ Failed(row).review = row.review /\ Failed(row).method = row.method
           /\ Failed(row).pendingOrder = row.pendingOrder
BY DEF Failed, UiRow

\* A dialog that waits for nothing has little to keep.
LEMMA IdleKept ==
    ASSUME \/ ui'.pc = "idle"
           \/ ui'.pc = "balance" /\ ui'.method = "balance" /\ ~ ui'.paid /\ ~ ui'.review
    PROVE  UiKept'
BY DEF UiKept

\* A confirmation ends in an error, whatever became of the request.
LEMMA ThrowInv ==
    ASSUME CheckoutInv, ServerStep, NonePayable, NEW row \in UiRow, ui' = Failed(row),
           requestIds' \in [Methods -> Orders \cup {None}],
           row.paid = ui.paid, row.review = ui.review, row.method = ui.method,
           row.pendingOrder = ui.pendingOrder
    PROVE  CheckoutInv'
<1>1. /\ ui' \in UiRow /\ ui'.pc = "idle" /\ ui'.paid = ui.paid /\ ui'.review = ui.review
      /\ ui'.method = ui.method /\ ui'.pendingOrder = ui.pendingOrder
      BY FailedFields
<1>2. UiKept'
      BY <1>1, IdleKept
<1> QED BY <1>1, <1>2, UiMoves

\* The user confirms.
LEMMA ConfirmInv ==
    ASSUME CheckoutInv, NEW m \in Methods \cup {"balance"}, Confirm(m)
    PROVE  CheckoutInv'
<1>1. ServerStep /\ NonePayable
      BY UiFields, ServerRests DEF Confirm
<1>2. /\ ui.pc = "idle" /\ ~ ui.paid /\ ~ ui.review /\ ui \in UiRow
      /\ ui.pendingOrder \in Orders \cup {None} /\ requestIds \in [Methods -> Orders \cup {None}]
      BY UiFields DEF Confirm
<1> DEFINE row == [ui EXCEPT !.running = TRUE, !.locked = TRUE, !.method = m]
<1>3. /\ row \in UiRow /\ row.method = m /\ row.paid = ui.paid /\ row.review = ui.review
      /\ row.pendingOrder = ui.pendingOrder
      BY <1>2 DEF UiRow
<1>4. CASE m = "balance" /\ ui' = [row EXCEPT !.pc = "balance"] /\ UNCHANGED requestIds
  <2> HIDE DEF row
  <2>1. /\ ui' \in UiRow /\ ui'.paid = ui.paid /\ ui'.review = ui.review /\ ui'.pc = "balance"
        /\ ui'.pendingOrder = ui.pendingOrder /\ ui'.method = "balance"
        BY <1>3, <1>4 DEF UiRow, Running
  <2>2. UiKept'
        BY <1>2, <2>1, IdleKept
  <2> QED BY <1>1, <1>2, <1>4, <2>1, <2>2, UiMoves
<1>5. CASE /\ m # "balance" /\ ui.pendingOrder # None
           /\ ui' = [row EXCEPT !.pc = "monitor", !.checks = 0, !.grace = -1]
           /\ UNCHANGED requestIds
  <2> HIDE DEF row
  <2>1. 0 \in 0 .. MaxChecks /\ -1 \in -1 .. GraceChecks /\ 0 < MaxChecks
        BY CheckoutAssumptions
  <2>2. /\ ui' \in UiRow /\ ui'.paid = ui.paid /\ ui'.review = ui.review /\ ui'.pc = "monitor"
        /\ ui'.pendingOrder = ui.pendingOrder /\ ui'.method = m /\ ui'.checks = 0
        BY <1>3, <1>5, <2>1 DEF UiRow, Running
  <2>3. UiKept'
        BY <1>2, <1>5, <2>1, <2>2 DEF UiKept
  <2> QED BY <1>1, <1>2, <1>5, <2>2, <2>3, UiMoves
<1>6. CASE /\ m # "balance" /\ ui.pendingOrder = None
           /\ ui' = [row EXCEPT !.pc = "request", !.popup = "open"]
           /\ \E o \in Orders : requestIds' = [requestIds EXCEPT ![m] = o]
  <2> HIDE DEF row
  <2>1. /\ ui' \in UiRow /\ ui'.paid = ui.paid /\ ui'.review = ui.review /\ ui'.pc = "request"
        /\ ui'.pendingOrder = ui.pendingOrder /\ ui'.method = m
        BY <1>3, <1>6 DEF UiRow, Running
  <2>2. m \in Methods /\ requestIds' \in [Methods -> Orders \cup {None}] /\ requestIds'[m] \in Orders
        BY <1>2, <1>6
  <2>3. UiKept'
        BY <1>2, <1>6, <2>1, <2>2 DEF UiKept, Asked
  <2> QED BY <1>1, <1>2, <2>1, <2>2, <2>3, UiMoves
<1>7. \/ m = "balance" /\ ui' = [row EXCEPT !.pc = "balance"] /\ UNCHANGED requestIds
      \/ /\ m # "balance" /\ ui.pendingOrder # None
         /\ ui' = [row EXCEPT !.pc = "monitor", !.checks = 0, !.grace = -1]
         /\ UNCHANGED requestIds
      \/ /\ m # "balance" /\ ui.pendingOrder = None
         /\ ui' = [row EXCEPT !.pc = "request", !.popup = "open"]
         /\ \E o \in Orders : requestIds' = [requestIds EXCEPT ![m] = o]
      BY Zenon DEF Confirm
<1> QED BY <1>4, <1>5, <1>6, <1>7

\* The order is created, or found pending.
LEMMA ServerCreatesInv ==
    ASSUME CheckoutInv, ServerCreates
    PROVE  CheckoutInv'
<1>1. /\ OrdersInv /\ BooksOpen /\ UiKept /\ ui.pc = "request" /\ ui \in UiRow
      /\ requestIds \in [Methods -> Orders \cup {None}]
      BY UiFields DEF ServerCreates
<1>2. Asked \in Orders /\ ui.method \in Methods /\ ui.pendingOrder = None /\ ~ ui.paid /\ ~ ui.review
      BY <1>1 DEF UiKept
<1>3. ServerStep /\ NonePayable /\ requests'[Asked] > 0
  <2>1. PICK o \in Orders : o = Asked
        BY <1>2
  <2>2. CASE CreateOrder(o, Plan)
        BY <1>1, <2>1, <2>2, ServerCreate, CheckoutAssumptions
  <2>3. CASE RepeatOrder(o)
        BY <1>1, <2>1, <2>3, ServerRepeat
  <2> QED BY <2>1, <2>2, <2>3 DEF ServerCreates
<1>4. ui' = [ui EXCEPT !.pc = "answer"] /\ requestIds' = requestIds
      BY DEF ServerCreates
<1>5. /\ ui' \in UiRow /\ ui'.paid = ui.paid /\ ui'.review = ui.review /\ ui'.pc = "answer"
      /\ ui'.pendingOrder = ui.pendingOrder /\ ui'.method = ui.method
      BY <1>1, <1>4 DEF UiRow, Running
<1>6. Asked' = Asked
      BY <1>4, <1>5 DEF Asked
<1>7. UiKept'
      BY <1>2, <1>3, <1>5, <1>6 DEF UiKept
<1> QED BY <1>1, <1>3, <1>4, <1>5, <1>7, UiMoves

\* The server refuses, or the request fails, or is lost.
LEMMA RequestFailsInv ==
    ASSUME CheckoutInv, ServerRefuses \/ ServerFails \/ RequestLost
    PROVE  CheckoutInv'
<1>1. /\ OrdersInv /\ BooksOpen /\ UiKept /\ ui.pc \in {"request", "answer"} /\ ui \in UiRow
      /\ requestIds \in [Methods -> Orders \cup {None}]
      BY UiFields DEF ServerRefuses, ServerFails, RequestLost
<1>2. Asked \in Orders /\ ui.method \in Methods
      BY <1>1 DEF UiKept
<1>3. PICK o \in Orders : o = Asked
      BY <1>2
<1>4. ServerStep /\ NonePayable
  <2>1. CASE UNCHANGED vars
        BY <1>1, <2>1, ServerRests
  <2>2. CASE ServerFails
        BY <1>1, <1>3, <2>2, ServerExpires DEF ServerFails
  <2>3. CASE RequestLost /\ ui.pc = "answer"
    <3>1. requests[o] > 0
          BY <1>1, <1>3, <2>3 DEF UiKept
    <3>2. requests' = [requests EXCEPT ![o] = @ - 1] /\ UNCHANGED <<world, subs, books, gateway, binding, binds>>
          BY <1>3, <2>3 DEF RequestLost
    <3> QED BY <1>1, <3>1, <3>2, ServerForgets
  <2>4. RequestLost /\ ui.pc # "answer" => UNCHANGED vars
        BY DEF RequestLost, vars, world, books
  <2>5. ServerRefuses => UNCHANGED vars
        BY DEF ServerRefuses
  <2> QED BY <2>1, <2>2, <2>3, <2>4, <2>5
<1>5. CASE Refused
  <2> DEFINE row == [ui EXCEPT !.popup = "closed"]
  <2>1. /\ row \in UiRow /\ row.paid = ui.paid /\ row.review = ui.review /\ row.method = ui.method
        /\ row.pendingOrder = ui.pendingOrder
        BY <1>1 DEF UiRow
  <2>2. ui' = Failed(row) /\ requestIds' = [requestIds EXCEPT ![ui.method] = None]
        BY <1>5 DEF Refused
  <2>3. requestIds' \in [Methods -> Orders \cup {None}]
        BY <1>1, <1>2, <2>2
  <2> HIDE DEF row
  <2> QED BY <1>4, <2>1, <2>2, <2>3, ThrowInv
<1>6. CASE RequestLost
  <2>1. ui' = Failed(ui) /\ requestIds' = requestIds
        BY <1>6 DEF RequestLost
  <2> QED BY <1>1, <1>4, <2>1, ThrowInv
<1> QED BY <1>5, <1>6 DEF ServerRefuses, ServerFails

\* The answer arrives: the order becomes the one to pay, or nothing is opened.
LEMMA SubmitPaymentFormInv ==
    ASSUME CheckoutInv, SubmitPaymentForm
    PROVE  CheckoutInv'
<1>1. /\ OrdersInv /\ BooksOpen /\ UiKept /\ ui.pc = "answer" /\ ui \in UiRow
      /\ requestIds \in [Methods -> Orders \cup {None}]
      BY UiFields DEF SubmitPaymentForm
<1>2. /\ Asked \in Orders /\ ui.method \in Methods /\ ui.pendingOrder = None /\ requests[Asked] > 0
      /\ ~ ui.paid /\ ~ ui.review
      BY <1>1 DEF UiKept
<1>3. PICK o \in Orders : o = Asked
      BY <1>2
<1>4. requestIds' = requestIds
      BY DEF SubmitPaymentForm
<1>5. CASE OpenGateway(Asked) /\ ui' = [ui EXCEPT !.pc = "monitor", !.pendingOrder = Asked,
                                                  !.checks = 0, !.grace = -1]
  <2>1. ServerStep /\ \A x \in Orders : Payable(x)' => Payable(x) \/ x = o
        BY <1>1, <1>3, <1>5, ServerOpens
  <2>2. 0 \in 0 .. MaxChecks /\ -1 \in -1 .. GraceChecks /\ 0 < MaxChecks
        BY CheckoutAssumptions
  <2>3. ui' = [ui EXCEPT !.pc = "monitor", !.pendingOrder = o, !.checks = 0, !.grace = -1]
        BY <1>3, <1>5
  <2>4. /\ ui' \in UiRow /\ ui'.paid = ui.paid /\ ui'.review = ui.review /\ ui'.pc = "monitor"
        /\ ui'.pendingOrder = o /\ ui'.method = ui.method /\ ui'.checks = 0
        BY <1>1, <2>2, <2>3 DEF UiRow, Running
  <2>5. UiKept'
        BY <1>2, <2>2, <2>4 DEF UiKept
  <2>6. \A x \in Orders : ~ Payable(x)
        BY <1>2, CheckoutAssumptions DEF CheckoutInv, PayableKnown
  <2>7. PayableKnown'
        BY <2>1, <2>4, <2>6 DEF PayableKnown
  <2>8. ShownIsTrue'
        BY <1>2, <2>1, <2>4, ShownStays
  <2> QED BY <1>1, <1>4, <2>1, <2>4, <2>5, <2>7, <2>8 DEF CheckoutInv, CheckoutTypeOK, ServerStep
<1>6. CASE /\ ui' = Failed(ui) /\ requests' = [requests EXCEPT ![Asked] = @ - 1]
           /\ UNCHANGED <<world, subs, books, gateway, binding, binds>>
  <2>1. requests' = [requests EXCEPT ![o] = @ - 1] /\ requests[o] > 0
        BY <1>2, <1>3, <1>6
  <2>2. ServerStep /\ NonePayable
        BY <1>1, <1>6, <2>1, ServerForgets
  <2> QED BY <1>1, <1>4, <1>6, <2>2, ThrowInv
<1> QED BY <1>5, <1>6 DEF SubmitPaymentForm

\* One poll that decided nothing.
LEMMA NextCheckFields ==
    ASSUME CheckoutInv, ui.pc = "monitor"
    PROVE  /\ NextCheck \in UiRow /\ NextCheck.paid = ui.paid /\ NextCheck.review = ui.review
           /\ NextCheck.method = ui.method /\ NextCheck.pendingOrder = ui.pendingOrder
           /\ \/ NextCheck.pc = "monitor" /\ NextCheck.checks < MaxChecks
              \/ NextCheck.pc = "result" /\ NextCheck.result = "pending"
<1>1. /\ ui \in UiRow /\ ui.checks \in 0 .. MaxChecks /\ ui.checks < MaxChecks
      /\ MaxChecks \in Nat /\ GraceChecks \in Nat /\ ui.grace \in -1 .. GraceChecks
      BY UiFields, CheckoutAssumptions DEF UiKept
<1>2. ui.checks + 1 \in 0 .. MaxChecks
      BY <1>1
<1> DEFINE row == [ui EXCEPT !.checks = @ + 1]
<1>3. /\ row \in UiRow /\ row.paid = ui.paid /\ row.review = ui.review /\ row.method = ui.method
      /\ row.pendingOrder = ui.pendingOrder /\ row.pc = "monitor" /\ row.checks = ui.checks + 1
      /\ row.grace = ui.grace
      BY <1>1, <1>2 DEF UiRow
<1> DEFINE over == [row EXCEPT !.pc = "result", !.result = "pending"]
           later == [row EXCEPT !.grace = IF @ = -1 THEN GraceChecks ELSE @ - 1]
<1>4. NextCheck = IF ui.popup # "closed" THEN (IF ui.checks + 1 >= MaxChecks THEN over ELSE row)
                  ELSE IF ui.grace = 0 \/ ui.checks + 1 >= MaxChecks THEN over ELSE later
      BY DEF NextCheck
<1> HIDE DEF row
<1>5. /\ over \in UiRow /\ over.paid = ui.paid /\ over.review = ui.review /\ over.method = ui.method
      /\ over.pendingOrder = ui.pendingOrder /\ over.pc = "result" /\ over.result = "pending"
      BY <1>3 DEF UiRow, Running
<1>6. ui.grace # 0 => (IF row.grace = -1 THEN GraceChecks ELSE row.grace - 1) \in -1 .. GraceChecks
      BY <1>1, <1>3
<1>7. ui.grace # 0 =>
        /\ later \in UiRow /\ later.paid = ui.paid /\ later.review = ui.review
        /\ later.method = ui.method /\ later.pendingOrder = ui.pendingOrder /\ later.pc = "monitor"
        /\ later.checks = ui.checks + 1
      BY <1>3, <1>6 DEF UiRow
<1> HIDE DEF over, later
<1> QED BY <1>1, <1>3, <1>4, <1>5, <1>7

\* One round of the monitor.
LEMMA PollInv ==
    ASSUME CheckoutInv, Poll
    PROVE  CheckoutInv'
<1>1. /\ OrdersInv /\ BooksOpen /\ UiKept /\ ui.pc = "monitor" /\ ui \in UiRow
      /\ requestIds \in [Methods -> Orders \cup {None}]
      BY UiFields DEF Poll
<1>2. /\ ui.method \in Methods /\ ui.pendingOrder \in Orders /\ ~ ui.paid /\ ~ ui.review
      BY <1>1 DEF UiKept
<1>3. ServerStep /\ NonePayable /\ order' = order /\ requestIds' = requestIds
      BY <1>1, ServerRests DEF Poll, vars
<1>4. ASSUME NEW r \in {"success", "failed", "review", "cancelled"},
             ui' = [ui EXCEPT !.pc = "result", !.result = r],
             r # "cancelled" => r = Verdict(ui.pendingOrder)
      PROVE  CheckoutInv'
  <2>1. /\ ui' \in UiRow /\ ui'.paid = ui.paid /\ ui'.review = ui.review /\ ui'.pc = "result"
        /\ ui'.pendingOrder = ui.pendingOrder /\ ui'.method = ui.method /\ ui'.result = r
        BY <1>1, <1>4 DEF UiRow, Running
  <2>2. /\ r = "success" => order[ui.pendingOrder].status = "success"
        /\ r = "failed" => order[ui.pendingOrder].status = "expired"
        /\ r = "review" => order[ui.pendingOrder].status = "paid_review"
        BY <1>4 DEF Verdict
  <2>3. UiKept'
        BY <1>2, <1>3, <2>1, <2>2 DEF UiKept, ResultIsTrue
  <2> QED BY <1>1, <1>3, <2>1, <2>3, UiMoves
<1>5. CASE ui' = NextCheck
  <2>1. /\ ui' \in UiRow /\ ui'.paid = ui.paid /\ ui'.review = ui.review
        /\ ui'.method = ui.method /\ ui'.pendingOrder = ui.pendingOrder
        /\ \/ ui'.pc = "monitor" /\ ui'.checks < MaxChecks
           \/ ui'.pc = "result" /\ ui'.result = "pending"
        BY <1>1, <1>5, NextCheckFields
  <2>2. UiKept'
        BY <1>2, <2>1 DEF UiKept, ResultIsTrue
  <2> QED BY <1>1, <1>3, <2>1, <2>2, UiMoves
<1>6. Verdict(ui.pendingOrder) \in {"none", "success", "failed", "review"}
      BY DEF Verdict
<1> QED BY <1>4, <1>5, <1>6 DEF Poll

\* The monitor's result is handled.
LEMMA HandleResultInv ==
    ASSUME CheckoutInv, HandleResult
    PROVE  CheckoutInv'
<1>1. /\ OrdersInv /\ BooksOpen /\ UiKept /\ ui.pc = "result" /\ ui \in UiRow
      /\ requestIds \in [Methods -> Orders \cup {None}] /\ ResultIsTrue
      BY UiFields DEF HandleResult, UiKept
<1>2. ui.method \in Methods /\ ui.pendingOrder \in Orders /\ ui.paid = FALSE /\ ui.review = FALSE
      BY <1>1, UiFields DEF UiKept
<1>3. ServerStep /\ NonePayable /\ order' = order /\ requestIds' = requestIds
      BY <1>1, ServerRests DEF HandleResult, vars
<1>4. ui.method # "balance"
      BY <1>2, CheckoutAssumptions
<1> DEFINE row == [ui EXCEPT !.result = "none"]
           done == [row EXCEPT !.popup = "closed", !.pc = "idle", !.locked = FALSE]
<1>5. /\ done \in UiRow /\ done.method = ui.method /\ done.pendingOrder = ui.pendingOrder
      /\ done.pc = "idle" /\ done.paid = FALSE /\ done.review = FALSE
      BY <1>1, <1>2 DEF UiRow
<1>6. CASE Successful /\ CurrentAccount
  <2>1. ui' = [done EXCEPT !.paid = TRUE, !.reveal = "timer"]
        BY <1>6 DEF HandleResult
  <2> HIDE DEF done
  <2>2. /\ ui' \in UiRow /\ ui'.pc = "idle" /\ ui'.paid = TRUE /\ ui'.review = FALSE
        /\ ui'.method = ui.method /\ ui'.pendingOrder = ui.pendingOrder
        BY <1>5, <2>1 DEF UiRow
  <2>3. order'[ui.pendingOrder].status = "success"
        BY <1>1, <1>3, <1>6 DEF ResultIsTrue, Successful
  <2>4. ShownIsTrue'
        BY <1>2, <1>4, <2>2, <2>3 DEF ShownIsTrue
  <2>5. UiKept'
        BY <2>2, IdleKept
  <2>6. PayableKnown'
        BY <1>3, <2>2 DEF PayableKnown, NonePayable, CheckoutInv
  <2> QED BY <1>1, <1>3, <2>2, <2>4, <2>5, <2>6 DEF CheckoutInv, CheckoutTypeOK, ServerStep
<1>7. CASE Successful /\ ~ CurrentAccount
  <2>1. ui' = Failed(done)
        BY <1>7 DEF HandleResult
  <2> HIDE DEF done
  <2> QED BY <1>1, <1>2, <1>3, <1>5, <2>1, ThrowInv
<1>8. CASE ~ Successful
  <2>1. PICK shown \in BOOLEAN : shown = (ui.review \/ ui.result = "review")
        BY <1>2
  <2> DEFINE kept == [row EXCEPT !.review = shown]
  <2>2. ui' = Failed(ForgetIfFailed(kept))
    <3>1. row.review = ui.review
          BY <1>1 DEF UiRow
    <3> QED BY <1>8, <2>1, <3>1 DEF HandleResult
  <2>3. /\ kept \in UiRow /\ kept.method = ui.method /\ kept.pendingOrder = ui.pendingOrder
        /\ kept.paid = FALSE /\ kept.review = shown
        BY <1>1, <1>2 DEF UiRow
  <2> HIDE DEF kept
  <2>4. CASE ui.result = "failed"
    <3> DEFINE given == [kept EXCEPT !.pendingOrder = None]
    <3>1. given \in UiRow /\ given.paid = FALSE /\ given.review = shown /\ given.pendingOrder = None
          BY <2>3 DEF UiRow
    <3>2. ui' = Failed(given)
          BY <2>2, <2>4 DEF ForgetIfFailed
    <3> HIDE DEF given
    <3>3. ui' \in UiRow /\ ui'.pc = "idle" /\ ui'.paid = FALSE /\ ui'.review = shown
          BY <3>1, <3>2, FailedFields
    <3>4. shown = FALSE
          BY <1>2, <2>1, <2>4
    <3>5. ShownIsTrue' /\ UiKept'
          BY <3>3, <3>4, IdleKept DEF ShownIsTrue
    <3>6. PayableKnown'
      <4>1. ~ Payable(ui.pendingOrder)
            BY <1>1, <2>4 DEF ResultIsTrue, Payable
      <4> QED BY <1>3, <4>1 DEF PayableKnown, NonePayable, CheckoutInv
    <3> QED BY <1>1, <1>3, <3>3, <3>5, <3>6 DEF CheckoutInv, CheckoutTypeOK, ServerStep
  <2>5. CASE ui.result # "failed"
    <3>1. ui' = Failed(kept)
          BY <2>2, <2>5 DEF ForgetIfFailed
    <3>2. /\ ui' \in UiRow /\ ui'.pc = "idle" /\ ui'.paid = FALSE /\ ui'.review = shown
          /\ ui'.method = ui.method /\ ui'.pendingOrder = ui.pendingOrder
          BY <2>3, <3>1, FailedFields
    <3>3. shown => order'[ui.pendingOrder].status = "paid_review"
          BY <1>1, <1>2, <1>3, <2>1 DEF ResultIsTrue
    <3>4. ShownIsTrue' /\ UiKept'
          BY <1>2, <3>2, <3>3, IdleKept DEF ShownIsTrue
    <3>5. PayableKnown'
          BY <1>3, <3>2 DEF PayableKnown, NonePayable, CheckoutInv
    <3> QED BY <1>1, <1>3, <3>2, <3>4, <3>5 DEF CheckoutInv, CheckoutTypeOK, ServerStep
  <2> QED BY <2>4, <2>5
<1> QED BY <1>6, <1>7, <1>8

\* The wallet is charged, or not.
LEMMA PayBalanceInv ==
    ASSUME CheckoutInv, PayBalance
    PROVE  CheckoutInv'
<1>1. /\ OrdersInv /\ BooksOpen /\ UiKept /\ ui.pc = "balance" /\ ui \in UiRow
      /\ requestIds \in [Methods -> Orders \cup {None}]
      BY UiFields DEF PayBalance
<1>2. ui.paid = FALSE /\ ui.review = FALSE /\ requestIds' = requestIds
      BY <1>1, UiFields DEF UiKept, PayBalance
<1>3. ASSUME UNCHANGED vars \/ PurchaseWithBalance(Plan) PROVE ServerStep /\ NonePayable
      BY <1>1, <1>3, ServerRests, ServerSells, CheckoutAssumptions
<1>4. CASE ui' = Failed(ui)
  <2>1. ServerStep /\ NonePayable
        BY <1>3 DEF PayBalance
  <2> QED BY <1>1, <1>2, <1>4, <2>1, ThrowInv
<1>5. CASE /\ PurchaseWithBalance(Plan)
           /\ ui' = [ui EXCEPT !.pc = "idle", !.locked = FALSE, !.paid = TRUE, !.reveal = "timer"]
  <2>1. ServerStep /\ NonePayable /\ \E i \in Ids' : subs'[i].by = "balance"
        BY <1>1, <1>5, ServerSells, CheckoutAssumptions
  <2>2. /\ ui' \in UiRow /\ ui'.pc = "idle" /\ ui'.paid = TRUE /\ ui'.review = FALSE
        /\ ui'.method = ui.method /\ ui'.pendingOrder = ui.pendingOrder
        BY <1>1, <1>2, <1>5 DEF UiRow
  <2>3. ui.method = "balance"
        BY <1>1 DEF UiKept
  <2>4. ShownIsTrue' /\ UiKept'
        BY <2>1, <2>2, <2>3, IdleKept DEF ShownIsTrue
  <2>5. PayableKnown'
        BY <2>1, <2>2 DEF PayableKnown, NonePayable, CheckoutInv
  <2> QED BY <1>1, <1>2, <2>1, <2>2, <2>4, <2>5 DEF CheckoutInv, CheckoutTypeOK, ServerStep
<1> QED BY <1>4, <1>5 DEF PayBalance

\* The rest of the page, the window and the server change nothing the dialog
\* waits for.
LEMMA PageInv ==
    ASSUME CheckoutInv, ServerStep, NonePayable, requests' = requests, requestIds' = requestIds,
           ui' \in UiRow, ui'.pc = ui.pc, ui'.method = ui.method, ui'.pendingOrder = ui.pendingOrder,
           ui'.checks = ui.checks, ui'.result = ui.result, ui'.paid = ui.paid, ui'.review = ui.review
    PROVE  CheckoutInv'
<1>1. UiKept /\ requestIds \in [Methods -> Orders \cup {None}]
      BY UiFields
<1>2. Asked' = Asked
      BY DEF Asked
<1>3. ui.pc = "result" => ResultIsTrue'
  <2>1. SUFFICES ASSUME ui.pc = "result" PROVE ResultIsTrue'
        OBVIOUS
  <2>2. ResultIsTrue /\ ui.pendingOrder \in Orders
        BY <1>1, <2>1 DEF UiKept
  <2> QED BY <2>2 DEF ResultIsTrue, ServerStep, Settled
<1>4. UiKept'
      BY <1>1, <1>2, <1>3 DEF UiKept
<1> QED BY <1>1, <1>4, UiMoves

\* The page, the account and the window.
LEMMA UserInv ==
    ASSUME CheckoutInv, Reveal \/ Leave \/ SwitchAccount \/ ClosePopup \/ Elsewhere
    PROVE  CheckoutInv'
<1>1. OrdersInv /\ BooksOpen /\ ui \in UiRow
      BY UiFields
<1>2. CASE UNCHANGED <<vars, requestIds, confirms>>
  <2>1. ServerStep /\ NonePayable /\ requests' = requests /\ requestIds' = requestIds
        BY <1>1, <1>2, ServerRests DEF vars
  <2>2. ASSUME /\ ui' \in UiRow /\ ui'.pc = ui.pc /\ ui'.method = ui.method
               /\ ui'.pendingOrder = ui.pendingOrder /\ ui'.checks = ui.checks
               /\ ui'.result = ui.result /\ ui'.paid = ui.paid /\ ui'.review = ui.review
        PROVE  CheckoutInv'
        BY <2>1, <2>2, PageInv
  <2>3. CASE Reveal
    <3>1. CASE ui' = [ui EXCEPT !.reveal = "shown", !.live = FALSE]
          BY <1>1, <2>2, <3>1 DEF UiRow
    <3>2. CASE ui' = [ui EXCEPT !.reveal = "none"]
          BY <1>1, <2>2, <3>2 DEF UiRow
    <3> QED BY <2>3, <3>1, <3>2 DEF Reveal
  <2>4. CASE Leave
    <3>1. ui.reveal \in {"none", "timer", "shown"}
          BY <1>1 DEF UiRow
    <3>2. PICK r \in {"none", "shown"} : ui' = [ui EXCEPT !.live = FALSE, !.reveal = r]
          BY <2>4, <3>1 DEF Leave
    <3> QED BY <1>1, <2>2, <3>2 DEF UiRow
  <2>5. CASE SwitchAccount
        BY <1>1, <2>2, <2>5 DEF SwitchAccount, UiRow
  <2>6. CASE ClosePopup
        BY <1>1, <2>2, <2>6 DEF ClosePopup, UiRow
  <2>7. CASE Elsewhere
        BY <1>1, <2>2, <2>7 DEF Elsewhere, dialog
  <2> QED BY <2>3, <2>4, <2>5, <2>6, <2>7
<1>3. CASE Elsewhere
  <2>1. ServerStep /\ NonePayable /\ requests' = requests
        BY <1>1, <1>3, ServerPays, ServerCompletes, ServerSells, CheckoutAssumptions DEF Elsewhere
  <2>2. ui' = ui /\ requestIds' = requestIds
        BY <1>3 DEF Elsewhere, dialog
  <2> QED BY <1>1, <2>1, <2>2, PageInv
<1> QED BY <1>2, <1>3 DEF Reveal, Leave, SwitchAccount, ClosePopup

\* The dialog opens with nothing asked for.
LEMMA CheckoutInitInv == CheckoutInit => CheckoutInv
<1> SUFFICES ASSUME CheckoutInit PROVE CheckoutInv
    OBVIOUS
<1>1. OrdersInv
      BY OrdersInitInv DEF CheckoutInit
<1>2. \A o \in Orders : requests[o] = 0 /\ gateway[o] = "none"
      BY DEF CheckoutInit, Init
<1>3. BooksOpen /\ PayableKnown
      BY <1>2 DEF BooksOpen, PayableKnown, Payable
<1>4. ui \in UiRow /\ ui.pc = "idle" /\ ui.paid = FALSE /\ ui.review = FALSE
  <2>1. 0 \in 0 .. MaxChecks /\ -1 \in -1 .. GraceChecks
        BY CheckoutAssumptions
  <2> QED BY <2>1 DEF CheckoutInit, UiRow
<1>5. CheckoutTypeOK
      BY <1>4 DEF CheckoutTypeOK, CheckoutInit
<1>6. UiKept
      BY <1>4 DEF UiKept
<1>7. ShownIsTrue
      BY <1>4 DEF ShownIsTrue
<1> QED BY <1>1, <1>3, <1>5, <1>6, <1>7 DEF CheckoutInv

\* Every step keeps the invariant.
LEMMA CheckoutNextInv == CheckoutInv /\ [CheckoutNext]_cvars => CheckoutInv'
<1> SUFFICES ASSUME CheckoutInv, [CheckoutNext]_cvars PROVE CheckoutInv'
    OBVIOUS
<1>1. CASE UNCHANGED cvars
  <2>1. /\ ui' = ui /\ requestIds' = requestIds /\ requests' = requests /\ UNCHANGED vars
        BY <1>1 DEF cvars, vars
  <2>2. ServerStep /\ NonePayable /\ ui \in UiRow
        BY <2>1, UiFields, ServerRests
  <2> QED BY <2>1, <2>2, PageInv
<1>2. CASE Browser
      BY <1>2, ServerCreatesInv, RequestFailsInv, SubmitPaymentFormInv, PollInv, HandleResultInv,
         PayBalanceInv DEF Browser
<1> QED BY <1>1, <1>2, ConfirmInv, UserInv DEF CheckoutNext

\* The invariant says what the property says.
LEMMA CheckoutInvHonest == CheckoutInv => CheckoutHonest
<1> SUFFICES ASSUME CheckoutInv PROVE CheckoutHonest
    OBVIOUS
<1> DEFINE P == {o \in Orders : gateway[o] # "none" /\ order[o].status = "pending"}
<1>1. \A o \in P : o = ui.pendingOrder
      BY DEF CheckoutInv, PayableKnown, Payable
<1>2. Cardinality(P) <= 1
  <2> HIDE DEF P
  <2>1. CASE P = {}
        BY <2>1, FS_EmptySet
  <2>2. CASE P # {}
    <3>1. PICK o : P = {o}
          BY <1>1, <2>2
    <3> QED BY <3>1, FS_Singleton
  <2> QED BY <2>1, <2>2
<1> QED BY <1>2 DEF CheckoutInv, CheckoutHonest, OneOrderToPay

\* Whatever is lost, closed or repeated on the way: the dialog says "paid" and
\* "under review" only when it is so, and leaves one order to pay at most
\* (useSubscriptionCheckoutPayment).
THEOREM CheckoutsHonest == CheckoutSpec => []CheckoutHonest
<1>1. CheckoutInit => CheckoutInv
      BY CheckoutInitInv
<1>2. CheckoutInv /\ [CheckoutNext]_cvars => CheckoutInv'
      BY CheckoutNextInv
<1>3. CheckoutInv => CheckoutHonest
      BY CheckoutInvHonest
<1> QED BY <1>1, <1>2, <1>3, PTL DEF CheckoutSpec

\* Orders made by the dialog are sold as priced, too.
THEOREM CheckoutSoldAsPriced == CheckoutSpec => []SoldAsPriced
<1>1. CheckoutInit => CheckoutInv
      BY CheckoutInitInv
<1>2. CheckoutInv /\ [CheckoutNext]_cvars => CheckoutInv'
      BY CheckoutNextInv
<1>3. CheckoutInv => SoldAsPriced
      BY OrdersInvSold DEF CheckoutInv
<1> QED BY <1>1, <1>2, <1>3, PTL DEF CheckoutSpec

\* What a step may open.
OpensInPlace == \A o \in Orders : gateway[o] = "none" /\ gateway'[o] = "open" => CurrentAccount

\* Only the answer to a request opens a payment, on the page it was asked for.
LEMMA OpensOnPage ==
    ASSUME CheckoutInv, [CheckoutNext]_cvars
    PROVE  OpensInPlace
<1>1. OrdersInv /\ TypeOK
      BY DEF CheckoutInv, OrdersInv
<1>2. ASSUME gateway' = gateway PROVE OpensInPlace
      BY <1>2 DEF OpensInPlace
<1>3. CASE SubmitPaymentForm
      BY <1>2, <1>3 DEF SubmitPaymentForm, OpensInPlace
<1>4. ASSUME NEW o \in Orders, Pay(o) PROVE OpensInPlace
      BY <1>1, <1>4 DEF Pay, OpensInPlace, TypeOK
<1>5. ASSUME NEW o, CreateOrder(o, Plan) \/ RepeatOrder(o) \/ ExpireOrder(o) \/ CompleteOrder(o)
                    \/ PurchaseWithBalance(Plan) \/ UNCHANGED vars
      PROVE  gateway' = gateway
      BY <1>5 DEF CreateOrder, RepeatOrder, ExpireOrder, CompleteOrder, PurchaseWithBalance, vars
<1>6. CASE ServerCreates
      BY <1>2, <1>5, <1>6 DEF ServerCreates
<1>7. CASE ServerFails
      BY <1>2, <1>5, <1>7 DEF ServerFails
<1>8. CASE RequestLost
      BY <1>2, <1>8 DEF RequestLost
<1>9. CASE Elsewhere
      BY <1>2, <1>4, <1>5, <1>9 DEF Elsewhere
<1>10. CASE PayBalance
      BY <1>2, <1>5, <1>10 DEF PayBalance
<1>11. ASSUME \/ \E m \in Methods \cup {"balance"} : Confirm(m)
              \/ ServerRefuses \/ Poll \/ HandleResult \/ Reveal \/ Leave \/ SwitchAccount \/ ClosePopup
              \/ UNCHANGED cvars
       PROVE  OpensInPlace
  <2>1. UNCHANGED vars
        BY <1>11, Zenon DEF Confirm, ServerRefuses, Poll, HandleResult, Reveal, Leave, SwitchAccount, ClosePopup, cvars
  <2>2. gateway' = gateway
        BY <2>1 DEF vars
  <2> QED BY <1>2, <2>2
<1> QED BY <1>3, <1>6, <1>7, <1>8, <1>9, <1>10, <1>11 DEF CheckoutNext, Browser

\* Once the dialog is gone, or is another account's, an answer that comes late
\* opens no payment (useSubscriptionCheckoutPayment).
THEOREM LateAnswersOpenNothing == CheckoutSpec => OpensNothingAfterLeaving
<1>1. CheckoutInit => CheckoutInv
      BY CheckoutInitInv
<1>2. CheckoutInv /\ [CheckoutNext]_cvars => CheckoutInv'
      BY CheckoutNextInv
<1>3. CheckoutInv /\ [CheckoutNext]_cvars => [OpensInPlace]_cvars
      BY OpensOnPage
<1>4. OpensNothingAfterLeaving <=> [][OpensInPlace]_cvars
      BY DEF OpensNothingAfterLeaving, OpensInPlace
<1> QED BY <1>1, <1>2, <1>3, <1>4, PTL DEF CheckoutSpec
=============================================================================
