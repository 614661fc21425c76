-------------------------- MODULE SubscriptionOrder --------------------------
(***************************************************************************)
(* Buying a subscription of one user: checkout orders paid through the     *)
(* gateway, purchases from the wallet, plans bound by an administrator.    *)
(*                                                                         *)
(* CreateSubscriptionCheckoutOrder locks the user and stores what was      *)
(* priced: the plan as it is, the subscription it upgrades and the account *)
(* (a snapshot).  CompleteSubscriptionOrder runs whenever the gateway says *)
(* the order was paid, by callback or by the browser's return, any number  *)
(* of times and arbitrarily late: it locks the order, compares the         *)
(* snapshot with what holds now, and grants the plan or puts the order     *)
(* under review.  All of these are transactions; AdminBindSubscription is  *)
(* one too but locks only the subscriptions it finds, so it is two steps.  *)
(*                                                                         *)
(* A plan is a number, and the higher one costs more; its benefits are the *)
(* version of its row.  Plans have no upgrade group (the user's group then *)
(* plays no part in choosing the current subscription).  Amounts of money  *)
(* and the wallet are left out: an order's TopUp row has amount 0.         *)
(***************************************************************************)
EXTENDS Naturals, Sequences, FiniteSets

CONSTANTS
    Plans,          \* plans, numbered by price
    Orders,         \* trade numbers, one per request id of the browser
    Limit,          \* Limit[p]: MaxPurchasePerUser of plan p, 0 for none
    Duration,       \* length of a subscription
    GatewayFails,   \* whether building the payment request may fail
    MaxTime, MaxSubs, MaxEdits, MaxRequests,   \* bounds
    MaxBinds, MaxGranted, MaxNonce             \* bounds

ASSUME OrderAssumptions ==
    /\ Plans \subseteq Nat \ {0}
    /\ Limit \in [Plans -> Nat]
    /\ {Duration, MaxTime, MaxSubs, MaxEdits, MaxRequests, MaxBinds, MaxGranted, MaxNonce} \subseteq Nat
    /\ Duration > 0
    /\ GatewayFails \in BOOLEAN

\* A trade number tells an order from the other ways to get a subscription.
ASSUME TradeNumbersDistinct == {"balance", "admin"} \cap Orders = {}

VARIABLES
    now,            \* the database's clock
    version,        \* version of each plan's row
    enabled,        \* plans on sale
    nonce,          \* the user's SessionNonce
    subs,           \* rows of UserSubscription, numbered from 1
    order,          \* rows of SubscriptionOrder
    topup,          \* status of the TopUp row of each order
    gateway,        \* external: "none", "open" or "paid"
    requests,       \* requests per order between the transaction and Purchase
    binding,        \* the plan being bound and the rows its transaction locked
    binds           \* bindings so far

vars == <<now, version, enabled, nonce, subs, order, topup, gateway, requests, binding, binds>>
world == <<now, version, enabled, nonce>>
books == <<order, topup>>

NoOrder == [status |-> "none", plan |-> 0, version |-> 0, current |-> 0, end |-> 0, nonce |-> 0, at |-> 0]
NoBinding == [plan |-> 0, rows |-> {}]

Statuses == {"none", "pending", "success", "expired", "paid_review"}

OrderRow == [status : Statuses, plan : Plans \cup {0}, version : Nat, current : Nat,
             end : Nat, nonce : Nat, at : Nat]

\* `by' is the order that granted the row, or what else did.
SubRow == [plan : Plans, version : Nat, end : Nat, active : BOOLEAN,
           by : Orders \cup {"balance", "admin"}]

Ids == 1 .. Len(subs)

Init ==
    /\ now = 0
    /\ version = [p \in Plans |-> 0]
    /\ enabled = Plans
    /\ nonce = 0
    /\ subs = <<>>
    /\ order = [o \in Orders |-> NoOrder]
    /\ topup = [o \in Orders |-> "none"]
    /\ gateway = [o \in Orders |-> "none"]
    /\ requests = [o \in Orders |-> 0]
    /\ binding = NoBinding
    /\ binds = 0

-----------------------------------------------------------------------------
(* The current subscription and the grant of a new one. *)

\* loadActiveSubscriptionSelectionTx
Selected == {i \in Ids : subs[i].active /\ subs[i].end > now}

\* The one of them that ends first, the oldest among equals.
Current ==
    IF Selected = {} THEN 0
    ELSE CHOOSE i \in Selected :
            \A j \in Selected : subs[i].end < subs[j].end \/ (subs[i].end = subs[j].end /\ i <= j)

\* Another transaction that wants the rows a binding has locked waits.
RowsFree == binding.rows \cap Selected = {}

Purchases(p) == Cardinality({i \in Ids : subs[i].plan = p})

UnderLimit(p) == Limit[p] > 0 => Purchases(p) < Limit[p]

\* CreateUserSubscriptionFromPlanTx after its checks: the rows it selected end
\* now, and the new one runs to the end of the current one's cycle.
Granted(p, v, by, replaced) ==
    Append([i \in Ids |-> IF i \in replaced THEN [subs[i] EXCEPT !.active = FALSE, !.end = now]
                                            ELSE subs[i]],
           [plan |-> p, version |-> v, active |-> TRUE, by |-> by,
            end |-> IF replaced = {} THEN now + Duration
                    ELSE subs[CHOOSE i \in replaced : \A j \in replaced :
                           subs[i].end < subs[j].end \/ (subs[i].end = subs[j].end /\ i <= j)].end])

\* calculateSubscriptionBalanceQuoteTx: only upgrades have a price.
Quoted(p) == Current # 0 => p > subs[Current].plan

-----------------------------------------------------------------------------
(* Checkout. *)

\* CreateSubscriptionCheckoutOrder, a trade number not seen before.
CreateOrder(o, p) ==
    /\ order[o].status = "none"
    /\ p \in enabled
    /\ UnderLimit(p)
    /\ Quoted(p)
    /\ RowsFree
    /\ requests[o] < MaxRequests
    /\ order' = [order EXCEPT ![o] =
                    [status |-> "pending", plan |-> p, version |-> version[p], current |-> Current,
                     end |-> IF Current = 0 THEN 0 ELSE subs[Current].end, nonce |-> nonce, at |-> 0]]
    /\ topup' = [topup EXCEPT ![o] = "pending"]
    /\ requests' = [requests EXCEPT ![o] = @ + 1]
    /\ UNCHANGED <<world, subs, gateway, binding, binds>>

\* The same request repeated: the pending order is returned.
RepeatOrder(o) ==
    /\ order[o].status = "pending"
    /\ order[o].plan \in enabled
    /\ requests[o] < MaxRequests
    /\ requests' = [requests EXCEPT ![o] = @ + 1]
    /\ UNCHANGED <<world, subs, books, gateway, binding, binds>>

\* Purchase builds the payment form, the browser opens it.
OpenGateway(o) ==
    /\ requests[o] > 0
    /\ requests' = [requests EXCEPT ![o] = @ - 1]
    /\ gateway' = [gateway EXCEPT ![o] = IF @ = "none" THEN "open" ELSE @]
    /\ UNCHANGED <<world, subs, books, binding, binds>>

\* Purchase fails: ExpireSubscriptionOrder, if the order is still pending.
ExpireOrder(o) ==
    /\ GatewayFails
    /\ requests[o] > 0
    /\ requests' = [requests EXCEPT ![o] = @ - 1]
    /\ IF order[o].status = "pending"
       THEN /\ order' = [order EXCEPT ![o].status = "expired"]
            /\ topup' = [topup EXCEPT ![o] = IF @ = "pending" THEN "expired" ELSE @]
       ELSE UNCHANGED books
    /\ UNCHANGED <<world, subs, gateway, binding, binds>>

\* External: the user pays what is open.
Pay(o) ==
    /\ gateway[o] = "open"
    /\ gateway' = [gateway EXCEPT ![o] = "paid"]
    /\ UNCHANGED <<world, subs, books, requests, binding, binds>>

-----------------------------------------------------------------------------
(* Settlement. *)

\* Mutant: only the account is compared with the snapshot.
StaleAccount(o) == order[o].nonce # nonce

\* What was priced is not what holds now.
Stale(o) ==
    \/ order[o].nonce # nonce
    \/ order[o].current # Current
    \/ Current # 0 /\ subs[Current].end # order[o].end

PaidVersion(o) == order[o].version

Settles(o) == order[o].status = "pending"

\* Mutant: a stale order is an error, which changes nothing.
ReviewRefused(o) == Stale(o) /\ UNCHANGED <<order, subs, topup>>

\* A stale order is set aside for an administrator.
Review(o) ==
    /\ Stale(o)
    /\ order' = [order EXCEPT ![o].status = "paid_review", ![o].at = now]
    /\ UNCHANGED <<subs, topup>>

\* Any other is granted as it was priced, together with its TopUp row
\* (upsertSubscriptionTopUpTx).
Grant(o) ==
    /\ ~ Stale(o)
    /\ UnderLimit(order[o].plan)
    /\ Len(subs) < MaxSubs
    /\ subs' = Granted(order[o].plan, PaidVersion(o), o, Selected)
    /\ topup' = [topup EXCEPT ![o] = "success"]
    /\ order' = [order EXCEPT ![o].status = "success", ![o].at = now]

\* SubscriptionEpayNotify and SubscriptionEpayReturn, each a verified payment:
\* CompleteSubscriptionOrder.  A settled order is left alone; an expired one
\* and a purchase beyond the limit are errors, which change nothing.
CompleteOrder(o) ==
    /\ gateway[o] = "paid"
    /\ RowsFree
    /\ Settles(o)
    /\ Review(o) \/ Grant(o)
    /\ UNCHANGED <<world, gateway, requests, binding, binds>>

-----------------------------------------------------------------------------
(* Everything else that changes the account. *)

\* PurchaseSubscriptionWithBalance
PurchaseWithBalance(p) ==
    /\ p \in enabled
    /\ Quoted(p) /\ UnderLimit(p) /\ RowsFree
    /\ Len(subs) < MaxSubs
    /\ Cardinality({i \in Ids : subs[i].by = "balance"}) < MaxGranted
    /\ subs' = Granted(p, version[p], "balance", Selected)
    /\ UNCHANGED <<world, books, gateway, requests, binding, binds>>

\* AdminBindSubscription up to the selection: counts, then locks what it finds.
BindSelect(p) ==
    /\ binding = NoBinding
    /\ binds < MaxBinds
    /\ UnderLimit(p)
    /\ binding' = [plan |-> p, rows |-> Selected]
    /\ binds' = binds + 1
    /\ UNCHANGED <<world, subs, books, gateway, requests>>

\* ... and its writes.
BindCommit ==
    /\ binding # NoBinding
    /\ Len(subs) < MaxSubs
    /\ subs' = Granted(binding.plan, version[binding.plan], "admin", binding.rows)
    /\ binding' = NoBinding
    /\ UNCHANGED <<world, books, gateway, requests, binds>>

\* AdminInvalidateUserSubscription
Invalidate(i) ==
    /\ i \in Selected \ binding.rows
    /\ subs' = [subs EXCEPT ![i].active = FALSE, ![i].end = now]
    /\ UNCHANGED <<world, books, gateway, requests, binding, binds>>

\* An administrator edits a plan or takes it off sale.
EditPlan(p) ==
    /\ version[p] < MaxEdits
    /\ version' = [version EXCEPT ![p] = @ + 1]
    /\ \E on \in {enabled, enabled \ {p}} : enabled' = on
    /\ UNCHANGED <<now, nonce, subs, books, gateway, requests, binding, binds>>

\* External: the account is replaced under its id (a restored database).
ReplaceAccount ==
    /\ nonce < MaxNonce
    /\ nonce' = nonce + 1
    /\ UNCHANGED <<now, version, enabled, subs, books, gateway, requests, binding, binds>>

\* Time passes; the transactions in between take none.
Tick ==
    /\ now < MaxTime
    /\ binding = NoBinding
    /\ now' = now + 1
    /\ UNCHANGED <<version, enabled, nonce, subs, books, gateway, requests, binding, binds>>

Next ==
    \/ \E o \in Orders, p \in Plans : CreateOrder(o, p)
    \/ \E o \in Orders : RepeatOrder(o) \/ OpenGateway(o) \/ ExpireOrder(o) \/ Pay(o) \/ CompleteOrder(o)
    \/ \E p \in Plans : PurchaseWithBalance(p) \/ BindSelect(p) \/ EditPlan(p)
    \/ \E i \in Ids : Invalidate(i)
    \/ BindCommit
    \/ ReplaceAccount
    \/ Tick

Spec == Init /\ [][Next]_vars

\* The gateway repeats a callback until it is answered, and an opened
\* transaction ends.
FairSpec == Spec /\ WF_vars(BindCommit) /\ \A o \in Orders : WF_vars(CompleteOrder(o))

-----------------------------------------------------------------------------
(* Properties. *)

\* The type of the state.
TypeOK ==
    /\ now \in 0 .. MaxTime
    /\ version \in [Plans -> 0 .. MaxEdits]
    /\ enabled \subseteq Plans
    /\ nonce \in 0 .. MaxNonce
    /\ subs \in Seq(SubRow) /\ Len(subs) <= MaxSubs
    /\ order \in [Orders -> OrderRow]
    /\ topup \in [Orders -> {"none", "pending", "success", "expired"}]
    /\ gateway \in [Orders -> {"none", "open", "paid"}]
    /\ requests \in [Orders -> 0 .. MaxRequests]
    /\ binding.plan \in Plans \cup {0} /\ binding.rows \subseteq Ids

GrantsOf(o) == {i \in Ids : subs[i].by = o}

\* Settlement is idempotent: an order that is repeated, paid late or reported
\* twice grants one subscription if it succeeded and none otherwise.
GrantedOnce ==
    \A o \in Orders :
        Cardinality(GrantsOf(o)) = IF order[o].status = "success" THEN 1 ELSE 0

\* The benefits granted are those of the day the order was priced, although
\* the plan was edited or taken off sale before the payment came.
GrantedAsPriced ==
    \A o \in Orders : \A i \in GrantsOf(o) :
        subs[i].plan = order[o].plan /\ subs[i].version = order[o].version

\* The cycle granted is the one priced: an upgrade ends with the subscription
\* it was quoted for and replaces it, a new one runs its full time.
CycleAsPriced ==
    \A o \in Orders : \A i \in GrantsOf(o) :
        \/ order[o].current = 0 /\ (subs[i].active => subs[i].end = order[o].at + Duration)
        \/ order[o].current # 0 /\ (subs[i].active => subs[i].end = order[o].end)
                                /\ ~ subs[order[o].current].active

\* The order history tells the truth about what was granted or given up.
HistoryAgrees ==
    \A o \in Orders :
        /\ topup[o] = "success" <=> order[o].status = "success"
        /\ topup[o] = "expired" <=> order[o].status = "expired"

\* One subscription is in force at a time, unless an administrator bound one:
\* a binding does not see what was bought since it looked.
OneInForce == binds = 0 => Cardinality(Selected) <= 1

\* No plan is bought more often than MaxPurchasePerUser allows, from the wallet
\* or by orders; bindings by an administrator may take a user beyond.
LimitKept ==
    \A p \in Plans : Limit[p] > 0 /\ binds = 0 => Purchases(p) <= Limit[p]

\* What was paid is settled: the plan granted or the order put under review,
\* unless a failing repetition of the request had expired the order or the
\* plan's purchase limit stands in the way.
PaidIsSettled ==
    \A o \in Orders :
        gateway[o] = "paid" /\ Limit[order[o].plan] = 0 ~> order[o].status # "pending"

\* An order grants once, exactly what was priced, within the limits of the plan,
\* and the history says so (CompleteSubscriptionOrder, ExpireSubscriptionOrder).
SoldAsPriced ==
    /\ TypeOK
    /\ GrantedOnce
    /\ GrantedAsPriced
    /\ CycleAsPriced
    /\ HistoryAgrees
    /\ OneInForce
    /\ LimitKept
=============================================================================
