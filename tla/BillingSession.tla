--------------------------- MODULE BillingSession ---------------------------
(***************************************************************************)
(* The billing sessions of one user's requests (src/service/               *)
(* billing_session.go, funding_source.go, billing.go, quota.go): reserve   *)
(* on the API key and on one funding source, serve, then settle, or refund *)
(* in the background and perhaps charge a violation fee.                   *)
(*                                                                         *)
(* Wallet and key are plain counters: each read and each update is a step  *)
(* of its own, and each update may fail.  The subscription is used through *)
(* UsageCharge, which SubscriptionLedger implements.                       *)
(***************************************************************************)
EXTENDS Integers, FiniteSets

CONSTANTS
    Requests,
    MaxQuota,     \* common.MaxQuota: largest amount a request may carry
    Wallet,       \* the user's quota at the start
    Key,          \* the quota of the API key at the start
    Unlimited,    \* whether the key has no limit
    TrustQuota,   \* common.GetTrustQuota(); above it nothing is reserved
    Routes,       \* funding sources in the order they are tried
    Realtime,     \* requests that are realtime connections
    Fees,         \* violation fees
    MaxReserves,  \* bound on the raised reservations of a request
    MaxTurns,     \* bound on the billed turns of a realtime connection
    MaxFailures   \* bound on database operations that fail

VARIABLES
    wallet, key,  \* remaining quota of the user and of the key
    charge,       \* what the subscription ledger holds of each request
    ses,          \* the sessions
    failures

vars == <<wallet, key, charge, ses, failures>>

Sub == INSTANCE UsageCharge

Quotas == 0 .. MaxQuota

ASSUME SessionAssumption ==
    /\ MaxQuota \in Nat \ {0} /\ Wallet \in Int /\ Key \in Int /\ Unlimited \in BOOLEAN
    /\ TrustQuota \in Nat /\ MaxTurns \in Nat /\ MaxReserves \in Nat /\ MaxFailures \in Nat
    /\ Fees \subseteq Quotas \ {0} /\ Realtime \subseteq Requests
    /\ Routes \subseteq {"wallet", "subscription"} \X {"none", "wallet", "subscription"}

\* BillingSession, with the fields of RelayInfo and of the funding source it
\* works on.  "ref" and "infoRef" are the versions of the two copies of the
\* usage reference.  netWallet, netKey, failed, actual and fee are history: what
\* the request has taken so far, whether an operation of it failed, what it
\* turned out to cost, and the fee that was due.
NoSession ==
    [pc |-> "new", refund |-> "no", source |-> "none", fallback |-> "none", asked |-> 0,
     preConsumedQuota |-> 0, tokenConsumed |-> 0, consumed |-> 0, preConsumed |-> 0,
     finalConsumed |-> 0, delta |-> 0, insufficient |-> FALSE, trusted |-> FALSE,
     fundingSettled |-> FALSE, settled |-> FALSE, refunded |-> FALSE,
     ref |-> 0, infoRef |-> 0, postDelta |-> 0, turn |-> 0, turns |-> 0, reserves |-> 0,
     actual |-> 0, fee |-> 0, netWallet |-> 0, netKey |-> 0, failed |-> FALSE]

At(r, pc) == ses[r].pc = pc

\* Session r becomes s, taking w from the wallet and k from the key.
Pay(r, s, w, k) ==
    /\ wallet' = wallet - w
    /\ key' = key - k
    /\ ses' = [ses EXCEPT ![r] = [s EXCEPT !.netWallet = @ + w, !.netKey = @ + k]]

\* A step of session r that touches no subscription record, or one that only
\* reads.
Move(r, s, w, k) == Pay(r, s, w, k) /\ UNCHANGED <<charge, failures>>
Go(r, s) == Move(r, s, 0, 0)

\* The operation of session r fails and leaves s.
FailTo(r, s) ==
    /\ failures < MaxFailures /\ failures' = failures + 1
    /\ Pay(r, s, 0, 0) /\ UNCHANGED charge

\* What is reserved: a subscription always reserves something.
Amount(s) == IF s.source = "subscription" /\ s.asked = 0 THEN 1 ELSE s.asked

-----------------------------------------------------------------------------
(* NewBillingSession.                                                       *)

\* Goes on with source src, or gives up.
Try(s, src) ==
    CASE src = "wallet"       -> [s EXCEPT !.pc = "wallet", !.source = "wallet"]
      [] src = "subscription" -> [s EXCEPT !.pc = "checkKey", !.source = "subscription"]
      [] src = "none"         -> [s EXCEPT !.pc = "rejected"]

Fallback(s) == [Try(s, s.fallback) EXCEPT !.fallback = "none"]

\* The preference of the user, the restriction of the model, whether there is a
\* subscription and whether it allows overflow decide the route.
NewBillingSession(r, route, a) ==
    /\ At(r, "new")
    /\ Go(r, [Try(ses[r], route[1]) EXCEPT !.fallback = route[2], !.asked = a])

\* tryWallet reads the quota; whoever has plenty may be trusted.
TryWallet(r) ==
    LET s == ses[r] IN
    /\ At(r, "wallet")
    /\ IF wallet <= 0 \/ wallet < s.asked
       THEN Go(r, Fallback(s))
       ELSE \E trust \in {FALSE} \cup {wallet > TrustQuota /\ TrustQuota > 0} :
               Go(r, [s EXCEPT !.trusted = trust,
                               !.pc = IF trust THEN "serving" ELSE "checkKey"])

\* PreConsumeTokenQuota reads the key ...
CheckKey(r) ==
    LET s == ses[r] IN
    /\ At(r, "checkKey")
    /\ Go(r, [s EXCEPT !.pc = IF Amount(s) = 0 THEN "fund"
                              ELSE IF ~Unlimited /\ key < Amount(s) THEN "rejected"
                              ELSE "takeKey"])

\* ... and then takes from it.
PreConsumeTokenQuota(r) ==
    LET s == ses[r] IN
    /\ At(r, "takeKey")
    /\ \/ Move(r, [s EXCEPT !.pc = "fund", !.tokenConsumed = Amount(s)], 0, Amount(s))
       \/ FailTo(r, [s EXCEPT !.pc = "rejected"])

\* FundingSource.PreConsume, and the state of a session that is ready.
PreConsume(r) ==
    LET s == ses[r]
        a == Amount(s)
        ready == [s EXCEPT !.pc = "serving", !.preConsumedQuota = a]
    IN  /\ At(r, "fund")
        /\ \/ /\ s.source = "wallet"
              /\ Move(r, [ready EXCEPT !.consumed = a], a, 0)
           \/ /\ s.source = "subscription"
              /\ Sub!Reserve(r, a)
              /\ Pay(r, [ready EXCEPT !.preConsumed = a, !.finalConsumed = a,
                                      !.ref = 1, !.infoRef = 1], 0, 0)
              /\ UNCHANGED failures

\* A subscription without room, or a failure.
PreConsumeRefused(r) ==
    LET s == [ses[r] EXCEPT !.pc = "unwind"] IN
    /\ At(r, "fund")
    /\ \/ s.source = "subscription" /\ Go(r, [s EXCEPT !.insufficient = TRUE])
       \/ FailTo(r, s)

\* The key gets back what it gave; only a lack of quota leads to the fallback.
Unwind(r) ==
    LET s    == ses[r]
        t    == [s EXCEPT !.tokenConsumed = 0, !.insufficient = FALSE]
        next == IF s.insufficient THEN Fallback(t) ELSE [t EXCEPT !.pc = "rejected"]
    IN  /\ At(r, "unwind")
        /\ \/ Move(r, next, 0, -s.tokenConsumed)
           \/ FailTo(r, [next EXCEPT !.failed = TRUE])

-----------------------------------------------------------------------------
(* Reserve: raises the reservation of a request that is being served.       *)

\* Moves the reservation of the funding source by d.
Rebook(r, next, d) ==
    \/ /\ next.source = "wallet"
       /\ Move(r, [next EXCEPT !.consumed = @ + d], d, 0)
    \/ /\ next.source = "subscription"
       /\ Sub!Rebook(r, next.ref, next.finalConsumed + d)
       /\ Pay(r, [next EXCEPT !.finalConsumed = @ + d, !.ref = @ + 1], 0, 0)
       /\ UNCHANGED failures

ReserveFunding(r, target) ==
    LET s == ses[r]
        d == target - s.preConsumedQuota
    IN  /\ At(r, "serving") /\ ~s.trusted /\ d > 0
        /\ r \notin Realtime /\ s.reserves < MaxReserves
        /\ Rebook(r, [s EXCEPT !.pc = "reserveKey", !.delta = d, !.reserves = @ + 1], d)

\* reserveToken reads the key and takes from it, as PreConsumeTokenQuota does.
CheckReserve(r) ==
    /\ At(r, "reserveKey")
    /\ Go(r, [ses[r] EXCEPT !.pc = IF Unlimited \/ key >= ses[r].delta THEN "reserveTake"
                                                                       ELSE "rollback"])

ReserveToken(r) ==
    LET s == ses[r]
        d == s.delta
    IN  /\ At(r, "reserveTake")
        /\ \/ Move(r, [s EXCEPT !.pc = "serving", !.preConsumedQuota = @ + d, !.delta = 0,
                                !.tokenConsumed = @ + d, !.infoRef = s.ref], 0, d)
           \/ FailTo(r, [s EXCEPT !.pc = "rollback"])

RollbackFundingReserve(r) ==
    LET s == ses[r]
        next == [s EXCEPT !.pc = "serving", !.delta = 0]
    IN  /\ At(r, "rollback")
        /\ \/ Rebook(r, next, -s.delta)
           \/ FailTo(r, [next EXCEPT !.failed = TRUE])

-----------------------------------------------------------------------------
(* Settle.                                                                  *)

\* What may be settled: a realtime connection settles the sum of its turns.
Costs(r) == IF r \in Realtime THEN {ses[r].actual} ELSE Quotas

\* The wallet pays or gets the difference.
SettleWallet(r, q) ==
    LET s == [ses[r] EXCEPT !.actual = q]
        d == q - s.preConsumedQuota
    IN  /\ At(r, "serving") /\ s.source = "wallet"
        /\ \/ Move(r, [s EXCEPT !.fundingSettled = TRUE, !.settled = (d = 0),
                                !.pc = IF d = 0 THEN "done" ELSE "settleKey"], d, 0)
           \/ FailTo(r, [s EXCEPT !.pc = "done", !.failed = TRUE])

\* Mutant of SettleKey: the key pays the whole amount again.
SettleKeyWhole(r) ==
    /\ At(r, "settleKey")
    /\ Move(r, [ses[r] EXCEPT !.settled = TRUE, !.pc = "done"], 0, ses[r].actual)

\* The key follows; if it cannot, the session is settled all the same.
SettleKey(r) ==
    LET s == ses[r]
        done == [s EXCEPT !.settled = TRUE, !.pc = "done"]
    IN  /\ At(r, "settleKey")
        /\ \/ Move(r, done, 0, s.actual - s.preConsumedQuota)
           \/ FailTo(r, [done EXCEPT !.failed = TRUE])

\* A subscription settlement is queued.  A record that realtime turns have
\* already settled is refused, unless its amount happens to be the same.
SettleQueue(r, q) ==
    LET s == [ses[r] EXCEPT !.actual = q]
        queued == [s EXCEPT !.pc = "complete", !.fundingSettled = TRUE,
                            !.postDelta = q - s.preConsumedQuota]
    IN  /\ At(r, "serving") /\ s.source = "subscription"
        /\ \/ /\ Sub!Queue(r, s.ref, q, s.preConsumedQuota)
              /\ Pay(r, queued, 0, 0) /\ UNCHANGED failures
           \/ /\ charge[r].phase = "settled"
              /\ Go(r, IF charge[r].amount = q THEN queued ELSE [s EXCEPT !.pc = "done"])
           \/ FailTo(r, [s EXCEPT !.pc = "done", !.failed = TRUE])

\* CompleteSubscriptionSettlement: allowance and key in one transaction.
Complete(r, next) ==
    /\ Sub!Apply(r, TRUE)
    /\ Pay(r, next, 0, charge[r].target - charge[r].tokenPre)
    /\ UNCHANGED failures

\* The session completes the settlement itself ...
SettleComplete(r) ==
    LET s == ses[r]
        done(v) == [s EXCEPT !.pc = "done", !.settled = TRUE, !.finalConsumed = s.actual,
                             !.ref = v, !.infoRef = v]
    IN  /\ At(r, "complete")
        /\ \/ Complete(r, done(charge[r].version + 1))
           \/ charge[r].phase = "settled" /\ Go(r, done(charge[r].version))
           \/ FailTo(r, [s EXCEPT !.pc = "done"])

\* ... unless the periodic task is faster (ReconcileSubscriptionSettlements).
Reconcile(r) == Complete(r, ses[r])

-----------------------------------------------------------------------------
(* Realtime turns and violation fees: PostConsumeQuota.                     *)

\* Charges q on top of everything so far; next is where a success leads.
PostConsumeFunding(r, q, next) ==
    \/ next.source = "wallet" /\ Move(r, next, q, 0)
    \/ /\ next.source = "subscription"
       /\ Sub!Settle(r, next.infoRef, next.preConsumedQuota + next.postDelta + q)
       /\ Pay(r, [next EXCEPT !.postDelta = @ + q, !.infoRef = @ + 1], 0, 0)
       /\ UNCHANGED failures

\* A turn of a realtime connection has ended and cost q: PreWssConsumeQuota reads
\* both quotas.  The turn's usage counts towards the total even when it is not
\* billed, which ends the connection.  (A connection with a fixed price, UsePrice,
\* bills no turns: it is as any other request.)
CheckTurn(r, q) ==
    LET s == ses[r]
        unbilled == [s EXCEPT !.actual = @ + q, !.turns = MaxTurns]
        enough == wallet >= q /\ (Unlimited \/ key >= q)
    IN  /\ At(r, "serving") /\ r \in Realtime /\ s.turns < MaxTurns
        /\ \/ enough /\ Go(r, [s EXCEPT !.pc = "turn", !.turn = q])
           \/ ~enough /\ Go(r, unbilled)
           \/ FailTo(r, [unbilled EXCEPT !.failed = TRUE])

\* ... and then bills it.
PreWssConsumeQuota(r) ==
    LET q == ses[r].turn
        s == [ses[r] EXCEPT !.actual = @ + q, !.turn = 0]
    IN  /\ At(r, "turn")
        /\ \/ PostConsumeFunding(r, q, [s EXCEPT !.pc = "turnKey", !.turns = @ + 1, !.delta = q])
           \/ FailTo(r, [s EXCEPT !.pc = "serving", !.turns = MaxTurns, !.failed = TRUE])

TurnKey(r) ==
    LET s == ses[r]
        next == [s EXCEPT !.pc = "serving", !.delta = 0]
    IN  /\ At(r, "turnKey")
        /\ \/ Move(r, next, 0, s.delta)
           \/ FailTo(r, [next EXCEPT !.turns = MaxTurns, !.failed = TRUE])

\* The request has failed upstream: what was reserved goes back in the
\* background, while the handler goes on and may charge a fee.
Refund(r, fee) ==
    LET s == ses[r]
        needsRefund == ~s.fundingSettled /\ (s.tokenConsumed > 0 \/ s.preConsumed > 0)
    IN  /\ At(r, "serving") /\ s.turns = 0
        /\ Go(r, [s EXCEPT !.refunded = needsRefund, !.fee = fee,
                           !.refund = IF needsRefund THEN "funding" ELSE "no",
                           !.pc = IF fee > 0 THEN "fee" ELSE "done"])

\* In the background, first the funding source: the wallet once, the
\* subscription with retries, which do not help when the reference is stale.
RefundFunding(r) ==
    LET s == ses[r]
        next == [s EXCEPT !.refund = "key"]
    IN  /\ s.refund = "funding"
        /\ \/ s.source = "wallet" /\ Move(r, next, -s.consumed, 0)
           \/ /\ s.source = "subscription"
              /\ Sub!Refund(r, s.ref)
              /\ Pay(r, next, 0, 0) /\ UNCHANGED failures
           \/ /\ s.source = "subscription" /\ charge[r].version # s.ref
              /\ Go(r, next)
           \/ FailTo(r, [next EXCEPT !.failed = TRUE])

\* Then the key, whatever became of the funding source.
RefundKey(r) ==
    LET s == ses[r]
        next == [s EXCEPT !.refund = "done"]
    IN  /\ s.refund = "key"
        /\ \/ Move(r, next, 0, -s.tokenConsumed)
           \/ FailTo(r, [next EXCEPT !.failed = TRUE])

ChargeViolationFeeIfNeeded(r) ==
    LET s == ses[r] IN
    /\ At(r, "fee")
    /\ \/ PostConsumeFunding(r, s.fee, [s EXCEPT !.pc = "feeKey"])
       \/ /\ s.source = "subscription" /\ charge[r].version # s.infoRef
          /\ Go(r, [s EXCEPT !.pc = "done"])
       \/ FailTo(r, [s EXCEPT !.pc = "done", !.failed = TRUE])

FeeKey(r) ==
    LET s == ses[r]
        next == [s EXCEPT !.pc = "done"]
    IN  /\ At(r, "feeKey")
        /\ \/ Move(r, next, 0, s.fee)
           \/ FailTo(r, [next EXCEPT !.failed = TRUE])

-----------------------------------------------------------------------------
Init ==
    /\ wallet = Wallet /\ key = Key
    /\ Sub!Init
    /\ ses = [r \in Requests |-> NoSession]
    /\ failures = 0

Step(r) ==
    \/ \E route \in Routes, a \in Quotas : NewBillingSession(r, route, a)
    \/ TryWallet(r) \/ CheckKey(r) \/ PreConsumeTokenQuota(r) \/ PreConsume(r)
    \/ PreConsumeRefused(r) \/ Unwind(r)
    \/ \E q \in Quotas : ReserveFunding(r, q)
    \/ CheckReserve(r) \/ ReserveToken(r) \/ RollbackFundingReserve(r)
    \/ \E q \in Costs(r) : SettleWallet(r, q) \/ SettleQueue(r, q)
    \/ SettleKey(r) \/ SettleComplete(r)
    \/ \E q \in Quotas \ {0} : CheckTurn(r, q)
    \/ PreWssConsumeQuota(r) \/ TurnKey(r)
    \/ \E fee \in {0} \cup Fees : Refund(r, fee)
    \/ ChargeViolationFeeIfNeeded(r) \/ FeeKey(r)

Background(r) == RefundFunding(r) \/ RefundKey(r) \/ Reconcile(r)

Next == \E r \in Requests : Step(r) \/ Background(r)

Spec == Init /\ [][Next]_vars

-----------------------------------------------------------------------------
(* Properties.                                                              *)

NetFunding(r) == ses[r].netWallet + charge[r].amount

\* Nothing more will happen for request r.
Over(r) ==
    /\ ses[r].pc \in {"rejected", "done"} /\ ses[r].refund \in {"no", "done"}
    /\ charge[r].phase # "queued"

\* Bounds and shapes of the sessions.
TypeOK ==
    /\ wallet \in Int /\ key \in Int
    /\ \A r \in Requests :
          /\ ses[r].source \in {"none", "wallet", "subscription"}
          /\ charge[r].phase \in Sub!Phases
          /\ ses[r].preConsumedQuota \in Quotas
          /\ ses[r].ref <= charge[r].version /\ ses[r].infoRef <= charge[r].version

\* A request that was refused costs nothing, on the key or on either source,
\* though it may have tried both (preConsume: a failing step rolls the earlier
\* ones back).
RefusedCostsNothing ==
    \A r \in Requests :
        ses[r].pc = "rejected" /\ ~ses[r].failed => NetFunding(r) = 0 /\ ses[r].netKey = 0

\* A settled request has cost what it consumed, on its source and on its key,
\* however the reservation was raised and whoever completed the settlement.
\* (A realtime connection pays for its turns and then for their sum.)
SettledExactly ==
    \A r \in Requests \ Realtime :
        ses[r].settled /\ Over(r) /\ ~ses[r].failed =>
            NetFunding(r) = ses[r].actual /\ ses[r].netKey = ses[r].actual

\* A queued settlement survives every failure: allowance and key end up at the
\* target even when the session could not complete it.
QueuedSettlesBoth ==
    \A r \in Requests :
        ses[r].fundingSettled /\ ses[r].source = "subscription" /\ Over(r) =>
            /\ charge[r].amount = ses[r].actual
            /\ ~ses[r].failed => ses[r].netKey = ses[r].actual

\* A failed request without a fee costs nothing once the background refund is
\* through; a fee that the wallet pays adds up with the refund.
FailedCostsFee ==
    \A r \in Requests :
        (ses[r].fee = 0 \/ ses[r].source = "wallet") /\
        Over(r) /\ ses[r].pc = "done" /\ ses[r].actual = 0 /\ ~ses[r].settled /\ ~ses[r].failed =>
            NetFunding(r) = ses[r].fee

\* Key and funding source agree about a request that is over, but for fees and
\* realtime turns on a subscription.
KeyFollowsFunding ==
    \A r \in Requests :
        /\ Over(r) /\ ~ses[r].failed
        /\ ses[r].source = "subscription" => ses[r].fee = 0 /\ ses[r].turns = 0
        => ses[r].netKey = NetFunding(r)

\* A request that is over has cost what its outcome says, on its source and on
\* its key: nothing when refused, what was consumed when settled, nothing when it
\* failed and from the wallet the violation fee.  What a violation fee does to a
\* subscription is the subject of FeeAfterRefund.
ChargedForOutcome ==
    /\ TypeOK
    /\ RefusedCostsNothing
    /\ SettledExactly
    /\ QueuedSettlesBoth
    /\ FailedCostsFee
    /\ KeyFollowsFunding

\* The violation fee is charged "after the normal flow finishes (including refund)"
\* (violation_fee.go:102): whatever pays for it, a failed request of which no
\* operation failed has cost the fee and nothing else when it is over.
FeeAfterRefund ==
    \A r \in Requests :
        ses[r].fee > 0 /\ Over(r) /\ ~ses[r].failed => NetFunding(r) = ses[r].fee
=============================================================================
