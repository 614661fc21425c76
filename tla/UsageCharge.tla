---------------------------- MODULE UsageCharge ----------------------------
(***************************************************************************)
(* What the subscription ledger promises to the request that uses it,      *)
(* independently of windows, resets, upgrades and maintenance: a request   *)
(* reserves an amount once, may change the reservation, and ends either    *)
(* refunded or settled.  A settlement that has been queued has a fixed     *)
(* target, can no longer be refunded or changed, and is applied once, to   *)
(* the allowance and to the API key together.                              *)
(*                                                                         *)
(* SubscriptionLedger implements this specification.                       *)
(***************************************************************************)
EXTENDS Integers

CONSTANTS Requests,   \* the request identifiers
          MaxQuota    \* largest quota one request may carry (common.MaxQuota)

VARIABLE charge     \* charge[r]: what request r has been charged so far

Quotas == 0 .. MaxQuota

Phases == {"none", "reserved", "queued", "settled", "refunded", "forgotten"}

NoCharge ==
    [phase |-> "none", amount |-> 0, target |-> 0, tokenPre |-> 0, tokenNet |-> 0,
     version |-> 0]

Init == charge = [r \in Requests |-> NoCharge]

\* Admission.
Reserve(r, a) ==
    /\ charge[r].phase = "none"
    /\ charge' = [charge EXCEPT ![r].phase = "reserved", ![r].amount = a, ![r].version = 1]

\* Every later change names the version it believes current, v, and moves on
\* to the next one: a caller with a stale reference changes nothing.
Change(r, v, phase, a) ==
    /\ charge[r].version = v
    /\ charge' = [charge EXCEPT ![r].phase = phase, ![r].amount = a, ![r].version = v + 1]

\* A reservation is raised or lowered while the request is in flight.
Rebook(r, v, a) == charge[r].phase = "reserved" /\ Change(r, v, "reserved", a)

\* A request, or a task, settles directly, and may correct what it settled.
Settle(r, v, a) == charge[r].phase \in {"reserved", "settled"} /\ Change(r, v, "settled", a)

\* The whole amount goes back.
Refund(r, v) == charge[r].phase \in {"reserved", "settled"} /\ Change(r, v, "refunded", 0)

\* The final amount becomes durable before any counter moves.
Queue(r, v, q, p) ==
    /\ charge[r].phase = "reserved" /\ charge[r].version = v
    /\ charge' = [charge EXCEPT ![r].phase = "queued", ![r].target = q, ![r].tokenPre = p]

\* A queued settlement is applied.  The key is adjusted in the same step,
\* unless it has been deleted.
Apply(r, keyFound) ==
    /\ charge[r].phase = "queued"
    /\ charge' = [charge EXCEPT
                    ![r].phase = "settled", ![r].amount = charge[r].target,
                    ![r].version = @ + 1,
                    ![r].tokenNet = IF keyFound THEN charge[r].target - charge[r].tokenPre ELSE 0]

\* Retention: only finished requests are forgotten, many in one statement.
ForgetMany ==
    \E S \in SUBSET {r \in Requests : charge[r].phase \in {"settled", "refunded"}} :
        charge' = [r \in Requests |->
                     IF r \in S THEN [charge[r] EXCEPT !.phase = "forgotten"]
                                ELSE charge[r]]

Next ==
    \/ \E r \in Requests :
       LET v == charge[r].version IN
       \/ \E a \in Quotas \ {0} : Reserve(r, a)
       \/ \E a \in Quotas : Rebook(r, v, a) \/ Settle(r, v, a)
       \/ Refund(r, v)
       \/ \E q, p \in Quotas : Queue(r, v, q, p)
       \/ \E keyFound \in BOOLEAN : Apply(r, keyFound)
    \/ ForgetMany

Spec == Init /\ [][Next]_charge
============================================================================
