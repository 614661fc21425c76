------------------------ MODULE MCSubscriptionLedger ------------------------
(***************************************************************************)
(* Small instances of SubscriptionLedger for TLC.  A behaviour exercises   *)
(* the callers that `focus' names, each with bounds of its own.            *)
(***************************************************************************)
EXTENDS SubscriptionLedger, TLC

CONSTANTS r1, r2

VARIABLE focus

Symmetry == Permutations(Requests)

\* A plan with a short custom period and a five-hour limit.
Basic == [total |-> 2, fiveHour |-> 1, reset |-> "custom", every |-> 2, lasts |-> 3]

\* A plan without resets and with more room.
Large == [total |-> 3, fiveHour |-> 2, reset |-> "never", every |-> 1, lasts |-> 4]

None     == {}
MinusOne == {-1}
TwoPlans == {Basic, Large}

\* A subscription from before the ledger: usage without a window.
LegacyRow == [NoSub EXCEPT !.status = "active", !.plan = Basic, !.used = 1,
                           !.start = 1, !.end = 4, !.last = 1, !.next = 3]

OneLegacy == <<LegacyRow>>
NoLegacy  == <<>>

\* At most one request has been admitted, and it never costs more than a unit.
OneUnit ==
    /\ Cardinality({r \in Requests : rec'[r].status # "none"}) <= 1
    /\ \A r \in Requests : rec'[r].final <= 1

\* Requests and the periodic task.
RequestNext ==
    /\ (RequestStep /\ rec' # rec) \/ MaintenanceStep \/ Tick
    /\ winSeq' <= 4

\* Administrators around one request, for a single unit, and a prompt periodic task.
AdminNext ==
    /\ (RequestStep /\ rec' # rec) \/ MaintenanceStep \/ AdminStep \/ Tick
    /\ OneUnit /\ now' <= 2 /\ winSeq' <= 3

\* The periodic task acts on the time it is.
Prompt ==
    \A w \in WinIds : win'[w].kind # "none" /\ win'[w] # win[w] => win'[w].updated = now

\* With a buyer: around requests that have usage records and hold MaxQuota
\* between them, or around one such request, for a single unit, and a task
\* from before there were any.  What that task gives back comes while no request
\* is in flight: it could take back what one has reserved.
UpgradeNext ==
    /\ \/ (RequestStep /\ rec' # rec) \/ MaintenanceStep \/ Tick
       \/ subSeq = 1 /\ CreateUserSubscriptionFromPlanTx(Large, subSeq, 0)
    /\ MapThenSumSet(LAMBDA r : rec'[r].final, Requests) <= MaxQuota
    /\ Prompt /\ now' <= 3 /\ winSeq' <= 5
OldTaskNext ==
    /\ \/ RequestStep /\ (rec' # rec \/ NoneReserved)
       \/ MaintenanceStep \/ Tick
       \/ subSeq = 1 /\ \E plan \in Plans : CreateUserSubscriptionFromPlanTx(plan, subSeq, 0)
    /\ OneUnit /\ Prompt /\ now' <= 3 /\ winSeq' <= 5

\* Bindings that miss each other, and what is bought or redeemed over them: around
\* one request, for a single unit, or two that hold a unit each.  The last purchase
\* merges two subscriptions that both have a five-hour window.
BindNext ==
    /\ (RequestStep /\ rec' # rec) \/ PurchaseStep \/ MaintenanceStep \/ Tick
    /\ OneUnit \/ \A r \in Requests : /\ rec'[r].final <= 1 /\ rec'[r].version <= 1
                                        /\ ~rec'[r].pending
    /\ subSeq < subSeq' /\ subSeq' = MaxSub =>
          Cardinality({s \in ValidSubs(now) : sub[s].curF # 0}) = 2
    /\ now' <= 2

LedgerInit == Init /\ focus \in {"requests", "admin", "upgrade", "old task", "bind"}
LedgerNext ==
    \/ focus = "requests" /\ RequestNext /\ UNCHANGED focus
    \/ focus = "admin" /\ AdminNext /\ UNCHANGED focus
    \/ focus = "upgrade" /\ UpgradeNext /\ UNCHANGED focus
    \/ focus = "old task" /\ OldTaskNext /\ UNCHANGED focus
    \/ focus = "bind" /\ BindNext /\ UNCHANGED focus
LedgerSpec == LedgerInit /\ [][LedgerNext]_<<vars, focus>>

\* Bindings that miss each other, then a request of two units, which a Basic
\* subscription has no room for, whether or not it is the current one.
ExpirySpec ==
    /\ Init /\ focus = "expiry"
    /\ [][/\ (RequestStep /\ rec' # rec /\ subSeq = 2) \/ PurchaseStep
          /\ \A r \in Requests : rec'[r].pre # 1
          /\ UNCHANGED focus]_<<vars, focus>>
=============================================================================
