---------------------- MODULE SubscriptionMaintenance ----------------------
(***************************************************************************)
(* The periodic subscription task of the master node                       *)
(* (src/service/subscription_reset_task.go) over the ledger, call by call: *)
(* recover settlements, expire subscriptions, reset periods, retire        *)
(* five-hour windows, clean up.  Each call selects a bounded batch with    *)
(* one query and then runs one transaction per row, so requests act        *)
(* between the query and the transactions.  The process may die at any     *)
(* point: the ledger and the consume logs survive, the cursor and the      *)
(* batch do not.                                                           *)
(***************************************************************************)
EXTENDS SubscriptionLedger

CONSTANTS
    BatchSize,    \* subscriptionResetBatchSize
    RecoveryAge,  \* age after which a silent reservation is looked at (300 s)
    MaxFaults     \* bound on transactions that fail for outside reasons and
                  \* restarts of the process, together

VARIABLES
    pc,        \* where the task is: "idle", or the call it is in
    cursor,    \* subscriptionSettlementCursor
    batch,     \* rows selected by the current call and not yet handled
    took,      \* the time the current call read before its query
    count,     \* rows the current call reports as handled
    logs,      \* consume logs of a request: [n, quota, consumed]
    failures, crashes

task  == <<pc, cursor, batch, took, count>>
mvars == <<vars, task, logs, failures, crashes>>

\* Record ids follow the order of admission, so requests are numbered by it.
ASSUME RequestsNumbered == Requests = 1 .. Cardinality(Requests)

ASSUME MaintenanceAssumption ==
    BatchSize \in Nat \ {0} /\ RecoveryAge \in Nat /\ MaxFaults \in Nat

\* The BatchSize first elements of S in the order Before.
FirstOf(S, Before(_, _)) ==
    {x \in S : Cardinality({y \in S : Before(y, x)}) < BatchSize}

-----------------------------------------------------------------------------
(* ReconcileSubscriptionSettlements.                                        *)

\* Mutant of Unresolved: only queued settlements are looked at.
OnlyQueued(r) == rec[r].pending

Unresolved(r) ==
    rec[r].pending \/ (rec[r].status = "reserved" /\ rec[r].updated < now - RecoveryAge)

\* A short batch means the end was reached: the next tick starts over.
NextCursor(B) == IF Cardinality(B) = BatchSize THEN Max(B) ELSE 0

\* The query.  The rows are copies: what they say may be stale when used.
SelectSettlements ==
    LET S == {r \in Requests : r > cursor /\ Unresolved(r)}
        B == FirstOf(S, LAMBDA x, y : x < y)
    IN  /\ pc = "idle"
        /\ pc' = "reconcile"
        /\ batch' = {[r |-> r, pending |-> rec[r].pending, final |-> rec[r].final,
                      version |-> rec[r].version] : r \in B}
        /\ cursor' = NextCursor(B)
        /\ UNCHANGED <<vars, took, count, logs, failures, crashes>>

\* Mutant of Proved: any log will do.
SomeLog(row) == logs[row.r].n >= 1

\* Exactly one consume log, agreeing with the record, proves the amount.
Proved(row) == logs[row.r].n = 1 /\ logs[row.r].consumed = row.final

CanQueue(row) ==
    rec[row.r].status = "reserved" /\ ~rec[row.r].pending /\ rec[row.r].version = row.version

CanComplete(r) ==
    rec[r].pending /\ rec[r].status = "reserved" /\ Adjustable(r, rec[r].quota, "settled")

\* The session queued the very same settlement since the query: queueing it
\* again is a success that changes nothing.
AlreadyQueued(row) ==
    rec[row.r].pending /\ rec[row.r].quota = logs[row.r].quota /\ rec[row.r].tokenPre = row.final

\* The row gets as far as CompleteSubscriptionSettlement.
Queued(row) == row.pending \/ (Proved(row) /\ AlreadyQueued(row))

NextRow == CHOOSE row \in batch : \A x \in batch : row.r <= x.r

\* A silent reservation with a proof is queued first ...
RecoverFromLog ==
    LET row == NextRow IN
    /\ pc = "reconcile" /\ batch # {} /\ ~row.pending /\ Proved(row) /\ CanQueue(row)
    /\ QueueSubscriptionSettlement(row.r, row.version, logs[row.r].quota, row.final)
    /\ batch' = (batch \ {row}) \cup {[row EXCEPT !.pending = TRUE]}
    /\ UNCHANGED <<pc, cursor, took, count, logs, failures, crashes>>

\* ... and then completed like one that was queued by its session.
CompleteRow ==
    LET row == NextRow IN
    /\ pc = "reconcile" /\ batch # {} /\ Queued(row) /\ CanComplete(row.r)
    /\ \E k \in BOOLEAN : CompleteSubscriptionSettlement(row.r, k)
    /\ batch' = batch \ {row}
    /\ UNCHANGED <<pc, cursor, took, count, logs, failures, crashes>>

\* A row without proof, or that has been resolved or blocked meanwhile.
PassRow ==
    LET row == NextRow IN
    /\ pc = "reconcile" /\ batch # {}
    /\ IF Queued(row) THEN ~CanComplete(row.r) ELSE ~(Proved(row) /\ CanQueue(row))
    /\ batch' = batch \ {row}
    /\ UNCHANGED <<vars, pc, cursor, took, count, logs, failures, crashes>>

\* The transaction fails; the error is logged and the next row is tried.
FailRow ==
    /\ pc = "reconcile" /\ batch # {} /\ failures + crashes < MaxFaults
    /\ failures' = failures + 1
    /\ batch' = batch \ {NextRow}
    /\ UNCHANGED <<vars, pc, cursor, took, count, logs, crashes>>

\* Mutant of EndReconcile: the expiry of subscriptions is skipped.
EndReconcileNoExpiry ==
    /\ pc = "reconcile" /\ batch = {}
    /\ pc' = "reset"
    /\ UNCHANGED <<vars, cursor, batch, took, count, logs, failures, crashes>>

EndReconcile ==
    /\ pc = "reconcile" /\ batch = {}
    /\ pc' = "expire"
    /\ UNCHANGED <<vars, cursor, batch, took, count, logs, failures, crashes>>

-----------------------------------------------------------------------------
(* The three batch loops.  A loop repeats while a call reports a full batch.*)

DueAt(call, t) ==
    CASE call = "expire" -> {s \in SubIds : sub[s].status = "active" /\ sub[s].end <= t}
      [] call = "reset"  -> {s \in SubIds : /\ sub[s].status = "active"
                                            /\ sub[s].next > 0 /\ sub[s].next <= t}
      [] call = "five"   -> {s \in ValidSubs(t) : /\ Exists(sub[s].curF)
                                                  /\ win[sub[s].curF].end <= t}

\* Order of the query of each call.
Sooner(call, x, y) ==
    LET key(s) == CASE call = "expire" -> sub[s].end
                    [] call = "reset"  -> sub[s].next
                    [] call = "five"   -> 0
    IN  key(x) < key(y) \/ (key(x) = key(y) /\ x < y)

After(call) == CASE call = "expire" -> "reset" [] call = "reset" -> "five" [] call = "five" -> "clean"

\* Where the task is while it handles the rows of a call.
RowsOf(call) ==
    CASE call = "expire" -> "expireRows" [] call = "reset" -> "resetRows" [] call = "five" -> "fiveRows"

SelectDue ==
    /\ pc \in {"expire", "reset", "five"}
    /\ batch' = FirstOf(DueAt(pc, now), LAMBDA x, y : Sooner(pc, x, y))
    /\ IF batch' = {} THEN pc' = After(pc) /\ took' = 0 ELSE pc' = RowsOf(pc) /\ took' = now
    /\ count' = 0
    /\ UNCHANGED <<vars, cursor, logs, failures, crashes>>

\* One transaction for the user expires everything that is due.
ExpireRows ==
    /\ pc = "expireRows" /\ batch # {}
    /\ batch' = {}
    /\ count' = Cardinality(DueAt("expire", took))
    /\ IF DueAt("expire", took) # {} THEN ExpireDueSubscriptions(took) ELSE UNCHANGED vars
    /\ UNCHANGED <<pc, cursor, took, logs, failures, crashes>>

\* A row that is still due is counted as reset, whether or not the schedule of
\* its plan had a boundary to apply.
ResetRow ==
    LET due(s) == sub[s].status # "none" /\ sub[s].next > 0 /\ sub[s].next <= took IN
    /\ pc = "resetRows"
    /\ \E s \in batch :
          /\ batch' = batch \ {s}
          /\ count' = IF due(s) THEN count + 1 ELSE count
          /\ IF due(s) THEN ResetDueSubscriptions(s, took) ELSE UNCHANGED vars
    /\ UNCHANGED <<pc, cursor, took, logs, failures, crashes>>

\* Only a window that has really elapsed is retired, and counted.
FiveHourRow ==
    LET due(s) == s \in DueAt("five", took) IN
    /\ pc = "fiveRows"
    /\ \E s \in batch :
          /\ batch' = batch \ {s}
          /\ count' = IF due(s) THEN count + 1 ELSE count
          /\ IF due(s) THEN ResetDueFiveHourSubscriptionWindows(s, took) ELSE UNCHANGED vars
    /\ UNCHANGED <<pc, cursor, took, logs, failures, crashes>>

\* A transaction fails, for an outside reason or because a row does not find its
\* window.  The tick is over, except that a five-hour failure only ends its loop.
FailCall ==
    /\ pc \in {"expireRows", "resetRows", "fiveRows"} /\ batch # {}
    /\ \/ failures + crashes < MaxFaults /\ failures' = failures + 1
       \/ (\E s \in batch : ~CurrentLoadable(s)) /\ failures' = failures
    /\ batch' = {} /\ took' = 0 /\ count' = 0
    /\ pc' = IF pc = "fiveRows" THEN "clean" ELSE "idle"
    /\ UNCHANGED <<vars, cursor, logs, crashes>>

\* The loop of runSubscriptionQuotaResetOnce decides whether to call again.
EndCall ==
    \E call \in {"expire", "reset", "five"} :
       /\ pc = RowsOf(call) /\ batch = {}
       /\ pc' = IF count < BatchSize THEN After(call) ELSE call
       /\ took' = 0 /\ count' = 0
       /\ UNCHANGED <<vars, cursor, batch, logs, failures, crashes>>

\* Cleanup runs on some ticks only; records go before windows.
CleanRecords ==
    /\ pc = "clean"
    /\ CleanupSubscriptionPreConsumeRecords
    /\ UNCHANGED <<task, logs, failures, crashes>>

CleanWindows ==
    /\ pc = "clean"
    /\ CleanupSubscriptionQuotaWindows
    /\ pc' = "idle"
    /\ UNCHANGED <<cursor, batch, took, count, logs, failures, crashes>>

EndTick ==
    /\ pc = "clean"
    /\ pc' = "idle"
    /\ UNCHANGED <<vars, cursor, batch, took, count, logs, failures, crashes>>

Maintain ==
    \/ SelectSettlements \/ RecoverFromLog \/ CompleteRow \/ PassRow \/ EndReconcile
    \/ SelectDue \/ ExpireRows \/ ResetRow \/ FiveHourRow \/ EndCall
    \/ CleanRecords \/ CleanWindows \/ EndTick

-----------------------------------------------------------------------------
(* The rest of the system.                                                  *)

\* The process dies: what the task had in memory is gone.
Crash ==
    /\ failures + crashes < MaxFaults
    /\ crashes' = crashes + 1
    /\ pc' = "idle" /\ cursor' = 0 /\ batch' = {} /\ took' = 0 /\ count' = 0
    /\ UNCHANGED <<vars, logs, failures>>

\* A session that could not queue its settlement still writes its consume log:
\* what the request cost, and the reservation it believes it holds.
RecordConsumeLog(r, q) ==
    /\ rec[r].status = "reserved" /\ ~rec[r].pending /\ logs[r].n < 2
    /\ logs' = [logs EXCEPT ![r] = [n |-> @.n + 1, quota |-> q, consumed |-> rec[r].final]]
    /\ UNCHANGED <<vars, task, failures, crashes>>

\* Sessions.  One that has logged its request is done with it.
Session ==
    \/ \E r \in Requests, q \in Quotas : RecordConsumeLog(r, q)
    \/ /\ \E r \in Requests : logs[r].n = 0 /\
          \/ \E a \in Quotas \ {0} : /\ \A x \in 1 .. r - 1 : rec[x].status # "none"
                                     /\ PreConsumeUserSubscription(r, a)
          \/ \E q \in Quotas :
                QueueSubscriptionSettlement(r, rec[r].version, q, rec[r].final)
          \/ CompleteSubscriptionSettlement(r, TRUE)
          \/ RefundSubscriptionUsage(r, rec[r].version)
       /\ UNCHANGED <<task, logs, failures, crashes>>

\* Buyers, administrators and the clock.
Others ==
    /\ \/ PurchaseStep
       \/ \E s \in SubIds : AdminDeleteUserSubscription(s)
       \/ Tick
    /\ UNCHANGED <<task, logs, failures, crashes>>

MInit ==
    /\ Init
    /\ pc = "idle" /\ cursor = 0 /\ batch = {} /\ took = 0 /\ count = 0
    /\ logs = [r \in Requests |-> [n |-> 0, quota |-> 0, consumed |-> 0]]
    /\ failures = 0 /\ crashes = 0

MNext == Maintain \/ FailRow \/ FailCall \/ Crash \/ Session \/ Others

\* The ticker keeps calling the task and the task is not preempted for ever;
\* time goes on.  Nothing is asked of requests, buyers or administrators.
Fairness == WF_mvars(Maintain) /\ WF_mvars(Others /\ Tick)

MSpec == MInit /\ [][MNext]_mvars /\ Fairness

-----------------------------------------------------------------------------
(* Properties.                                                              *)

Deleted(r) == sub[rec[r].sub].status = "none"

\* Whatever crashes and failures happen in between, and wherever the cursor
\* stands, a queued settlement is applied in the end, unless its subscription
\* was deleted (subscription_settlement.go: "A keyset cursor keeps unresolved
\* rows from starving later requests").
QueuedEventuallySettled ==
    \A r \in Requests : rec[r].pending ~> (~rec[r].pending \/ Deleted(r))

\* A request whose settlement could not even be queued is recovered from its
\* consume log, if there is exactly one and it agrees with the record.
OneLog(r) == logs[r].n = 1 /\ logs[r].consumed = rec[r].final

LoggedEventuallySettled ==
    \A r \in Requests :
        rec[r].status = "reserved" /\ OneLog(r) /\ rec[r].updated < MaxTime - RecoveryAge
           ~> rec[r].status # "reserved" \/ ~OneLog(r) \/ Deleted(r)

\* A reservation without a proof of its cost is never settled by the task: only
\* a session, or a log, can say what a request consumed ("not guessed").
NeverGuessed ==
    [][Maintain => \A r \in Requests :
          rec'[r].pending /\ ~rec[r].pending => OneLog(r) /\ rec'[r].quota = logs[r].quota]_mvars

\* An idle user is not forgotten: a subscription past its end stops being active
\* and an elapsed five-hour window is retired, though no request comes
\* (ResetDueFiveHourSubscriptionWindows: "even while the user is idle").
DueEventuallyHandled ==
    \A s \in SubIds : \A call \in {"expire", "five"} :
        s \in DueAt(call, now) ~> s \notin DueAt(call, now)

\* Every tick comes to an end, so that later ticks can settle, expire and clean
\* ("each maintenance tick performs bounded work").
TickEnds == []<>(pc = "idle")

\* What falls due is handled, tick by tick, though nobody sends a request.
DueIsHandled == DueEventuallyHandled /\ TickEnds

\* A charge that survives in the tables or in a log is made in the end, across
\* crashes and failing transactions (ReconcileSubscriptionSettlements).
ChargesAreMade == QueuedEventuallySettled /\ LoggedEventuallySettled
============================================================================
