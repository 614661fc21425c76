---------------------------- MODULE TaskBilling ----------------------------
(***************************************************************************)
(* Asynchronous (video) tasks after the upstream accepted them             *)
(* (src/controller/relay.go RelayTask, src/service/task_polling.go,        *)
(* task_billing.go, src/model/task.go, src/relay/relay_task.go).           *)
(*                                                                         *)
(* A task is charged when it is submitted.  Pollers on several nodes read  *)
(* its row, ask the upstream, and move the row by compare-and-swap on its  *)
(* status; whoever makes it final refunds or corrects the charge.  A       *)
(* sweeper fails tasks that take too long, and a lookup by the user may    *)
(* move the row as well.  Subscriptions are charged through UsageCharge.   *)
(*                                                                         *)
(* Tasks do not share state: a pass over many tasks is one job per task.   *)
(***************************************************************************)
EXTENDS Integers, FiniteSets

CONSTANTS
    Tasks,
    Pollers,            \* nodes that may run a polling pass, even two at once
    MaxQuota,           \* largest quota of a task (common.MaxQuota)
    Kinds,              \* the kinds of task considered: sets of Features
    MaxFailures,        \* bound on failing database operations
    MaxUnsettled,       \* bound on settlements queued but not completed
    MaxCrashes,         \* bound on crashes of polling nodes
    MaxLookups          \* bound on the users' own looks at realtime tasks

VARIABLES
    row,        \* row[t]: the Task record
    stage,      \* stage[t]: how far the submission of t is
    charge,     \* what the subscription ledger holds for t
    net,        \* net[t]: what t has taken from wallet and key so far
    job,        \* job[w][t]: what worker w is doing about t
    world,      \* world[t]: kind, upstream state, age, channel and key of t
    budget,     \* failures, unfinished settlements, crashes and lookups left
    excused     \* tasks an additive update of which failed or was cut short

vars == <<row, stage, charge, net, job, world, budget, excused>>

Sub == INSTANCE UsageCharge WITH Requests <- Tasks

Quotas == 0 .. MaxQuota
Final == {"SUCCESS", "FAILURE"}
Statuses == Final \cup {"none", "NOT_START", "IN_PROGRESS"}
user == "user"
Workers == Pollers \cup {user}

\* What tells tasks apart for billing: paid from a subscription (not the
\* wallet), billed per call, on a channel that may be removed, or on a Gemini
\* or Vertex channel, whose state users fetch themselves.
Features == {"subscribed", "perCall", "removable", "realtime"}

ASSUME TaskAssumption ==
    /\ MaxQuota \in Nat \ {0} /\ MaxFailures \in Nat /\ MaxUnsettled \in Nat
    /\ MaxCrashes \in Nat /\ MaxLookups \in Nat /\ user \notin Pollers
    /\ Kinds \subseteq SUBSET Features

With(feature) == {t \in Tasks : feature \in world[t].kind}
Subscribed == With("subscribed")
PerCall    == With("perCall")
Removable  == With("removable")
Realtime   == With("realtime")

NoRow == [status |-> "none", complete |-> FALSE, quota |-> 0, ref |-> 0]

\* "copy" is the task as the worker read it, "seen" what the upstream said,
\* "target" and "delta" the correction it makes.
Idle == [pc |-> "idle", copy |-> NoRow, seen |-> "none", target |-> 0, delta |-> 0]

Spend(b) == budget[b] > 0 /\ budget' = [budget EXCEPT ![b] = @ - 1]

Excuse(S) == excused' = excused \cup S

---------------------------------------------------------------------------
(* Submission: reserve, settle, insert the row. *)

\* The billing session has reserved p on the key and on its source.
PreConsume(t, p) ==
    /\ stage[t].pc = "new"
    /\ stage' = [stage EXCEPT ![t].pc = "reserved", ![t].pre = p]
    /\ IF t \in Subscribed
       THEN Sub!Reserve(t, p) /\ net' = [net EXCEPT ![t].key = p]
       ELSE net' = [net EXCEPT ![t] = [wallet |-> p, key |-> p]] /\ UNCHANGED charge
    /\ UNCHANGED <<row, job, world, budget, excused>>

\* SettleBilling, with the price q the upstream's answer led to.  Its error is
\* only logged.
SettleWallet(t, q) ==
    /\ stage[t].pc = "reserved" /\ t \notin Subscribed
    /\ stage' = [stage EXCEPT ![t].pc = "settled", ![t].quota = q]
    /\ \/ net' = [net EXCEPT ![t] = [wallet |-> q, key |-> q]] /\ UNCHANGED <<budget, excused>>
       \/ Spend("failures") /\ Excuse({t}) /\ UNCHANGED net
    /\ UNCHANGED <<row, charge, job, world>>

SettleQueue(t, q) ==
    /\ stage[t].pc = "reserved" /\ t \in Subscribed
    /\ stage' = [stage EXCEPT ![t].pc = "queued", ![t].quota = q]
    /\ Sub!Queue(t, charge[t].version, q, stage[t].pre)
    /\ UNCHANGED <<row, net, job, world, budget, excused>>

\* The settlement cannot be queued: the reservation stands for the task.
SettleUnqueued(t, q) ==
    /\ stage[t].pc = "reserved" /\ t \in Subscribed
    /\ Spend("failures") /\ Excuse({t})
    /\ stage' = [stage EXCEPT ![t].pc = "settled", ![t].quota = q, ![t].ref = charge[t].version]
    /\ UNCHANGED <<row, charge, net, job, world>>

\* CompleteSubscriptionSettlement, by the request or by the reconciler.
Complete(t) ==
    /\ Sub!Apply(t, world[t].key)
    /\ net' = [net EXCEPT ![t].key = IF world[t].key
                                     THEN @ + charge[t].target - charge[t].tokenPre ELSE @]

\* The reference of the request follows the record only if the completion
\* succeeds.
SettleComplete(t) ==
    /\ stage[t].pc = "queued"
    /\ \/ /\ Complete(t)
          /\ stage' = [stage EXCEPT ![t].pc = "settled", ![t].ref = charge[t].version + 1]
          /\ UNCHANGED budget
       \/ /\ Spend("unsettled")
          /\ stage' = [stage EXCEPT ![t].pc = "settled", ![t].ref = charge[t].version]
          /\ UNCHANGED <<charge, net>>
    /\ UNCHANGED <<row, job, world, excused>>

\* A task whose row cannot be written is never looked at again.
Insert(t) ==
    /\ stage[t].pc = "settled"
    /\ stage' = [stage EXCEPT ![t].pc = "done"]
    /\ \/ /\ row' = [row EXCEPT ![t] = [status |-> "NOT_START", complete |-> FALSE,
                                        quota |-> stage[t].quota, ref |-> stage[t].ref]]
          /\ UNCHANGED <<budget, excused>>
       \/ Spend("failures") /\ Excuse({t}) /\ UNCHANGED row
    /\ UNCHANGED <<charge, net, job, world>>

\* The reconciler finishes what a request left queued.
Reconcile(t) ==
    /\ stage[t].pc = "done" /\ charge[t].phase = "queued"
    /\ Complete(t)
    /\ UNCHANGED <<row, stage, job, world, budget, excused>>

---------------------------------------------------------------------------
(* Finishing a task. *)

Become(w, t, j) == job' = [job EXCEPT ![w][t] = j]

\* Mutant of Unfinished: finished rows are selected too.
UnfinishedOrNot(t) == row[t].status # "none"

\* Mutant of Unfinished: only tasks that are known to run are selected.
UnfinishedRunning(t) == row[t].status = "IN_PROGRESS"

\* The rows GetAllUnFinishSyncTasks and GetTimedOutUnfinishedTasks select.
Unfinished(t) == row[t].status \notin Final \cup {"none"} /\ ~row[t].complete

\* Mutant of Wins: whoever writes last wins.
WinsAlways(t, copy) == TRUE

\* UpdateWithStatus: the whole row is written if its status is still that of the copy.
Wins(t, copy) == row[t].status = copy.status

\* What happens to a task that became final: the winner bills it.
Finished(w, t, copy, status) ==
    LET won == [copy EXCEPT !.status = status, !.complete = TRUE] IN
    IF Wins(t, copy)
    THEN /\ row' = [row EXCEPT ![t] = won]
         /\ Become(w, t, IF status = "FAILURE"
                         THEN [Idle EXCEPT !.pc = IF copy.quota # 0 THEN "refund" ELSE "idle",
                                           !.copy = won, !.delta = - copy.quota]
                         ELSE [Idle EXCEPT !.pc = "settle", !.copy = won])
    ELSE UNCHANGED row /\ Become(w, t, Idle)

\* sweepTimedOutTasks, its query and then its update of one row; the sweep is
\* on, as it is by default (TaskTimeoutMinutes).
SweepRead(w, t) ==
    /\ job[w][t].pc = "idle" /\ Unfinished(t) /\ world[t].overdue
    /\ Become(w, t, [Idle EXCEPT !.pc = "sweep", !.copy = row[t]])
    /\ UNCHANGED <<row, stage, charge, net, world, budget, excused>>

SweepTimedOutTask(w, t) ==
    /\ job[w][t].pc = "sweep"
    /\ Finished(w, t, job[w][t].copy, "FAILURE")
    /\ UNCHANGED <<stage, charge, net, world, budget, excused>>

\* RunTaskPollingOnce reads the unfinished rows ...
PollRead(w, t) ==
    /\ job[w][t].pc = "idle" /\ Unfinished(t)
    /\ Become(w, t, [Idle EXCEPT !.pc = "poll", !.copy = row[t]])
    /\ UNCHANGED <<row, stage, charge, net, world, budget, excused>>

\* ... fails those whose channel is gone, whatever their status has become ...
BulkFail(w, t) ==
    /\ job[w][t].pc = "poll" /\ ~world[t].channel
    /\ row' = [row EXCEPT ![t].status = "FAILURE", ![t].complete = TRUE]
    /\ Become(w, t, Idle)
    /\ UNCHANGED <<stage, charge, net, world, budget, excused>>

\* ... asks the upstream about the others ...
PollFetch(w, t) ==
    /\ job[w][t].pc = "poll" /\ world[t].channel
    /\ Become(w, t, [job[w][t] EXCEPT !.pc = "write", !.seen = world[t].upstream])
    /\ UNCHANGED <<row, stage, charge, net, world, budget, excused>>

\* ... and writes what it learnt.
PollWrite(w, t) ==
    LET j == job[w][t] IN
    /\ j.pc = "write"
    /\ IF j.seen \in Final
       THEN Finished(w, t, j.copy, j.seen)
       ELSE /\ row' = IF Wins(t, j.copy) THEN [row EXCEPT ![t] = [j.copy EXCEPT !.status = j.seen]]
                                         ELSE row
            /\ Become(w, t, Idle)
    /\ UNCHANGED <<stage, charge, net, world, budget, excused>>

\* The fetch fails, the upstream answers 429 or nonsense, an update of the row
\* fails, or the pass is cancelled: the row stays for the next pass.
GiveUp(w, t) ==
    /\ job[w][t].pc \in {"sweep", "poll", "write"}
    /\ Spend("failures")
    /\ Become(w, t, Idle)
    /\ UNCHANGED <<row, stage, charge, net, world, excused>>

---------------------------------------------------------------------------
(* RefundTaskQuota and RecalculateTaskQuota. *)

\* adjustSubscriptionUsageTx with the reference of the task: the same state and
\* amount again is accepted under any version.
Repeats(t, phase, a) == charge[t].phase = phase /\ charge[t].amount = a

Adjustable(t, ref) == charge[t].phase \in {"reserved", "settled"} /\ charge[t].version = ref

NewRef(t, phase, a, ref) == IF Repeats(t, phase, a) THEN charge[t].version ELSE ref + 1

\* taskSetFundingFinal: from "previous" to "final"; on an error nothing happens.
SetFundingFinal(t, ref, previous, final, phase) ==
    IF t \in Subscribed
    THEN /\ UNCHANGED net
         /\ \/ Repeats(t, phase, final) /\ UNCHANGED charge
            \/ /\ ~Repeats(t, phase, final) /\ Adjustable(t, ref)
               /\ Sub!Change(t, ref, phase, final)
    ELSE net' = [net EXCEPT ![t].wallet = @ + final - previous] /\ UNCHANGED charge

Rejected(t, ref, phase, a) ==
    t \in Subscribed /\ ~Repeats(t, phase, a) /\ ~Adjustable(t, ref)

PhaseOf(j) == IF j.copy.status = "FAILURE" THEN "refunded" ELSE "settled"

\* settleTaskBillingOnComplete: the adaptor or the tokens give the price a, or
\* nobody does and what was charged stays.
SettleOnComplete(w, t, a) ==
    LET j == job[w][t] IN
    /\ j.pc = "settle"
    /\ IF t \in PerCall \/ a = 0 \/ (a = j.copy.quota /\ t \notin Subscribed)
       THEN Become(w, t, Idle)
       ELSE Become(w, t, [j EXCEPT !.pc = "refund", !.target = a, !.delta = a - j.copy.quota])
    /\ UNCHANGED <<row, stage, charge, net, world, budget, excused>>

\* The funding source first ...
AdjustFunding(w, t) ==
    LET j == job[w][t]
        moved == [j EXCEPT !.copy.ref = NewRef(t, PhaseOf(j), j.target, @)] IN
    /\ j.pc = "refund"
    /\ \/ /\ SetFundingFinal(t, j.copy.ref, j.copy.quota, j.target, PhaseOf(j))
          /\ Become(w, t, [moved EXCEPT !.pc = IF j.delta = 0 THEN "back" ELSE "key"])
          /\ UNCHANGED <<budget, excused>>
       \/ /\ Rejected(t, j.copy.ref, PhaseOf(j), j.target)
          /\ Become(w, t, Idle) /\ UNCHANGED <<charge, net, budget, excused>>
       \/ /\ Spend("failures") /\ Excuse({t})
          /\ Become(w, t, Idle) /\ UNCHANGED <<charge, net>>
    /\ UNCHANGED <<row, stage, world>>

\* A refund to the wallet leaves the row's quota alone.
NeedsWriteBack(j, t) == t \in Subscribed \/ j.copy.status = "SUCCESS"

KeyDelta(t, j) == j.delta

\* ... then the key, if it still exists; an error is only logged ...
AdjustTokenQuota(w, t) ==
    LET j == job[w][t] IN
    /\ j.pc = "key"
    /\ \/ /\ net' = IF world[t].key THEN [net EXCEPT ![t].key = @ + KeyDelta(t, j)] ELSE net
          /\ UNCHANGED <<budget, excused>>
       \/ Spend("failures") /\ Excuse({t}) /\ UNCHANGED net
    /\ Become(w, t, IF NeedsWriteBack(j, t) THEN [j EXCEPT !.pc = "back"] ELSE Idle)
    /\ UNCHANGED <<row, stage, charge, world>>

\* ... and the row: UpdateQuotaAndSubscriptionUsageRef compares the quota it
\* read, UpdateQuota does not.
WriteBack(w, t) ==
    LET j == job[w][t] IN
    /\ j.pc = "back"
    /\ \/ /\ row' = IF t \notin Subscribed THEN [row EXCEPT ![t].quota = j.target]
                    ELSE IF row[t].quota = j.copy.quota
                         THEN [row EXCEPT ![t].quota = j.target, ![t].ref = j.copy.ref]
                         ELSE row
          /\ UNCHANGED <<budget, excused>>
       \/ Spend("failures") /\ Excuse({t}) /\ UNCHANGED row
    /\ Become(w, t, Idle)
    /\ UNCHANGED <<stage, charge, net, world>>

---------------------------------------------------------------------------
(* The user's own look at a task, and the environment. *)

\* tryRealtimeFetch reads any row, final or not ...
RealtimeRead(t) ==
    /\ t \in Realtime /\ row[t].status # "none" /\ world[t].channel /\ job[user][t].pc = "idle"
    /\ Spend("lookups")
    /\ Become(user, t, [Idle EXCEPT !.pc = "write", !.copy = row[t], !.seen = world[t].upstream])
    /\ UNCHANGED <<row, stage, charge, net, world, excused>>

\* ... and writes what the upstream said over it, if that is a change.
RealtimeWrite(t) ==
    LET j   == job[user][t]
        new == [j.copy EXCEPT !.status = j.seen, !.complete = j.seen \in Final] IN
    /\ j.pc = "write"
    /\ row' = IF new # j.copy /\ Wins(t, j.copy) THEN [row EXCEPT ![t] = new] ELSE row
    /\ Become(user, t, Idle)
    /\ UNCHANGED <<stage, charge, net, world, budget, excused>>

\* External: the upstream finishes, the channel is removed or can no longer be
\* read, the user deletes the key, time passes.
UpstreamFinishes(t) ==
    /\ world[t].upstream = "IN_PROGRESS"
    /\ \E s \in Final : world' = [world EXCEPT ![t].upstream = s]
    /\ UNCHANGED <<row, stage, charge, net, job, budget, excused>>

RemoveChannel(t) ==
    /\ t \in Removable /\ world[t].channel
    /\ world' = [world EXCEPT ![t].channel = FALSE]
    /\ UNCHANGED <<row, stage, charge, net, job, budget, excused>>

\* A deleted key has nothing left to adjust.
DeleteKey(t) ==
    /\ stage[t].pc # "new" /\ world[t].key /\ Spend("failures") /\ Excuse({t})
    /\ world' = [world EXCEPT ![t].key = FALSE]
    /\ UNCHANGED <<row, stage, charge, net, job>>

TimePasses(t) ==
    /\ row[t].status # "none" /\ ~world[t].overdue
    /\ world' = [world EXCEPT ![t].overdue = TRUE]
    /\ UNCHANGED <<row, stage, charge, net, job, budget, excused>>

\* A polling node dies: what it had won and not yet billed stays unbilled.
Crash(w) ==
    /\ Spend("crashes")
    /\ Excuse({t \in Tasks : job[w][t].pc \in {"settle", "refund", "key", "back"}})
    /\ job' = [job EXCEPT ![w] = [t \in Tasks |-> Idle]]
    /\ UNCHANGED <<row, stage, charge, net, world>>

---------------------------------------------------------------------------

Init ==
    /\ row = [t \in Tasks |-> NoRow]
    /\ stage = [t \in Tasks |-> [pc |-> "new", pre |-> 0, quota |-> 0, ref |-> 0]]
    /\ Sub!Init
    /\ net = [t \in Tasks |-> [wallet |-> 0, key |-> 0]]
    /\ job = [w \in Workers |-> [t \in Tasks |-> Idle]]
    /\ \E kind \in [Tasks -> Kinds] :
          world = [t \in Tasks |-> [kind |-> kind[t], upstream |-> "IN_PROGRESS",
                                    overdue |-> FALSE, channel |-> TRUE, key |-> TRUE]]
    /\ budget = [failures |-> MaxFailures, unsettled |-> MaxUnsettled,
                 crashes |-> MaxCrashes, lookups |-> MaxLookups]
    /\ excused = {}

Submission(t) ==
    \/ \E q \in Quotas \ {0} :
          PreConsume(t, q) \/ SettleWallet(t, q) \/ SettleQueue(t, q) \/ SettleUnqueued(t, q)
    \/ SettleComplete(t)
    \/ Insert(t)

Bill(w, t) ==
    \/ \E a \in Quotas : SettleOnComplete(w, t, a)
    \/ AdjustFunding(w, t)
    \/ AdjustTokenQuota(w, t)
    \/ WriteBack(w, t)

Poll(w, t) ==
    \/ SweepRead(w, t) \/ SweepTimedOutTask(w, t)
    \/ PollRead(w, t) \/ BulkFail(w, t) \/ PollFetch(w, t) \/ PollWrite(w, t)
    \/ GiveUp(w, t)

\* A pass over t that was begun.
GoOn(w, t) ==
    SweepTimedOutTask(w, t) \/ BulkFail(w, t) \/ PollFetch(w, t) \/ PollWrite(w, t) \/ Bill(w, t)

Next ==
    \/ \E t \in Tasks :
       \/ Submission(t) \/ Reconcile(t) \/ RealtimeRead(t) \/ RealtimeWrite(t)
       \/ UpstreamFinishes(t) \/ RemoveChannel(t) \/ DeleteKey(t) \/ TimePasses(t)
       \/ \E w \in Pollers : Poll(w, t) \/ Bill(w, t)
    \/ \E w \in Pollers : Crash(w)

Spec == Init /\ [][Next]_vars

\* The clock runs, and the scheduler starts a pass every 15 seconds while there
\* are unfinished tasks; a pass that runs goes on.
Fairness ==
    \A t \in Tasks :
        /\ WF_vars(TimePasses(t))
        /\ \A w \in Pollers : SF_vars(SweepRead(w, t)) /\ WF_vars(GoOn(w, t))

FairSpec == Spec /\ Fairness

---------------------------------------------------------------------------
(* Properties. *)

\* What task t has cost its user so far.
Cost(t) == IF t \in Subscribed THEN charge[t].amount ELSE net[t].wallet

\* No poller owes task t anything, and no settlement of it is under way.
Quiet(t) ==
    /\ \A w \in Pollers : job[w][t].pc \notin {"settle", "refund", "key", "back"}
    /\ charge[t].phase # "queued"
    /\ t \notin excused

\* No pass has failed t for want of its channel (BulkFail), and its user does not
\* look it up (a lookup writes over a final row): its row is moved from an
\* unfinished status only, by compare-and-swap.
Guarded(t) == world[t].channel /\ t \notin Realtime

\* Every settlement was completed by its own request, so that tasks know the
\* version of their usage record.
KnownRefs == budget.unsettled = MaxUnsettled

\* Rows, jobs and charges are well formed; a row never carries a quota above
\* MaxQuota, and only a task with a row is worked on.
TypeOK ==
    /\ row \in [Tasks -> [status : Statuses, complete : BOOLEAN, quota : Quotas,
                          ref : Nat]]
    /\ \A w \in Workers, t \in Tasks :
          /\ job[w][t].copy.status \in Statuses
          /\ job[w][t].pc # "idle" => row[t].status # "none"
    /\ excused \subseteq Tasks

\* A task is never given back more than it took: not from its source and not
\* from its key, however many pollers and sweepers find it finished (RefundTaskQuota
\* runs only for the winner of UpdateWithStatus).  A lookup may reopen a task that
\* was refunded, which is then refunded again.
NeverOverRefunded ==
    \A t \in Tasks \ (excused \cup Realtime) : net[t].wallet >= 0 /\ net[t].key >= 0

\* A failed task costs nothing once its winner is done, neither its source nor
\* its key (RefundTaskQuota): unless its row was moved past the compare-and-swap,
\* or its reference to the usage record was out of date from the start.
FailedCostsNothing ==
    \A t \in Tasks :
        row[t].status = "FAILURE" /\ Quiet(t) /\ Guarded(t) /\ KnownRefs
            => Cost(t) = 0 /\ net[t].key = 0

\* A task that succeeded costs what its row says it costs, on both sides
\* (RecalculateTaskQuota), so that a later correction starts from the truth.
SuccessCostsQuota ==
    \A t \in Tasks :
        row[t].status = "SUCCESS" /\ Quiet(t) /\ Guarded(t)
            => Cost(t) = row[t].quota /\ net[t].key = row[t].quota

\* Key and source agree whenever no poller is between the two, whatever has
\* become of the task.  Not so where a lookup reopens a task on a subscription:
\* its second refund changes the usage record no more, but the key again.
KeyFollowsFunding ==
    \A t \in Tasks \ (Subscribed \cap Realtime) :
        Quiet(t) /\ stage[t].pc = "done" => net[t].key = Cost(t)

\* A task that is final stays as it is: a success is not turned into a failure
\* and a failure not into a success, while only compare-and-swap moves its row.
FinalStays ==
    [][\A t \in Tasks : row[t].status \in Final /\ Guarded(t)
                            => row'[t].status = row[t].status]_vars

\* Every recorded task becomes final, upstream or not: the sweeper's
\* compare-and-swap cannot lose for ever.
EventuallyFinal == \A t \in Tasks : row[t].status # "none" ~> row[t].status \in Final

\* A task has cost what its status says, on its source and on its key, and is
\* given back once at most, whoever finishes it.
ChargedForStatus ==
    /\ TypeOK
    /\ NeverOverRefunded
    /\ FailedCostsNothing
    /\ SuccessCostsQuota
    /\ KeyFollowsFunding
============================================================================
