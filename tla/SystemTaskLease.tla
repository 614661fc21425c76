-------------------------- MODULE SystemTaskLease --------------------------
(***************************************************************************)
(* The system task runner (src/model/system_task.go, src/service/          *)
(* system_task.go) for one type of task: nodes create a row, claim it      *)
(* under a lock with a lease, run its handler while a heartbeat renews the *)
(* lease, and fail the tasks of leases that ran out.                       *)
(*                                                                         *)
(* Every database statement is a step.  Time is relative: a lease counts   *)
(* down from TTL, and a claim remembers how long ago it read the clock.    *)
(* Types do not share anything, so one type is enough.                     *)
(***************************************************************************)
EXTENDS Integers, FiniteSets

CONSTANTS
    Runners,      \* runner identifiers; a restarted node gets a new one
    MaxTasks,     \* bound on the task rows
    TTL,          \* systemTaskLockTTL
    MaxPause,     \* longest time between the statements of one claim
    MaxRunnerCrashes,  \* bound on crashes
    MaxLeaseFailures   \* bound on failing statements

VARIABLES
    taskRow,    \* taskRow[t]: the SystemTask rows, in the order of their ids
    lock,       \* the SystemTaskLock of the type
    runner,     \* runner[n]: the pass of node n
    handler,    \* handler[n][t]: the goroutine of node n that runs task t
    faults      \* crashes and failures left

leaseVars == <<taskRow, lock, runner, handler, faults>>

TaskIds == 1 .. MaxTasks
Active == {"pending", "running"}
Ended == {"succeeded", "failed"}
none == 0

ASSUME LeaseAssumption ==
    /\ MaxTasks \in Nat /\ TTL \in Nat \ {0} /\ MaxPause \in Nat
    /\ MaxRunnerCrashes \in Nat /\ MaxLeaseFailures \in Nat /\ none \notin Runners

\* A lease is expired when it is below zero; how long ago is not told apart
\* beyond Old.
Old == TTL + 1

NoLock == [task |-> none, by |-> none, left |-> - Old]
Resting == [pc |-> "idle", task |-> none, by |-> none, age |-> 0]
Off == [on |-> FALSE, cancelled |-> FALSE, finished |-> FALSE, left |-> - Old]

Exists(t) == taskRow[t].status # "none"
Alive(n) == runner[n].pc # "dead"
At(n, pc) == runner[n].pc = pc

Go(n, r) == runner' = [runner EXCEPT ![n] = r]
Step(n, pc) == Go(n, [runner[n] EXCEPT !.pc = pc])

SpendFault(b) == faults[b] > 0 /\ faults' = [faults EXCEPT ![b] = @ - 1]

\* The lock of task t held by runner n, with a lease that has not run out.
Holds(n, t) == lock.task = t /\ lock.by = n /\ lock.left >= 0

\* ReleaseSystemTaskLock.
Release(n, t) == lock' = IF lock.task = t /\ lock.by = n THEN NoLock ELSE lock

---------------------------------------------------------------------------
(* Creating a task: the scheduler, or an administrator. *)

\* No task of the type is active as far as this read can tell; the scheduler
\* also waits until the last one is old enough.
LookForActive(n) ==
    /\ At(n, "idle") /\ \A t \in TaskIds : taskRow[t].status \notin Active
    /\ Step(n, "create")
    /\ UNCHANGED <<taskRow, lock, handler, faults>>

\* The active key is unique: a second active row cannot be inserted.
MayCreate(t) ==
    /\ ~Exists(t) /\ \A u \in 1 .. t - 1 : Exists(u)
    /\ \A u \in TaskIds : taskRow[u].status \notin Active

CreateSystemTask(n) ==
    /\ At(n, "create")
    /\ taskRow' = [t \in TaskIds |-> IF MayCreate(t) THEN [status |-> "pending", by |-> none] ELSE taskRow[t]]
    /\ Step(n, "idle")
    /\ UNCHANGED <<lock, handler, faults>>

---------------------------------------------------------------------------
(* ClaimSystemTask. *)

Earliest(t) == taskRow[t].status = "pending" /\ \A u \in 1 .. t - 1 : taskRow[u].status # "pending"

\* The earliest pending task is read, and so is the clock.
ClaimRead(n) ==
    /\ At(n, "idle")
    /\ \E t \in TaskIds : Earliest(t) /\ Go(n, [Resting EXCEPT !.pc = "acquire", !.task = t])
    /\ UNCHANGED <<taskRow, lock, handler, faults>>

Mine(n) == [task |-> runner[n].task, by |-> n, left |-> TTL - runner[n].age]

\* The lease had run out when the claim read its clock.
Stale(n) == lock.left < - runner[n].age

\* acquireSystemTaskLock: insert the lock, or look whether it is stale ...
Acquire(n) ==
    /\ At(n, "acquire")
    /\ \/ lock = NoLock /\ lock' = Mine(n) /\ Step(n, "mark")
       \/ /\ lock # NoLock /\ UNCHANGED lock
          /\ IF Stale(n) THEN Go(n, [runner[n] EXCEPT !.pc = "steal", !.by = lock.task])
                         ELSE Go(n, Resting)
    /\ UNCHANGED <<taskRow, handler, faults>>

\* ... and take it over, if it still is.
Steal(n) ==
    /\ At(n, "steal")
    /\ IF lock # NoLock /\ Stale(n)
       THEN /\ lock' = Mine(n)
            /\ Step(n, IF runner[n].by = runner[n].task THEN "mark" ELSE "markExpired")
       ELSE UNCHANGED lock /\ Go(n, Resting)
    /\ UNCHANGED <<taskRow, handler, faults>>

\* Mutant of MarkExpired: whatever the state of the task.
MarkExpiredAlways(t) == [taskRow EXCEPT ![t].status = "failed"]

\* MarkSystemTaskLeaseExpired.
MarkExpired(t) == [taskRow EXCEPT ![t].status = IF @ = "running" THEN "failed" ELSE @]

MarkStolen(n) ==
    /\ At(n, "markExpired")
    /\ taskRow' = MarkExpired(runner[n].by)
    /\ Step(n, "mark")
    /\ UNCHANGED <<lock, handler, faults>>

Claimable(t) == taskRow[t].status = "pending"

\* The claim succeeds if the row is still pending, and then its handler starts;
\* otherwise the lock is given back.
MarkRunning(n) ==
    LET t == runner[n].task IN
    /\ At(n, "mark")
    /\ IF Claimable(t)
       THEN /\ taskRow' = [taskRow EXCEPT ![t] = [status |-> "running", by |-> n]]
            /\ handler' = [handler EXCEPT ![n][t] = [Off EXCEPT !.on = TRUE,
                                                                !.left = TTL - runner[n].age]]
            /\ UNCHANGED lock
       ELSE Release(n, t) /\ UNCHANGED <<taskRow, handler>>
    /\ Go(n, Resting)
    /\ UNCHANGED faults

\* A statement of the claim fails.  The lock is released where the code does.
ClaimFails(n) ==
    /\ runner[n].pc \in {"create", "acquire", "steal", "markExpired", "mark"} /\ SpendFault("failures")
    /\ IF runner[n].pc \in {"markExpired", "mark"} THEN Release(n, runner[n].task) ELSE UNCHANGED lock
    /\ Go(n, Resting)
    /\ UNCHANGED <<taskRow, handler>>

\* The row is running, but reading it back fails: no handler starts and the
\* lock stays until its lease runs out.
ReadBackFails(n) ==
    /\ At(n, "mark") /\ Claimable(runner[n].task) /\ SpendFault("failures")
    /\ taskRow' = [taskRow EXCEPT ![runner[n].task] = [status |-> "running", by |-> n]]
    /\ Go(n, Resting)
    /\ UNCHANGED <<lock, handler>>

---------------------------------------------------------------------------
(* The handler and its heartbeat. *)

Runs(n, t) == handler[n][t].on

Quit(n, t) == handler' = [handler EXCEPT ![n][t] = Off]

\* RenewSystemTaskLock, or the heartbeat gives up and cancels the handler.
Heartbeat(n, t) ==
    /\ Runs(n, t) /\ ~handler[n][t].cancelled /\ ~handler[n][t].finished
    /\ \/ /\ Holds(n, t) /\ lock' = [lock EXCEPT !.left = TTL]
          /\ handler' = [handler EXCEPT ![n][t].left = TTL] /\ UNCHANGED faults
       \/ /\ ~Holds(n, t) /\ handler' = [handler EXCEPT ![n][t].cancelled = TRUE]
          /\ UNCHANGED <<lock, faults>>
       \/ /\ SpendFault("failures") /\ handler' = [handler EXCEPT ![n][t].cancelled = TRUE]
          /\ UNCHANGED lock
    /\ UNCHANGED <<taskRow, runner>>

\* The condition under which a handler writes its row: it is still running, by this
\* runner, and the lease has not run out.
MayWrite(n, t) == taskRow[t].status = "running" /\ taskRow[t].by = n /\ Holds(n, t)

\* UpdateSystemTaskState cannot store the progress and the handler returns.
NoticeLoss(n, t) ==
    /\ Runs(n, t) /\ ~handler[n][t].finished /\ ~MayWrite(n, t)
    /\ Quit(n, t)
    /\ UNCHANGED <<taskRow, lock, runner, faults>>

\* FinishSystemTask writes the result under the lease ...
FinishSystemTask(n, t, s) ==
    /\ Runs(n, t) /\ ~handler[n][t].finished
    /\ IF MayWrite(n, t)
       THEN /\ taskRow' = [taskRow EXCEPT ![t].status = s]
            /\ handler' = [handler EXCEPT ![n][t].finished = TRUE]
       ELSE Quit(n, t) /\ UNCHANGED taskRow
    /\ UNCHANGED <<lock, runner, faults>>

\* ... or cannot write it ...
FinishFails(n, t) ==
    /\ Runs(n, t) /\ SpendFault("failures")
    /\ Quit(n, t)
    /\ UNCHANGED <<taskRow, lock, runner>>

\* ... and releases the lock.
ReleaseFinished(n, t) ==
    /\ Runs(n, t) /\ handler[n][t].finished
    /\ Release(n, t) /\ Quit(n, t)
    /\ UNCHANGED <<taskRow, runner, faults>>

---------------------------------------------------------------------------
(* ExpireStaleSystemTaskLocks: find, fail the task, delete the lock. *)

\* Mutant of Expired: stale locks are never found.
NeverExpired(l) == FALSE

Expired(l) == l # NoLock /\ l.left < 0

ExpireFind(n) ==
    /\ At(n, "idle") /\ Expired(lock)
    /\ Go(n, [Resting EXCEPT !.pc = "expire", !.task = lock.task, !.by = lock.by])
    /\ UNCHANGED <<taskRow, lock, handler, faults>>

ExpireMark(n) ==
    /\ At(n, "expire")
    /\ taskRow' = MarkExpired(runner[n].task)
    /\ Step(n, "delete")
    /\ UNCHANGED <<lock, handler, faults>>

\* Mutant of MayDelete: whoever holds the lock by now.
MayDeleteAny(n) == TRUE

MayDelete(n) == lock.task = runner[n].task /\ lock.by = runner[n].by /\ Expired(lock)

ExpireDelete(n) ==
    /\ At(n, "delete")
    /\ lock' = IF MayDelete(n) THEN NoLock ELSE lock
    /\ Go(n, Resting)
    /\ UNCHANGED <<taskRow, handler, faults>>

\* A statement of the cleanup fails and ends it.
CleanupFails(n) ==
    /\ runner[n].pc \in {"expire", "delete"} /\ SpendFault("failures")
    /\ Go(n, Resting)
    /\ UNCHANGED <<taskRow, lock, handler>>

---------------------------------------------------------------------------

\* External: one unit of time passes.  A claim takes MaxPause at most.
Down(left) == IF left = - Old THEN left ELSE left - 1

Claiming(n) == runner[n].pc \in {"acquire", "steal", "markExpired", "mark"}

Tick ==
    /\ \A n \in Runners : Claiming(n) => runner[n].age < MaxPause
    /\ lock' = [lock EXCEPT !.left = Down(@)]
    /\ runner' = [n \in Runners |-> [runner[n] EXCEPT !.age = IF Claiming(n) THEN @ + 1 ELSE 0]]
    /\ handler' = [n \in Runners |-> [t \in TaskIds |-> [handler[n][t] EXCEPT !.left = Down(@)]]]
    /\ UNCHANGED <<taskRow, faults>>

\* A node dies; another one is left.
RunnerCrash(n) ==
    /\ Alive(n) /\ \E m \in Runners \ {n} : Alive(m)
    /\ SpendFault("crashes")
    /\ Go(n, [Resting EXCEPT !.pc = "dead"])
    /\ handler' = [handler EXCEPT ![n] = [t \in TaskIds |-> Off]]
    /\ UNCHANGED <<taskRow, lock>>

LeaseInit ==
    /\ taskRow = [t \in TaskIds |-> [status |-> "none", by |-> none]]
    /\ lock = NoLock
    /\ runner = [n \in Runners |-> Resting]
    /\ handler = [n \in Runners |-> [t \in TaskIds |-> Off]]
    /\ faults = [crashes |-> MaxRunnerCrashes, failures |-> MaxLeaseFailures]

Claim(n) ==
    \/ CreateSystemTask(n) \/ Acquire(n) \/ Steal(n) \/ MarkStolen(n) \/ MarkRunning(n)
    \/ ExpireMark(n) \/ ExpireDelete(n)

Finish(n, t) == (\E s \in Ended : FinishSystemTask(n, t, s)) \/ ReleaseFinished(n, t)

LeaseNext ==
    \/ Tick
    \/ \E n \in Runners :
       \/ LookForActive(n) \/ ClaimRead(n) \/ ExpireFind(n)
       \/ Claim(n) \/ ClaimFails(n) \/ ReadBackFails(n) \/ CleanupFails(n) \/ RunnerCrash(n)
       \/ \E t \in TaskIds : Heartbeat(n, t) \/ NoticeLoss(n, t) \/ Finish(n, t) \/ FinishFails(n, t)

LeaseSpec == LeaseInit /\ [][LeaseNext]_leaseVars

\* Every pass of a live runner looks for stale locks and for pending tasks and
\* goes through; handlers finish; time passes whatever the nodes do.
FairLeaseSpec ==
    /\ LeaseSpec
    /\ SF_leaseVars(Tick)
    /\ \A n \in Runners :
          /\ SF_leaseVars(ClaimRead(n)) /\ SF_leaseVars(ExpireFind(n)) /\ WF_leaseVars(Claim(n))
          /\ \A t \in TaskIds : WF_leaseVars(Finish(n, t))

---------------------------------------------------------------------------
(* Properties. *)

\* Rows are created in order and have one of the five states; the lock names a
\* task that exists, and whoever runs a task has claimed it.
LeaseTypeOK ==
    /\ \A t \in TaskIds : taskRow[t].status \in Active \cup Ended \cup {"none"}
    /\ lock = NoLock \/ (lock.by \in Runners /\ lock.task \in TaskIds /\ Exists(lock.task))
    /\ \A n \in Runners, t \in TaskIds : Runs(n, t) => taskRow[t].by = n

\* Two nodes may run tasks of one type at a time only after one of them lost
\* its lease: no two running handlers were both promised the present moment.
LeaseExclusive ==
    \A m, n \in Runners, t, u \in TaskIds :
        Runs(m, t) /\ Runs(n, u) /\ handler[m][t].left >= 0 /\ handler[n][u].left >= 0
            => (m = n /\ t = u) \/ handler[m][t].finished \/ handler[n][u].finished

\* A lease that a node still counts on is not given to anybody else: neither
\* the takeover of another claim nor the cleanup of stale locks removes it.
PromiseKept ==
    \A n \in Runners, t \in TaskIds :
        Runs(n, t) /\ handler[n][t].left >= 0 /\ ~handler[n][t].finished => Holds(n, t)

\* A task is failed for its lease only if its runner's lease has run out (the
\* comment of runWithLeaseHeartbeat: a handler stays alive as long as its
\* heartbeat succeeds).
HeartbeatProtects ==
    [][\A n \in Runners, t \in TaskIds :
          Runs(n, t) /\ Holds(n, t) /\ taskRow[t].status = "running" /\ taskRow'[t].status # "running"
              => handler'[n][t].finished]_leaseVars

\* Every task that is created ends, whoever crashes: its type is not blocked.
EveryTaskEnds == \A t \in TaskIds : taskRow[t].status \in Active ~> taskRow[t].status \in Ended

\* A lease is what it promises to be: nobody takes it while its holder may count
\* on it, so that two nodes do not work on one type (acquireSystemTaskLock,
\* ExpireStaleSystemTaskLocks).
LeaseHonoured == LeaseTypeOK /\ LeaseExclusive /\ PromiseKept

\* A task is executed by one runner at most, and what ended stays as it ended:
\* a runner that lost its lease cannot overwrite the verdict (FinishSystemTask,
\* MarkSystemTaskLeaseExpired).
VerdictStands ==
    [][\A t \in TaskIds :
          /\ taskRow[t].status \in Ended => taskRow'[t] = taskRow[t]
          /\ taskRow[t].status = "running" => taskRow'[t].by = taskRow[t].by]_leaseVars
============================================================================
