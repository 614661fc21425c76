----------------------- MODULE SystemTaskLeaseProofs -----------------------
(***************************************************************************)
(* What holds of the system task runner for every set of runners, every    *)
(* number of tasks, every lease and every pause between the statements of  *)
(* a claim: a lease is honoured (LeaseHonoured) and a verdict stands       *)
(* (VerdictStands).  The invariant says, beside the types, who may hold    *)
(* the lock: a claim that took it recently, and a handler that counts on   *)
(* it, each with at least the time it believes to have.                    *)
(***************************************************************************)
EXTENDS SystemTaskLease, TLAPS

Statuses == Active \cup Ended \cup {"none"}
Places == {"idle", "create", "acquire", "steal", "markExpired", "mark", "expire", "delete", "dead"}
Owners == Runners \cup {none}
TaskOrNone == TaskIds \cup {none}

LeaseRow == [status : Statuses, by : Owners]
LeaseLock == [task : TaskOrNone, by : Owners, left : Int]
Pass == [pc : Places, task : TaskOrNone, by : Owners \cup TaskOrNone, age : Nat]
Goroutine == [on : BOOLEAN, cancelled : BOOLEAN, finished : BOOLEAN, left : Int]

RowsTyped == taskRow \in [TaskIds -> LeaseRow]
LockTyped == lock \in LeaseLock
PassesTyped == runner \in [Runners -> Pass]
HandlersTyped == handler \in [Runners -> [TaskIds -> Goroutine]]

\* A row that nobody claimed names nobody; a handler runs a row that names it.
Unclaimed == \A t \in TaskIds : taskRow[t].status \in {"none", "pending"} => taskRow[t].by = none
RunsItsOwn == \A n \in Runners, t \in TaskIds : handler[n][t].on => taskRow[t].by = n

\* The lock names a task that exists.
LockNamesTask ==
    lock = NoLock \/ (lock.by \in Runners /\ lock.task \in TaskIds /\ taskRow[lock.task].status # "none")

\* A claim is about a task that exists and that its node does not run already.
ClaimsNew ==
    \A n \in Runners : Claiming(n) =>
        /\ runner[n].task \in TaskIds
        /\ taskRow[runner[n].task].status # "none"
        /\ ~handler[n][runner[n].task].on

\* What the other statements of a pass are about.
PassKnows ==
    \A n \in Runners :
        /\ runner[n].pc \in {"steal", "markExpired"} => runner[n].by \in TaskIds
        /\ runner[n].pc \in {"expire", "delete"} => runner[n].task \in TaskIds

\* A claim that took the lock a short time ago has it still, for the rest of the lease.
ClaimHolds ==
    \A n \in Runners :
        runner[n].pc \in {"markExpired", "mark"} /\ runner[n].age <= TTL =>
            lock.task = runner[n].task /\ lock.by = n /\ lock.left >= TTL - runner[n].age

\* A handler that counts on its lease has it, for as long as it counts on it.
HandlerHolds ==
    \A n \in Runners, t \in TaskIds :
        handler[n][t].on /\ ~handler[n][t].finished /\ handler[n][t].left >= 0 =>
            lock.task = t /\ lock.by = n /\ lock.left >= handler[n][t].left

LeaseTyped == RowsTyped /\ LockTyped /\ PassesTyped /\ HandlersTyped

LeaseInv ==
    /\ LeaseTyped
    /\ Unclaimed /\ RunsItsOwn /\ LockNamesTask /\ ClaimsNew /\ PassKnows
    /\ ClaimHolds /\ HandlerHolds

---------------------------------------------------------------------------
(* The constants, and the values the actions write. *)

\* Task 0 and runner 0 stand for nobody; leases are positive.
LEMMA LeaseConstants == TTL \in Nat /\ TTL > 0 /\ none \notin Runners /\ none \notin TaskIds /\ Old = TTL + 1
BY LeaseAssumption DEF none, TaskIds, Old

\* The states of rest are of the right types.
LEMMA RestTyped == /\ NoLock \in LeaseLock /\ NoLock.by = none /\ NoLock.task = none /\ NoLock.left < 0
                   /\ Resting \in Pass /\ [Resting EXCEPT !.pc = "dead"] \in Pass
                   /\ Off \in Goroutine /\ ~Off.on
BY LeaseConstants DEF NoLock, LeaseLock, Owners, TaskOrNone, Resting, Pass, Places, Off, Goroutine

\* The invariant holds at the start.
LEMMA LeaseInitInv == LeaseInit => LeaseInv
<1> SUFFICES ASSUME LeaseInit PROVE LeaseInv
  OBVIOUS
<1>1. LeaseTyped
  BY RestTyped DEF LeaseInit, LeaseTyped, RowsTyped, LockTyped, PassesTyped, HandlersTyped, LeaseRow, Statuses, Owners
<1>2. Unclaimed /\ RunsItsOwn /\ LockNamesTask
  BY RestTyped DEF LeaseInit, Unclaimed, RunsItsOwn, LockNamesTask
<1>3. ClaimsNew /\ PassKnows /\ ClaimHolds /\ HandlerHolds
  BY RestTyped DEF LeaseInit, ClaimsNew, PassKnows, ClaimHolds, HandlerHolds, Claiming, Resting
<1> QED
  BY <1>1, <1>2, <1>3 DEF LeaseInv


\* A pass of node n becomes r, the others stay as they are.
LEMMA GoSets ==
    ASSUME PassesTyped, NEW n \in Runners, NEW r \in Pass, Go(n, r)
    PROVE  PassesTyped' /\ runner'[n] = r /\ \A m \in Runners \ {n} : runner'[m] = runner[m]
BY DEF PassesTyped, Go

\* A pass of node n goes on to place p, with what it knows.
LEMMA StepSets ==
    ASSUME PassesTyped, NEW n \in Runners, NEW p \in Places, Step(n, p)
    PROVE  /\ PassesTyped' /\ \A m \in Runners \ {n} : runner'[m] = runner[m]
           /\ runner'[n].pc = p /\ runner'[n].task = runner[n].task
           /\ runner'[n].by = runner[n].by /\ runner'[n].age = runner[n].age
<1> DEFINE r == [runner[n] EXCEPT !.pc = p]
<1>1. r \in Pass /\ r.pc = p /\ r.task = runner[n].task /\ r.by = runner[n].by /\ r.age = runner[n].age
  BY DEF PassesTyped, Pass
<1>2. Go(n, r)
  BY DEF Step
<1> HIDE DEF r
<1> QED
  BY <1>1, <1>2, GoSets

---------------------------------------------------------------------------
(* One node's pass moves on; rows may be created or failed on the way. *)

\* What the invariant says of the pass q of node n.
GoodPass(n, q) ==
    /\ q.pc \in {"acquire", "steal", "markExpired", "mark"} =>
          q.task \in TaskIds /\ taskRow[q.task].status # "none" /\ ~handler[n][q.task].on
    /\ q.pc \in {"steal", "markExpired"} => q.by \in TaskIds
    /\ q.pc \in {"expire", "delete"} => q.task \in TaskIds
    /\ q.pc \in {"markExpired", "mark"} /\ q.age <= TTL =>
          lock.task = q.task /\ lock.by = n /\ lock.left >= TTL - q.age

\* The passes are what the invariant says of each.
LEMMA PassesGood == (ClaimsNew /\ PassKnows /\ ClaimHolds) <=> \A n \in Runners : GoodPass(n, runner[n])
BY DEF ClaimsNew, PassKnows, ClaimHolds, GoodPass, Claiming

\* The rows after a step that creates some and fails some.
RowsGrow ==
    \A t \in TaskIds :
        /\ taskRow'[t].by = taskRow[t].by
        /\ taskRow[t].status # "none" => taskRow'[t].status # "none"
        /\ taskRow'[t].status \in {"none", "pending"} => taskRow[t].status \in {"none", "pending"}

\* A step that keeps the lock and the handlers, and moves one pass to a good place.
LEMMA PassMoves ==
    ASSUME LeaseInv, NEW n \in Runners, PassesTyped', RowsTyped', RowsGrow, UNCHANGED <<lock, handler>>,
           \A m \in Runners \ {n} : runner'[m] = runner[m],
           GoodPass(n, runner'[n])
    PROVE  LeaseInv'
<1>1. LeaseTyped'
  BY DEF LeaseInv, LeaseTyped, LockTyped, HandlersTyped
<1>2. Unclaimed' /\ RunsItsOwn'
  BY DEF LeaseInv, Unclaimed, RunsItsOwn, RowsGrow
<1>3. LockNamesTask'
  BY DEF LeaseInv, LockNamesTask, RowsGrow, NoLock
<1>4. (\A m \in Runners : GoodPass(m, runner[m]))'
  <2>1. \A m \in Runners : GoodPass(m, runner[m])
    BY PassesGood DEF LeaseInv
  <2>2. ASSUME NEW m \in Runners PROVE GoodPass(m, runner[m])'
    BY <2>1 DEF GoodPass, RowsGrow
  <2> QED
    BY <2>2
<1>5. (ClaimsNew /\ PassKnows /\ ClaimHolds)'
  BY <1>4 DEF ClaimsNew, PassKnows, ClaimHolds, GoodPass, Claiming
<1>6. HandlerHolds'
  BY DEF LeaseInv, HandlerHolds
<1> QED
  BY <1>1, <1>2, <1>3, <1>5, <1>6 DEF LeaseInv

\* A pass that waits, or ends, is in no claim.
LEMMA GoodRest == \A n, q : q.pc \in {"idle", "create", "dead"} => GoodPass(n, q)
BY DEF GoodPass

LEMMA LookForActiveInv == ASSUME LeaseInv, NEW n \in Runners, LookForActive(n) PROVE LeaseInv'
<1>1. PassesTyped /\ RowsTyped
  BY DEF LeaseInv, LeaseTyped
<1>2. Step(n, "create") /\ UNCHANGED <<taskRow, lock, handler>>
  BY DEF LookForActive
<1>3. PassesTyped' /\ runner'[n].pc = "create" /\ \A m \in Runners \ {n} : runner'[m] = runner[m]
  BY <1>1, <1>2, StepSets DEF Places
<1>4. RowsTyped' /\ RowsGrow
  BY <1>1, <1>2 DEF RowsTyped, RowsGrow
<1> QED
  BY <1>2, <1>3, <1>4, PassMoves, GoodRest

\* The rows that CreateSystemTask and MarkExpired leave.
LEMMA CreateGrows ==
    ASSUME RowsTyped, Unclaimed, NEW n \in Runners, CreateSystemTask(n) PROVE RowsTyped' /\ RowsGrow
<1>1. [status |-> "pending", by |-> none] \in LeaseRow
  BY DEF LeaseRow, Statuses, Owners, Active
<1>2. ASSUME NEW t \in TaskIds PROVE
        /\ taskRow'[t] \in LeaseRow /\ taskRow'[t].by = taskRow[t].by
        /\ taskRow[t].status # "none" => taskRow'[t].status # "none"
        /\ taskRow'[t].status \in {"none", "pending"} => taskRow[t].status \in {"none", "pending"}
  <2>1. taskRow[t] \in LeaseRow
    BY DEF RowsTyped
  <2>2. taskRow'[t] = IF MayCreate(t) THEN [status |-> "pending", by |-> none] ELSE taskRow[t]
    BY DEF CreateSystemTask
  <2>3. MayCreate(t) => taskRow[t].status = "none"
    BY DEF MayCreate, Exists
  <2>4. MayCreate(t) => taskRow[t].by = none
    BY <2>3 DEF Unclaimed
  <2> QED
    BY <1>1, <2>1, <2>2, <2>3, <2>4
<1>3. taskRow' \in [TaskIds -> LeaseRow]
  BY <1>2 DEF CreateSystemTask
<1> QED
  BY <1>2, <1>3 DEF RowsTyped, RowsGrow

LEMMA ExpireGrows ==
    ASSUME RowsTyped, NEW t \in TaskIds, taskRow' = MarkExpired(t) PROVE RowsTyped' /\ RowsGrow
<1>1. ASSUME NEW u \in TaskIds PROVE
        /\ taskRow'[u] \in LeaseRow /\ taskRow'[u].by = taskRow[u].by
        /\ taskRow'[u].status = IF u = t /\ taskRow[u].status = "running" THEN "failed" ELSE taskRow[u].status
  BY DEF RowsTyped, MarkExpired, LeaseRow, Statuses, Ended
<1>2. taskRow' \in [TaskIds -> LeaseRow]
  BY <1>1 DEF MarkExpired, RowsTyped
<1> QED
  BY <1>1, <1>2 DEF RowsTyped, RowsGrow

LEMMA CreateInv == ASSUME LeaseInv, NEW n \in Runners, CreateSystemTask(n) PROVE LeaseInv'
<1>1. PassesTyped /\ RowsTyped /\ Unclaimed
  BY DEF LeaseInv, LeaseTyped
<1>2. Step(n, "idle") /\ UNCHANGED <<lock, handler>>
  BY DEF CreateSystemTask
<1>3. PassesTyped' /\ runner'[n].pc = "idle" /\ \A m \in Runners \ {n} : runner'[m] = runner[m]
  BY <1>1, <1>2, StepSets DEF Places
<1>4. RowsTyped' /\ RowsGrow
  BY <1>1, CreateGrows
<1> QED
  BY <1>2, <1>3, <1>4, PassMoves, GoodRest


\* ClaimRead: the task is pending, so that it exists and nobody runs it.
LEMMA ClaimReadInv == ASSUME LeaseInv, NEW n \in Runners, ClaimRead(n) PROVE LeaseInv'
<1>1. PassesTyped /\ RowsTyped /\ Unclaimed /\ RunsItsOwn
  BY DEF LeaseInv, LeaseTyped
<1>2. UNCHANGED <<taskRow, lock, handler>>
  BY DEF ClaimRead
<1>3. PICK t \in TaskIds : Earliest(t) /\ Go(n, [Resting EXCEPT !.pc = "acquire", !.task = t])
  BY DEF ClaimRead
<1> DEFINE q == [Resting EXCEPT !.pc = "acquire", !.task = t]
<1>4. q \in Pass /\ q.pc = "acquire" /\ q.task = t
  <2>1. Resting \in Pass /\ "acquire" \in Places /\ t \in TaskOrNone
    BY RestTyped DEF Places, TaskOrNone
  <2> QED
    BY ONLY <2>1 DEF Pass
<1>5. Go(n, q)
  BY <1>3
<1> HIDE DEF q
<1>6. PassesTyped' /\ runner'[n] = q /\ \A m \in Runners \ {n} : runner'[m] = runner[m]
  BY <1>1, <1>4, <1>5, GoSets
<1>7. taskRow[t].status = "pending" /\ taskRow[t].by = none
  BY <1>1, <1>3 DEF Earliest, Unclaimed
<1>8. ~handler[n][t].on
  BY <1>1, <1>7, LeaseConstants DEF RunsItsOwn
<1>9. GoodPass(n, runner'[n])
  BY <1>4, <1>6, <1>7, <1>8 DEF GoodPass
<1>10. RowsTyped' /\ RowsGrow
  BY <1>1, <1>2 DEF RowsTyped, RowsGrow
<1> QED
  BY <1>2, <1>6, <1>9, <1>10, PassMoves

\* A pass that ends where nothing else changes.
LEMMA RestInv ==
    ASSUME LeaseInv, NEW n \in Runners, Go(n, Resting), UNCHANGED <<taskRow, lock, handler>> PROVE LeaseInv'
<1>1. PassesTyped /\ RowsTyped
  BY DEF LeaseInv, LeaseTyped
<1>2. PassesTyped' /\ runner'[n].pc = "idle" /\ \A m \in Runners \ {n} : runner'[m] = runner[m]
  <2>1. Resting.pc = "idle"
    BY DEF Resting
  <2> QED
    BY <1>1, <2>1, RestTyped, GoSets
<1>3. RowsTyped' /\ RowsGrow
  BY <1>1 DEF RowsTyped, RowsGrow
<1> QED
  BY <1>2, <1>3, PassMoves, GoodRest

\* A step that gives the lock to the claim of node n, where nobody counts on it, and
\* moves that claim on.
LEMMA LockTaken ==
    ASSUME LeaseInv, NEW n \in Runners, runner[n].pc \in {"acquire", "steal"}, lock.left < 0,
           lock' = Mine(n), NEW p \in {"mark", "markExpired"}, Step(n, p),
           p = "markExpired" => runner[n].by \in TaskIds,
           UNCHANGED <<taskRow, handler>>
    PROVE  LeaseInv'
<1>1. PassesTyped /\ RowsTyped /\ LockTyped /\ HandlersTyped /\ HandlerHolds /\ ClaimHolds /\ ClaimsNew /\ PassKnows
  BY DEF LeaseInv, LeaseTyped
<1>2. /\ PassesTyped' /\ \A m \in Runners \ {n} : runner'[m] = runner[m]
      /\ runner'[n].pc = p /\ runner'[n].task = runner[n].task
      /\ runner'[n].by = runner[n].by /\ runner'[n].age = runner[n].age
  BY <1>1, StepSets DEF Places
<1>3. /\ runner[n].task \in TaskIds /\ taskRow[runner[n].task].status # "none"
      /\ ~handler[n][runner[n].task].on
  BY <1>1 DEF ClaimsNew, Claiming
<1>4. /\ lock'.task = runner[n].task /\ lock'.by = n /\ lock'.left = TTL - runner[n].age
      /\ lock' \in LeaseLock
  BY <1>1, <1>3, LeaseConstants DEF Mine, LeaseLock, TaskOrNone, Owners, PassesTyped, Pass
<1>5. \A m \in Runners : ~(runner[m].pc \in {"markExpired", "mark"} /\ runner[m].age <= TTL)
  BY <1>1, LeaseConstants DEF ClaimHolds, PassesTyped, Pass, LockTyped, LeaseLock
<1>6. \A m \in Runners, t \in TaskIds : ~(handler[m][t].on /\ ~handler[m][t].finished /\ handler[m][t].left >= 0)
  BY <1>1 DEF HandlerHolds, HandlersTyped, Goroutine, LockTyped, LeaseLock
<1>7. LeaseTyped'
  BY <1>1, <1>2, <1>4 DEF LeaseTyped, RowsTyped, LockTyped, HandlersTyped
<1>8. Unclaimed' /\ RunsItsOwn'
  BY DEF LeaseInv, Unclaimed, RunsItsOwn
<1>9. LockNamesTask'
  BY <1>3, <1>4 DEF LockNamesTask
<1>10. ClaimsNew' /\ PassKnows'
  BY <1>1, <1>2, <1>3 DEF ClaimsNew, PassKnows, Claiming
<1>11. ClaimHolds'
  <2>1. \A m \in Runners : runner[m].age \in Nat
    BY <1>1 DEF PassesTyped, Pass
  <2> QED
    BY <1>2, <1>4, <1>5, <2>1, LeaseConstants DEF ClaimHolds
<1>12. HandlerHolds'
  BY <1>6 DEF HandlerHolds
<1> QED
  BY <1>7, <1>8, <1>9, <1>10, <1>11, <1>12 DEF LeaseInv

LEMMA AcquireInv == ASSUME LeaseInv, NEW n \in Runners, Acquire(n) PROVE LeaseInv'
<1>1. /\ PassesTyped /\ RowsTyped /\ LockTyped /\ LockNamesTask /\ ClaimsNew
      /\ runner[n].pc = "acquire" /\ UNCHANGED <<taskRow, handler>>
  BY DEF LeaseInv, LeaseTyped, Acquire, At
<1>2. CASE lock = NoLock
  <2>1. lock' = Mine(n) /\ Step(n, "mark") /\ lock.left < 0
    BY <1>2, RestTyped DEF Acquire
  <2> QED
    BY <1>1, <2>1, LockTaken
<1>3. CASE lock # NoLock /\ ~Stale(n)
  BY <1>1, <1>3, RestInv DEF Acquire
<1>4. CASE lock # NoLock /\ Stale(n)
  <2> DEFINE q == [runner[n] EXCEPT !.pc = "steal", !.by = lock.task]
  <2>1. Go(n, q) /\ UNCHANGED lock
    BY <1>4 DEF Acquire
  <2>2. lock.task \in TaskIds
    BY <1>1, <1>4 DEF LockNamesTask
  <2>3. q \in Pass /\ q.pc = "steal" /\ q.task = runner[n].task /\ q.by = lock.task
    <3>1. /\ runner[n] \in Pass /\ runner[n].task \in TaskOrNone /\ "steal" \in Places
          /\ lock.task \in Owners \cup TaskOrNone
      BY <1>1, <2>2 DEF PassesTyped, Pass, Places, TaskOrNone
    <3> QED
      BY ONLY <3>1 DEF Pass
  <2> HIDE DEF q
  <2>4. PassesTyped' /\ runner'[n] = q /\ \A m \in Runners \ {n} : runner'[m] = runner[m]
    BY <1>1, <2>1, <2>3, GoSets
  <2>5. GoodPass(n, runner'[n])
    BY <1>1, <2>2, <2>3, <2>4 DEF GoodPass, ClaimsNew, Claiming
  <2>6. RowsTyped' /\ RowsGrow
    BY <1>1 DEF RowsTyped, RowsGrow
  <2> QED
    BY <1>1, <2>1, <2>4, <2>5, <2>6, PassMoves
<1> QED
  BY <1>2, <1>3, <1>4


LEMMA StealInv == ASSUME LeaseInv, NEW n \in Runners, Steal(n) PROVE LeaseInv'
<1>1. /\ PassesTyped /\ LockTyped /\ PassKnows
      /\ runner[n].pc = "steal" /\ UNCHANGED <<taskRow, handler>>
  BY DEF LeaseInv, LeaseTyped, Steal, At
<1>2. CASE lock # NoLock /\ Stale(n)
  <2> DEFINE p == IF runner[n].by = runner[n].task THEN "mark" ELSE "markExpired"
  <2>1. lock' = Mine(n) /\ Step(n, p)
    BY <1>2 DEF Steal
  <2>2. lock.left < 0
    BY <1>1, <1>2 DEF Stale, PassesTyped, Pass, LockTyped, LeaseLock
  <2>3. p \in {"mark", "markExpired"} /\ runner[n].by \in TaskIds
    BY <1>1 DEF PassKnows
  <2> HIDE DEF p
  <2> QED
    BY <1>1, <2>1, <2>2, <2>3, LockTaken
<1>3. CASE ~(lock # NoLock /\ Stale(n))
  <2>1. UNCHANGED lock /\ Go(n, Resting)
    BY <1>3 DEF Steal
  <2> QED
    BY <1>1, <2>1, RestInv
<1> QED
  BY <1>2, <1>3

LEMMA MarkStolenInv == ASSUME LeaseInv, NEW n \in Runners, MarkStolen(n) PROVE LeaseInv'
<1>1. /\ PassesTyped /\ RowsTyped /\ PassKnows /\ ClaimsNew /\ ClaimHolds
      /\ runner[n].pc = "markExpired" /\ taskRow' = MarkExpired(runner[n].by)
      /\ Step(n, "mark") /\ UNCHANGED <<lock, handler>>
  BY DEF LeaseInv, LeaseTyped, MarkStolen, At
<1>2. RowsTyped' /\ RowsGrow
  BY <1>1, ExpireGrows DEF PassKnows
<1>3. /\ PassesTyped' /\ \A m \in Runners \ {n} : runner'[m] = runner[m]
      /\ runner'[n].pc = "mark" /\ runner'[n].task = runner[n].task /\ runner'[n].age = runner[n].age
  BY <1>1, StepSets DEF Places
<1>4. GoodPass(n, runner'[n])
  BY <1>1, <1>3 DEF GoodPass, ClaimsNew, ClaimHolds, Claiming
<1> QED
  BY <1>1, <1>2, <1>3, <1>4, PassMoves

LEMMA ExpireFindInv == ASSUME LeaseInv, NEW n \in Runners, ExpireFind(n) PROVE LeaseInv'
<1>1. /\ PassesTyped /\ RowsTyped /\ LockTyped /\ LockNamesTask
      /\ lock # NoLock /\ UNCHANGED <<taskRow, lock, handler>>
  BY DEF LeaseInv, LeaseTyped, ExpireFind, Expired
<1> DEFINE q == [Resting EXCEPT !.pc = "expire", !.task = lock.task, !.by = lock.by]
<1>2. Go(n, q)
  BY DEF ExpireFind
<1>3. lock.task \in TaskIds
  BY <1>1 DEF LockNamesTask
<1>4. q \in Pass /\ q.pc = "expire" /\ q.task = lock.task
  <2>1. /\ Resting \in Pass /\ "expire" \in Places /\ lock.task \in TaskOrNone
        /\ lock.by \in Owners \cup TaskOrNone
    BY <1>1, RestTyped DEF Places, LockTyped, LeaseLock
  <2> QED
    BY ONLY <2>1 DEF Pass
<1> HIDE DEF q
<1>5. PassesTyped' /\ runner'[n] = q /\ \A m \in Runners \ {n} : runner'[m] = runner[m]
  BY <1>1, <1>2, <1>4, GoSets
<1>6. GoodPass(n, runner'[n])
  BY <1>3, <1>4, <1>5 DEF GoodPass
<1>7. RowsTyped' /\ RowsGrow
  BY <1>1 DEF RowsTyped, RowsGrow
<1> QED
  BY <1>1, <1>5, <1>6, <1>7, PassMoves

LEMMA ExpireMarkInv == ASSUME LeaseInv, NEW n \in Runners, ExpireMark(n) PROVE LeaseInv'
<1>1. /\ PassesTyped /\ RowsTyped /\ PassKnows
      /\ runner[n].pc = "expire" /\ taskRow' = MarkExpired(runner[n].task)
      /\ Step(n, "delete") /\ UNCHANGED <<lock, handler>>
  BY DEF LeaseInv, LeaseTyped, ExpireMark, At
<1>2. runner[n].task \in TaskIds
  BY <1>1 DEF PassKnows
<1>3. RowsTyped' /\ RowsGrow
  BY <1>1, <1>2, ExpireGrows
<1>4. /\ PassesTyped' /\ \A m \in Runners \ {n} : runner'[m] = runner[m]
      /\ runner'[n].pc = "delete" /\ runner'[n].task = runner[n].task
  BY <1>1, StepSets DEF Places
<1>5. GoodPass(n, runner'[n])
  BY <1>2, <1>4 DEF GoodPass
<1> QED
  BY <1>1, <1>3, <1>4, <1>5, PassMoves

\* A pass of node n ends, the rows stay, and the lock is given up though no other
\* claim and no handler counts on it.
LEMMA LockGivenUp ==
    ASSUME LeaseInv, NEW n \in Runners, Go(n, Resting), UNCHANGED <<taskRow, handler>>, lock' \in {lock, NoLock},
           lock' = NoLock => \/ lock.left < 0
                             \/ lock.by = n /\ lock.task \in TaskIds /\ ~handler[n][lock.task].on
    PROVE  LeaseInv'
<1>1. PassesTyped /\ RowsTyped /\ LockTyped /\ HandlersTyped
  BY DEF LeaseInv, LeaseTyped
<1>2. PassesTyped' /\ runner'[n].pc = "idle" /\ \A m \in Runners \ {n} : runner'[m] = runner[m]
  <2>1. Resting.pc = "idle"
    BY DEF Resting
  <2> QED
    BY <1>1, <2>1, RestTyped, GoSets
<1>3. CASE UNCHANGED lock
  BY <1>3, RestInv
<1>4. CASE lock' = NoLock
  <2>1. LeaseTyped'
    BY <1>1, <1>2, <1>4, RestTyped DEF LeaseTyped, RowsTyped, LockTyped, HandlersTyped
  <2>2. (Unclaimed /\ RunsItsOwn /\ LockNamesTask)'
    BY <1>4 DEF LeaseInv, Unclaimed, RunsItsOwn, LockNamesTask, NoLock
  <2>3. (ClaimsNew /\ PassKnows)'
    BY <1>2 DEF LeaseInv, ClaimsNew, PassKnows, Claiming
  <2>4. ClaimHolds'
    <3>1. \A m \in Runners \ {n} : ~(runner[m].pc \in {"markExpired", "mark"} /\ runner[m].age <= TTL)
      <4>1. \A m \in Runners : runner[m].age \in Nat
        BY <1>1 DEF PassesTyped, Pass
      <4>2. lock.left \in Int
        BY <1>1 DEF LockTyped, LeaseLock
      <4> QED
        BY <1>4, <4>1, <4>2, LeaseConstants DEF LeaseInv, ClaimHolds
    <3> QED
      BY <1>2, <3>1 DEF ClaimHolds
  <2>5. HandlerHolds'
    <3>1. \A m \in Runners, t \in TaskIds : ~(handler[m][t].on /\ ~handler[m][t].finished /\ handler[m][t].left >= 0)
      <4>1. \A m \in Runners, t \in TaskIds : handler[m][t].left \in Int
        BY <1>1 DEF HandlersTyped, Goroutine
      <4>2. lock.left \in Int
        BY <1>1 DEF LockTyped, LeaseLock
      <4> QED
        BY <1>4, <4>1, <4>2 DEF LeaseInv, HandlerHolds
    <3> QED
      BY <3>1 DEF HandlerHolds
  <2> QED
    BY <2>1, <2>2, <2>3, <2>4, <2>5 DEF LeaseInv
<1> QED
  BY <1>3, <1>4

LEMMA ExpireDeleteInv == ASSUME LeaseInv, NEW n \in Runners, ExpireDelete(n) PROVE LeaseInv'
<1>1. Go(n, Resting) /\ UNCHANGED <<taskRow, handler>> /\ lock' \in {lock, NoLock}
  BY DEF ExpireDelete
<1>2. CASE MayDelete(n)
  BY <1>1, <1>2, LockGivenUp DEF MayDelete, Expired
<1>3. CASE ~MayDelete(n)
  BY <1>1, <1>3, RestInv DEF ExpireDelete
<1> QED
  BY <1>2, <1>3

\* Where a claim gives its lock back, no handler of the node runs the task.
LEMMA ClaimReleases ==
    ASSUME LeaseInv, NEW n \in Runners, Claiming(n), Release(n, runner[n].task), Go(n, Resting),
           UNCHANGED <<taskRow, handler>>
    PROVE  LeaseInv'
<1>1. runner[n].task \in TaskIds /\ ~handler[n][runner[n].task].on
  BY DEF LeaseInv, ClaimsNew
<1>2. CASE lock.task = runner[n].task /\ lock.by = n
  <2>1. lock' \in {lock, NoLock}
    BY DEF Release
  <2> QED
    BY <1>1, <1>2, <2>1, LockGivenUp
<1>3. CASE ~(lock.task = runner[n].task /\ lock.by = n)
  BY <1>3, RestInv DEF Release
<1> QED
  BY <1>2, <1>3

LEMMA ClaimFailsInv == ASSUME LeaseInv, NEW n \in Runners, ClaimFails(n) PROVE LeaseInv'
<1>1. Go(n, Resting) /\ UNCHANGED <<taskRow, handler>>
  BY DEF ClaimFails
<1>2. CASE runner[n].pc \in {"markExpired", "mark"}
  BY <1>1, <1>2, ClaimReleases DEF ClaimFails, Claiming
<1>3. CASE runner[n].pc \notin {"markExpired", "mark"}
  BY <1>1, <1>3, RestInv DEF ClaimFails
<1> QED
  BY <1>2, <1>3

LEMMA CleanupFailsInv == ASSUME LeaseInv, NEW n \in Runners, CleanupFails(n) PROVE LeaseInv'
BY RestInv DEF CleanupFails


---------------------------------------------------------------------------
(* A claim succeeds. *)

\* The row of a pending task that node n marks as its own, with or without a handler.
LEMMA RowClaimed ==
    ASSUME LeaseInv, NEW n \in Runners, NEW t \in TaskIds, taskRow[t].status = "pending",
           taskRow' = [taskRow EXCEPT ![t] = [status |-> "running", by |-> n]]
    PROVE  /\ RowsTyped' /\ Unclaimed'
           /\ \A u \in TaskIds : taskRow[u].status # "none" => taskRow'[u].status # "none"
           /\ taskRow'[t].by = n /\ \A u \in TaskIds \ {t} : taskRow'[u] = taskRow[u]
           /\ \A m \in Runners : ~handler[m][t].on
<1>1. RowsTyped /\ Unclaimed /\ RunsItsOwn
  BY DEF LeaseInv, LeaseTyped
<1>2. [status |-> "running", by |-> n] \in LeaseRow
  BY DEF LeaseRow, Statuses, Active, Owners
<1>3. RowsTyped'
  BY <1>1, <1>2 DEF RowsTyped
<1>4. /\ taskRow'[t].status = "running" /\ taskRow'[t].by = n
      /\ \A u \in TaskIds \ {t} : taskRow'[u] = taskRow[u]
  BY <1>1 DEF RowsTyped
<1>5. Unclaimed'
  BY <1>1, <1>4 DEF Unclaimed
<1>6. \A m \in Runners : ~handler[m][t].on
  BY <1>1, LeaseConstants DEF Unclaimed, RunsItsOwn
<1> QED
  BY <1>3, <1>4, <1>5, <1>6

LEMMA MarkRunningInv == ASSUME LeaseInv, NEW n \in Runners, MarkRunning(n) PROVE LeaseInv'
<1> DEFINE t == runner[n].task
           h == [Off EXCEPT !.on = TRUE, !.left = TTL - runner[n].age]
<1>1. /\ LeaseTyped /\ ClaimsNew /\ ClaimHolds /\ LockNamesTask /\ RunsItsOwn /\ HandlerHolds /\ PassKnows
      /\ PassesTyped /\ HandlersTyped
      /\ runner[n].pc = "mark" /\ Go(n, Resting)
  BY DEF LeaseInv, LeaseTyped, MarkRunning, At
<1>2. t \in TaskIds /\ Claiming(n)
  BY <1>1 DEF ClaimsNew, Claiming
<1>3. CASE ~Claimable(t)
  BY <1>1, <1>2, <1>3, ClaimReleases DEF MarkRunning
<1>4. CASE Claimable(t)
  <2>1. /\ taskRow' = [taskRow EXCEPT ![t] = [status |-> "running", by |-> n]]
        /\ handler' = [handler EXCEPT ![n][t] = h]
        /\ UNCHANGED lock
    BY <1>4 DEF MarkRunning
  <2>2. h \in Goroutine /\ h.left = TTL - runner[n].age /\ runner[n].age \in Nat
    <3>1. Off \in Goroutine /\ runner[n].age \in Nat /\ TTL - runner[n].age \in Int
      BY <1>1, RestTyped, LeaseConstants DEF PassesTyped, Pass
    <3> QED
      BY ONLY <3>1 DEF Goroutine
  <2> HIDE DEF t, h
  <2>3. /\ RowsTyped' /\ Unclaimed'
        /\ \A u \in TaskIds : taskRow[u].status # "none" => taskRow'[u].status # "none"
        /\ taskRow'[t].by = n /\ \A u \in TaskIds \ {t} : taskRow'[u] = taskRow[u]
        /\ \A m \in Runners : ~handler[m][t].on
    BY <1>2, <1>4, <2>1, RowClaimed DEF Claimable
  <2>4. PassesTyped' /\ runner'[n].pc = "idle" /\ \A m \in Runners \ {n} : runner'[m] = runner[m]
    <3>1. Resting.pc = "idle"
      BY DEF Resting
    <3> QED
      BY <1>1, <3>1, RestTyped, GoSets
  <2>5. /\ HandlersTyped' /\ handler'[n][t] = h
        /\ \A m \in Runners, u \in TaskIds : m # n \/ u # t => handler'[m][u] = handler[m][u]
    BY <1>1, <1>2, <2>1, <2>2 DEF HandlersTyped
  <2>6. LeaseTyped'
    BY <1>1, <2>1, <2>3, <2>4, <2>5 DEF LeaseTyped, LockTyped
  <2>7. RunsItsOwn'
    BY <1>1, <2>3, <2>5 DEF RunsItsOwn
  <2>8. LockNamesTask'
    BY <1>1, <2>1, <2>3 DEF LockNamesTask, NoLock
  <2>9. ClaimsNew' /\ PassKnows'
    BY <1>1, <2>3, <2>4, <2>5 DEF ClaimsNew, PassKnows, Claiming
  <2>10. ClaimHolds'
    BY <1>1, <2>1, <2>4 DEF ClaimHolds
  <2>11. h.left >= 0 => lock.task = t /\ lock.by = n /\ lock.left >= h.left
    BY <1>1, <2>2, LeaseConstants DEF ClaimHolds, t
  <2>12. HandlerHolds'
    BY <1>1, <2>1, <2>5, <2>11 DEF HandlerHolds
  <2> QED
    BY <2>3, <2>6, <2>7, <2>8, <2>9, <2>10, <2>12 DEF LeaseInv
<1> QED
  BY <1>3, <1>4

LEMMA ReadBackFailsInv == ASSUME LeaseInv, NEW n \in Runners, ReadBackFails(n) PROVE LeaseInv'
<1> DEFINE t == runner[n].task
<1>1. /\ LeaseTyped /\ ClaimsNew /\ ClaimHolds /\ LockNamesTask /\ RunsItsOwn /\ HandlerHolds /\ PassKnows
      /\ PassesTyped
      /\ runner[n].pc = "mark" /\ Go(n, Resting) /\ UNCHANGED <<lock, handler>> /\ Claimable(t)
      /\ taskRow' = [taskRow EXCEPT ![t] = [status |-> "running", by |-> n]]
  BY DEF LeaseInv, LeaseTyped, ReadBackFails, At
<1>2. t \in TaskIds
  BY <1>1 DEF ClaimsNew, Claiming
<1> HIDE DEF t
<1>3. /\ RowsTyped' /\ Unclaimed'
      /\ \A u \in TaskIds : taskRow[u].status # "none" => taskRow'[u].status # "none"
      /\ taskRow'[t].by = n /\ \A u \in TaskIds \ {t} : taskRow'[u] = taskRow[u]
      /\ \A m \in Runners : ~handler[m][t].on
  BY <1>1, <1>2, RowClaimed DEF Claimable
<1>4. PassesTyped' /\ runner'[n].pc = "idle" /\ \A m \in Runners \ {n} : runner'[m] = runner[m]
  <2>1. Resting.pc = "idle"
    BY DEF Resting
  <2> QED
    BY <1>1, <2>1, RestTyped, GoSets
<1>5. LeaseTyped'
  BY <1>1, <1>3, <1>4 DEF LeaseTyped, LockTyped, HandlersTyped
<1>6. RunsItsOwn' /\ LockNamesTask'
  BY <1>1, <1>3 DEF RunsItsOwn, LockNamesTask, NoLock
<1>7. ClaimsNew' /\ PassKnows' /\ ClaimHolds'
  BY <1>1, <1>3, <1>4 DEF ClaimsNew, PassKnows, ClaimHolds, Claiming
<1>8. HandlerHolds'
  BY <1>1 DEF HandlerHolds
<1> QED
  BY <1>3, <1>5, <1>6, <1>7, <1>8 DEF LeaseInv

---------------------------------------------------------------------------
(* The handler and its heartbeat. *)

\* A step of the handler of task t on node n that leaves the lock, or renews it, and
\* leaves the rows, or ends t.
LEMMA HandlerStep ==
    ASSUME LeaseInv, NEW n \in Runners, NEW t \in TaskIds, NEW h \in Goroutine, UNCHANGED runner,
           handler[n][t].on, handler' = [handler EXCEPT ![n][t] = h],
           RowsTyped', RowsGrow,
           \/ /\ UNCHANGED lock
              /\ \/ ~h.on \/ h.finished
                 \/ h.left = handler[n][t].left /\ ~handler[n][t].finished
           \/ /\ lock.task = t /\ lock.by = n /\ lock.left >= 0 /\ lock' = [lock EXCEPT !.left = TTL]
              /\ h.left = TTL
           \/ lock' = NoLock /\ lock.task = t /\ lock.by = n /\ ~h.on /\ handler[n][t].finished
    PROVE  LeaseInv'
<1>1. /\ LeaseTyped /\ ClaimsNew /\ ClaimHolds /\ LockNamesTask /\ RunsItsOwn /\ HandlerHolds /\ PassKnows
      /\ PassesTyped /\ HandlersTyped /\ LockTyped /\ Unclaimed
  BY DEF LeaseInv, LeaseTyped
<1>2. /\ HandlersTyped' /\ handler'[n][t] = h
      /\ \A m \in Runners, u \in TaskIds : m # n \/ u # t => handler'[m][u] = handler[m][u]
  BY <1>1 DEF HandlersTyped
<1>3. /\ \A m \in Runners : runner[m].age \in Nat
      /\ \A m \in Runners, u \in TaskIds : handler[m][u].left \in Int
      /\ lock.left \in Int /\ h.left \in Int
  BY <1>1 DEF PassesTyped, Pass, HandlersTyped, Goroutine, LockTyped, LeaseLock
<1>4. LockTyped' /\ LockNamesTask'
  <2>1. CASE UNCHANGED lock
    BY <1>1, <2>1 DEF LockTyped, LockNamesTask, NoLock, RowsGrow
  <2>2. CASE lock' = [lock EXCEPT !.left = TTL] /\ lock.task = t /\ lock.by = n
    <3>1. lock'.task = t /\ lock'.by = n /\ lock' \in LeaseLock
      BY <1>1, <2>2, LeaseConstants DEF LockTyped, LeaseLock
    <3>2. taskRow[t].status # "none"
      BY <1>1, <2>2, LeaseConstants, RestTyped DEF LockNamesTask
    <3> QED
      BY <3>1, <3>2 DEF LockTyped, LockNamesTask, RowsGrow
  <2>3. CASE lock' = NoLock
    BY <2>3, RestTyped DEF LockTyped, LockNamesTask
  <2> QED
    BY <2>1, <2>2, <2>3
<1>5. LeaseTyped'
  BY <1>1, <1>2, <1>4 DEF LeaseTyped, PassesTyped
<1>6. Unclaimed' /\ RunsItsOwn'
  BY <1>1, <1>2 DEF Unclaimed, RunsItsOwn, RowsGrow
<1>7. ClaimsNew' /\ PassKnows'
  BY <1>1, <1>2 DEF ClaimsNew, PassKnows, Claiming, RowsGrow
<1>8. \A m \in Runners : runner[m].pc \in {"markExpired", "mark"} => ~(m = n /\ runner[m].task = t)
  BY <1>1 DEF ClaimsNew, Claiming
<1>9. ClaimHolds' /\ HandlerHolds'
  <2>1. CASE UNCHANGED lock /\ (~h.on \/ h.finished \/ (h.left = handler[n][t].left /\ ~handler[n][t].finished))
    <3>1. ClaimHolds'
      BY <1>1, <2>1 DEF ClaimHolds
    <3>2. HandlerHolds'
      BY <1>1, <1>2, <2>1 DEF HandlerHolds
    <3> QED
      BY <3>1, <3>2
  <2>2. CASE lock.task = t /\ lock.by = n /\ lock' = [lock EXCEPT !.left = TTL] /\ h.left = TTL
    <3>1. lock'.task = t /\ lock'.by = n /\ lock'.left = TTL
      BY <1>1, <2>2 DEF LockTyped, LeaseLock
    <3>2. ClaimHolds'
      BY <1>1, <1>8, <2>2 DEF ClaimHolds
    <3>3. HandlerHolds'
      BY <1>1, <1>2, <1>3, <2>2, <3>1, LeaseConstants DEF HandlerHolds
    <3> QED
      BY <3>2, <3>3
  <2>3. CASE lock' = NoLock /\ lock.task = t /\ lock.by = n /\ ~h.on
    <3>1. ClaimHolds'
      BY <1>1, <1>8, <2>3 DEF ClaimHolds
    <3>2. HandlerHolds'
      BY <1>1, <1>2, <2>3 DEF HandlerHolds
    <3> QED
      BY <3>1, <3>2
  <2> QED
    BY <2>1, <2>2, <2>3
<1> QED
  BY <1>5, <1>4, <1>6, <1>7, <1>9 DEF LeaseInv


\* Rows that stay, or whose status becomes s for a task that runs.
LEMMA RowsStay == ASSUME RowsTyped, UNCHANGED taskRow PROVE RowsTyped' /\ RowsGrow
BY DEF RowsTyped, RowsGrow

LEMMA HeartbeatInv ==
    ASSUME LeaseInv, NEW n \in Runners, NEW t \in TaskIds, Heartbeat(n, t) PROVE LeaseInv'
<1>1. /\ RowsTyped /\ HandlersTyped /\ handler[n][t].on /\ ~handler[n][t].finished
      /\ UNCHANGED <<taskRow, runner>>
  BY DEF LeaseInv, LeaseTyped, Heartbeat, Runs
<1>2. RowsTyped' /\ RowsGrow
  BY <1>1, RowsStay
<1>3. handler[n][t] \in Goroutine
  BY <1>1 DEF HandlersTyped
<1>4. CASE Holds(n, t) /\ lock' = [lock EXCEPT !.left = TTL] /\ handler' = [handler EXCEPT ![n][t].left = TTL]
  <2> DEFINE h == [handler[n][t] EXCEPT !.left = TTL]
  <2>1. h \in Goroutine /\ h.left = TTL
    BY <1>3, LeaseConstants DEF Goroutine
  <2>2. handler' = [handler EXCEPT ![n][t] = h]
    BY <1>4
  <2> HIDE DEF h
  <2> QED
    BY <1>1, <1>2, <1>4, <2>1, <2>2, HandlerStep DEF Holds
<1>5. CASE UNCHANGED lock /\ handler' = [handler EXCEPT ![n][t].cancelled = TRUE]
  <2> DEFINE h == [handler[n][t] EXCEPT !.cancelled = TRUE]
  <2>1. h \in Goroutine /\ h.left = handler[n][t].left
    BY <1>3 DEF Goroutine
  <2>2. handler' = [handler EXCEPT ![n][t] = h]
    BY <1>5
  <2> HIDE DEF h
  <2> QED
    BY <1>1, <1>2, <1>5, <2>1, <2>2, HandlerStep
<1> QED
  BY <1>4, <1>5 DEF Heartbeat

\* A handler that returns, and leaves the lock or releases it when it has finished.
LEMMA QuitInv ==
    ASSUME LeaseInv, NEW n \in Runners, NEW t \in TaskIds, handler[n][t].on, Quit(n, t),
           UNCHANGED <<taskRow, runner>>,
           UNCHANGED lock \/ (Release(n, t) /\ handler[n][t].finished)
    PROVE  LeaseInv'
<1>1. RowsTyped' /\ RowsGrow
  BY RowsStay DEF LeaseInv, LeaseTyped
<1>2. handler' = [handler EXCEPT ![n][t] = Off] /\ Off \in Goroutine /\ ~Off.on
  BY RestTyped DEF Quit
<1>3. \/ UNCHANGED lock
      \/ lock' = NoLock /\ lock.task = t /\ lock.by = n /\ handler[n][t].finished
  BY DEF Release
<1> QED
  BY <1>1, <1>2, <1>3, HandlerStep

LEMMA FinishInv ==
    ASSUME LeaseInv, NEW n \in Runners, NEW t \in TaskIds, NEW s \in Ended, FinishSystemTask(n, t, s)
    PROVE  LeaseInv'
<1>1. /\ RowsTyped /\ HandlersTyped /\ handler[n][t].on /\ ~handler[n][t].finished
      /\ UNCHANGED <<lock, runner>>
  BY DEF LeaseInv, LeaseTyped, FinishSystemTask, Runs
<1>2. CASE MayWrite(n, t)
  <2> DEFINE h == [handler[n][t] EXCEPT !.finished = TRUE]
  <2>1. h \in Goroutine /\ h.finished
    <3>1. handler[n][t] \in Goroutine
      BY <1>1 DEF HandlersTyped
    <3> QED
      BY ONLY <3>1 DEF Goroutine
  <2>2. handler' = [handler EXCEPT ![n][t] = h] /\ taskRow' = [taskRow EXCEPT ![t].status = s]
    BY <1>2 DEF FinishSystemTask
  <2> HIDE DEF h
  <2>3. \A u \in TaskIds : /\ taskRow'[u] \in LeaseRow /\ taskRow'[u].by = taskRow[u].by
                           /\ taskRow'[u].status = IF u = t THEN s ELSE taskRow[u].status
    BY <1>1, <2>2 DEF RowsTyped, LeaseRow, Statuses
  <2>4. RowsTyped' /\ RowsGrow
    <3>1. taskRow' \in [TaskIds -> LeaseRow]
      BY <1>1, <2>2, <2>3 DEF RowsTyped
    <3>2. s \notin {"none", "pending"}
      BY DEF Ended
    <3> QED
      BY <2>3, <3>1, <3>2 DEF RowsTyped, RowsGrow
  <2> QED
    BY <1>1, <2>1, <2>2, <2>4, HandlerStep
<1>3. CASE ~MayWrite(n, t)
  BY <1>1, <1>3, QuitInv DEF FinishSystemTask
<1> QED
  BY <1>2, <1>3

LEMMA HandlerInv ==
    ASSUME LeaseInv, NEW n \in Runners, NEW t \in TaskIds,
           NoticeLoss(n, t) \/ FinishFails(n, t) \/ ReleaseFinished(n, t)
    PROVE  LeaseInv'
BY QuitInv DEF NoticeLoss, FinishFails, ReleaseFinished, Runs

---------------------------------------------------------------------------
(* Time passes, nodes die. *)

\* A count goes down by one, or rests far below zero.
LEMMA DownIs == \A k \in Int : Down(k) \in Int /\ Down(k) <= k /\ (k >= 0 => Down(k) = k - 1) /\ (k < 0 => Down(k) < 0)
BY LeaseConstants DEF Down

LEMMA TickInv == ASSUME LeaseInv, Tick PROVE LeaseInv'
<1>1. /\ LeaseTyped /\ ClaimsNew /\ ClaimHolds /\ LockNamesTask /\ RunsItsOwn /\ HandlerHolds /\ PassKnows
      /\ PassesTyped /\ HandlersTyped /\ LockTyped /\ Unclaimed /\ UNCHANGED taskRow
  BY DEF LeaseInv, LeaseTyped, Tick
<1>2. /\ \A n \in Runners : runner[n] \in Pass /\ runner[n].age \in Nat
      /\ \A n \in Runners, t \in TaskIds : handler[n][t] \in Goroutine /\ handler[n][t].left \in Int
      /\ lock.left \in Int
  BY <1>1 DEF PassesTyped, Pass, HandlersTyped, Goroutine, LockTyped, LeaseLock
<1>3. lock' \in LeaseLock /\ lock'.task = lock.task /\ lock'.by = lock.by /\ lock'.left = Down(lock.left)
  <2>1. lock' = [lock EXCEPT !.left = Down(lock.left)] /\ Down(lock.left) \in Int
    BY <1>2, DownIs DEF Tick
  <2> QED
    BY <1>1, <2>1 DEF LockTyped, LeaseLock
<1>4. ASSUME NEW n \in Runners
      PROVE  /\ runner'[n] \in Pass /\ runner'[n].pc = runner[n].pc /\ runner'[n].task = runner[n].task
             /\ runner'[n].by = runner[n].by
             /\ runner'[n].age = IF Claiming(n) THEN runner[n].age + 1 ELSE 0
  <2> DEFINE a == IF Claiming(n) THEN runner[n].age + 1 ELSE 0
  <2>1. runner'[n] = [runner[n] EXCEPT !.age = a] /\ a \in Nat
    BY <1>2 DEF Tick
  <2> HIDE DEF a
  <2>2. runner[n] \in Pass
    BY <1>2
  <2>3. /\ runner'[n] \in Pass /\ runner'[n].pc = runner[n].pc /\ runner'[n].task = runner[n].task
        /\ runner'[n].by = runner[n].by /\ runner'[n].age = a
    BY ONLY <2>1, <2>2 DEF Pass
  <2> QED
    BY <2>3 DEF a
<1>5. ASSUME NEW n \in Runners, NEW t \in TaskIds
      PROVE  /\ handler'[n][t] \in Goroutine /\ handler'[n][t].on = handler[n][t].on
             /\ handler'[n][t].finished = handler[n][t].finished
             /\ handler'[n][t].left = Down(handler[n][t].left)
  <2>1. handler'[n][t] = [handler[n][t] EXCEPT !.left = Down(handler[n][t].left)] /\ Down(handler[n][t].left) \in Int
    BY <1>2, DownIs DEF Tick
  <2>2. handler[n][t] \in Goroutine
    BY <1>2
  <2> QED
    BY ONLY <2>1, <2>2 DEF Goroutine
<1>6. LeaseTyped'
  <2>1. runner' \in [Runners -> Pass]
    BY <1>4 DEF Tick
  <2>2. handler' \in [Runners -> [TaskIds -> Goroutine]]
    BY <1>5 DEF Tick
  <2> QED
    BY <1>1, <1>3, <2>1, <2>2 DEF LeaseTyped, RowsTyped, LockTyped, PassesTyped, HandlersTyped
<1>7. Unclaimed' /\ RunsItsOwn'
  BY <1>1, <1>5 DEF Unclaimed, RunsItsOwn
<1>8. LockNamesTask'
  <2>1. CASE lock = NoLock
    <3>1. lock' = [lock EXCEPT !.left = Down(lock.left)] /\ Down(lock.left) = lock.left
      BY <2>1 DEF Tick, Down, NoLock
    <3>2. lock' = lock
      BY <1>1, <3>1 DEF LockTyped, LeaseLock
    <3> QED
      BY <2>1, <3>2 DEF LockNamesTask, NoLock
  <2>2. CASE lock # NoLock
    BY <1>1, <1>3, <2>2 DEF LockNamesTask
  <2> QED
    BY <2>1, <2>2
<1>9. ClaimsNew' /\ PassKnows'
  BY <1>1, <1>4, <1>5 DEF ClaimsNew, PassKnows, Claiming
<1>10. ClaimHolds'
  <2> SUFFICES ASSUME NEW n \in Runners, runner'[n].pc \in {"markExpired", "mark"}, runner'[n].age <= TTL
               PROVE  lock'.task = runner'[n].task /\ lock'.by = n /\ lock'.left >= TTL - runner'[n].age
    BY DEF ClaimHolds
  <2>1. runner[n].pc \in {"markExpired", "mark"} /\ Claiming(n) /\ runner'[n].age = runner[n].age + 1
    BY <1>4 DEF Claiming
  <2>2. runner[n].age \in Nat /\ runner[n].age + 1 <= TTL
    BY <1>2, <2>1
  <2>3. lock.task = runner[n].task /\ lock.by = n /\ lock.left >= TTL - runner[n].age
    BY <1>1, <2>1, <2>2, LeaseConstants DEF ClaimHolds
  <2>4. lock'.left = lock.left - 1
    BY <1>2, <1>3, <2>2, <2>3, DownIs, LeaseConstants
  <2> QED
    BY <1>2, <1>3, <1>4, <2>1, <2>2, <2>3, <2>4, LeaseConstants
<1>11. HandlerHolds'
  <2> SUFFICES ASSUME NEW n \in Runners, NEW t \in TaskIds,
                      handler'[n][t].on, ~handler'[n][t].finished, handler'[n][t].left >= 0
               PROVE  lock'.task = t /\ lock'.by = n /\ lock'.left >= handler'[n][t].left
    BY DEF HandlerHolds
  <2>1. handler[n][t].on /\ ~handler[n][t].finished /\ handler'[n][t].left = Down(handler[n][t].left)
    BY <1>5
  <2>2. handler[n][t].left >= 0 /\ handler'[n][t].left = handler[n][t].left - 1
    BY <1>2, <2>1, DownIs
  <2>3. lock.task = t /\ lock.by = n /\ lock.left >= handler[n][t].left
    BY <1>1, <2>1, <2>2 DEF HandlerHolds
  <2>4. lock'.left = lock.left - 1
    BY <1>2, <1>3, <2>2, <2>3, DownIs
  <2> QED
    BY <1>2, <1>3, <2>2, <2>3, <2>4
<1> QED
  BY <1>6, <1>7, <1>8, <1>9, <1>10, <1>11 DEF LeaseInv

LEMMA RunnerCrashInv == ASSUME LeaseInv, NEW n \in Runners, RunnerCrash(n) PROVE LeaseInv'
<1>1. /\ LeaseTyped /\ ClaimsNew /\ ClaimHolds /\ LockNamesTask /\ RunsItsOwn /\ HandlerHolds /\ PassKnows
      /\ PassesTyped /\ HandlersTyped /\ Unclaimed
      /\ Go(n, [Resting EXCEPT !.pc = "dead"]) /\ UNCHANGED <<taskRow, lock>>
      /\ handler' = [handler EXCEPT ![n] = [t \in TaskIds |-> Off]]
  BY DEF LeaseInv, LeaseTyped, RunnerCrash
<1>2. PassesTyped' /\ runner'[n].pc = "dead" /\ \A m \in Runners \ {n} : runner'[m] = runner[m]
  <2>1. [Resting EXCEPT !.pc = "dead"].pc = "dead"
    BY RestTyped DEF Pass
  <2> QED
    BY <1>1, <2>1, RestTyped, GoSets
<1>3. /\ HandlersTyped' /\ \A t \in TaskIds : ~handler'[n][t].on
      /\ \A m \in Runners \ {n}, t \in TaskIds : handler'[m][t] = handler[m][t]
  BY <1>1, RestTyped DEF HandlersTyped
<1>4. LeaseTyped'
  BY <1>1, <1>2, <1>3 DEF LeaseTyped, RowsTyped, LockTyped
<1>5. Unclaimed' /\ RunsItsOwn' /\ LockNamesTask'
  BY <1>1, <1>3 DEF Unclaimed, RunsItsOwn, LockNamesTask, NoLock
<1>6. ClaimsNew' /\ PassKnows' /\ ClaimHolds'
  BY <1>1, <1>2, <1>3 DEF ClaimsNew, PassKnows, ClaimHolds, Claiming
<1>7. HandlerHolds'
  BY <1>1, <1>3 DEF HandlerHolds
<1> QED
  BY <1>4, <1>5, <1>6, <1>7 DEF LeaseInv


---------------------------------------------------------------------------
(* The theorems. *)

\* Every step keeps the invariant.
LEMMA LeaseNextInv == LeaseInv /\ [LeaseNext]_leaseVars => LeaseInv'
<1> SUFFICES ASSUME LeaseInv, [LeaseNext]_leaseVars PROVE LeaseInv'
  OBVIOUS
<1>1. CASE UNCHANGED leaseVars
  BY <1>1 DEF leaseVars, LeaseInv, LeaseTyped, RowsTyped, LockTyped, PassesTyped, HandlersTyped, Unclaimed,
              RunsItsOwn, LockNamesTask, ClaimsNew, PassKnows, ClaimHolds, HandlerHolds, Claiming, NoLock
<1>2. CASE Tick
  BY <1>2, TickInv
<1>3. ASSUME NEW n \in Runners, LookForActive(n) \/ ClaimRead(n) \/ ExpireFind(n) PROVE LeaseInv'
  BY <1>3, LookForActiveInv, ClaimReadInv, ExpireFindInv
<1>4. ASSUME NEW n \in Runners, Claim(n) PROVE LeaseInv'
  BY <1>4, CreateInv, AcquireInv, StealInv, MarkStolenInv, MarkRunningInv, ExpireMarkInv, ExpireDeleteInv DEF Claim
<1>5. ASSUME NEW n \in Runners, ClaimFails(n) \/ ReadBackFails(n) \/ CleanupFails(n) \/ RunnerCrash(n)
      PROVE  LeaseInv'
  BY <1>5, ClaimFailsInv, ReadBackFailsInv, CleanupFailsInv, RunnerCrashInv
<1>6. ASSUME NEW n \in Runners, NEW t \in TaskIds,
             Heartbeat(n, t) \/ NoticeLoss(n, t) \/ Finish(n, t) \/ FinishFails(n, t)
      PROVE  LeaseInv'
  BY <1>6, HeartbeatInv, FinishInv, HandlerInv DEF Finish
<1> QED
  BY <1>1, <1>2, <1>3, <1>4, <1>5, <1>6 DEF LeaseNext

\* Two handlers that both count on the lock are one; the invariant says so because
\* the lock names one of them.
LEMMA LeaseInvHonours == LeaseInv => LeaseHonoured
<1> SUFFICES ASSUME LeaseInv PROVE LeaseHonoured
  OBVIOUS
<1>1. /\ RowsTyped /\ LockTyped /\ HandlersTyped /\ LockNamesTask /\ RunsItsOwn /\ HandlerHolds
  BY DEF LeaseInv, LeaseTyped
<1>2. LeaseTypeOK
  <2>1. \A t \in TaskIds : taskRow[t].status \in Active \cup Ended \cup {"none"}
    BY <1>1 DEF RowsTyped, LeaseRow, Statuses
  <2> QED
    BY <1>1, <2>1 DEF LeaseTypeOK, LockNamesTask, RunsItsOwn, Runs, Exists
<1>3. PromiseKept
  <2>1. lock.left \in Int /\ \A n \in Runners, t \in TaskIds : handler[n][t].left \in Int
    BY <1>1 DEF LockTyped, LeaseLock, HandlersTyped, Goroutine
  <2> QED
    BY <1>1, <2>1 DEF PromiseKept, HandlerHolds, Runs, Holds
<1>4. LeaseExclusive
  BY <1>3 DEF LeaseExclusive, PromiseKept, Holds
<1> QED
  BY <1>2, <1>3, <1>4 DEF LeaseHonoured

\* A lease is what it promises to be, for any number of runners and tasks, for every
\* lease and however slow the claims are: nobody takes it while its holder may count
\* on it (acquireSystemTaskLock, RenewSystemTaskLock, ExpireStaleSystemTaskLocks).
THEOREM LeasesAreHonoured == LeaseSpec => []LeaseHonoured
<1>1. LeaseInit => LeaseInv
  BY LeaseInitInv
<1>2. LeaseInv /\ [LeaseNext]_leaseVars => LeaseInv'
  BY LeaseNextInv
<1>3. LeaseInv => LeaseHonoured
  BY LeaseInvHonours
<1> QED
  BY <1>1, <1>2, <1>3, PTL DEF LeaseSpec

\* What a step does to the rows: it leaves the ones that ended as they are, and those
\* that run with their runner.
RowsKept ==
    \A t \in TaskIds :
        /\ taskRow[t].status \in Ended => taskRow'[t] = taskRow[t]
        /\ taskRow[t].status = "running" => taskRow'[t].by = taskRow[t].by

LEMMA RowSteps == ASSUME LeaseInv, [LeaseNext]_leaseVars PROVE RowsKept
<1>1. RowsTyped /\ ClaimsNew /\ PassKnows
  BY DEF LeaseInv, LeaseTyped
<1>2. CASE UNCHANGED taskRow
  BY <1>2 DEF RowsKept
<1>3. ASSUME NEW n \in Runners, CreateSystemTask(n) PROVE RowsKept
  BY <1>3 DEF RowsKept, CreateSystemTask, MayCreate, Exists, Ended
<1>4. ASSUME NEW t \in TaskIds, taskRow' = MarkExpired(t) PROVE RowsKept
  BY <1>1, <1>4 DEF RowsKept, MarkExpired, RowsTyped, LeaseRow, Ended
<1>5. ASSUME NEW n \in Runners, MarkStolen(n) \/ ExpireMark(n) PROVE RowsKept
  BY <1>1, <1>4, <1>5 DEF MarkStolen, ExpireMark, At, PassKnows
<1>6. ASSUME NEW n \in Runners, MarkRunning(n) \/ ReadBackFails(n) PROVE RowsKept
  <2>1. UNCHANGED taskRow \/ (/\ taskRow[runner[n].task].status = "pending"
                              /\ taskRow' = [taskRow EXCEPT ![runner[n].task] = [status |-> "running", by |-> n]])
    BY <1>6 DEF MarkRunning, ReadBackFails, Claimable
  <2> QED
    BY <1>1, <1>2, <2>1 DEF RowsKept, RowsTyped, Ended
<1>7. ASSUME NEW n \in Runners, NEW t \in TaskIds, NEW s \in Ended, FinishSystemTask(n, t, s) PROVE RowsKept
  <2>1. UNCHANGED taskRow \/ (taskRow[t].status = "running" /\ taskRow' = [taskRow EXCEPT ![t].status = s])
    BY <1>7 DEF FinishSystemTask, MayWrite
  <2> QED
    BY <1>1, <1>2, <2>1 DEF RowsKept, RowsTyped, LeaseRow, Ended
<1>8. UNCHANGED leaseVars => UNCHANGED taskRow
  BY DEF leaseVars
<1>9. ASSUME NEW n \in Runners, LookForActive(n) \/ ClaimRead(n) \/ ExpireFind(n) \/ Acquire(n) \/ Steal(n)
                                \/ ExpireDelete(n) \/ ClaimFails(n) \/ CleanupFails(n) \/ RunnerCrash(n)
      PROVE  UNCHANGED taskRow
  BY <1>9 DEF LookForActive, ClaimRead, ExpireFind, Acquire, Steal, ExpireDelete, ClaimFails, CleanupFails, RunnerCrash
<1>10. ASSUME NEW n \in Runners, NEW t \in TaskIds,
              Heartbeat(n, t) \/ NoticeLoss(n, t) \/ FinishFails(n, t) \/ ReleaseFinished(n, t)
       PROVE  UNCHANGED taskRow
  BY <1>10 DEF Heartbeat, NoticeLoss, FinishFails, ReleaseFinished
<1>11. Tick => UNCHANGED taskRow
  BY DEF Tick
<1> QED
  BY <1>2, <1>3, <1>5, <1>6, <1>7, <1>8, <1>9, <1>10, <1>11 DEF LeaseNext, Claim, Finish

\* A verdict is final and a task has one runner, whoever crashes, cleans up or comes
\* too late (FinishSystemTask, MarkSystemTaskLeaseExpired, ClaimSystemTask).
THEOREM VerdictsStand == LeaseSpec => VerdictStands
<1>1. LeaseInit => LeaseInv
  BY LeaseInitInv
<1>2. LeaseInv /\ [LeaseNext]_leaseVars => LeaseInv'
  BY LeaseNextInv
<1>3. LeaseInv /\ [LeaseNext]_leaseVars => [RowsKept]_leaseVars
  BY RowSteps
<1>4. LeaseSpec => [][RowsKept]_leaseVars
  BY <1>1, <1>2, <1>3, PTL DEF LeaseSpec
<1> QED
  BY <1>4 DEF VerdictStands, RowsKept
=============================================================================
