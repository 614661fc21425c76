-------------------------- MODULE TaskBillingProofs --------------------------
(***************************************************************************)
(* A task has cost what its status says, on its source and on its key, and *)
(* a final task stays final: for every set of tasks of every kind, any     *)
(* number of polling nodes and any number of failures, crashes and lookups.*)
(*                                                                         *)
(* None of this is inductive by itself.  The invariant says who may hold   *)
(* what copy of the row, that compare-and-swap leaves one poller that      *)
(* bills, and what source and key have paid at each of its steps.          *)
(***************************************************************************)
EXTENDS TaskBilling, FiniteSetTheorems, FunctionTheorems, TLAPS

Reading == {"sweep", "poll", "write"}
Billing == {"settle", "refund", "key", "back"}
Seen == Final \cup {"IN_PROGRESS"}
Unbilled == {"NOT_START", "IN_PROGRESS"}

RowRows == [status : Statuses, complete : BOOLEAN, quota : Quotas, ref : Nat]
StageRows == [pc : {"new", "reserved", "queued", "settled", "done"}, pre : Quotas,
              quota : Quotas, ref : Nat]
ChargeRows == [phase : Sub!Phases, amount : Int, target : Int, tokenPre : Int,
               tokenNet : Int, version : Nat]
NetRows == [wallet : Int, key : Int]
JobRows == [pc : Reading \cup Billing \cup {"idle"}, copy : RowRows, seen : Statuses,
            target : Quotas, delta : Int]
WorldRows == [kind : Kinds, upstream : Seen, overdue : BOOLEAN, channel : BOOLEAN,
              key : BOOLEAN]

BudgetRows == [failures : Nat, unsettled : 0 .. MaxUnsettled, crashes : Nat, lookups : Nat]

TablesTyped ==
    /\ row \in [Tasks -> RowRows] /\ stage \in [Tasks -> StageRows]
    /\ charge \in [Tasks -> ChargeRows] /\ net \in [Tasks -> NetRows]
RunTyped ==
    /\ job \in [Workers -> [Tasks -> JobRows]]
    /\ world \in [Tasks -> WorldRows] /\ excused \subseteq Tasks
    /\ budget \in BudgetRows

\* Jobs are about a row; a reader holds an unfinished copy of it, and lookups
\* only write, for realtime tasks.
Placed(t) ==
    /\ stage[t].pc # "done" => row[t].status = "none"
    /\ stage[t].pc = "done" /\ t \notin excused => row[t].status # "none"
    /\ row[t].status = "none" => \A w \in Workers : job[w][t].pc = "idle"
    /\ job[user][t].pc \in {"idle", "write"} /\ (job[user][t].pc = "write" => t \in Realtime)
    /\ \A w \in Workers :
          /\ job[w][t].pc = "write" => job[w][t].seen \in Seen
          /\ job[w][t].pc # "idle" => job[w][t].copy.status # "none"
    /\ \A w \in Pollers : job[w][t].pc \in Reading => job[w][t].copy.status \in Unbilled

\* The correction a winner is making.
Correcting(t) ==
    \A w \in Pollers :
        /\ job[w][t].pc \in Billing => job[w][t].copy.status \in Final
        /\ job[w][t].pc \in {"refund", "key", "back"}
              => job[w][t].delta = job[w][t].target - job[w][t].copy.quota
        /\ job[w][t].copy.status = "FAILURE" => job[w][t].target = 0 /\ job[w][t].pc # "settle"

\* Compare-and-swap leaves one winner, and nobody writes the row's quota and
\* reference between its reading and its billing.
OneWinner(t) ==
    /\ \A w \in Pollers :
          /\ job[w][t].pc # "idle" => job[w][t].copy.quota = stage[t].quota
          /\ job[w][t].pc \in Reading \cup {"settle", "refund"} => job[w][t].copy.ref = stage[t].ref
          /\ job[w][t].pc \in Billing => row[t].status \in Final /\ row[t].quota = stage[t].quota
          /\ job[w][t].pc \in Billing /\ world[t].channel => row[t].status = job[w][t].copy.status
    /\ row[t].status \in Unbilled => row[t].quota = stage[t].quota /\ row[t].ref = stage[t].ref
    /\ \A v, w \in Pollers : job[v][t].pc \in Billing /\ job[w][t].pc \in Billing => v = w

Unbilling(t) == \A w \in Pollers : job[w][t].pc \notin Billing

\* What a task has cost before it has a row.
Submitted(t) ==
    /\ stage[t].pc = "new" => net[t].wallet = 0 /\ net[t].key = 0 /\ charge[t].phase = "none"
    /\ stage[t].pc = "reserved" =>
          /\ net[t].key = stage[t].pre
          /\ t \in Subscribed => charge[t].phase = "reserved" /\ charge[t].amount = stage[t].pre
          /\ t \notin Subscribed => net[t].wallet = stage[t].pre
    /\ stage[t].pc = "queued" =>
          t \in Subscribed /\ net[t].key = stage[t].pre /\ charge[t].phase = "queued"
    /\ t \in Subscribed => net[t].wallet = 0
    /\ t \notin Subscribed => charge[t].phase = "none"
    /\ charge[t].phase = "queued" =>
          /\ charge[t].target = stage[t].quota /\ charge[t].tokenPre = stage[t].pre
          /\ stage[t].pc \in {"settled", "done"} => charge[t].version = stage[t].ref

\* What it has cost on the wallet since.
OnWallet(t) ==
    /\ stage[t].pc = "settled" => net[t].wallet = stage[t].quota /\ net[t].key = stage[t].quota
    /\ stage[t].pc = "done" =>
       /\ \A w \in Pollers :
             /\ job[w][t].pc \in {"settle", "refund"} =>
                   net[t].wallet = stage[t].quota /\ net[t].key = stage[t].quota
             /\ job[w][t].pc = "key" =>
                   net[t].wallet = job[w][t].target /\ net[t].key = stage[t].quota
             /\ job[w][t].pc = "back" =>
                   net[t].wallet = job[w][t].target /\ net[t].key = job[w][t].target
       /\ Unbilling(t) /\ row[t].status \notin Final =>
             net[t].wallet = stage[t].quota /\ net[t].key = stage[t].quota
       /\ Unbilling(t) /\ row[t].status \in Final =>
             /\ net[t].wallet = net[t].key /\ net[t].key >= 0
             /\ world[t].channel /\ row[t].status = "SUCCESS" => net[t].key = row[t].quota
             /\ world[t].channel /\ row[t].status = "FAILURE" => net[t].key = 0

\* On a subscription the usage record may wait for its settlement; the task's
\* reference to it is then out of date once it is made.
Charged(t) ==
    /\ charge[t].phase = "settled" /\ charge[t].amount = stage[t].quota
    /\ net[t].key = stage[t].quota /\ (KnownRefs => charge[t].version = stage[t].ref)

OnSubscription(t) ==
    stage[t].pc \in {"settled", "done"} =>
       /\ charge[t].phase \in {"queued", "settled", "refunded"}
       /\ charge[t].phase = "queued" =>
             /\ ~KnownRefs /\ net[t].key = stage[t].pre
             /\ row[t].status # "none" => row[t].quota = stage[t].quota
             /\ \A w \in Pollers : job[w][t].pc \notin {"key", "back"}
       /\ charge[t].phase # "queued" =>
          /\ \A w \in Pollers :
                /\ job[w][t].pc \in {"settle", "refund"} => Charged(t)
                /\ job[w][t].pc = "key" =>
                      charge[t].amount = job[w][t].target /\ net[t].key = stage[t].quota
                /\ job[w][t].pc = "back" =>
                      charge[t].amount = job[w][t].target /\ net[t].key = job[w][t].target
          /\ Unbilling(t) /\ row[t].status \notin Final => Charged(t)
          /\ Unbilling(t) /\ row[t].status \in Final =>
                /\ charge[t].amount = net[t].key /\ net[t].key >= 0
                /\ world[t].channel /\ row[t].status = "SUCCESS" => net[t].key = row[t].quota
                /\ world[t].channel /\ row[t].status = "FAILURE" /\ KnownRefs => net[t].key = 0

\* What the pollers of a reopened task have still to take from its key, and to
\* give back to it, counted in units.
Units == Pollers \X (1 .. MaxQuota)
Take(t) == {u \in Units : job[u[1]][t].pc = "key" /\ u[2] <= job[u[1]][t].delta}
Give(t) == {u \in Units : job[u[1]][t].pc = "key" /\ u[2] <= - job[u[1]][t].delta}

Reopened(t) ==
    /\ IsFiniteSet(Take(t)) /\ IsFiniteSet(Give(t))
    /\ stage[t].pc \in {"settled", "done"} =>
          net[t].wallet = net[t].key + Cardinality(Take(t)) - Cardinality(Give(t))

Paid(t) ==
    /\ world[t].key
    /\ Submitted(t)
    /\ t \notin Realtime /\ t \notin Subscribed => OnWallet(t)
    /\ t \notin Realtime /\ t \in Subscribed => OnSubscription(t)
    /\ t \in Realtime /\ t \notin Subscribed => Reopened(t)

TaskInv(t) ==
    /\ Placed(t)
    /\ Correcting(t)
    /\ t \notin Realtime => OneWinner(t)
    /\ t \notin excused => Paid(t)

TasksInv == TablesTyped /\ RunTyped /\ \A t \in Tasks : TaskInv(t)

-----------------------------------------------------------------------------
(* Types, and what a step about one task leaves alone.                      *)

\* What a step leaves of a task that it is not about.
Same(u) ==
    /\ row'[u] = row[u] /\ stage'[u] = stage[u] /\ charge'[u] = charge[u] /\ net'[u] = net[u]
    /\ \A w \in Workers : job'[w][u] = job[w][u]
    /\ world'[u].kind = world[u].kind /\ (world'[u].channel => world[u].channel)
    /\ u \in excused => u \in excused'
    /\ u \notin excused' => world'[u].key

\* A step is about t only, and leaves everything well typed.
About(t) ==
    /\ TablesTyped' /\ RunTyped' /\ (KnownRefs' => KnownRefs)
    /\ world'[t].kind = world[t].kind /\ (world'[t].channel => world[t].channel)
    /\ \A u \in Tasks \ {t} : Same(u)

\* Constants and empty records are well typed.
LEMMA Typing ==
    /\ Idle \in JobRows /\ NoRow \in RowRows /\ Sub!NoCharge \in ChargeRows
    /\ 0 \in Quotas /\ \A q \in Quotas : q \in Int /\ q >= 0 /\ q <= MaxQuota
    /\ MaxQuota \in Nat
<1>1. MaxQuota \in Nat /\ 0 \in Quotas /\ \A q \in Quotas : q \in Int /\ q >= 0 /\ q <= MaxQuota
  BY TaskAssumption DEF Quotas
<1>2. NoRow \in RowRows
  BY <1>1 DEF NoRow, RowRows, Statuses
<1>3. Idle \in JobRows
  BY <1>1, <1>2 DEF Idle, JobRows, Statuses
<1> QED
  BY <1>1, <1>2, <1>3 DEF Sub!NoCharge, ChargeRows, Sub!Phases

\* A task that is not submitted yet.
LEMMA InitTasks == Init => TasksInv
<1> SUFFICES ASSUME Init PROVE TasksInv
  OBVIOUS
<1>1. TablesTyped
  <2>1. row \in [Tasks -> RowRows] /\ charge \in [Tasks -> ChargeRows]
    BY Typing DEF Init, Sub!Init
  <2>2. stage \in [Tasks -> StageRows]
    BY Typing DEF Init, StageRows
  <2>3. net \in [Tasks -> NetRows]
    BY DEF Init, NetRows
  <2> QED
    BY <2>1, <2>2, <2>3 DEF TablesTyped
<1>2. PICK kind \in [Tasks -> Kinds] :
          world = [t \in Tasks |-> [kind |-> kind[t], upstream |-> "IN_PROGRESS",
                                    overdue |-> FALSE, channel |-> TRUE, key |-> TRUE]]
  BY DEF Init
<1>3. RunTyped
  <2>1. world \in [Tasks -> WorldRows]
    BY <1>2 DEF WorldRows, Seen
  <2>2. job \in [Workers -> [Tasks -> JobRows]]
    BY Typing DEF Init
  <2>3. budget \in BudgetRows
    BY TaskAssumption DEF Init, BudgetRows
  <2> QED
    BY <2>1, <2>2, <2>3 DEF RunTyped, Init
<1>4. ASSUME NEW t \in Tasks PROVE TaskInv(t)
  <2>1. /\ row[t].status = "none" /\ stage[t].pc = "new" /\ t \notin excused
        /\ charge[t].phase = "none" /\ net[t].wallet = 0 /\ net[t].key = 0 /\ world[t].key
    BY <1>2 DEF Init, Sub!Init, Sub!NoCharge, NoRow
  <2>2. /\ \A w \in Workers : job[w][t].pc = "idle" /\ job[w][t].copy.status = "none"
        /\ user \in Workers /\ Pollers \subseteq Workers
    BY DEF Init, Idle, NoRow, Workers
  <2>3. Placed(t) /\ Correcting(t)
    BY <2>1, <2>2, Zenon DEF Placed, Correcting, Reading, Billing
  <2>4. OneWinner(t)
    BY <2>1, <2>2 DEF OneWinner, Reading, Billing, Unbilled
  <2>5. Submitted(t)
    BY <2>1, <2>2 DEF Submitted
  <2>6. OnWallet(t) /\ OnSubscription(t)
    BY <2>1, <2>2 DEF OnWallet, OnSubscription
  <2>7. Reopened(t)
    <3>1. Take(t) = {} /\ Give(t) = {}
      BY <2>2 DEF Take, Give, Units
    <3> QED
      BY <3>1, <2>1, FS_EmptySet DEF Reopened
  <2> QED
    BY <2>1, <2>3, <2>4, <2>5, <2>6, <2>7 DEF TaskInv, Paid
<1> QED
  BY <1>1, <1>3, <1>4 DEF TasksInv

\* A task that a step leaves alone keeps its invariant.
LEMMA SameKeeps ==
    ASSUME NEW u \in Tasks, TaskInv(u), Same(u), KnownRefs' => KnownRefs
    PROVE  TaskInv(u)'
<1>1. (u \in Realtime)' = (u \in Realtime) /\ (u \in Subscribed)' = (u \in Subscribed)
  BY DEF Same, Realtime, Subscribed, With
<1>2. user \in Workers /\ Pollers \subseteq Workers
  BY DEF Workers
<1>3. Placed(u)'
  BY <1>1, <1>2 DEF TaskInv, Same, Placed
<1>4. Correcting(u)'
  BY <1>1, <1>2 DEF TaskInv, Same, Correcting
<1>5. (u \notin Realtime)' => OneWinner(u)'
  BY <1>1, <1>2 DEF TaskInv, Same, OneWinner
<1>6. ASSUME (u \notin excused)' PROVE Paid(u)'
  <2>1. Paid(u) /\ world'[u].key
    BY <1>6 DEF TaskInv, Same
  <2>2. Submitted(u)'
    BY <2>1, <1>1 DEF Paid, Same, Submitted
  <2>3. Unbilling(u)' = Unbilling(u)
    BY <1>2 DEF Unbilling, Same
  <2>4. (u \notin Realtime /\ u \notin Subscribed)' => OnWallet(u)'
    BY <2>1, <2>3, <1>1, <1>2 DEF Paid, Same, OnWallet
  <2>5. (u \notin Realtime /\ u \in Subscribed)' => OnSubscription(u)'
    BY <2>1, <2>3, <1>1, <1>2 DEF Paid, Same, OnSubscription, Charged
  <2>6. (u \in Realtime /\ u \notin Subscribed)' => Reopened(u)'
    <3>1. Take(u)' = Take(u) /\ Give(u)' = Give(u)
      BY <1>2 DEF Take, Give, Units, Same
    <3> QED
      BY <2>1, <3>1, <1>1 DEF Paid, Same, Reopened
  <2> QED
    BY <2>1, <2>2, <2>4, <2>5, <2>6 DEF Paid
<1> QED
  BY <1>3, <1>4, <1>5, <1>6 DEF TaskInv

\* Become writes one job.
LEMMA Becoming ==
    ASSUME RunTyped, NEW w \in Workers, NEW t \in Tasks, NEW j \in JobRows, Become(w, t, j)
    PROVE  /\ job' \in [Workers -> [Tasks -> JobRows]] /\ job'[w][t] = j
           /\ \A v \in Workers : v # w => job'[v][t] = job[v][t]
           /\ \A v \in Workers, u \in Tasks : u # t => job'[v][u] = job[v][u]
BY DEF RunTyped, Become

\* Budgets only go down.
LEMMA Spending ==
    ASSUME RunTyped, \/ UNCHANGED budget
                     \/ \E b \in {"failures", "unsettled", "crashes", "lookups"} : Spend(b)
    PROVE  budget' \in BudgetRows /\ (KnownRefs' => KnownRefs)
<1>1. budget \in BudgetRows /\ MaxUnsettled \in Nat
  BY TaskAssumption DEF RunTyped
<1>2. CASE UNCHANGED budget
  BY <1>1, <1>2 DEF KnownRefs
<1>3. CASE Spend("failures")
  BY <1>1, <1>3 DEF Spend, BudgetRows, KnownRefs
<1>4. CASE Spend("unsettled")
  BY <1>1, <1>4 DEF Spend, BudgetRows, KnownRefs
<1>5. CASE Spend("crashes")
  BY <1>1, <1>5 DEF Spend, BudgetRows, KnownRefs
<1>6. CASE Spend("lookups")
  BY <1>1, <1>6 DEF Spend, BudgetRows, KnownRefs
<1> QED
  BY <1>2, <1>3, <1>4, <1>5, <1>6

\* What a job writes of its own task: the tables at t, its own job, an excuse.
Wrote(w, t, j) ==
    /\ Become(w, t, j) /\ j \in JobRows /\ world' = world
    /\ TablesTyped'
    /\ \A u \in Tasks \ {t} :
          row'[u] = row[u] /\ stage'[u] = stage[u] /\ charge'[u] = charge[u] /\ net'[u] = net[u]
    /\ excused' = excused \/ excused' = excused \cup {t}
    /\ \/ UNCHANGED budget
       \/ \E b \in {"failures", "unsettled", "crashes", "lookups"} : Spend(b)

\* Such a step is about t.
LEMMA WroteAbout ==
    ASSUME TasksInv, NEW w \in Workers, NEW t \in Tasks, NEW j, Wrote(w, t, j)
    PROVE  /\ About(t) /\ job'[w][t] = j /\ job'[w][t] \in JobRows
           /\ \A v \in Workers : v # w => job'[v][t] = job[v][t]
<1>1. RunTyped /\ \A u \in Tasks : u \notin excused => world[u].key
  BY DEF TasksInv, TaskInv, Paid
<1>2. /\ job' \in [Workers -> [Tasks -> JobRows]] /\ job'[w][t] = j
      /\ \A v \in Workers : v # w => job'[v][t] = job[v][t]
      /\ \A v \in Workers, u \in Tasks : u # t => job'[v][u] = job[v][u]
  BY <1>1, Becoming DEF Wrote
<1>3. budget' \in BudgetRows /\ (KnownRefs' => KnownRefs)
  BY <1>1, Spending DEF Wrote
<1>4. RunTyped'
  BY <1>1, <1>2, <1>3 DEF RunTyped, Wrote
<1>5. \A u \in Tasks \ {t} : Same(u)
  BY <1>1, <1>2 DEF Same, Wrote
<1> QED
  BY <1>2, <1>3, <1>4, <1>5 DEF About, Wrote

-----------------------------------------------------------------------------
(* Steps of a worker.                                                       *)

\* A job that worker w may have about t.
Fits(w, t, j) ==
    /\ w = user => j.pc \in {"idle", "write"} /\ (j.pc = "write" => t \in Realtime)
    /\ j.pc = "write" => j.seen \in Seen
    /\ j.pc # "idle" => j.copy.status # "none"
    /\ w \in Pollers =>
          /\ j.pc \in Reading => j.copy.status \in Unbilled
          /\ j.pc \in Billing => j.copy.status \in Final
          /\ j.pc \in {"refund", "key", "back"} => j.delta = j.target - j.copy.quota
          /\ j.copy.status = "FAILURE" => j.target = 0 /\ j.pc # "settle"

\* A worker's step about a row that exists and goes on to exist.
Works(w, t, j) ==
    /\ Wrote(w, t, j) /\ Fits(w, t, j)
    /\ row[t].status # "none" /\ row'[t].status # "none" /\ stage'[t] = stage[t]

\* Its jobs keep fitting their row.
LEMMA WorksStands ==
    ASSUME TasksInv, NEW w \in Workers, NEW t \in Tasks, NEW j, Works(w, t, j)
    PROVE  /\ Placed(t)' /\ Correcting(t)' /\ About(t) /\ stage[t].pc = "done"
           /\ job'[w][t] = j /\ \A v \in Workers : v # w => job'[v][t] = job[v][t]
           /\ (t \in Realtime)' = (t \in Realtime) /\ (t \in Subscribed)' = (t \in Subscribed)
           /\ world'[t] = world[t]
<1>1. /\ About(t) /\ job'[w][t] = j
      /\ \A v \in Workers : v # w => job'[v][t] = job[v][t]
  BY WroteAbout DEF Works
<1>2. Placed(t) /\ Correcting(t) /\ user \in Workers /\ Pollers \subseteq Workers
  BY DEF TasksInv, TaskInv, Workers
<1>3. world' = world /\ (excused' = excused \/ excused' = excused \cup {t})
  BY DEF Works, Wrote
<1>4. (t \in Realtime)' = (t \in Realtime) /\ (t \in Subscribed)' = (t \in Subscribed)
  BY <1>3 DEF Realtime, Subscribed, With
<1>5. stage[t].pc = "done" /\ row[t].status # "none" /\ row'[t].status # "none" /\ stage'[t] = stage[t]
  BY <1>2 DEF Works, Placed
<1>6. Placed(t)'
  BY <1>1, <1>2, <1>4, <1>5 DEF Works, Fits, Placed
<1>7. Correcting(t)'
  BY <1>1, <1>2 DEF Works, Fits, Correcting
<1> QED
  BY <1>1, <1>3, <1>4, <1>5, <1>6, <1>7

\* A worker that moves no money leaves a task as it is, unless it had to bill it
\* and leaves an excuse.
LEMMA NothingMoves ==
    ASSUME TasksInv, NEW w \in Workers, NEW t \in Tasks, NEW j,
           Placed(t)', Correcting(t)', job'[w][t] = j,
           \A v \in Workers : v # w => job'[v][t] = job[v][t],
           (t \in Realtime)' = (t \in Realtime), (t \in Subscribed)' = (t \in Subscribed),
           world'[t] = world[t], stage'[t] = stage[t], row'[t] = row[t],
           charge'[t] = charge[t], net'[t] = net[t],
           KnownRefs' => KnownRefs, t \in excused => t \in excused',
           j.pc \notin Billing,
           t \notin Realtime /\ w \in Pollers /\ j.pc # "idle" =>
               j.copy.quota = stage[t].quota /\ j.copy.ref = stage[t].ref,
           job[w][t].pc \notin Billing \/ t \in excused'
    PROVE  TaskInv(t)'
<1>1. /\ Placed(t)' /\ Correcting(t)'
      /\ job'[w][t] = j /\ \A v \in Workers : v # w => job'[v][t] = job[v][t]
      /\ (t \in Realtime)' = (t \in Realtime) /\ (t \in Subscribed)' = (t \in Subscribed)
      /\ world'[t] = world[t] /\ stage'[t] = stage[t]
  OBVIOUS
<1>2. TaskInv(t) /\ Pollers \subseteq Workers
  BY DEF TasksInv, Workers
<1>3. OneWinner(t)' \/ t \in Realtime
  <2> SUFFICES ASSUME t \notin Realtime PROVE OneWinner(t)'
    OBVIOUS
  <2> QED
    BY <1>1, <1>2 DEF TaskInv, OneWinner, Reading, Billing
<1>4. ASSUME t \notin excused' PROVE Paid(t)'
  <2>1. t \notin excused /\ job[w][t].pc \notin Billing /\ (KnownRefs' => KnownRefs)
    BY <1>4
  <2>2. Paid(t) /\ world'[t].key
    BY <2>1, <1>1, <1>2 DEF TaskInv, Paid
  <2>3. Submitted(t)'
    BY <1>1, <2>2 DEF Paid, Submitted
  <2>4. Unbilling(t)' = Unbilling(t)
    BY <1>1, <1>2, <2>1 DEF Unbilling
  <2>5. (t \notin Realtime /\ t \notin Subscribed)' => OnWallet(t)'
    BY <1>1, <1>2, <2>1, <2>2, <2>4 DEF Paid, OnWallet, Billing
  <2>6. (t \notin Realtime /\ t \in Subscribed)' => OnSubscription(t)'
    BY <1>1, <1>2, <2>1, <2>2, <2>4 DEF Paid, OnSubscription, Charged, Billing
  <2>7. (t \in Realtime /\ t \notin Subscribed)' => Reopened(t)'
    <3>1. Take(t)' = Take(t) /\ Give(t)' = Give(t)
      BY <1>1, <1>2, <2>1 DEF Take, Give, Units, Billing
    <3> QED
      BY <2>2, <3>1, <1>1 DEF Paid, Reopened
  <2> QED
    BY <2>2, <2>3, <2>5, <2>6, <2>7 DEF Paid
<1> QED
  BY <1>1, <1>3, <1>4 DEF TaskInv

\* The same of a step of one worker.
LEMMA Rests ==
    ASSUME TasksInv, NEW w \in Workers, NEW t \in Tasks, NEW j, Works(w, t, j),
           j.pc \notin Billing,
           row'[t] = row[t], charge'[t] = charge[t], net'[t] = net[t],
           t \notin Realtime /\ w \in Pollers /\ j.pc # "idle" =>
               j.copy.quota = stage[t].quota /\ j.copy.ref = stage[t].ref,
           job[w][t].pc \notin Billing \/ t \in excused'
    PROVE  TaskInv(t)' /\ About(t)
<1>1. /\ Placed(t)' /\ Correcting(t)' /\ About(t) /\ stage[t].pc = "done"
      /\ job'[w][t] = j /\ \A v \in Workers : v # w => job'[v][t] = job[v][t]
      /\ (t \in Realtime)' = (t \in Realtime) /\ (t \in Subscribed)' = (t \in Subscribed)
      /\ world'[t] = world[t] /\ stage'[t] = stage[t]
  BY WorksStands DEF Works
<1>2. (KnownRefs' => KnownRefs) /\ (t \in excused => t \in excused')
  BY <1>1 DEF About, Works, Wrote
<1> QED
  BY <1>1, <1>2, NothingMoves

\* The row of a realtime task may be written by anyone: only what waits for its
\* key matters.
LEMMA RealtimeMoves ==
    ASSUME TasksInv, NEW w \in Workers, NEW t \in Tasks, NEW j, Works(w, t, j),
           t \in Realtime, j.pc # "key", job[w][t].pc # "key" \/ t \in excused',
           charge'[t] = charge[t], net'[t] = net[t]
    PROVE  TaskInv(t)' /\ About(t)
<1>1. /\ Placed(t)' /\ Correcting(t)' /\ About(t) /\ stage[t].pc = "done"
      /\ job'[w][t] = j /\ \A v \in Workers : v # w => job'[v][t] = job[v][t]
      /\ (t \in Realtime)' = (t \in Realtime) /\ (t \in Subscribed)' = (t \in Subscribed)
      /\ world'[t] = world[t] /\ stage'[t] = stage[t]
  BY WorksStands DEF Works
<1>2. TaskInv(t) /\ Pollers \subseteq Workers
  BY DEF TasksInv, Workers
<1>3. ASSUME t \notin excused' PROVE Paid(t)'
  <2>1. t \notin excused /\ job[w][t].pc # "key"
    BY <1>3 DEF Works, Wrote
  <2>2. Paid(t) /\ world'[t].key
    BY <2>1, <1>1, <1>2 DEF TaskInv, Paid
  <2>3. Submitted(t)'
    BY <1>1, <2>2 DEF Paid, Submitted
  <2>4. Take(t)' = Take(t) /\ Give(t)' = Give(t)
    BY <1>1, <1>2, <2>1 DEF Take, Give, Units
  <2>5. (t \notin Subscribed)' => Reopened(t)'
    BY <2>2, <2>4, <1>1 DEF Paid, Reopened
  <2> QED
    BY <2>2, <2>3, <2>5, <1>1 DEF Paid
<1> QED
  BY <1>1, <1>3 DEF TaskInv

\* A poller that does not bill moves the row of a task that is not final, or
\* fails one whose channel is gone.
LEMMA PollerMoves ==
    ASSUME TasksInv, NEW w \in Pollers, NEW t \in Tasks, NEW j, Works(w, t, j),
           t \notin Realtime, j.pc = "idle", job[w][t].pc \in Reading,
           charge'[t] = charge[t], net'[t] = net[t],
           \/ /\ row[t].status \in Unbilled /\ row'[t].status \in Unbilled
              /\ row'[t].quota = stage[t].quota /\ row'[t].ref = stage[t].ref
           \/ /\ ~world[t].channel /\ row'[t].status = "FAILURE" /\ row'[t].quota = row[t].quota
    PROVE  TaskInv(t)' /\ About(t)
<1>1. /\ Placed(t)' /\ Correcting(t)' /\ About(t) /\ stage[t].pc = "done"
      /\ job'[w][t] = j /\ \A v \in Workers : v # w => job'[v][t] = job[v][t]
      /\ (t \in Realtime)' = (t \in Realtime) /\ (t \in Subscribed)' = (t \in Subscribed)
      /\ world'[t] = world[t] /\ stage'[t] = stage[t] /\ w \in Workers
  BY WorksStands DEF Works, Workers
<1>2. TaskInv(t) /\ Pollers \subseteq Workers /\ row[t] \in RowRows /\ row[t].status # "none"
  BY DEF TasksInv, Workers, TablesTyped, Works
<1>3. OneWinner(t) /\ (row[t].status \in Final \/ row[t].status \in Unbilled)
  BY <1>2 DEF TaskInv, RowRows, Statuses, Unbilled, Final
<1>4. OneWinner(t)'
  BY <1>1, <1>2, <1>3 DEF OneWinner, Reading, Billing, Unbilled, Final
<1>5. ASSUME t \notin excused' PROVE Paid(t)'
  <2>1. t \notin excused /\ (KnownRefs' => KnownRefs)
    BY <1>1, <1>5 DEF Works, Wrote, About
  <2>2. Paid(t) /\ world'[t].key
    BY <2>1, <1>1, <1>2 DEF TaskInv, Paid
  <2>3. Submitted(t)'
    BY <1>1, <2>2 DEF Paid, Submitted
  <2>4. Unbilling(t)' = Unbilling(t)
    BY <1>1, <1>2, <2>1 DEF Unbilling, Reading, Billing
  <2>5. (t \notin Subscribed)' => OnWallet(t)'
    <3> SUFFICES ASSUME t \notin Subscribed PROVE OnWallet(t)'
      BY <1>1
    <3>1. OnWallet(t) /\ stage[t].quota >= 0
      BY <2>2, Typing DEF Paid, TasksInv, TablesTyped, StageRows
    <3> QED
      BY <3>1, <1>1, <1>2, <1>3, <2>4 DEF OnWallet, Unbilled, Final
  <2>6. (t \in Subscribed)' => OnSubscription(t)'
    <3> SUFFICES ASSUME t \in Subscribed PROVE OnSubscription(t)'
      BY <1>1
    <3>1. OnSubscription(t) /\ stage[t].quota >= 0
      BY <2>2, Typing DEF Paid, TasksInv, TablesTyped, StageRows
    <3> QED
      BY <3>1, <1>1, <1>2, <1>3, <2>1, <2>4 DEF OnSubscription, Charged, Unbilled, Final, KnownRefs
  <2> QED
    BY <2>2, <2>3, <2>5, <2>6, <1>1 DEF Paid
<1> QED
  BY <1>1, <1>4, <1>5 DEF TaskInv

\* The poller that makes a row final bills it, unless there is nothing to give back.
LEMMA PollerWins ==
    ASSUME TasksInv, NEW w \in Pollers, NEW t \in Tasks, NEW j, Works(w, t, j),
           t \notin Realtime, job[w][t].pc \in Reading,
           charge'[t] = charge[t], net'[t] = net[t],
           row[t].status \in Unbilled, row'[t].status \in Final,
           row'[t].quota = stage[t].quota,
           \/ /\ j.pc \in {"settle", "refund"} /\ j.copy.status = row'[t].status
              /\ j.copy.quota = stage[t].quota /\ j.copy.ref = stage[t].ref
           \/ j.pc = "idle" /\ stage[t].quota = 0
    PROVE  TaskInv(t)' /\ About(t)
<1>1. /\ Placed(t)' /\ Correcting(t)' /\ About(t) /\ stage[t].pc = "done"
      /\ job'[w][t] = j /\ \A v \in Workers : v # w => job'[v][t] = job[v][t]
      /\ (t \in Realtime)' = (t \in Realtime) /\ (t \in Subscribed)' = (t \in Subscribed)
      /\ world'[t] = world[t] /\ stage'[t] = stage[t] /\ w \in Workers
  BY WorksStands DEF Works, Workers
<1>2. TaskInv(t) /\ Pollers \subseteq Workers /\ row[t].status \notin Final /\ row'[t].status \notin Unbilled
  BY DEF TasksInv, Workers, Unbilled, Final
<1>3. OneWinner(t) /\ Unbilling(t)
  BY <1>2 DEF TaskInv, OneWinner, Unbilling
<1>4. \A v \in Pollers : v # w => job'[v][t].pc \notin Billing
  BY <1>1, <1>2, <1>3 DEF Unbilling
<1>5. OneWinner(t)'
  BY <1>1, <1>2, <1>3, <1>4 DEF OneWinner, Reading, Billing
<1>6. ASSUME t \notin excused' PROVE Paid(t)'
  <2>1. t \notin excused /\ (KnownRefs' => KnownRefs)
    BY <1>1, <1>6 DEF Works, Wrote, About
  <2>2. Paid(t) /\ world'[t].key
    BY <2>1, <1>1, <1>2 DEF TaskInv, Paid
  <2>3. Submitted(t)'
    BY <1>1, <2>2 DEF Paid, Submitted
  <2>4. Unbilling(t)' => j.pc = "idle"
    BY <1>1, <1>2 DEF Unbilling, Billing
  <2>5. (t \notin Subscribed)' => OnWallet(t)'
    <3> SUFFICES ASSUME t \notin Subscribed PROVE OnWallet(t)'
      BY <1>1
    <3>1. OnWallet(t)
      BY <2>2 DEF Paid
    <3> QED
      BY <3>1, <1>1, <1>2, <1>3, <1>4, <2>4 DEF OnWallet, Billing
  <2>6. (t \in Subscribed)' => OnSubscription(t)'
    <3> SUFFICES ASSUME t \in Subscribed PROVE OnSubscription(t)'
      BY <1>1
    <3>1. OnSubscription(t)
      BY <2>2 DEF Paid
    <3> QED
      BY <3>1, <1>1, <1>2, <1>3, <1>4, <2>1, <2>4 DEF OnSubscription, Charged, Billing, KnownRefs
  <2> QED
    BY <2>2, <2>3, <2>5, <2>6, <1>1 DEF Paid
<1> QED
  BY <1>1, <1>5, <1>6 DEF TaskInv

\* What a worker's job tells about its task.
LEMMA AtWork ==
    ASSUME TasksInv, NEW w \in Workers, NEW t \in Tasks
    PROVE  /\ TaskInv(t) /\ job[w][t] \in JobRows /\ row[t] \in RowRows /\ row[t].ref \in Nat
           /\ stage[t] \in StageRows /\ charge[t] \in ChargeRows /\ net[t] \in NetRows
           /\ world[t] \in WorldRows
           /\ job[w][t].copy \in RowRows /\ job[w][t].target \in Quotas /\ job[w][t].delta \in Int
           /\ job[w][t].pc # "idle" => row[t].status # "none" /\ job[w][t].copy.status # "none"
           /\ w \in Pollers /\ job[w][t].pc \in Reading => job[w][t].copy.status \in Unbilled
           /\ Idle.pc = "idle" /\ Idle.copy.status = "none" /\ Fits(w, t, Idle)
           /\ user \notin Pollers
<1>1. /\ TaskInv(t) /\ job[w][t] \in JobRows /\ row[t] \in RowRows
      /\ stage[t] \in StageRows /\ charge[t] \in ChargeRows /\ net[t] \in NetRows
      /\ world[t] \in WorldRows
  BY DEF TasksInv, TablesTyped, RunTyped
<1>2. /\ job[w][t].copy \in RowRows /\ job[w][t].target \in Quotas /\ job[w][t].delta \in Int
      /\ row[t].ref \in Nat
  BY <1>1 DEF JobRows, RowRows
<1>3. /\ job[w][t].pc # "idle" => row[t].status # "none" /\ job[w][t].copy.status # "none"
      /\ w \in Pollers /\ job[w][t].pc \in Reading => job[w][t].copy.status \in Unbilled
  BY <1>1 DEF TaskInv, Placed
<1>4. Idle.pc = "idle" /\ Idle.copy.status = "none"
  BY DEF Idle, NoRow
<1>5. Fits(w, t, Idle)
  BY <1>4 DEF Fits, Reading, Billing
<1> QED
  BY <1>1, <1>2, <1>3, <1>4, <1>5, TaskAssumption

\* A step that only writes the row and a job.
LEMMA WritesRow ==
    ASSUME TasksInv, NEW w \in Workers, NEW t \in Tasks, NEW j \in JobRows, Become(w, t, j),
           NEW x \in RowRows, row' = row \/ row' = [row EXCEPT ![t] = x],
           UNCHANGED <<stage, charge, net, world>>, excused' = excused \/ excused' = excused \cup {t},
           UNCHANGED budget \/ \E b \in {"failures", "unsettled", "crashes", "lookups"} : Spend(b)
    PROVE  /\ Wrote(w, t, j) /\ (row'[t] = row[t] \/ row'[t] = x) /\ stage'[t] = stage[t]
           /\ charge'[t] = charge[t] /\ net'[t] = net[t]
           /\ row' = [row EXCEPT ![t] = x] => row'[t] = x
<1>1. /\ row' \in [Tasks -> RowRows] /\ \A u \in Tasks \ {t} : row'[u] = row[u]
      /\ row'[t] = row[t] \/ row'[t] = x
      /\ row' = [row EXCEPT ![t] = x] => row'[t] = x
  BY DEF TasksInv, TablesTyped
<1>2. TablesTyped'
  BY <1>1 DEF TasksInv, TablesTyped
<1> QED
  BY <1>1, <1>2 DEF Wrote

\* A poller reads a row: unfinished, and as submitted.
LEMMA SweepReadKeeps ==
    ASSUME TasksInv, NEW w \in Pollers, NEW t \in Tasks, SweepRead(w, t) \/ PollRead(w, t)
    PROVE  TaskInv(t)' /\ About(t)
<1>1. PICK pc \in {"sweep", "poll"} :
         job[w][t].pc = "idle" /\ Unfinished(t) /\ Become(w, t, [Idle EXCEPT !.pc = pc, !.copy = row[t]])
         /\ UNCHANGED <<row, stage, charge, net, world, budget, excused>>
  BY DEF SweepRead, PollRead
<1> DEFINE j == [Idle EXCEPT !.pc = pc, !.copy = row[t]]
<1>2. w \in Workers /\ TaskInv(t) /\ row[t] \in RowRows
  BY AtWork DEF Workers
<1>3. row[t].status \in Unbilled /\ row[t].status # "none" /\ row[t].status # "FAILURE"
  BY <1>1, <1>2 DEF Unfinished, RowRows, Statuses, Unbilled, Final
<1>4. /\ j \in JobRows /\ j.pc = pc /\ j.copy = row[t] /\ j.pc \notin Billing /\ j.pc \notin {"idle", "write"}
  BY <1>2, Typing DEF Idle, JobRows, Reading, Billing
<1> HIDE DEF j
<1>5. Wrote(w, t, j) /\ row'[t] = row[t] /\ stage'[t] = stage[t] /\ charge'[t] = charge[t] /\ net'[t] = net[t]
  BY <1>1, <1>2, <1>4, WritesRow DEF j
<1>6. Works(w, t, j)
  BY <1>3, <1>4, <1>5, TaskAssumption DEF Works, Fits, Billing
<1>7. t \notin Realtime => j.copy.quota = stage[t].quota /\ j.copy.ref = stage[t].ref
  BY <1>2, <1>3, <1>4 DEF TaskInv, OneWinner
<1> QED
  BY <1>1, <1>2, <1>4, <1>5, <1>6, <1>7, Rests DEF Billing

\* A poller gives up what it read.
LEMMA GiveUpKeeps ==
    ASSUME TasksInv, NEW w \in Pollers, NEW t \in Tasks, GiveUp(w, t)
    PROVE  TaskInv(t)' /\ About(t)
<1>1. /\ job[w][t].pc \in Reading /\ Become(w, t, Idle) /\ Spend("failures")
      /\ UNCHANGED <<row, stage, charge, net, world, excused>> /\ w \in Workers
  BY DEF GiveUp, Reading, Workers
<1>2. /\ row[t] \in RowRows /\ row[t].status # "none" /\ Fits(w, t, Idle) /\ Idle.pc = "idle"
      /\ Idle.pc \notin Billing /\ job[w][t].pc \notin Billing
  BY <1>1, AtWork DEF Reading, Billing
<1>3. Wrote(w, t, Idle) /\ row'[t] = row[t] /\ stage'[t] = stage[t] /\ charge'[t] = charge[t] /\ net'[t] = net[t]
  BY <1>1, <1>2, Typing, WritesRow
<1>4. Works(w, t, Idle)
  BY <1>2, <1>3 DEF Works
<1> QED
  BY <1>1, <1>2, <1>3, <1>4, Rests

\* A poller fails a row without looking at its status.
LEMMA BulkFailKeeps ==
    ASSUME TasksInv, NEW w \in Pollers, NEW t \in Tasks, BulkFail(w, t)
    PROVE  TaskInv(t)' /\ About(t)
<1> DEFINE x == [row[t] EXCEPT !.status = "FAILURE", !.complete = TRUE]
<1>1. /\ job[w][t].pc \in Reading /\ Become(w, t, Idle) /\ ~world[t].channel
      /\ UNCHANGED <<stage, charge, net, world, budget, excused>> /\ w \in Workers
  BY DEF BulkFail, Reading, Workers
<1>2. /\ row[t] \in RowRows /\ row[t].status # "none" /\ Fits(w, t, Idle) /\ Idle.pc = "idle"
      /\ Idle.pc # "key" /\ job[w][t].pc # "key"
  BY <1>1, AtWork DEF Reading
<1>3. row' = [row EXCEPT ![t] = x]
  BY DEF BulkFail, TasksInv, TablesTyped
<1>4. x \in RowRows /\ x.status = "FAILURE" /\ x.quota = row[t].quota
  BY <1>2 DEF RowRows, Statuses, Final
<1> HIDE DEF x
<1>5. Wrote(w, t, Idle) /\ row'[t] = x /\ stage'[t] = stage[t] /\ charge'[t] = charge[t] /\ net'[t] = net[t]
  BY <1>1, <1>3, <1>4, Typing, WritesRow
<1>6. Works(w, t, Idle)
  BY <1>2, <1>4, <1>5 DEF Works
<1> QED
  BY <1>1, <1>2, <1>4, <1>5, <1>6, PollerMoves, RealtimeMoves

\* A poller asks the upstream.
LEMMA PollFetchKeeps ==
    ASSUME TasksInv, NEW w \in Pollers, NEW t \in Tasks, PollFetch(w, t)
    PROVE  TaskInv(t)' /\ About(t)
<1> DEFINE j == [job[w][t] EXCEPT !.pc = "write", !.seen = world[t].upstream]
<1>1. /\ job[w][t].pc = "poll" /\ job[w][t].pc \in Reading /\ Become(w, t, j)
      /\ UNCHANGED <<row, stage, charge, net, world, budget, excused>> /\ w \in Workers
  BY DEF PollFetch, Reading, Workers
<1>2. /\ TaskInv(t) /\ row[t] \in RowRows /\ row[t].status # "none" /\ job[w][t] \in JobRows
      /\ world[t].upstream \in Seen /\ job[w][t].copy.status \in Unbilled
  BY <1>1, AtWork DEF WorldRows
<1>3. j \in JobRows /\ j.pc = "write" /\ j.seen \in Seen /\ j.copy = job[w][t].copy
  BY <1>2 DEF JobRows, Reading, Seen, Statuses
<1> HIDE DEF j
<1>4. Wrote(w, t, j) /\ row'[t] = row[t] /\ stage'[t] = stage[t] /\ charge'[t] = charge[t] /\ net'[t] = net[t]
  BY <1>1, <1>2, <1>3, WritesRow
<1>5. Works(w, t, j)
  BY <1>2, <1>3, <1>4, TaskAssumption DEF Works, Fits, Unbilled, Billing
<1>6. t \notin Realtime => j.copy.quota = stage[t].quota /\ j.copy.ref = stage[t].ref
  BY <1>1, <1>2, <1>3 DEF TaskInv, OneWinner
<1> QED
  BY <1>1, <1>2, <1>3, <1>4, <1>5, <1>6, Rests DEF Billing

\* Whoever makes a row final.
LEMMA FinishedKeeps ==
    ASSUME TasksInv, NEW w \in Pollers, NEW t \in Tasks, job[w][t].pc \in Reading,
           NEW status \in Final, Finished(w, t, job[w][t].copy, status),
           UNCHANGED <<stage, charge, net, world, budget, excused>>
    PROVE  TaskInv(t)' /\ About(t)
<1> DEFINE copy == job[w][t].copy
           won == [copy EXCEPT !.status = status, !.complete = TRUE]
           failed == [Idle EXCEPT !.pc = IF copy.quota # 0 THEN "refund" ELSE "idle",
                                  !.copy = won, !.delta = - copy.quota]
           done == [Idle EXCEPT !.pc = "settle", !.copy = won]
<1>1. /\ TaskInv(t) /\ row[t] \in RowRows /\ row[t].status # "none" /\ copy \in RowRows
      /\ copy.status \in Unbilled /\ Fits(w, t, Idle) /\ Idle.pc = "idle" /\ w \in Workers
      /\ Idle.pc \notin Billing /\ job[w][t].pc \notin Billing /\ job[w][t].pc # "idle"
      /\ job[w][t].pc # "key"
  BY AtWork DEF Workers, Reading, Billing
<1>2. /\ won \in RowRows /\ won.status = status /\ won.quota = copy.quota /\ won.ref = copy.ref
      /\ copy.quota \in Int /\ won.status # "none" /\ status \in {"SUCCESS", "FAILURE"}
  BY <1>1, Typing DEF RowRows, Statuses, Final
<1>3. CASE ~Wins(t, copy)
  <2>1. Become(w, t, Idle) /\ UNCHANGED row
    BY <1>3 DEF Finished
  <2>2. Wrote(w, t, Idle) /\ row'[t] = row[t] /\ stage'[t] = stage[t] /\ charge'[t] = charge[t] /\ net'[t] = net[t]
    BY <1>1, <2>1, Typing, WritesRow
  <2>3. Works(w, t, Idle)
    BY <1>1, <2>2 DEF Works
  <2> QED
    BY <1>1, <2>2, <2>3, Rests
<1>4. CASE Wins(t, copy)
  <2>1. PICK j : /\ Become(w, t, j) /\ row' = [row EXCEPT ![t] = won]
                 /\ j = IF status = "FAILURE" THEN failed ELSE done
    BY <1>4 DEF Finished
  <2> HIDE DEF won
  <2>2. /\ j \in JobRows /\ j.copy = won
        /\ status = "FAILURE" => j.pc \in {"refund", "idle"} /\ j.target = 0 /\ j.delta = - copy.quota
                                 /\ (j.pc = "idle" => copy.quota = 0)
        /\ status = "SUCCESS" => j.pc = "settle"
    <3>1. - copy.quota \in Int /\ 0 \in Quotas /\ "none" \in Statuses
      BY <1>2, Typing DEF Statuses
    <3>2. CASE status = "FAILURE"
      BY <2>1, <1>2, <3>1, <3>2 DEF Idle, JobRows, Billing
    <3>3. CASE status = "SUCCESS"
      <4>1. j = [pc |-> "settle", copy |-> won, seen |-> "none", target |-> 0, delta |-> 0]
        BY <2>1, <3>3 DEF Idle
      <4> QED
        BY <1>2, <3>1, <3>3, <4>1 DEF JobRows, Billing
    <3> QED
      BY <1>2, <3>2, <3>3
  <2> HIDE DEF failed, done
  <2>3. Wrote(w, t, j) /\ row'[t] = won /\ stage'[t] = stage[t] /\ charge'[t] = charge[t] /\ net'[t] = net[t]
    <3>1. j \in JobRows /\ won \in RowRows /\ w \in Workers /\ Become(w, t, j) /\ row' = [row EXCEPT ![t] = won]
      BY <1>1, <1>2, <2>1, <2>2
    <3> QED
      BY <3>1, WritesRow
  <2>4. Fits(w, t, j)
    <3>1. j.delta = j.target - j.copy.quota \/ j.pc \notin {"refund", "key", "back"}
      BY <1>2, <2>2 DEF Final
    <3> QED
      BY <1>2, <2>2, <3>1, TaskAssumption DEF Fits, Billing, Reading, Final
  <2>5. Works(w, t, j)
    BY <1>1, <1>2, <2>3, <2>4 DEF Works
  <2>6. CASE t \in Realtime
    BY <1>1, <1>2, <2>2, <2>3, <2>5, <2>6, RealtimeMoves
  <2>7. CASE t \notin Realtime
    <3>1. copy.quota = stage[t].quota /\ copy.ref = stage[t].ref
      BY <1>1, <2>7 DEF TaskInv, OneWinner
    <3>2. row[t].status \in Unbilled
      BY <1>1, <1>4 DEF Wins
    <3> QED
      BY <1>1, <1>2, <2>2, <2>3, <2>5, <2>7, <3>1, <3>2, PollerWins
  <2> QED
    BY <2>6, <2>7
<1> QED
  BY <1>3, <1>4

\* The sweeper fails an overdue task.
LEMMA SweepKeeps ==
    ASSUME TasksInv, NEW w \in Pollers, NEW t \in Tasks, SweepTimedOutTask(w, t)
    PROVE  TaskInv(t)' /\ About(t)
BY FinishedKeeps DEF SweepTimedOutTask, Reading, Final

\* A poller writes what the upstream said.
LEMMA PollWriteKeeps ==
    ASSUME TasksInv, NEW w \in Pollers, NEW t \in Tasks, PollWrite(w, t)
    PROVE  TaskInv(t)' /\ About(t)
<1> DEFINE j == job[w][t]
           x == [j.copy EXCEPT !.status = j.seen]
<1>1. /\ j.pc = "write" /\ j.pc \in Reading /\ w \in Workers
      /\ UNCHANGED <<stage, charge, net, world, budget, excused>>
  BY DEF PollWrite, Reading, Workers
<1>2. CASE j.seen \in Final
  BY <1>1, <1>2, FinishedKeeps DEF PollWrite
<1>3. CASE j.seen \notin Final
  <2>1. Become(w, t, Idle) /\ row' = IF Wins(t, j.copy) THEN [row EXCEPT ![t] = x] ELSE row
    BY <1>1, <1>3 DEF PollWrite
  <2>2. /\ TaskInv(t) /\ row[t] \in RowRows /\ row[t].status # "none" /\ j.copy \in RowRows
        /\ j.copy.status \in Unbilled /\ Fits(w, t, Idle) /\ Idle.pc = "idle"
        /\ Idle.pc \notin Billing /\ j.pc \notin Billing /\ j.pc # "key"
    BY <1>1, AtWork DEF Reading, Billing
  <2>3. j.seen = "IN_PROGRESS"
    BY <1>1, <1>3, <2>2 DEF TaskInv, Placed, Seen, Workers
  <2>4. x \in RowRows /\ x.status = "IN_PROGRESS" /\ x.quota = j.copy.quota /\ x.ref = j.copy.ref
    BY <2>2, <2>3 DEF RowRows, Statuses
  <2> HIDE DEF x
  <2>5. /\ Wrote(w, t, Idle) /\ stage'[t] = stage[t] /\ charge'[t] = charge[t] /\ net'[t] = net[t]
        /\ (Wins(t, j.copy) => row'[t] = x) /\ (~Wins(t, j.copy) => row'[t] = row[t])
    BY <1>1, <2>1, <2>2, <2>4, Typing, WritesRow
  <2>6. Works(w, t, Idle)
    BY <2>2, <2>4, <2>5 DEF Works
  <2>7. CASE ~Wins(t, j.copy)
    BY <1>1, <2>2, <2>5, <2>6, <2>7, Rests
  <2>8. CASE Wins(t, j.copy) /\ t \in Realtime
    BY <1>1, <2>2, <2>5, <2>6, <2>8, RealtimeMoves
  <2>9. CASE Wins(t, j.copy) /\ t \notin Realtime
    <3>1. j.copy.quota = stage[t].quota /\ j.copy.ref = stage[t].ref
      BY <1>1, <2>2, <2>9 DEF TaskInv, OneWinner
    <3>2. row[t].status \in Unbilled /\ row'[t].status \in Unbilled
      BY <2>2, <2>4, <2>5, <2>9 DEF Wins, Unbilled
    <3> QED
      BY <1>1, <2>2, <2>4, <2>5, <2>6, <2>9, <3>1, <3>2, PollerMoves
  <2> QED
    BY <2>7, <2>8, <2>9
<1> QED
  BY <1>2, <1>3

\* A lookup reads any row.
LEMMA RealtimeReadKeeps ==
    ASSUME TasksInv, NEW t \in Tasks, RealtimeRead(t)
    PROVE  TaskInv(t)' /\ About(t)
<1> DEFINE j == [Idle EXCEPT !.pc = "write", !.copy = row[t], !.seen = world[t].upstream]
<1>1. /\ t \in Realtime /\ row[t].status # "none" /\ job[user][t].pc = "idle" /\ Spend("lookups")
      /\ Become(user, t, j) /\ UNCHANGED <<row, stage, charge, net, world, excused>> /\ user \in Workers
  BY DEF RealtimeRead, Workers
<1>2. row[t] \in RowRows /\ world[t].upstream \in Seen
  BY <1>1, AtWork DEF WorldRows
<1>3. j \in JobRows /\ j.pc = "write" /\ j.seen \in Seen /\ j.copy = row[t]
  BY <1>2, Typing DEF Idle, JobRows, Reading, Seen, Statuses
<1> HIDE DEF j
<1>4. Wrote(user, t, j) /\ row'[t] = row[t] /\ stage'[t] = stage[t] /\ charge'[t] = charge[t] /\ net'[t] = net[t]
  BY <1>1, <1>2, <1>3, WritesRow
<1>5. Works(user, t, j)
  BY <1>1, <1>3, <1>4, TaskAssumption DEF Works, Fits
<1> QED
  BY <1>1, <1>3, <1>4, <1>5, RealtimeMoves

\* A lookup writes over any row.
LEMMA RealtimeWriteKeeps ==
    ASSUME TasksInv, NEW t \in Tasks, RealtimeWrite(t)
    PROVE  TaskInv(t)' /\ About(t)
<1> DEFINE j == job[user][t]
           new == [j.copy EXCEPT !.status = j.seen, !.complete = j.seen \in Final]
<1>1. /\ j.pc = "write" /\ Become(user, t, Idle) /\ user \in Workers
      /\ row' = row \/ row' = [row EXCEPT ![t] = new]
      /\ UNCHANGED <<stage, charge, net, world, budget, excused>>
  BY DEF RealtimeWrite, Workers
<1>2. /\ TaskInv(t) /\ row[t].status # "none" /\ j.copy \in RowRows /\ Fits(user, t, Idle)
      /\ Idle.pc = "idle"
  BY <1>1, AtWork
<1>3. t \in Realtime /\ j.seen \in Seen
  BY <1>1, <1>2 DEF TaskInv, Placed
<1>4. new \in RowRows /\ new.status # "none"
  <2>1. \A b \in BOOLEAN : /\ [j.copy EXCEPT !.status = j.seen, !.complete = b] \in RowRows
                           /\ [j.copy EXCEPT !.status = j.seen, !.complete = b].status = j.seen
    BY <1>2, <1>3 DEF RowRows, Statuses, Seen, Final
  <2>2. (j.seen \in Final) \in BOOLEAN
    OBVIOUS
  <2>3. new \in RowRows /\ new.status = j.seen
    BY <2>1, <2>2, Zenon
  <2> QED
    BY <1>3, <2>3 DEF Seen, Final
<1> HIDE DEF new
<1>5. Wrote(user, t, Idle) /\ (row'[t] = row[t] \/ row'[t] = new) /\ stage'[t] = stage[t]
      /\ charge'[t] = charge[t] /\ net'[t] = net[t]
  BY <1>1, <1>4, Typing, WritesRow
<1>6. Works(user, t, Idle)
  BY <1>2, <1>4, <1>5 DEF Works
<1> QED
  BY <1>1, <1>2, <1>3, <1>5, <1>6, RealtimeMoves

-----------------------------------------------------------------------------
(* Steps of the winner.                                                     *)

\* What wallet and key have to show for a biller that has come as far as j, and
\* what record and key have to.
PaysWallet(t, j) ==
    /\ j.pc = "refund" => net'[t].wallet = stage[t].quota /\ net'[t].key = stage[t].quota
    /\ j.pc = "key" => net'[t].wallet = j.target /\ net'[t].key = stage[t].quota
    /\ j.pc = "back" => net'[t].wallet = j.target /\ net'[t].key = j.target
    /\ j.pc = "idle" =>
          /\ net'[t].wallet = net'[t].key /\ net'[t].key >= 0
          /\ world[t].channel /\ row[t].status = "SUCCESS" => net'[t].key = row'[t].quota
          /\ world[t].channel /\ row[t].status = "FAILURE" => net'[t].key = 0

PaysRecord(t, j) ==
    /\ charge'[t].phase \in {"queued", "settled", "refunded"}
    /\ charge'[t].phase = "queued" =>
          /\ ~KnownRefs' /\ net'[t].key = stage[t].pre
          /\ row'[t].quota = stage[t].quota /\ j.pc \notin {"key", "back"}
    /\ charge'[t].phase # "queued" =>
       /\ j.pc = "refund" => Charged(t)'
       /\ j.pc = "key" => charge'[t].amount = j.target /\ net'[t].key = stage[t].quota
       /\ j.pc = "back" => charge'[t].amount = j.target /\ net'[t].key = j.target
       /\ j.pc = "idle" =>
             /\ charge'[t].amount = net'[t].key /\ net'[t].key >= 0
             /\ world[t].channel /\ row[t].status = "SUCCESS" => net'[t].key = row'[t].quota
             /\ world[t].channel /\ row[t].status = "FAILURE" /\ KnownRefs' => net'[t].key = 0

\* The winner is alone: if its own account is right, the task's is.
LEMMA WinnerBills ==
    ASSUME TasksInv, NEW w \in Pollers, NEW t \in Tasks, NEW j, Works(w, t, j),
           t \notin Realtime, job[w][t].pc \in Billing, j.pc \in {"refund", "key", "back", "idle"},
           row'[t].status = row[t].status,
           j.pc # "idle" => /\ row'[t].quota = row[t].quota
                            /\ j.copy.quota = job[w][t].copy.quota
                            /\ j.copy.status = job[w][t].copy.status,
           j.pc = "refund" => j.copy.ref = job[w][t].copy.ref /\ job[w][t].pc \in {"settle", "refund"},
           t \notin excused' =>
               /\ Submitted(t)'
               /\ t \notin Subscribed => PaysWallet(t, j)
               /\ t \in Subscribed => PaysRecord(t, j)
    PROVE  TaskInv(t)' /\ About(t)
<1>1. /\ Placed(t)' /\ Correcting(t)' /\ About(t) /\ stage[t].pc = "done"
      /\ job'[w][t] = j /\ \A v \in Workers : v # w => job'[v][t] = job[v][t]
      /\ (t \in Realtime)' = (t \in Realtime) /\ (t \in Subscribed)' = (t \in Subscribed)
      /\ world'[t] = world[t] /\ stage'[t] = stage[t] /\ w \in Workers
  BY WorksStands DEF Works, Workers
<1>2. OneWinner(t) /\ Pollers \subseteq Workers
  BY DEF TasksInv, TaskInv, Workers
<1>3. row[t].status \in Final /\ row[t].status \notin Unbilled /\ row[t].quota = stage[t].quota
  BY <1>2 DEF OneWinner, Unbilled, Final
<1>4. \A v \in Pollers : v # w => job[v][t].pc \notin Billing /\ job'[v][t] = job[v][t]
  BY <1>1, <1>2 DEF OneWinner
<1>5. OneWinner(t)'
  BY <1>1, <1>2, <1>3, <1>4 DEF OneWinner, Reading, Billing
<1>6. ASSUME t \notin excused' PROVE Paid(t)'
  <2>1. Submitted(t)' /\ t \notin excused /\ world'[t].key
    BY <1>1, <1>6 DEF TasksInv, TaskInv, Paid, Works, Wrote
  <2>2. Unbilling(t)' => j.pc = "idle"
    BY <1>1 DEF Unbilling, Billing
  <2>3. t \notin Subscribed => OnWallet(t)'
    BY <1>1, <1>3, <1>4, <1>6, <2>2 DEF OnWallet, PaysWallet, Billing
  <2>4. t \in Subscribed => OnSubscription(t)'
    BY <1>1, <1>3, <1>4, <1>6, <2>2 DEF OnSubscription, PaysRecord, Billing
  <2> QED
    BY <2>1, <2>3, <2>4, <1>1 DEF Paid
<1> QED
  BY <1>1, <1>5, <1>6 DEF TaskInv

\* What poller w owes or is owed, in units.
OwnUnits(w, d) == {u \in Units : u[1] = w /\ u[2] <= d}

\* They are as many as the amount.
LEMMA OwnUnitsCount ==
    ASSUME NEW w \in Pollers, NEW d \in Int, d <= MaxQuota
    PROVE  /\ IsFiniteSet(OwnUnits(w, d))
           /\ Cardinality(OwnUnits(w, d)) = IF d > 0 THEN d ELSE 0
<1> DEFINE f == [i \in 1 .. d |-> <<w, i>>]
<1>0. MaxQuota \in Nat
  BY TaskAssumption
<1>1. IsFiniteSet(1 .. d) /\ Cardinality(1 .. d) = IF d > 0 THEN d ELSE 0
  BY FS_Interval
<1>2. \A i \in 1 .. d : i \in 1 .. MaxQuota
  BY <1>0
<1>3. f \in Bijection(1 .. d, OwnUnits(w, d))
  <2>1. f \in [1 .. d -> OwnUnits(w, d)]
    BY <1>0, <1>2 DEF OwnUnits, Units
  <2>2. \A i, k \in 1 .. d : f[i] = f[k] => i = k
    OBVIOUS
  <2>3. ASSUME NEW u \in OwnUnits(w, d) PROVE \E i \in 1 .. d : f[i] = u
    <3>1. u = <<w, u[2]>> /\ u[2] \in 1 .. d
      BY <1>0 DEF OwnUnits, Units
    <3> QED
      BY <3>1
  <2> HIDE DEF f
  <2> QED
    BY <2>1, <2>2, <2>3, Fun_IsBij
<1> HIDE DEF f
<1>4. ExistsBijection(1 .. d, OwnUnits(w, d))
  BY <1>3 DEF ExistsBijection
<1> QED
  BY <1>1, <1>4, FS_Bijection

\* Adding the units of a poller that had none.
LEMMA OwnUnitsAdd ==
    ASSUME NEW w \in Pollers, NEW d \in Int, d <= MaxQuota, NEW S, IsFiniteSet(S),
           S \cap OwnUnits(w, d) = {}
    PROVE  /\ IsFiniteSet(S \cup OwnUnits(w, d)) /\ Cardinality(S) \in Nat
           /\ Cardinality(S \cup OwnUnits(w, d)) = Cardinality(S) + (IF d > 0 THEN d ELSE 0)
<1>1. /\ IsFiniteSet(OwnUnits(w, d))
      /\ Cardinality(OwnUnits(w, d)) = IF d > 0 THEN d ELSE 0
  BY OwnUnitsCount
<1>2. Cardinality({}) = 0 /\ Cardinality(S) \in Nat
  BY FS_EmptySet, FS_CardinalityType
<1>3. /\ IsFiniteSet(S \cup OwnUnits(w, d))
      /\ Cardinality(S \cup OwnUnits(w, d)) = Cardinality(S) + Cardinality(OwnUnits(w, d)) - Cardinality({})
  BY <1>1, FS_Union
<1> QED
  BY <1>1, <1>2, <1>3

\* A poller about to change the key, by d.
LEMMA KeyEntered ==
    ASSUME TasksInv, NEW t \in Tasks, NEW w \in Pollers, NEW d \in Int,
           d <= MaxQuota, - d <= MaxQuota,
           IsFiniteSet(Take(t)), IsFiniteSet(Give(t)),
           job[w][t].pc # "key", job'[w][t].pc = "key", job'[w][t].delta = d,
           \A v \in Pollers : v # w => job'[v][t] = job[v][t]
    PROVE  /\ IsFiniteSet(Take(t)') /\ IsFiniteSet(Give(t)')
           /\ Cardinality(Take(t)') - Cardinality(Give(t)') = Cardinality(Take(t)) - Cardinality(Give(t)) + d
           /\ Cardinality(Take(t)) \in Nat /\ Cardinality(Give(t)) \in Nat
<1>1. Take(t)' = Take(t) \cup OwnUnits(w, d) /\ Take(t) \cap OwnUnits(w, d) = {}
  BY DEF Take, OwnUnits, Units
<1>2. Give(t)' = Give(t) \cup OwnUnits(w, - d) /\ Give(t) \cap OwnUnits(w, - d) = {}
  BY DEF Give, OwnUnits, Units
<1>3. - d \in Int
  OBVIOUS
<1>4. /\ IsFiniteSet(Take(t)') /\ Cardinality(Take(t)) \in Nat
      /\ Cardinality(Take(t)') = Cardinality(Take(t)) + (IF d > 0 THEN d ELSE 0)
  BY <1>1, OwnUnitsAdd
<1>5. /\ IsFiniteSet(Give(t)') /\ Cardinality(Give(t)) \in Nat
      /\ Cardinality(Give(t)') = Cardinality(Give(t)) + (IF - d > 0 THEN - d ELSE 0)
  BY <1>2, <1>3, OwnUnitsAdd
<1> QED
  BY <1>4, <1>5

\* A poller that has changed the key by d.
LEMMA KeyLeft ==
    ASSUME TasksInv, NEW t \in Tasks, NEW w \in Pollers, NEW d \in Int,
           d <= MaxQuota, - d <= MaxQuota,
           IsFiniteSet(Take(t)), IsFiniteSet(Give(t)),
           job[w][t].pc = "key", job'[w][t].pc # "key", job[w][t].delta = d,
           \A v \in Pollers : v # w => job'[v][t] = job[v][t]
    PROVE  /\ IsFiniteSet(Take(t)') /\ IsFiniteSet(Give(t)')
           /\ Cardinality(Take(t)) - Cardinality(Give(t)) = Cardinality(Take(t)') - Cardinality(Give(t)') + d
           /\ Cardinality(Take(t)') \in Nat /\ Cardinality(Give(t)') \in Nat
<1>1. Take(t) = Take(t)' \cup OwnUnits(w, d) /\ Take(t)' \cap OwnUnits(w, d) = {}
  BY DEF Take, OwnUnits, Units
<1>2. Give(t) = Give(t)' \cup OwnUnits(w, - d) /\ Give(t)' \cap OwnUnits(w, - d) = {}
  BY DEF Give, OwnUnits, Units
<1>3. - d \in Int /\ IsFiniteSet(Take(t)') /\ IsFiniteSet(Give(t)')
  BY <1>1, <1>2, FS_Subset
<1>4. /\ Cardinality(Take(t)') \in Nat
      /\ Cardinality(Take(t)) = Cardinality(Take(t)') + (IF d > 0 THEN d ELSE 0)
  BY <1>1, <1>3, OwnUnitsAdd
<1>5. /\ Cardinality(Give(t)') \in Nat
      /\ Cardinality(Give(t)) = Cardinality(Give(t)') + (IF - d > 0 THEN - d ELSE 0)
  BY <1>2, <1>3, OwnUnitsAdd
<1> QED
  BY <1>3, <1>4, <1>5

\* A step that only moves money and a job.
LEMMA WritesMoney ==
    ASSUME TasksInv, NEW w \in Workers, NEW t \in Tasks, NEW j \in JobRows, Become(w, t, j),
           NEW c \in ChargeRows, charge' = charge \/ charge' = [charge EXCEPT ![t] = c],
           NEW n \in NetRows, net' = net \/ net' = [net EXCEPT ![t] = n],
           UNCHANGED <<row, stage, world>>, excused' = excused \/ excused' = excused \cup {t},
           UNCHANGED budget \/ \E b \in {"failures", "unsettled", "crashes", "lookups"} : Spend(b)
    PROVE  /\ Wrote(w, t, j) /\ row'[t] = row[t] /\ stage'[t] = stage[t]
           /\ charge' = [charge EXCEPT ![t] = c] => charge'[t] = c
           /\ net' = [net EXCEPT ![t] = n] => net'[t] = n
<1>1. /\ charge' \in [Tasks -> ChargeRows] /\ \A u \in Tasks \ {t} : charge'[u] = charge[u]
      /\ charge' = [charge EXCEPT ![t] = c] => charge'[t] = c
  BY DEF TasksInv, TablesTyped
<1>2. /\ net' \in [Tasks -> NetRows] /\ \A u \in Tasks \ {t} : net'[u] = net[u]
      /\ net' = [net EXCEPT ![t] = n] => net'[t] = n
  BY DEF TasksInv, TablesTyped
<1>3. TablesTyped'
  BY <1>1, <1>2 DEF TasksInv, TablesTyped
<1> QED
  BY <1>1, <1>2, <1>3 DEF Wrote

\* The state of the winner of a task that only compare-and-swap moves.
LEMMA Winning ==
    ASSUME TasksInv, NEW w \in Pollers, NEW t \in Tasks, job[w][t].pc \in Billing
    PROVE  /\ job[w][t].copy.status \in Final /\ row[t].status # "none" /\ stage[t].pc = "done"
           /\ job[w][t].pc # "settle" => job[w][t].delta = job[w][t].target - job[w][t].copy.quota
           /\ job[w][t].copy.status = "FAILURE" => job[w][t].target = 0 /\ job[w][t].pc # "settle"
           /\ t \notin Realtime =>
                 /\ job[w][t].copy.quota = stage[t].quota /\ row[t].quota = stage[t].quota
                 /\ row[t].status \in Final
                 /\ world[t].channel => row[t].status = job[w][t].copy.status
                 /\ job[w][t].pc \in {"settle", "refund"} => job[w][t].copy.ref = stage[t].ref
           /\ t \notin excused => Paid(t)
<1>1. TaskInv(t) /\ w \in Workers
  BY DEF TasksInv, Workers
<1>2. row[t].status # "none" /\ job[w][t].pc # "idle"
  BY <1>1 DEF TaskInv, Placed, Billing
<1> QED
  BY <1>1, <1>2 DEF TaskInv, Placed, Correcting, OneWinner, Billing

\* Money that does not move stays where Submitted has it.
LEMMA SubmittedStays ==
    ASSUME NEW t \in Tasks, Submitted(t), stage'[t] = stage[t], charge'[t] = charge[t],
           net'[t] = net[t], (t \in Subscribed)' = (t \in Subscribed)
    PROVE  Submitted(t)'
BY DEF Submitted

\* A success is priced.
LEMMA SettleOnCompleteKeeps ==
    ASSUME TasksInv, NEW w \in Pollers, NEW t \in Tasks, NEW a \in Quotas, SettleOnComplete(w, t, a)
    PROVE  TaskInv(t)' /\ About(t)
<1> DEFINE j == job[w][t]
           going == [j EXCEPT !.pc = "refund", !.target = a, !.delta = a - j.copy.quota]
<1>1. /\ j.pc = "settle" /\ j.pc \in Billing /\ w \in Workers
      /\ UNCHANGED <<row, stage, charge, net, world, budget, excused>>
  BY DEF SettleOnComplete, Billing, Workers
<1>2. /\ TaskInv(t) /\ j \in JobRows /\ row[t] \in RowRows /\ row[t].status # "none"
      /\ j.copy \in RowRows /\ Fits(w, t, Idle) /\ Idle.pc = "idle" /\ j.copy.status # "none"
  BY <1>1, AtWork
<1>3. /\ j.copy.status = "SUCCESS" /\ stage[t].pc = "done" /\ j.copy.quota \in Int
      /\ t \notin Realtime =>
            /\ j.copy.quota = stage[t].quota /\ row[t].quota = stage[t].quota
            /\ row[t].status \in Final /\ j.copy.ref = stage[t].ref
            /\ world[t].channel => row[t].status = "SUCCESS"
      /\ t \notin excused => Paid(t)
  BY <1>1, <1>2, Winning, Typing DEF Final, RowRows
<1>4. PICK k : Become(w, t, k) /\ (k = Idle \/ k = going)
  BY <1>1 DEF SettleOnComplete
<1>5. /\ k \in JobRows /\ k.pc \in {"refund", "idle"}
      /\ k.pc = "refund" => k.copy = j.copy /\ k.delta = k.target - k.copy.quota
      /\ k.pc = "idle" => k = Idle
  <2>1. a - j.copy.quota \in Int
    BY <1>3, Typing
  <2>2. CASE k = Idle
    BY <1>2, <2>2, Typing
  <2>3. CASE k = going
    BY <1>2, <2>1, <2>3 DEF JobRows, Billing
  <2> QED
    BY <1>4, <2>2, <2>3
<1> HIDE DEF going
<1>6. Wrote(w, t, k) /\ row'[t] = row[t] /\ stage'[t] = stage[t] /\ charge'[t] = charge[t] /\ net'[t] = net[t]
  BY <1>1, <1>2, <1>4, <1>5, WritesRow
<1>7. Fits(w, t, k)
  BY <1>2, <1>3, <1>5, TaskAssumption DEF Fits, Reading, Billing, Final
<1>8. Works(w, t, k) /\ (t \in Subscribed)' = (t \in Subscribed)
  BY <1>1, <1>2, <1>6, <1>7 DEF Works, Subscribed, With
<1>9. CASE t \in Realtime
  BY <1>1, <1>5, <1>6, <1>8, <1>9, RealtimeMoves
<1>10. CASE t \notin Realtime
  <2>1. ASSUME t \notin excused' PROVE /\ Submitted(t)'
                                       /\ t \notin Subscribed => PaysWallet(t, k)
                                       /\ t \in Subscribed => PaysRecord(t, k)
    <3>1. Paid(t) /\ stage[t].quota >= 0 /\ (KnownRefs' = KnownRefs)
      BY <1>1, <1>2, <1>3, <2>1, Typing DEF TasksInv, TablesTyped, StageRows, KnownRefs
    <3>2. Submitted(t)'
      BY <1>6, <1>8, <3>1, SubmittedStays DEF Paid
    <3>3. t \notin Subscribed => PaysWallet(t, k)
      BY <1>1, <1>3, <1>5, <1>6, <1>10, <3>1 DEF Paid, OnWallet, PaysWallet, Final
    <3>4. t \in Subscribed => PaysRecord(t, k)
      <4>1. Charged(t)' = Charged(t)
        BY <1>6, <3>1 DEF Charged
      <4> QED
        BY <1>1, <1>3, <1>5, <1>6, <1>10, <3>1, <4>1 DEF Paid, OnSubscription, PaysRecord, Charged, Final
    <3> QED
      BY <3>2, <3>3, <3>4
  <2> QED
    BY <1>1, <1>5, <1>6, <1>8, <1>10, <2>1, WinnerBills
<1> QED
  BY <1>9, <1>10

\* A biller that fails, or is cut short, leaves an excuse.
LEMMA BillerStops ==
    ASSUME TasksInv, NEW w \in Pollers, NEW t \in Tasks, job[w][t].pc \in Billing,
           Become(w, t, Idle), Spend("failures"), Excuse({t}), UNCHANGED <<row, stage, charge, net, world>>
    PROVE  TaskInv(t)' /\ About(t)
<1>1. /\ w \in Workers /\ excused' = excused \cup {t} /\ t \in excused'
      /\ UNCHANGED <<stage, charge, net, world>> /\ row' = row
  BY DEF Workers, Excuse
<1>2. /\ row[t] \in RowRows /\ row[t].status # "none" /\ Fits(w, t, Idle) /\ Idle.pc = "idle"
      /\ Idle.pc \notin Billing
  BY <1>1, AtWork DEF Billing
<1>3. Wrote(w, t, Idle) /\ row'[t] = row[t] /\ stage'[t] = stage[t] /\ charge'[t] = charge[t] /\ net'[t] = net[t]
  BY <1>1, <1>2, Typing, WritesRow
<1>4. Works(w, t, Idle)
  BY <1>2, <1>3 DEF Works
<1> QED
  BY <1>1, <1>2, <1>3, <1>4, Rests

\* The usage record refuses the reference: it was out of date.
LEMMA AdjustRejectedKeeps ==
    ASSUME TasksInv, NEW w \in Pollers, NEW t \in Tasks, job[w][t].pc = "refund",
           Rejected(t, job[w][t].copy.ref, PhaseOf(job[w][t]), job[w][t].target),
           Become(w, t, Idle), UNCHANGED <<row, stage, charge, net, world, budget, excused>>
    PROVE  TaskInv(t)' /\ About(t)
<1> DEFINE j == job[w][t]
<1>1. /\ w \in Workers /\ j.pc \in Billing /\ t \in Subscribed
      /\ ~Repeats(t, PhaseOf(j), j.target) /\ ~Adjustable(t, j.copy.ref)
  BY DEF Rejected, Workers, Billing
<1>2. /\ row[t] \in RowRows /\ row[t].status # "none" /\ Fits(w, t, Idle) /\ Idle.pc = "idle"
      /\ charge[t] \in ChargeRows /\ stage[t] \in StageRows
  BY <1>1, AtWork
<1>3. /\ Wrote(w, t, Idle) /\ row'[t] = row[t] /\ stage'[t] = stage[t] /\ charge'[t] = charge[t]
      /\ net'[t] = net[t]
  BY <1>1, <1>2, Typing, WritesRow
<1>4. Works(w, t, Idle) /\ (t \in Subscribed)' = (t \in Subscribed)
  BY <1>2, <1>3 DEF Works, Subscribed, With
<1>5. CASE t \in Realtime
  BY <1>1, <1>2, <1>3, <1>4, <1>5, RealtimeMoves
<1>6. CASE t \notin Realtime
  <2>1. /\ stage[t].pc = "done" /\ row[t].quota = stage[t].quota /\ row[t].status \in Final
        /\ j.copy.ref = stage[t].ref /\ (t \notin excused => Paid(t))
    BY <1>1, <1>6, Winning
  <2>2. ASSUME t \notin excused' PROVE Submitted(t)' /\ PaysRecord(t, Idle)
    <3>1. Paid(t) /\ stage[t].quota >= 0 /\ (KnownRefs' = KnownRefs)
      BY <1>2, <2>1, <2>2, Typing DEF StageRows, KnownRefs
    <3>2. Submitted(t)'
      BY <1>3, <1>4, <3>1, SubmittedStays DEF Paid
    <3>3. OnSubscription(t)
      BY <1>1, <1>6, <3>1 DEF Paid
    <3>4. charge[t].phase # "queued" => Charged(t) /\ ~KnownRefs
      BY <1>1, <2>1, <3>3 DEF OnSubscription, Charged, Adjustable
    <3>5. PaysRecord(t, Idle)
      BY <1>2, <1>3, <2>1, <3>1, <3>3, <3>4 DEF OnSubscription, PaysRecord, Charged
    <3> QED
      BY <3>2, <3>5
  <2> QED
    BY <1>1, <1>2, <1>3, <1>4, <1>6, <2>2, WinnerBills
<1> QED
  BY <1>5, <1>6

\* The funding source follows: the wallet by the difference, the usage record to
\* its final amount.
LEMMA AdjustFundingKeeps ==
    ASSUME TasksInv, NEW w \in Pollers, NEW t \in Tasks, AdjustFunding(w, t)
    PROVE  TaskInv(t)' /\ About(t)
<1> DEFINE j == job[w][t]
           to == [[j EXCEPT !.copy.ref = NewRef(t, PhaseOf(j), j.target, @)] EXCEPT !.pc = IF j.delta = 0 THEN "back" ELSE "key"]
           c == [charge[t] EXCEPT !.phase = PhaseOf(j), !.amount = j.target, !.version = j.copy.ref + 1]
           n == [net[t] EXCEPT !.wallet = @ + j.target - j.copy.quota]
<1>1. j.pc = "refund" /\ j.pc \in Billing /\ w \in Workers /\ UNCHANGED <<row, stage, world>>
  BY DEF AdjustFunding, Billing, Workers
<1>2. CASE /\ Rejected(t, j.copy.ref, PhaseOf(j), j.target) /\ Become(w, t, Idle)
           /\ UNCHANGED <<charge, net, budget, excused>>
  BY <1>1, <1>2, AdjustRejectedKeeps
<1>3. CASE Spend("failures") /\ Excuse({t}) /\ Become(w, t, Idle) /\ UNCHANGED <<charge, net>>
  BY <1>1, <1>3, BillerStops
<1>4. CASE /\ SetFundingFinal(t, j.copy.ref, j.copy.quota, j.target, PhaseOf(j))
           /\ Become(w, t, to) /\ UNCHANGED <<budget, excused>>
  <2>1. /\ j \in JobRows /\ row[t] \in RowRows /\ row[t].status # "none" /\ stage[t] \in StageRows
        /\ charge[t] \in ChargeRows /\ net[t] \in NetRows /\ j.copy \in RowRows
        /\ j.target \in Quotas /\ j.delta \in Int /\ j.copy.status # "none"
    BY <1>1, AtWork
  <2>2. /\ j.copy.quota \in Quotas /\ j.copy.ref \in Nat /\ charge[t].version \in Nat
        /\ net[t].wallet \in Int /\ net[t].key \in Int /\ j.target \in Int /\ j.copy.quota \in Int
        /\ j.target <= MaxQuota /\ j.copy.quota <= MaxQuota /\ MaxQuota \in Nat
        /\ j.target >= 0 /\ j.copy.quota >= 0
    BY <2>1, Typing DEF RowRows, ChargeRows, NetRows
  <2>3. /\ j.copy.status \in Final /\ stage[t].pc = "done"
        /\ j.delta = j.target - j.copy.quota
        /\ j.copy.status = "FAILURE" => j.target = 0
        /\ t \notin Realtime =>
              /\ j.copy.quota = stage[t].quota /\ row[t].quota = stage[t].quota
              /\ row[t].status \in Final
        /\ t \notin excused => Paid(t)
    BY <1>1, Winning
  <2>4. NewRef(t, PhaseOf(j), j.target, j.copy.ref) \in Nat
    BY <2>2 DEF NewRef
  <2>5. PICK k : k = to
    OBVIOUS
  <2>6. /\ k \in JobRows /\ k.pc \in {"key", "back"} /\ (k.pc = "back" <=> j.delta = 0)
        /\ k.copy.status = j.copy.status /\ k.copy.quota = j.copy.quota
        /\ k.target = j.target /\ k.delta = j.delta
    <3>1. PICK x : x = [j.copy EXCEPT !.ref = NewRef(t, PhaseOf(j), j.target, j.copy.ref)]
      OBVIOUS
    <3>2. x \in RowRows /\ x.status = j.copy.status /\ x.quota = j.copy.quota
      BY <2>1, <2>4, <3>1 DEF RowRows
    <3>3. k = [j EXCEPT !.copy = x, !.pc = IF j.delta = 0 THEN "back" ELSE "key"]
      BY <2>1, <2>5, <3>1 DEF JobRows
    <3> HIDE DEF to
    <3> QED
      BY <2>1, <3>2, <3>3 DEF JobRows, Billing
  <2>7. Become(w, t, k)
    BY <1>4, <2>5
  <2> HIDE DEF to
  <2>8. /\ PhaseOf(j) \in {"refunded", "settled"} /\ c \in ChargeRows /\ c.phase = PhaseOf(j) /\ c.amount = j.target
        /\ n \in NetRows /\ n.wallet = net[t].wallet + j.delta /\ n.key = net[t].key
    <3>1. PhaseOf(j) \in {"refunded", "settled"} /\ j.copy.ref + 1 \in Nat
          /\ net[t].wallet + j.target - j.copy.quota \in Int
      BY <2>2 DEF PhaseOf
    <3>2. c \in ChargeRows /\ c.phase = PhaseOf(j) /\ c.amount = j.target
      BY <2>1, <2>2, <3>1 DEF ChargeRows, Sub!Phases
    <3>3. n \in NetRows /\ n.wallet = net[t].wallet + j.delta /\ n.key = net[t].key
      BY <2>1, <2>2, <2>3, <3>1 DEF NetRows
    <3> QED
      BY <3>1, <3>2, <3>3
  <2>9. \/ t \notin Subscribed /\ charge' = charge /\ net' = [net EXCEPT ![t] = n]
        \/ t \in Subscribed /\ net' = net /\ charge' = charge /\ Repeats(t, PhaseOf(j), j.target)
        \/ t \in Subscribed /\ net' = net /\ charge' = [charge EXCEPT ![t] = c] /\ Adjustable(t, j.copy.ref)
    <3>1. charge \in [Tasks -> ChargeRows] /\ net \in [Tasks -> NetRows]
      BY DEF TasksInv, TablesTyped
    <3> QED
      BY <1>4, <3>1 DEF SetFundingFinal, Sub!Change
  <2> HIDE DEF c, n
  <2>10. /\ Wrote(w, t, k) /\ row'[t] = row[t] /\ stage'[t] = stage[t]
         /\ charge' = [charge EXCEPT ![t] = c] => charge'[t] = c
         /\ net' = [net EXCEPT ![t] = n] => net'[t] = n
    BY <1>1, <1>4, <2>6, <2>7, <2>8, <2>9, WritesMoney
  <2>11. Fits(w, t, k)
    BY <2>1, <2>3, <2>6, TaskAssumption DEF Fits, Reading, Billing
  <2>12. Works(w, t, k)
    BY <2>1, <2>10, <2>11 DEF Works
  <2>13. /\ t \notin Subscribed => charge'[t] = charge[t] /\ net'[t] = n
         /\ t \in Subscribed => /\ net'[t] = net[t]
                                /\ \/ charge'[t] = charge[t] /\ Repeats(t, PhaseOf(j), j.target)
                                   \/ charge'[t] = c /\ Adjustable(t, j.copy.ref)
    BY <2>9, <2>10
  <2>14. ASSUME t \notin excused PROVE Submitted(t)'
    BY <2>3, <2>8, <2>10, <2>12, <2>13, <2>14, WorksStands, <1>1 DEF Paid, Submitted, Adjustable
  <2>15. CASE t \notin Realtime
    <3>1. ASSUME t \notin excused', t \notin Subscribed PROVE PaysWallet(t, k)
      <4>1. OnWallet(t) /\ stage[t].quota \in Int
        BY <1>4, <2>1, <2>3, <2>15, <3>1, Typing DEF Paid, StageRows
      <4> QED
        BY <1>1, <2>2, <2>3, <2>6, <2>8, <2>13, <2>15, <3>1, <4>1 DEF OnWallet, PaysWallet
    <3>2. ASSUME t \notin excused', t \in Subscribed PROVE PaysRecord(t, k)
      <4>1. OnSubscription(t) /\ stage[t].quota \in Int
        BY <1>4, <2>1, <2>3, <2>15, <3>2, Typing DEF Paid, StageRows
      <4>2. charge[t].phase # "queued"
        BY <2>8, <2>13, <3>2 DEF Repeats, Adjustable
      <4>3. charge'[t].phase \in {"refunded", "settled"} /\ charge'[t].amount = j.target
        BY <2>8, <2>13, <3>2 DEF Repeats
      <4>4. net[t].key = stage[t].quota
        BY <1>1, <2>3, <4>1, <4>2 DEF OnSubscription, Charged
      <4> QED
        BY <2>2, <2>3, <2>6, <2>13, <2>15, <3>2, <4>1, <4>3, <4>4 DEF PaysRecord
    <3> QED
      BY <1>1, <1>4, <2>6, <2>10, <2>12, <2>14, <2>15, <3>1, <3>2, WinnerBills
  <2>16. CASE t \in Realtime
    <3>1. /\ Placed(t)' /\ Correcting(t)' /\ About(t) /\ job'[w][t] = k /\ world'[t] = world[t]
          /\ \A v \in Workers : v # w => job'[v][t] = job[v][t]
          /\ (t \in Realtime)' = (t \in Realtime) /\ (t \in Subscribed)' = (t \in Subscribed)
      BY <1>1, <2>12, WorksStands
    <3>2. ASSUME t \notin excused', t \notin Subscribed PROVE Reopened(t)'
      <4>1. Reopened(t)
        BY <1>4, <2>3, <2>16, <3>2 DEF Paid
      <4>2. CASE k.pc = "key"
        <5>1. j.delta <= MaxQuota /\ - j.delta <= MaxQuota /\ j.pc # "key"
          BY <1>1, <2>2, <2>3
        <5>2. \A v \in Pollers : v # w => job'[v][t] = job[v][t]
          BY <3>1 DEF Workers
        <5>3. /\ IsFiniteSet(Take(t)') /\ IsFiniteSet(Give(t)')
              /\ Cardinality(Take(t)') - Cardinality(Give(t)') = Cardinality(Take(t)) - Cardinality(Give(t)) + j.delta
              /\ Cardinality(Take(t)) \in Nat /\ Cardinality(Give(t)) \in Nat
          BY <2>1, <2>6, <3>1, <4>1, <4>2, <5>1, <5>2, KeyEntered DEF Reopened
        <5>4. Cardinality(Take(t)') \in Nat /\ Cardinality(Give(t)') \in Nat
          BY <5>3, FS_CardinalityType
        <5> QED
          BY <2>1, <2>2, <2>3, <2>8, <2>10, <2>13, <3>2, <4>1, <5>3, <5>4 DEF Reopened
      <4>3. CASE k.pc = "back"
        <5>1. Take(t)' = Take(t) /\ Give(t)' = Give(t)
          BY <1>1, <3>1, <4>3 DEF Take, Give, Units, Workers
        <5>2. net'[t].wallet = net[t].wallet /\ net'[t].key = net[t].key
          BY <2>2, <2>6, <2>8, <2>13, <3>2, <4>3
        <5> QED
          BY <2>3, <2>10, <4>1, <5>1, <5>2 DEF Reopened
      <4> QED
        BY <2>6, <4>2, <4>3
    <3>3. t \notin excused' => world'[t].key
      BY <1>4, <2>3, <3>1 DEF Paid
    <3> QED
      BY <1>4, <2>14, <2>16, <3>1, <3>2, <3>3 DEF TaskInv, Paid
  <2> QED
    BY <2>15, <2>16
<1> QED
  BY <1>2, <1>3, <1>4 DEF AdjustFunding

\* The key follows its source.
LEMMA AdjustTokenQuotaKeeps ==
    ASSUME TasksInv, NEW w \in Pollers, NEW t \in Tasks, AdjustTokenQuota(w, t)
    PROVE  TaskInv(t)' /\ About(t)
<1> DEFINE j == job[w][t]
           n == [net[t] EXCEPT !.key = @ + j.delta]
<1>1. /\ j.pc = "key" /\ j.pc \in Billing /\ w \in Workers /\ UNCHANGED <<row, stage, charge, world>>
  BY DEF AdjustTokenQuota, Billing, Workers
<1>2. PICK k : Become(w, t, k) /\ k = IF NeedsWriteBack(j, t) THEN [j EXCEPT !.pc = "back"] ELSE Idle
  BY DEF AdjustTokenQuota
<1>3. /\ j \in JobRows /\ row[t] \in RowRows /\ row[t].status # "none" /\ stage[t] \in StageRows
      /\ charge[t] \in ChargeRows /\ net[t] \in NetRows /\ j.copy \in RowRows
      /\ j.target \in Quotas /\ j.delta \in Int /\ j.copy.status # "none"
      /\ Fits(w, t, Idle) /\ Idle.pc = "idle" /\ Idle \in JobRows
  BY <1>1, AtWork, Typing
<1>4. /\ j.copy.quota \in Int /\ net[t].wallet \in Int /\ net[t].key \in Int /\ j.target \in Int
      /\ j.target <= MaxQuota /\ j.copy.quota <= MaxQuota /\ MaxQuota \in Nat
      /\ j.target >= 0 /\ j.copy.quota >= 0 /\ stage[t].quota \in Int
  BY <1>3, Typing DEF RowRows, NetRows, StageRows
<1>5. /\ j.copy.status \in Final /\ stage[t].pc = "done"
      /\ j.delta = j.target - j.copy.quota
      /\ j.copy.status = "FAILURE" => j.target = 0
      /\ t \notin Realtime =>
            /\ j.copy.quota = stage[t].quota /\ row[t].quota = stage[t].quota
            /\ row[t].status \in Final
            /\ world[t].channel => row[t].status = j.copy.status
      /\ t \notin excused => Paid(t)
  BY <1>1, Winning
<1>6. /\ k \in JobRows /\ k.pc \in {"back", "idle"}
      /\ k.pc = "back" => k.copy = j.copy /\ k.target = j.target /\ k.delta = j.delta
      /\ k.pc = "idle" => k = Idle /\ t \notin Subscribed /\ j.copy.status = "FAILURE"
  <2>1. CASE NeedsWriteBack(j, t)
    BY <1>2, <1>3, <2>1 DEF JobRows, Billing
  <2>2. CASE ~NeedsWriteBack(j, t)
    BY <1>2, <1>3, <1>5, <2>2 DEF NeedsWriteBack, Final
  <2> QED
    BY <2>1, <2>2
<1>7. n \in NetRows /\ n.key = net[t].key + j.delta /\ n.wallet = net[t].wallet
  BY <1>3, <1>4 DEF NetRows
<1>8. \/ /\ net' = IF world[t].key THEN [net EXCEPT ![t] = n] ELSE net
         /\ UNCHANGED <<budget, excused>>
      \/ Spend("failures") /\ Excuse({t}) /\ UNCHANGED net
  <2>1. net \in [Tasks -> NetRows]
    BY DEF TasksInv, TablesTyped
  <2> QED
    BY <2>1 DEF AdjustTokenQuota, KeyDelta
<1> HIDE DEF n
<1>9. /\ Wrote(w, t, k) /\ row'[t] = row[t] /\ stage'[t] = stage[t] /\ charge'[t] = charge[t]
      /\ net' = [net EXCEPT ![t] = n] => net'[t] = n
  BY <1>1, <1>2, <1>3, <1>6, <1>7, <1>8, WritesMoney DEF Excuse
<1>10. Fits(w, t, k)
  BY <1>3, <1>5, <1>6, TaskAssumption DEF Fits, Reading, Billing
<1>11. Works(w, t, k)
  BY <1>3, <1>9, <1>10 DEF Works
<1>12. /\ Placed(t)' /\ Correcting(t)' /\ About(t) /\ job'[w][t] = k /\ world'[t] = world[t]
       /\ \A v \in Workers : v # w => job'[v][t] = job[v][t]
       /\ (t \in Realtime)' = (t \in Realtime) /\ (t \in Subscribed)' = (t \in Subscribed)
  BY <1>1, <1>11, WorksStands
<1>13. t \notin excused' => t \notin excused /\ Paid(t) /\ world'[t].key /\ net'[t] = n /\ UNCHANGED budget
  BY <1>5, <1>8, <1>9, <1>12 DEF Excuse, Paid
<1>14. t \notin excused' => Submitted(t)'
  BY <1>5, <1>7, <1>9, <1>12, <1>13, <1>1 DEF Paid, Submitted, OnSubscription
<1>15. CASE t \notin Realtime
  <2>1. ASSUME t \notin excused', t \notin Subscribed PROVE PaysWallet(t, k)
    <3>1. OnWallet(t)
      BY <1>13, <1>15, <2>1 DEF Paid
    <3> QED
      BY <1>1, <1>4, <1>5, <1>6, <1>7, <1>13, <1>15, <2>1, <3>1 DEF OnWallet, PaysWallet
  <2>2. ASSUME t \notin excused', t \in Subscribed PROVE PaysRecord(t, k)
    <3>1. OnSubscription(t)
      BY <1>13, <1>15, <2>2 DEF Paid
    <3>2. charge[t].phase \in {"settled", "refunded"} /\ charge[t].amount = j.target /\ net[t].key = stage[t].quota
      BY <1>1, <1>5, <3>1 DEF OnSubscription
    <3> QED
      BY <1>4, <1>5, <1>6, <1>7, <1>9, <1>13, <1>15, <2>2, <3>2 DEF PaysRecord
  <2> QED
    BY <1>1, <1>6, <1>9, <1>11, <1>14, <1>15, <2>1, <2>2, WinnerBills
<1>16. CASE t \in Realtime
  <2>1. ASSUME t \notin excused', t \notin Subscribed PROVE Reopened(t)'
    <3>1. Reopened(t)
      BY <1>13, <1>16, <2>1 DEF Paid
    <3>2. j.delta <= MaxQuota /\ - j.delta <= MaxQuota /\ k.pc # "key"
      BY <1>4, <1>5, <1>6
    <3>3. \A v \in Pollers : v # w => job'[v][t] = job[v][t]
      BY <1>12 DEF Workers
    <3>4. /\ IsFiniteSet(Take(t)') /\ IsFiniteSet(Give(t)')
          /\ Cardinality(Take(t)) - Cardinality(Give(t)) = Cardinality(Take(t)') - Cardinality(Give(t)') + j.delta
          /\ Cardinality(Take(t)') \in Nat /\ Cardinality(Give(t)') \in Nat
      BY <1>1, <1>3, <1>12, <3>1, <3>2, <3>3, KeyLeft DEF Reopened
    <3>5. Cardinality(Take(t)) \in Nat /\ Cardinality(Give(t)) \in Nat
      BY <3>1, FS_CardinalityType DEF Reopened
    <3> QED
      BY <1>3, <1>4, <1>5, <1>7, <1>13, <2>1, <3>1, <3>4, <3>5 DEF Reopened
  <2> QED
    BY <1>12, <1>13, <1>14, <1>16, <2>1 DEF TaskInv, Paid
<1> QED
  BY <1>15, <1>16

\* The row is told.
LEMMA WriteBackKeeps ==
    ASSUME TasksInv, NEW w \in Pollers, NEW t \in Tasks, WriteBack(w, t)
    PROVE  TaskInv(t)' /\ About(t)
<1> DEFINE j == job[w][t]
           x == [row[t] EXCEPT !.quota = j.target]
           y == [row[t] EXCEPT !.quota = j.target, !.ref = j.copy.ref]
<1>1. /\ j.pc = "back" /\ j.pc \in Billing /\ w \in Workers /\ Become(w, t, Idle)
      /\ UNCHANGED <<stage, charge, net, world>>
  BY DEF WriteBack, Billing, Workers
<1>2. /\ row[t] \in RowRows /\ row[t].status # "none" /\ stage[t] \in StageRows /\ row[t].ref \in Nat
      /\ j.copy \in RowRows /\ j.target \in Quotas
      /\ Fits(w, t, Idle) /\ Idle.pc = "idle" /\ Idle \in JobRows
  BY <1>1, AtWork, Typing
<1>3. /\ stage[t].pc = "done"
      /\ j.copy.status = "FAILURE" => j.target = 0
      /\ t \notin Realtime =>
            /\ j.copy.quota = stage[t].quota /\ row[t].quota = stage[t].quota
            /\ row[t].status \in Final
            /\ world[t].channel => row[t].status = j.copy.status
      /\ t \notin excused => Paid(t)
  BY <1>1, Winning
<1>4. CASE Spend("failures") /\ Excuse({t}) /\ UNCHANGED row
  BY <1>1, <1>4, BillerStops
<1>5. CASE /\ UNCHANGED <<budget, excused>>
           /\ row' = IF t \notin Subscribed THEN [row EXCEPT ![t].quota = j.target]
                     ELSE IF row[t].quota = j.copy.quota
                          THEN [row EXCEPT ![t].quota = j.target, ![t].ref = j.copy.ref]
                          ELSE row
  <2>1. /\ x \in RowRows /\ x.status = row[t].status /\ x.quota = j.target
        /\ y \in RowRows /\ y.status = row[t].status /\ y.quota = j.target
    BY <1>2 DEF RowRows
  <2>2. row' = IF t \notin Subscribed THEN [row EXCEPT ![t] = x]
               ELSE IF row[t].quota = j.copy.quota THEN [row EXCEPT ![t] = y] ELSE row
    <3>1. row \in [Tasks -> RowRows]
      BY DEF TasksInv, TablesTyped
    <3> QED
      BY <1>5, <3>1
  <2> HIDE DEF x, y
  <2>3. PICK z \in {x, y} : /\ row' = row \/ row' = [row EXCEPT ![t] = z]
                            /\ t \notin Subscribed \/ row[t].quota = j.copy.quota => row' = [row EXCEPT ![t] = z]
    BY <2>2
  <2>4. z \in RowRows /\ z.status = row[t].status /\ z.quota = j.target
    BY <2>1
  <2>5. /\ Wrote(w, t, Idle) /\ (row'[t] = row[t] \/ row'[t] = z) /\ stage'[t] = stage[t]
        /\ charge'[t] = charge[t] /\ net'[t] = net[t]
        /\ row' = [row EXCEPT ![t] = z] => row'[t] = z
    <3>1. /\ w \in Workers /\ Become(w, t, Idle) /\ Idle \in JobRows /\ z \in RowRows
          /\ row' = row \/ row' = [row EXCEPT ![t] = z]
          /\ UNCHANGED <<stage, charge, net, world>> /\ excused' = excused /\ UNCHANGED budget
      BY <1>1, <1>2, <1>5, <2>3, <2>4
    <3> HIDE DEF j
    <3> QED
      BY <3>1, WritesRow
  <2>6. Works(w, t, Idle)
    BY <1>2, <2>4, <2>5 DEF Works
  <2>7. CASE t \in Realtime
    BY <1>1, <1>2, <2>5, <2>6, <2>7, RealtimeMoves
  <2>8. CASE t \notin Realtime
    <3>1. row'[t].quota = j.target /\ row'[t].status = row[t].status
      BY <1>3, <2>3, <2>4, <2>5, <2>8
    <3>2. (t \in Subscribed)' = (t \in Subscribed) /\ (KnownRefs' = KnownRefs) /\ j.target >= 0
      BY <1>1, <1>2, <1>5, Typing DEF Subscribed, With, KnownRefs
    <3>3. ASSUME t \notin excused'
          PROVE  /\ Submitted(t)'
                 /\ t \notin Subscribed => PaysWallet(t, Idle)
                 /\ t \in Subscribed => PaysRecord(t, Idle)
      <4>1. Paid(t)
        BY <1>3, <1>5, <3>3
      <4>2. Submitted(t)'
        BY <2>5, <3>2, <4>1, SubmittedStays DEF Paid
      <4>3. t \notin Subscribed => PaysWallet(t, Idle)
        <5> SUFFICES ASSUME t \notin Subscribed PROVE PaysWallet(t, Idle)
          OBVIOUS
        <5>1. net[t].wallet = j.target /\ net[t].key = j.target
          BY <1>1, <1>3, <2>8, <4>1 DEF Paid, OnWallet
        <5> QED
          BY <1>2, <1>3, <2>5, <2>8, <3>1, <3>2, <5>1 DEF PaysWallet
      <4>4. t \in Subscribed => PaysRecord(t, Idle)
        <5> SUFFICES ASSUME t \in Subscribed PROVE PaysRecord(t, Idle)
          OBVIOUS
        <5>1. charge[t].phase \in {"settled", "refunded"} /\ charge[t].amount = j.target /\ net[t].key = j.target
          BY <1>1, <1>3, <2>8, <4>1 DEF Paid, OnSubscription
        <5> QED
          BY <1>2, <1>3, <2>5, <2>8, <3>1, <3>2, <5>1 DEF PaysRecord
      <4> QED
        BY <4>2, <4>3, <4>4
    <3> QED
      BY <1>1, <1>2, <2>6, <2>8, <3>1, <3>3, WinnerBills
  <2> QED
    BY <2>7, <2>8
<1> QED
  BY <1>4, <1>5 DEF WriteBack

-----------------------------------------------------------------------------
(* Submission, the reconciler and the world.                                *)

\* What a step of the submission writes: nothing of any job.
Submits(t) ==
    /\ UNCHANGED <<job, world>> /\ TablesTyped'
    /\ \A u \in Tasks \ {t} :
          row'[u] = row[u] /\ stage'[u] = stage[u] /\ charge'[u] = charge[u] /\ net'[u] = net[u]
    /\ excused' = excused \/ excused' = excused \cup {t}
    /\ \/ UNCHANGED budget
       \/ \E b \in {"failures", "unsettled", "crashes", "lookups"} : Spend(b)

\* Such a step is about t, and nobody works on t while it is submitted.
LEMMA SubmitsAbout ==
    ASSUME TasksInv, NEW t \in Tasks, Submits(t)
    PROVE  /\ About(t) /\ TaskInv(t)
           /\ (t \in Realtime)' = (t \in Realtime) /\ (t \in Subscribed)' = (t \in Subscribed)
           /\ world'[t] = world[t] /\ \A w \in Workers : job'[w][t] = job[w][t]
           /\ Take(t)' = Take(t) /\ Give(t)' = Give(t) /\ Unbilling(t)' = Unbilling(t)
           /\ stage[t].pc # "done" =>
                 /\ row[t].status = "none" /\ Take(t) = {} /\ Give(t) = {}
                 /\ \A w \in Workers : job[w][t].pc = "idle"
           /\ user \in Workers /\ Pollers \subseteq Workers
           /\ stage[t] \in StageRows /\ charge[t] \in ChargeRows /\ net[t] \in NetRows
           /\ stage'[t] \in StageRows /\ charge'[t] \in ChargeRows /\ net'[t] \in NetRows
           /\ row'[t] \in RowRows
<1>1. /\ RunTyped /\ TablesTyped /\ TaskInv(t) /\ user \in Workers /\ Pollers \subseteq Workers
      /\ \A u \in Tasks : u \notin excused => world[u].key
  BY DEF TasksInv, TaskInv, Paid, Workers
<1>2. budget' \in BudgetRows /\ (KnownRefs' => KnownRefs)
  BY <1>1, Spending DEF Submits
<1>3. RunTyped' /\ TablesTyped'
  BY <1>1, <1>2 DEF RunTyped, Submits
<1>4. \A u \in Tasks \ {t} : Same(u)
  BY <1>1 DEF Same, Submits
<1>5. /\ (t \in Realtime)' = (t \in Realtime) /\ (t \in Subscribed)' = (t \in Subscribed)
      /\ world'[t] = world[t] /\ \A w \in Workers : job'[w][t] = job[w][t]
  BY DEF Submits, Realtime, Subscribed, With
<1>6. Take(t)' = Take(t) /\ Give(t)' = Give(t) /\ Unbilling(t)' = Unbilling(t)
  BY DEF Submits, Take, Give, Unbilling
<1>7. stage[t].pc # "done" => row[t].status = "none" /\ \A w \in Workers : job[w][t].pc = "idle"
  BY <1>1 DEF TaskInv, Placed
<1>8. stage[t].pc # "done" => Take(t) = {} /\ Give(t) = {}
  BY <1>1, <1>7 DEF Take, Give, Units
<1> QED
  BY <1>1, <1>2, <1>3, <1>4, <1>5, <1>6, <1>7, <1>8 DEF About, TablesTyped

\* Before there is a row, only the money is in question.
LEMMA SubmitsKeeps ==
    ASSUME TasksInv, NEW t \in Tasks, Submits(t),
           stage[t].pc # "done", stage'[t].pc # "done", row'[t] = row[t],
           t \notin excused' =>
               /\ Submitted(t)'
               /\ stage'[t].pc = "settled" /\ t \notin Subscribed =>
                     net'[t].wallet = stage'[t].quota /\ net'[t].key = stage'[t].quota
               /\ stage'[t].pc = "settled" /\ t \in Subscribed =>
                     \/ charge'[t].phase = "queued" /\ ~KnownRefs' /\ net'[t].key = stage'[t].pre
                     \/ charge'[t].phase # "queued" /\ Charged(t)'
    PROVE  TaskInv(t)' /\ About(t)
<1>1. /\ About(t) /\ TaskInv(t)
      /\ (t \in Realtime)' = (t \in Realtime) /\ (t \in Subscribed)' = (t \in Subscribed)
      /\ world'[t] = world[t] /\ \A w \in Workers : job'[w][t] = job[w][t]
      /\ Take(t)' = {} /\ Give(t)' = {} /\ row[t].status = "none"
      /\ \A w \in Workers : job[w][t].pc = "idle"
      /\ user \in Workers /\ Pollers \subseteq Workers /\ net'[t] \in NetRows
  BY SubmitsAbout
<1>2. Placed(t)'
  BY <1>1 DEF TaskInv, Placed, Reading
<1>3. Correcting(t)'
  BY <1>1 DEF TaskInv, Correcting
<1>4. OneWinner(t)'
  BY <1>1 DEF OneWinner, Reading, Billing, Unbilled
<1>5. ASSUME t \notin excused' PROVE Paid(t)'
  <2>1. world'[t].key
    BY <1>1, <1>5 DEF TaskInv, Paid, Submits
  <2>2. t \notin Subscribed => OnWallet(t)' /\ Reopened(t)'
    <3>1. t \notin Subscribed => OnWallet(t)'
      BY <1>1, <1>5 DEF OnWallet
    <3>2. t \notin Subscribed => Reopened(t)'
      <4>1. IsFiniteSet({}) /\ Cardinality({}) = 0
        BY FS_EmptySet
      <4> QED
        BY <1>1, <1>5, <4>1 DEF Reopened, NetRows
    <3> QED
      BY <3>1, <3>2
  <2>3. t \in Subscribed => OnSubscription(t)'
    BY <1>1, <1>5 DEF OnSubscription, Charged, Final
  <2> QED
    BY <1>1, <1>5, <2>1, <2>2, <2>3 DEF Paid
<1> QED
  BY <1>1, <1>2, <1>3, <1>4, <1>5 DEF TaskInv

\* The tables after the rows of t were written.
Tables(t, x, g, c, n) ==
    /\ row' = [row EXCEPT ![t] = x] /\ stage' = [stage EXCEPT ![t] = g]
    /\ charge' = [charge EXCEPT ![t] = c] /\ net' = [net EXCEPT ![t] = n]
    /\ x \in RowRows /\ g \in StageRows /\ c \in ChargeRows /\ n \in NetRows
    /\ UNCHANGED <<job, world>> /\ (excused' = excused \/ excused' = excused \cup {t})
    /\ UNCHANGED budget \/ \E b \in {"failures", "unsettled", "crashes", "lookups"} : Spend(b)

\* Such a step is one of the submission.
LEMMA WritesTables ==
    ASSUME TasksInv, NEW t \in Tasks, NEW x, NEW g, NEW c, NEW n, Tables(t, x, g, c, n)
    PROVE  Submits(t) /\ row'[t] = x /\ stage'[t] = g /\ charge'[t] = c /\ net'[t] = n
<1>1. /\ row' \in [Tasks -> RowRows] /\ \A u \in Tasks \ {t} : row'[u] = row[u]
      /\ row'[t] = x
  BY DEF TasksInv, TablesTyped, Tables
<1>2. /\ stage' \in [Tasks -> StageRows] /\ \A u \in Tasks \ {t} : stage'[u] = stage[u]
      /\ stage'[t] = g
  BY DEF TasksInv, TablesTyped, Tables
<1>3. /\ charge' \in [Tasks -> ChargeRows] /\ \A u \in Tasks \ {t} : charge'[u] = charge[u]
      /\ charge'[t] = c
  BY DEF TasksInv, TablesTyped, Tables
<1>4. /\ net' \in [Tasks -> NetRows] /\ \A u \in Tasks \ {t} : net'[u] = net[u]
      /\ net'[t] = n
  BY DEF TasksInv, TablesTyped, Tables
<1> QED
  BY <1>1, <1>2, <1>3, <1>4 DEF Submits, TablesTyped, Tables

\* Rows that stay are written as they are.
LEMMA WritesSame ==
    ASSUME TasksInv, NEW t \in Tasks
    PROVE  /\ row = [row EXCEPT ![t] = row[t]] /\ stage = [stage EXCEPT ![t] = stage[t]]
           /\ charge = [charge EXCEPT ![t] = charge[t]] /\ net = [net EXCEPT ![t] = net[t]]
           /\ row[t] \in RowRows /\ stage[t] \in StageRows
           /\ charge[t] \in ChargeRows /\ net[t] \in NetRows
BY DEF TasksInv, TablesTyped

\* Source and key are charged the same.
LEMMA PreConsumeKeeps ==
    ASSUME TasksInv, NEW t \in Tasks, NEW p \in Quotas, PreConsume(t, p)
    PROVE  TaskInv(t)' /\ About(t)
<1> DEFINE g == [stage[t] EXCEPT !.pc = "reserved", !.pre = p]
           c == [charge[t] EXCEPT !.phase = "reserved", !.amount = p, !.version = 1]
           n == [net[t] EXCEPT !.key = p]
           both == [wallet |-> p, key |-> p]
<1>1. /\ row[t] \in RowRows /\ stage[t] \in StageRows /\ charge[t] \in ChargeRows /\ net[t] \in NetRows
      /\ p \in Int /\ TaskInv(t)
  BY Typing DEF TasksInv, TablesTyped
<1>2. /\ stage[t].pc = "new" /\ UNCHANGED <<row, job, world, budget, excused>>
      /\ stage' = [stage EXCEPT ![t] = g]
      /\ \/ t \in Subscribed /\ charge' = [charge EXCEPT ![t] = c] /\ net' = [net EXCEPT ![t] = n]
         \/ t \notin Subscribed /\ charge' = charge /\ net' = [net EXCEPT ![t] = both]
  BY DEF PreConsume, Sub!Reserve, TasksInv, TablesTyped
<1>3. g \in StageRows /\ g.pc = "reserved" /\ g.pre = p
  BY <1>1 DEF StageRows
<1>4. c \in ChargeRows /\ c.phase = "reserved" /\ c.amount = p
  BY <1>1 DEF ChargeRows, Sub!Phases
<1>5. n \in NetRows /\ n.key = p /\ n.wallet = net[t].wallet
  BY <1>1 DEF NetRows
<1>6. both \in NetRows /\ both.key = p /\ both.wallet = p
  BY <1>1 DEF NetRows
<1> HIDE DEF g, c, n, both
<1>7. PICK m \in {n, both} : /\ net' = [net EXCEPT ![t] = m]
                             /\ (t \in Subscribed => m = n) /\ (t \notin Subscribed => m = both)
  BY <1>2
<1>8. m \in NetRows
  BY <1>5, <1>6
<1>9. /\ Submits(t) /\ stage'[t] = g /\ net'[t] = m
      /\ t \in Subscribed => charge'[t] = c
      /\ t \notin Subscribed => charge'[t] = charge[t]
  <2>1. PICK d : d = IF t \in Subscribed THEN c ELSE charge[t]
    OBVIOUS
  <2>2. Tables(t, row[t], g, d, m)
    BY <1>1, <1>2, <1>3, <1>4, <1>7, <1>8, <2>1, WritesSame DEF Tables
  <2> QED
    BY <2>1, <2>2, WritesTables
<1>10. (t \in Subscribed)' = (t \in Subscribed)
  BY <1>9, SubmitsAbout
<1>11. t \notin excused' => Submitted(t)'
  BY <1>1, <1>2, <1>3, <1>4, <1>5, <1>6, <1>7, <1>9, <1>10 DEF TaskInv, Paid, Submitted
<1> QED
  BY <1>2, <1>3, <1>9, <1>11, SubmitsKeeps

\* Wallet and key are settled together.
LEMMA SettleWalletKeeps ==
    ASSUME TasksInv, NEW t \in Tasks, NEW q \in Quotas, SettleWallet(t, q)
    PROVE  TaskInv(t)' /\ About(t)
<1> DEFINE g == [stage[t] EXCEPT !.pc = "settled", !.quota = q]
           both == [wallet |-> q, key |-> q]
<1>1. /\ row[t] \in RowRows /\ stage[t] \in StageRows /\ charge[t] \in ChargeRows /\ net[t] \in NetRows
      /\ q \in Int /\ TaskInv(t)
  BY Typing DEF TasksInv, TablesTyped
<1>2. /\ stage[t].pc = "reserved" /\ t \notin Subscribed /\ UNCHANGED <<row, charge, job, world>>
      /\ stage' = [stage EXCEPT ![t] = g]
      /\ \/ net' = [net EXCEPT ![t] = both] /\ UNCHANGED <<budget, excused>>
         \/ Spend("failures") /\ excused' = excused \cup {t} /\ net' = net
  BY DEF SettleWallet, Excuse, TasksInv, TablesTyped
<1>3. g \in StageRows /\ g.pc = "settled" /\ g.quota = q
  BY <1>1 DEF StageRows
<1>4. both \in NetRows /\ both.key = q /\ both.wallet = q
  BY <1>1 DEF NetRows
<1> HIDE DEF g, both
<1>5. /\ Submits(t) /\ stage'[t] = g /\ (net' = [net EXCEPT ![t] = both] => net'[t] = both)
      /\ charge'[t] = charge[t]
  <2>1. PICK m : m = IF net' = [net EXCEPT ![t] = both] THEN both ELSE net[t]
    OBVIOUS
  <2>2. Tables(t, row[t], g, charge[t], m)
    BY <1>1, <1>2, <1>3, <1>4, <2>1, WritesSame DEF Tables
  <2> QED
    BY <2>1, <2>2, WritesTables
<1>6. (t \in Subscribed)' = (t \in Subscribed)
  BY <1>5, SubmitsAbout
<1>7. ASSUME t \notin excused' PROVE net'[t] = both /\ Submitted(t)'
  <2>1. net'[t] = both /\ Paid(t)
    BY <1>1, <1>2, <1>5, <1>7 DEF TaskInv
  <2> QED
    BY <1>2, <1>3, <1>4, <1>5, <1>6, <2>1 DEF Paid, Submitted
<1> QED
  BY <1>2, <1>3, <1>4, <1>5, <1>7, SubmitsKeeps

\* A settlement is queued with what the key was charged.
LEMMA SettleQueueKeeps ==
    ASSUME TasksInv, NEW t \in Tasks, NEW q \in Quotas, SettleQueue(t, q)
    PROVE  TaskInv(t)' /\ About(t)
<1> DEFINE g == [stage[t] EXCEPT !.pc = "queued", !.quota = q]
           c == [charge[t] EXCEPT !.phase = "queued", !.target = q, !.tokenPre = stage[t].pre]
<1>1. /\ row[t] \in RowRows /\ stage[t] \in StageRows /\ charge[t] \in ChargeRows /\ net[t] \in NetRows
      /\ q \in Int /\ stage[t].pre \in Int /\ TaskInv(t)
  BY Typing DEF TasksInv, TablesTyped, StageRows
<1>2. /\ stage[t].pc = "reserved" /\ t \in Subscribed /\ UNCHANGED <<row, net, job, world, budget, excused>>
      /\ stage' = [stage EXCEPT ![t] = g] /\ charge' = [charge EXCEPT ![t] = c]
  BY DEF SettleQueue, Sub!Queue, TasksInv, TablesTyped
<1>3. g \in StageRows /\ g.pc = "queued" /\ g.quota = q /\ g.pre = stage[t].pre
  BY <1>1 DEF StageRows
<1>4. c \in ChargeRows /\ c.phase = "queued" /\ c.target = q /\ c.tokenPre = stage[t].pre
  BY <1>1 DEF ChargeRows, Sub!Phases
<1> HIDE DEF g, c
<1>5. Submits(t) /\ stage'[t] = g /\ charge'[t] = c /\ net'[t] = net[t]
  <2>1. Tables(t, row[t], g, c, net[t])
    BY <1>1, <1>2, <1>3, <1>4, WritesSame DEF Tables
  <2> QED
    BY <2>1, WritesTables
<1>6. (t \in Subscribed)' = (t \in Subscribed)
  BY <1>5, SubmitsAbout
<1>7. t \notin excused' => Submitted(t)'
  BY <1>1, <1>2, <1>3, <1>4, <1>5, <1>6 DEF TaskInv, Paid, Submitted
<1> QED
  BY <1>2, <1>3, <1>5, <1>7, SubmitsKeeps

\* A task whose settlement could not be queued is excused.
LEMMA SettleUnqueuedKeeps ==
    ASSUME TasksInv, NEW t \in Tasks, NEW q \in Quotas, SettleUnqueued(t, q)
    PROVE  TaskInv(t)' /\ About(t)
<1> DEFINE g == [stage[t] EXCEPT !.pc = "settled", !.quota = q, !.ref = charge[t].version]
<1>1. /\ row[t] \in RowRows /\ stage[t] \in StageRows /\ charge[t] \in ChargeRows /\ net[t] \in NetRows
      /\ charge[t].version \in Nat /\ TaskInv(t)
  BY DEF TasksInv, TablesTyped, ChargeRows
<1>2. /\ stage[t].pc = "reserved" /\ UNCHANGED <<row, charge, net, job, world>>
      /\ stage' = [stage EXCEPT ![t] = g]
      /\ Spend("failures") /\ excused' = excused \cup {t}
  BY DEF SettleUnqueued, Excuse, TasksInv, TablesTyped
<1>3. g \in StageRows /\ g.pc = "settled"
  BY <1>1 DEF StageRows
<1> HIDE DEF g
<1>4. Submits(t) /\ stage'[t] = g
  <2>1. Tables(t, row[t], g, charge[t], net[t])
    BY <1>1, <1>2, <1>3, WritesSame DEF Tables
  <2> QED
    BY <2>1, WritesTables
<1> QED
  BY <1>2, <1>3, <1>4, SubmitsKeeps

\* What completing a settlement does to the record and to the key.
LEMMA CompleteDoes ==
    ASSUME TasksInv, NEW t \in Tasks, Complete(t)
    PROVE  \E c \in ChargeRows, n \in NetRows :
              /\ charge' = [charge EXCEPT ![t] = c] /\ net' = [net EXCEPT ![t] = n]
              /\ c.phase = "settled" /\ c.amount = charge[t].target /\ c.version = charge[t].version + 1
              /\ n.wallet = net[t].wallet
              /\ world[t].key => n.key = net[t].key + charge[t].target - charge[t].tokenPre
<1> DEFINE k == IF world[t].key THEN charge[t].target - charge[t].tokenPre ELSE 0
           c == [charge[t] EXCEPT !.phase = "settled", !.amount = charge[t].target,
                                  !.version = @ + 1, !.tokenNet = k]
           key == IF world[t].key THEN net[t].key + charge[t].target - charge[t].tokenPre ELSE net[t].key
           n == [net[t] EXCEPT !.key = key]
<1>1. /\ charge \in [Tasks -> ChargeRows] /\ charge[t] \in ChargeRows
      /\ net \in [Tasks -> NetRows] /\ net[t] \in NetRows
  BY DEF TasksInv, TablesTyped
<1>2. charge[t].target \in Int /\ charge[t].tokenPre \in Int /\ net[t].key \in Int /\ charge[t].version \in Nat
  BY <1>1 DEF ChargeRows, NetRows
<1>3. charge' = [charge EXCEPT ![t] = c]
  BY <1>1 DEF Complete, Sub!Apply
<1>4. net' = [net EXCEPT ![t] = n]
  BY <1>1 DEF Complete
<1>5. k \in Int /\ key \in Int /\ charge[t].version + 1 \in Nat
  BY <1>2
<1>6. /\ c \in ChargeRows /\ c.phase = "settled" /\ c.amount = charge[t].target
      /\ c.version = charge[t].version + 1
  <2> HIDE DEF k
  <2> QED
    BY <1>1, <1>2, <1>5 DEF ChargeRows, Sub!Phases
<1>7. n \in NetRows /\ n.wallet = net[t].wallet /\ n.key = key
  <2> HIDE DEF key
  <2> QED
    BY <1>1, <1>2, <1>5 DEF NetRows
<1>8. world[t].key => n.key = net[t].key + charge[t].target - charge[t].tokenPre
  BY <1>7
<1> HIDE DEF c, n
<1> QED
  BY <1>3, <1>4, <1>6, <1>7, <1>8

\* A settlement is completed, or left with the reference of before.
LEMMA SettleCompleteKeeps ==
    ASSUME TasksInv, NEW t \in Tasks, SettleComplete(t)
    PROVE  TaskInv(t)' /\ About(t)
<1> DEFINE late == [stage[t] EXCEPT !.pc = "settled", !.ref = charge[t].version]
           g == [stage[t] EXCEPT !.pc = "settled", !.ref = charge[t].version + 1]
<1>1. /\ row[t] \in RowRows /\ stage[t] \in StageRows /\ charge[t] \in ChargeRows /\ net[t] \in NetRows
      /\ TaskInv(t) /\ stage \in [Tasks -> StageRows] /\ RunTyped
  BY DEF TasksInv, TablesTyped
<1>2. charge[t].version \in Nat /\ net[t].key \in Int /\ stage[t].pre \in Int /\ stage[t].quota \in Int
  BY <1>1, Typing DEF ChargeRows, NetRows, StageRows
<1>3. stage[t].pc = "queued" /\ UNCHANGED <<row, job, world, excused>>
  BY DEF SettleComplete
<1>4. t \notin excused =>
         /\ world[t].key /\ t \in Subscribed /\ net[t].key = stage[t].pre /\ net[t].wallet = 0
         /\ charge[t].phase = "queued" /\ charge[t].target = stage[t].quota
         /\ charge[t].tokenPre = stage[t].pre
  BY <1>1, <1>3 DEF TaskInv, Paid, Submitted
<1>5. /\ late \in StageRows /\ late.pc = "settled" /\ late.ref = charge[t].version
      /\ late.pre = stage[t].pre /\ late.quota = stage[t].quota
      /\ g \in StageRows /\ g.pc = "settled" /\ g.ref = charge[t].version + 1
      /\ g.pre = stage[t].pre /\ g.quota = stage[t].quota
  <2>1. ASSUME NEW v \in Nat, NEW s, s = [stage[t] EXCEPT !.pc = "settled", !.ref = v]
        PROVE  s \in StageRows /\ s.pc = "settled" /\ s.ref = v /\ s.pre = stage[t].pre /\ s.quota = stage[t].quota
    BY <1>1, <2>1 DEF StageRows
  <2>2. charge[t].version + 1 \in Nat
    BY <1>2
  <2> QED
    BY <1>2, <2>1, <2>2
<1>6. \/ Complete(t) /\ stage' = [stage EXCEPT ![t] = g] /\ UNCHANGED budget
      \/ Spend("unsettled") /\ stage' = [stage EXCEPT ![t] = late] /\ UNCHANGED <<charge, net>>
  <2>1. \A v : [stage EXCEPT ![t].pc = "settled", ![t].ref = v]
               = [stage EXCEPT ![t] = [stage[t] EXCEPT !.pc = "settled", !.ref = v]]
    BY <1>1
  <2>2. \/ /\ Complete(t) /\ UNCHANGED budget
           /\ stage' = [stage EXCEPT ![t].pc = "settled", ![t].ref = charge[t].version + 1]
        \/ /\ Spend("unsettled") /\ UNCHANGED <<charge, net>>
           /\ stage' = [stage EXCEPT ![t].pc = "settled", ![t].ref = charge[t].version]
    BY Zenon DEF SettleComplete
  <2> QED
    BY <2>1, <2>2, Zenon
<1> HIDE DEF late, g
<1>7. CASE Complete(t) /\ stage' = [stage EXCEPT ![t] = g] /\ UNCHANGED budget
  <2>1. PICK c \in ChargeRows, n \in NetRows :
              /\ charge' = [charge EXCEPT ![t] = c] /\ net' = [net EXCEPT ![t] = n]
              /\ c.phase = "settled" /\ c.amount = charge[t].target /\ c.version = charge[t].version + 1
              /\ n.wallet = net[t].wallet
              /\ world[t].key => n.key = net[t].key + charge[t].target - charge[t].tokenPre
    BY <1>7, CompleteDoes
  <2>2. Tables(t, row[t], g, c, n)
    BY <1>3, <1>5, <1>7, <2>1, WritesSame DEF Tables
  <2>3. Submits(t) /\ stage'[t] = g /\ charge'[t] = c /\ net'[t] = n /\ row'[t] = row[t]
    BY <2>2, WritesTables
  <2>4. (t \in Subscribed)' = (t \in Subscribed)
    BY <2>3, SubmitsAbout
  <2>5. t \notin excused => n.key = stage[t].quota
    BY <1>2, <1>4, <2>1
  <2>6. t \notin excused' => Submitted(t)' /\ Charged(t)' /\ charge'[t].phase # "queued" /\ t \in Subscribed
    BY <1>3, <1>4, <1>5, <2>1, <2>3, <2>4, <2>5 DEF Submitted, Charged
  <2> QED
    BY <1>3, <1>5, <2>3, <2>6, SubmitsKeeps
<1>8. CASE Spend("unsettled") /\ stage' = [stage EXCEPT ![t] = late] /\ UNCHANGED <<charge, net>>
  <2>1. Tables(t, row[t], late, charge[t], net[t])
    BY <1>3, <1>5, <1>8, WritesSame DEF Tables
  <2>2. Submits(t) /\ stage'[t] = late /\ charge'[t] = charge[t] /\ net'[t] = net[t] /\ row'[t] = row[t]
    BY <2>1, WritesTables
  <2>3. (t \in Subscribed)' = (t \in Subscribed)
    BY <2>2, SubmitsAbout
  <2>4. ~KnownRefs'
    BY <1>1, <1>8, TaskAssumption DEF Spend, RunTyped, BudgetRows, KnownRefs
  <2>5. t \notin excused' => /\ Submitted(t)' /\ t \in Subscribed /\ charge'[t].phase = "queued"
                             /\ net'[t].key = stage'[t].pre
    BY <1>3, <1>4, <1>5, <2>2, <2>3 DEF Submitted
  <2> QED
    BY <1>3, <1>5, <2>2, <2>4, <2>5, SubmitsKeeps
<1> QED
  BY <1>6, <1>7, <1>8

\* The row is written with the quota and the reference of the submission.
LEMMA InsertKeeps ==
    ASSUME TasksInv, NEW t \in Tasks, Insert(t)
    PROVE  TaskInv(t)' /\ About(t)
<1> DEFINE g == [stage[t] EXCEPT !.pc = "done"]
           x == [status |-> "NOT_START", complete |-> FALSE, quota |-> stage[t].quota, ref |-> stage[t].ref]
<1>1. /\ row[t] \in RowRows /\ stage[t] \in StageRows /\ charge[t] \in ChargeRows /\ net[t] \in NetRows
      /\ TaskInv(t) /\ stage \in [Tasks -> StageRows]
  BY DEF TasksInv, TablesTyped
<1>2. /\ stage[t].pc = "settled" /\ UNCHANGED <<charge, net, job, world>>
      /\ stage' = [stage EXCEPT ![t] = g]
      /\ \/ row' = [row EXCEPT ![t] = x] /\ UNCHANGED <<budget, excused>>
         \/ Spend("failures") /\ excused' = excused \cup {t} /\ row' = row
  BY <1>1 DEF Insert, Excuse
<1>3. /\ g \in StageRows /\ g.pc = "done" /\ g.pre = stage[t].pre /\ g.quota = stage[t].quota
      /\ g.ref = stage[t].ref
  BY <1>1 DEF StageRows
<1>4. x \in RowRows /\ x.status = "NOT_START" /\ x.quota = stage[t].quota /\ x.ref = stage[t].ref
  BY <1>1 DEF StageRows, RowRows, Statuses
<1> HIDE DEF g, x
<1>5. PICK y \in {x, row[t]} : /\ row' = [row EXCEPT ![t] = y] /\ (y = x \/ excused' = excused \cup {t})
                               /\ y = x \/ y = row[t]
  BY <1>2, WritesSame
<1>6. Tables(t, y, g, charge[t], net[t])
  BY <1>1, <1>2, <1>3, <1>4, <1>5, WritesSame DEF Tables
<1>7. Submits(t) /\ stage'[t] = g /\ charge'[t] = charge[t] /\ net'[t] = net[t] /\ row'[t] = y
  BY <1>6, WritesTables
<1>8. /\ About(t) /\ (KnownRefs' => KnownRefs)
      /\ (t \in Realtime)' = (t \in Realtime) /\ (t \in Subscribed)' = (t \in Subscribed)
      /\ world'[t] = world[t] /\ \A w \in Workers : job'[w][t] = job[w][t]
      /\ Take(t)' = Take(t) /\ Give(t)' = Give(t)
      /\ row[t].status = "none" /\ \A w \in Workers : job[w][t].pc = "idle"
      /\ user \in Workers /\ Pollers \subseteq Workers
  BY <1>2, <1>7, SubmitsAbout DEF About
<1>9. Placed(t)'
  BY <1>1, <1>3, <1>4, <1>5, <1>7, <1>8 DEF TaskInv, Placed, Reading
<1>10. Correcting(t)'
  BY <1>1, <1>8 DEF TaskInv, Correcting
<1>11. OneWinner(t)'
  BY <1>3, <1>4, <1>5, <1>7, <1>8 DEF OneWinner, Reading, Billing, Unbilled
<1>12. ASSUME t \notin excused' PROVE Paid(t)'
  <2>1. Paid(t) /\ world'[t].key /\ y = x
    BY <1>1, <1>5, <1>7, <1>8, <1>12 DEF TaskInv, Paid, Submits
  <2>2. Submitted(t)'
    BY <1>2, <1>3, <1>7, <1>8, <2>1 DEF Paid, Submitted
  <2>3. (t \notin Realtime /\ t \notin Subscribed)' => OnWallet(t)'
    BY <1>2, <1>3, <1>4, <1>7, <1>8, <2>1 DEF Paid, OnWallet, Final
  <2>4. (t \notin Realtime /\ t \in Subscribed)' => OnSubscription(t)'
    <3> SUFFICES ASSUME t \notin Realtime, t \in Subscribed PROVE OnSubscription(t)'
      BY <1>8
    <3>1. OnSubscription(t)
      BY <2>1 DEF Paid
    <3>2. Unbilling(t)
      BY <1>8 DEF Unbilling, Billing
    <3> QED
      BY <1>2, <1>3, <1>4, <1>7, <1>8, <2>1, <3>1, <3>2 DEF OnSubscription, Charged, Final
  <2>5. (t \in Realtime /\ t \notin Subscribed)' => Reopened(t)'
    BY <1>2, <1>3, <1>7, <1>8, <2>1 DEF Paid, Reopened
  <2> QED
    BY <2>1, <2>2, <2>3, <2>4, <2>5 DEF Paid
<1> QED
  BY <1>8, <1>9, <1>10, <1>11, <1>12 DEF TaskInv

\* A late completion brings record and key to the quota of the row.
LEMMA ReconcileKeeps ==
    ASSUME TasksInv, NEW t \in Tasks, Reconcile(t)
    PROVE  TaskInv(t)' /\ About(t)
<1>1. /\ stage[t].pc = "done" /\ charge[t].phase = "queued" /\ Complete(t) /\ TaskInv(t)
      /\ UNCHANGED <<row, stage, job, world, budget, excused>>
  BY DEF Reconcile, TasksInv
<1>2. PICK c \in ChargeRows, n \in NetRows :
            /\ charge' = [charge EXCEPT ![t] = c] /\ net' = [net EXCEPT ![t] = n]
            /\ c.phase = "settled" /\ c.amount = charge[t].target /\ c.version = charge[t].version + 1
            /\ n.wallet = net[t].wallet
            /\ world[t].key => n.key = net[t].key + charge[t].target - charge[t].tokenPre
  BY <1>1, CompleteDoes
<1>3. Tables(t, row[t], stage[t], c, n)
  BY <1>1, <1>2, WritesSame DEF Tables
<1>4. Submits(t) /\ stage'[t] = stage[t] /\ charge'[t] = c /\ net'[t] = n /\ row'[t] = row[t]
  BY <1>3, WritesTables
<1>5. /\ About(t) /\ (KnownRefs' => KnownRefs)
      /\ (t \in Realtime)' = (t \in Realtime) /\ (t \in Subscribed)' = (t \in Subscribed)
      /\ world'[t] = world[t] /\ \A w \in Workers : job'[w][t] = job[w][t]
      /\ user \in Workers /\ Pollers \subseteq Workers /\ Unbilling(t)' = Unbilling(t)
      /\ stage[t] \in StageRows /\ net[t] \in NetRows
  BY <1>4, SubmitsAbout DEF About
<1>6. Placed(t)' /\ Correcting(t)'
  BY <1>1, <1>4, <1>5 DEF TaskInv, Placed, Correcting
<1>7. (t \notin Realtime)' => OneWinner(t)'
  BY <1>1, <1>4, <1>5 DEF TaskInv, OneWinner
<1>8. ASSUME t \notin excused' PROVE Paid(t)'
  <2>1. Paid(t) /\ world'[t].key /\ world[t].key
    BY <1>1, <1>5, <1>8 DEF TaskInv, Paid
  <2>2. /\ t \in Subscribed /\ net[t].wallet = 0
        /\ charge[t].target = stage[t].quota /\ charge[t].tokenPre = stage[t].pre
    BY <1>1, <2>1 DEF Paid, Submitted
  <2>3. Submitted(t)'
    BY <1>1, <1>2, <1>4, <1>5, <2>2 DEF Submitted
  <2>4. ASSUME t \notin Realtime PROVE OnSubscription(t)'
    <3>1. /\ net[t].key = stage[t].pre /\ ~KnownRefs
          /\ row[t].status # "none" => row[t].quota = stage[t].quota
          /\ \A w \in Pollers : job[w][t].pc \notin {"key", "back"}
      BY <1>1, <2>1, <2>2, <2>4 DEF Paid, OnSubscription
    <3>2. stage[t].pre \in Int /\ stage[t].quota \in Int /\ stage[t].quota >= 0
      BY <1>5, Typing DEF StageRows
    <3>3. n.key = stage[t].quota
      BY <1>2, <2>1, <2>2, <3>1, <3>2
    <3>4. Charged(t)'
      BY <1>2, <1>4, <1>5, <2>2, <3>1, <3>3 DEF Charged
    <3> QED
      BY <1>2, <1>4, <1>5, <2>2, <3>1, <3>2, <3>3, <3>4 DEF OnSubscription, Final
  <2> QED
    BY <1>5, <2>1, <2>2, <2>3, <2>4 DEF Paid
<1> QED
  BY <1>5, <1>6, <1>7, <1>8 DEF TaskInv

\* The world goes its way.
LEMMA WorldKeeps ==
    ASSUME TasksInv, NEW t \in Tasks,
           UpstreamFinishes(t) \/ RemoveChannel(t) \/ DeleteKey(t) \/ TimePasses(t)
    PROVE  TasksInv'
<1>1. /\ TablesTyped /\ RunTyped /\ \A u \in Tasks : TaskInv(u)
      /\ \A u \in Tasks : u \notin excused => world[u].key
  BY DEF TasksInv, TaskInv, Paid
<1>2. /\ UNCHANGED <<row, stage, charge, net, job>>
      /\ \/ UNCHANGED budget
         \/ \E b \in {"failures", "unsettled", "crashes", "lookups"} : Spend(b)
  BY DEF UpstreamFinishes, RemoveChannel, DeleteKey, TimePasses
<1>3. /\ world' \in [Tasks -> WorldRows]
      /\ \A u \in Tasks : world'[u].kind = world[u].kind /\ (world'[u].channel => world[u].channel)
  <2>1. /\ world \in [Tasks -> WorldRows] /\ world[t] \in WorldRows
    BY <1>1 DEF RunTyped
  <2>2. ASSUME NEW x \in WorldRows, world' = [world EXCEPT ![t] = x], x.kind = world[t].kind,
               x.channel => world[t].channel
        PROVE  /\ world' \in [Tasks -> WorldRows]
               /\ \A u \in Tasks : world'[u].kind = world[u].kind /\ (world'[u].channel => world[u].channel)
    BY <2>1, <2>2
  <2>3. CASE UpstreamFinishes(t)
    <3>1. PICK x \in Final : world' = [world EXCEPT ![t] = [world[t] EXCEPT !.upstream = x]]
      BY <2>1, <2>3 DEF UpstreamFinishes
    <3> QED
      BY <2>1, <2>2, <3>1 DEF WorldRows, Seen
  <2>4. CASE RemoveChannel(t)
    <3>1. world' = [world EXCEPT ![t] = [world[t] EXCEPT !.channel = FALSE]]
      BY <2>1, <2>4 DEF RemoveChannel
    <3> QED
      BY <2>1, <2>2, <3>1 DEF WorldRows
  <2>5. CASE DeleteKey(t)
    <3>1. world' = [world EXCEPT ![t] = [world[t] EXCEPT !.key = FALSE]]
      BY <2>1, <2>5 DEF DeleteKey
    <3> QED
      BY <2>1, <2>2, <3>1 DEF WorldRows
  <2>6. CASE TimePasses(t)
    <3>1. world' = [world EXCEPT ![t] = [world[t] EXCEPT !.overdue = TRUE]]
      BY <2>1, <2>6 DEF TimePasses
    <3> QED
      BY <2>1, <2>2, <3>1 DEF WorldRows
  <2> QED
    BY <2>3, <2>4, <2>5, <2>6
<1>5. excused' \subseteq Tasks /\ excused \subseteq excused'
  BY <1>1 DEF RunTyped, Excuse, UpstreamFinishes, RemoveChannel, DeleteKey, TimePasses
<1>6. \A u \in Tasks : u \notin excused' => world'[u].key
  BY <1>1 DEF RunTyped, WorldRows, Excuse, UpstreamFinishes, RemoveChannel, DeleteKey, TimePasses
<1>7. budget' \in BudgetRows /\ (KnownRefs' => KnownRefs)
  BY <1>1, <1>2, Spending
<1>8. TablesTyped' /\ RunTyped'
  BY <1>1, <1>2, <1>3, <1>5, <1>7 DEF TablesTyped, RunTyped
<1>9. \A u \in Tasks : Same(u)
  BY <1>2, <1>3, <1>5, <1>6 DEF Same
<1> QED
  BY <1>1, <1>7, <1>8, <1>9, SameKeeps DEF TasksInv

\* A node dies: what it was reading it forgets, what it was billing is excused.
LEMMA CrashKeeps ==
    ASSUME TasksInv, NEW w \in Pollers, Crash(w)
    PROVE  TasksInv'
<1>1. /\ TablesTyped /\ RunTyped /\ w \in Workers /\ user \in Workers /\ Pollers \subseteq Workers
      /\ Spend("crashes") /\ UNCHANGED <<row, stage, charge, net, world>>
      /\ excused' = excused \cup {t \in Tasks : job[w][t].pc \in Billing}
      /\ job' = [job EXCEPT ![w] = [t \in Tasks |-> Idle]] /\ w # user
  BY TaskAssumption DEF TasksInv, Crash, Excuse, Workers, Billing
<1>2. budget' \in BudgetRows /\ (KnownRefs' => KnownRefs)
  BY <1>1, Spending
<1>3. /\ job' \in [Workers -> [Tasks -> JobRows]] /\ \A t \in Tasks : job'[w][t] = Idle
      /\ \A v \in Workers, t \in Tasks : v # w => job'[v][t] = job[v][t]
  BY <1>1, Typing DEF RunTyped
<1>4. TablesTyped' /\ RunTyped'
  BY <1>1, <1>2, <1>3 DEF TablesTyped, RunTyped
<1>5. ASSUME NEW t \in Tasks PROVE TaskInv(t)'
  <2>1. /\ TaskInv(t) /\ Idle.pc = "idle" /\ Idle.pc \notin Billing /\ Idle.copy.status = "none"
        /\ job'[w][t] = Idle /\ \A v \in Workers : v # w => job'[v][t] = job[v][t]
    BY <1>1, <1>3, AtWork DEF Billing
  <2>2. (t \in Realtime)' = (t \in Realtime) /\ (t \in Subscribed)' = (t \in Subscribed)
    BY <1>1 DEF Realtime, Subscribed, With
  <2>3. Placed(t)'
    BY <1>1, <2>1, <2>2 DEF TaskInv, Placed, Reading
  <2>4. Correcting(t)'
    BY <1>1, <2>1 DEF TaskInv, Correcting, Billing
  <2>5. /\ job[w][t].pc \notin Billing \/ t \in excused'
        /\ t \in excused => t \in excused'
        /\ world'[t] = world[t] /\ stage'[t] = stage[t] /\ row'[t] = row[t]
        /\ charge'[t] = charge[t] /\ net'[t] = net[t]
    BY <1>1
  <2> QED
    BY <1>1, <1>2, <2>1, <2>2, <2>3, <2>4, <2>5, NothingMoves
<1> QED
  BY <1>4, <1>5 DEF TasksInv

-----------------------------------------------------------------------------
(* The theorems.                                                            *)

\* A step about one task keeps the invariant of all.
LEMMA AboutKeeps ==
    ASSUME TasksInv, NEW t \in Tasks, TaskInv(t)', About(t)
    PROVE  TasksInv'
<1>1. \A u \in Tasks \ {t} : TaskInv(u)'
  BY SameKeeps DEF TasksInv, About
<1> QED
  BY <1>1 DEF TasksInv, About

\* Every step keeps the invariant.
LEMMA NextTasks == TasksInv /\ [Next]_vars => TasksInv'
<1> SUFFICES ASSUME TasksInv, [Next]_vars PROVE TasksInv'
  OBVIOUS
<1>1. ASSUME NEW t \in Tasks, NEW q \in Quotas,
             PreConsume(t, q) \/ SettleWallet(t, q) \/ SettleQueue(t, q) \/ SettleUnqueued(t, q)
      PROVE  TasksInv'
  BY <1>1, PreConsumeKeeps, SettleWalletKeeps, SettleQueueKeeps,
     SettleUnqueuedKeeps, AboutKeeps
<1>2. ASSUME NEW t \in Tasks, SettleComplete(t) \/ Insert(t) \/ Reconcile(t)
      PROVE  TasksInv'
  BY <1>2, SettleCompleteKeeps, InsertKeeps, ReconcileKeeps, AboutKeeps
<1>3. ASSUME NEW t \in Tasks, RealtimeRead(t) \/ RealtimeWrite(t)
      PROVE  TasksInv'
  BY <1>3, RealtimeReadKeeps, RealtimeWriteKeeps, AboutKeeps
<1>4. ASSUME NEW t \in Tasks, NEW w \in Pollers, Poll(w, t)
      PROVE  TasksInv'
  BY <1>4, SweepReadKeeps, SweepKeeps, BulkFailKeeps, PollFetchKeeps, PollWriteKeeps, GiveUpKeeps,
     AboutKeeps DEF Poll
<1>5. ASSUME NEW t \in Tasks, NEW w \in Pollers, Bill(w, t)
      PROVE  TasksInv'
  BY <1>5, SettleOnCompleteKeeps, AdjustFundingKeeps, AdjustTokenQuotaKeeps, WriteBackKeeps,
     AboutKeeps DEF Bill
<1>6. CASE UNCHANGED vars
  <2>1. KnownRefs' => KnownRefs
    BY <1>6 DEF vars, KnownRefs
  <2>2. \A u \in Tasks : Same(u)
    BY <1>6 DEF vars, Same, TasksInv, TaskInv, Paid
  <2>3. TablesTyped' /\ RunTyped'
    BY <1>6 DEF vars, TasksInv, TablesTyped, RunTyped
  <2> QED
    BY <2>1, <2>2, <2>3, SameKeeps DEF TasksInv
<1> QED
  BY <1>1, <1>2, <1>3, <1>4, <1>5, <1>6, WorldKeeps, CrashKeeps DEF Next, Submission

\* What the invariant says of a task that is not being billed.
LEMMA InvCharges == TasksInv => ChargedForStatus
<1> SUFFICES ASSUME TasksInv PROVE ChargedForStatus
  OBVIOUS
<1>1. TypeOK
  <2>1. /\ row \in [Tasks -> RowRows] /\ excused \subseteq Tasks
        /\ \A w \in Workers, t \in Tasks : job[w][t] \in JobRows /\ Placed(t)
    BY DEF TasksInv, TablesTyped, RunTyped, TaskInv
  <2>2. \A w \in Workers, t \in Tasks :
           job[w][t].copy.status \in Statuses /\ (job[w][t].pc # "idle" => row[t].status # "none")
    BY <2>1 DEF JobRows, RowRows, Placed
  <2> QED
    BY <2>1, <2>2 DEF TypeOK, RowRows
<1>2. ASSUME NEW t \in Tasks, t \notin excused
      PROVE  /\ Paid(t) /\ Placed(t) /\ row[t].status \in Statuses /\ stage[t].pre >= 0 /\ stage[t].quota >= 0
             /\ \A w \in Pollers : job[w][t].target >= 0
             /\ stage[t].pc \in {"new", "reserved", "queued", "settled", "done"}
             /\ net[t].wallet \in Int /\ net[t].key \in Int
             /\ (t \notin Realtime => OneWinner(t))
  <2>1. /\ row[t] \in RowRows /\ stage[t] \in StageRows /\ TaskInv(t) /\ net[t] \in NetRows
        /\ \A w \in Pollers : job[w][t] \in JobRows
    BY DEF TasksInv, TablesTyped, RunTyped, Workers
  <2> QED
    BY <1>2, <2>1, Typing DEF RowRows, StageRows, JobRows, TaskInv, NetRows
<1>3. NeverOverRefunded
  <2> SUFFICES ASSUME NEW t \in Tasks, t \notin excused, t \notin Realtime
               PROVE  net[t].wallet >= 0 /\ net[t].key >= 0
    BY DEF NeverOverRefunded
  <2>1. Paid(t) /\ OneWinner(t)
    BY <1>2
  <2>2. CASE stage[t].pc \notin {"settled", "done"}
    BY <1>2, <2>1, <2>2 DEF Paid, Submitted
  <2>3. CASE stage[t].pc \in {"settled", "done"} /\ t \notin Subscribed
    <3>1. OnWallet(t) /\ stage[t].quota >= 0 /\ \A w \in Pollers : job[w][t].target >= 0
      BY <1>2, <2>1, <2>3 DEF Paid
    <3>2. CASE Unbilling(t)
      BY <3>1, <3>2, <2>3 DEF OnWallet
    <3>3. CASE ~Unbilling(t)
      <4>1. PICK w \in Pollers : job[w][t].pc \in Billing
        BY <3>3 DEF Unbilling
      <4> QED
        BY <2>3, <3>1, <4>1 DEF OnWallet, Billing
    <3> QED
      BY <3>2, <3>3
  <2>4. CASE stage[t].pc \in {"settled", "done"} /\ t \in Subscribed
    <3>1. /\ OnSubscription(t) /\ stage[t].quota >= 0 /\ stage[t].pre >= 0
          /\ \A w \in Pollers : job[w][t].target >= 0
      BY <1>2, <2>1, <2>4 DEF Paid
    <3>2. net[t].wallet = 0
      BY <2>1, <2>4 DEF Paid, Submitted
    <3>3. CASE Unbilling(t) \/ charge[t].phase = "queued"
      BY <2>4, <3>1, <3>2, <3>3 DEF OnSubscription, Charged
    <3>4. CASE ~Unbilling(t) /\ charge[t].phase # "queued"
      <4>1. PICK w \in Pollers : job[w][t].pc \in Billing
        BY <3>4 DEF Unbilling
      <4> QED
        BY <2>4, <3>1, <3>2, <3>4, <4>1 DEF OnSubscription, Charged, Billing
    <3> QED
      BY <3>3, <3>4
  <2> QED
    BY <2>2, <2>3, <2>4
<1>4. ASSUME NEW t \in Tasks, Quiet(t), stage[t].pc = "done"
      PROVE  /\ t \notin excused /\ Paid(t) /\ Unbilling(t) /\ charge[t].phase # "queued"
             /\ row[t].status # "none"
  <2>1. t \notin excused /\ Unbilling(t) /\ charge[t].phase # "queued"
    BY <1>4 DEF Quiet, Unbilling, Billing
  <2> QED
    BY <1>2, <1>4, <2>1 DEF Placed
<1>5. ASSUME NEW t \in Tasks, Quiet(t), Guarded(t), row[t].status \in Final
      PROVE  stage[t].pc = "done" /\ t \notin Realtime /\ world[t].channel
  BY <1>5 DEF TasksInv, TaskInv, Placed, Guarded, Final
<1>6. FailedCostsNothing
  <2> SUFFICES ASSUME NEW t \in Tasks, row[t].status = "FAILURE", Quiet(t), Guarded(t), KnownRefs
               PROVE  Cost(t) = 0 /\ net[t].key = 0
    BY DEF FailedCostsNothing
  <2>1. /\ stage[t].pc = "done" /\ t \notin Realtime /\ world[t].channel /\ row[t].status \in Final
        /\ Paid(t) /\ Unbilling(t) /\ charge[t].phase # "queued"
    BY <1>4, <1>5 DEF Final
  <2>2. CASE t \in Subscribed
    BY <2>1, <2>2 DEF Paid, OnSubscription, Cost
  <2>3. CASE t \notin Subscribed
    BY <2>1, <2>3 DEF Paid, OnWallet, Cost
  <2> QED
    BY <2>2, <2>3
<1>7. SuccessCostsQuota
  <2> SUFFICES ASSUME NEW t \in Tasks, row[t].status = "SUCCESS", Quiet(t), Guarded(t)
               PROVE  Cost(t) = row[t].quota /\ net[t].key = row[t].quota
    BY DEF SuccessCostsQuota
  <2>1. /\ stage[t].pc = "done" /\ t \notin Realtime /\ world[t].channel /\ row[t].status \in Final
        /\ Paid(t) /\ Unbilling(t) /\ charge[t].phase # "queued"
    BY <1>4, <1>5 DEF Final
  <2>2. CASE t \in Subscribed
    BY <2>1, <2>2 DEF Paid, OnSubscription, Cost
  <2>3. CASE t \notin Subscribed
    BY <2>1, <2>3 DEF Paid, OnWallet, Cost
  <2> QED
    BY <2>2, <2>3
<1>8. KeyFollowsFunding
  <2> SUFFICES ASSUME NEW t \in Tasks, t \notin Subscribed \/ t \notin Realtime, Quiet(t), stage[t].pc = "done"
               PROVE  net[t].key = Cost(t)
    BY DEF KeyFollowsFunding
  <2>1. /\ Paid(t) /\ Unbilling(t) /\ charge[t].phase # "queued" /\ t \notin excused
        /\ net[t].wallet \in Int /\ net[t].key \in Int
    BY <1>2, <1>4
  <2>2. CASE t \in Subscribed
    BY <2>1, <2>2 DEF Paid, OnSubscription, Charged, Cost
  <2>3. CASE t \notin Subscribed /\ t \notin Realtime
    BY <2>1, <2>3 DEF Paid, OnWallet, Cost
  <2>4. CASE t \notin Subscribed /\ t \in Realtime
    <3>1. Reopened(t)
      BY <2>1, <2>4 DEF Paid
    <3>2. Take(t) = {} /\ Give(t) = {}
      BY <2>1 DEF Unbilling, Take, Give, Units, Billing
    <3>3. net[t].wallet = net[t].key + 0 - 0
      BY <3>1, <3>2, FS_EmptySet DEF Reopened
    <3> QED
      BY <2>1, <2>4, <3>3 DEF Cost
  <2> QED
    BY <2>2, <2>3, <2>4
<1> QED
  BY <1>1, <1>3, <1>6, <1>7, <1>8 DEF ChargedForStatus

\* A task has cost what its status says and is given back once at most: for any
\* tasks, of every kind, any number of polling nodes, and any number of crashes,
\* failures, late settlements and lookups (RefundTaskQuota, RecalculateTaskQuota).
THEOREM TasksChargedForStatus == Spec => []ChargedForStatus
<1>1. Init => TasksInv
  BY InitTasks
<1>2. TasksInv /\ [Next]_vars => TasksInv'
  BY NextTasks
<1>3. TasksInv => ChargedForStatus
  BY InvCharges
<1> QED
  BY <1>1, <1>2, <1>3, PTL DEF Spec

\* The status that a step leaves final.
StaysFinal(t) == row[t].status \in Final /\ Guarded(t) => row'[t].status = row[t].status

\* Only a poller that read the row unfinished makes it final.
LEMMA WinnersFindUnfinished ==
    ASSUME TasksInv, NEW w \in Pollers, NEW t \in Tasks, job[w][t].pc \in Reading
    PROVE  Wins(t, job[w][t].copy) => row[t].status \notin Final
<1>1. w \in Workers
  BY DEF Workers
<1> QED
  BY <1>1, AtWork DEF Wins, Unbilled, Final

\* No step moves a final row that is guarded.
LEMMA NextStaysFinal ==
    ASSUME TasksInv, [Next]_vars, NEW t \in Tasks
    PROVE  StaysFinal(t)
<1>0. row \in [Tasks -> RowRows] /\ TaskInv(t)
  BY DEF TasksInv, TablesTyped
<1>1. CASE row' = row
  BY <1>1 DEF StaysFinal
<1>2. ASSUME NEW u \in Tasks, Insert(u) PROVE StaysFinal(t)
  BY <1>0, <1>2 DEF Insert, StaysFinal, TaskInv, Placed, Final
<1>3. ASSUME NEW u \in Tasks, NEW w \in Pollers, NEW s, job[w][u].pc \in Reading,
             Finished(w, u, job[w][u].copy, s)
      PROVE  StaysFinal(t)
  <2>1. CASE Wins(u, job[w][u].copy)
    BY <1>0, <1>3, <2>1, WinnersFindUnfinished DEF Finished, StaysFinal
  <2>2. CASE ~Wins(u, job[w][u].copy)
    BY <1>3, <2>2 DEF Finished, StaysFinal
  <2> QED
    BY <2>1, <2>2
<1>4. ASSUME NEW u \in Tasks, NEW w \in Pollers, BulkFail(w, u) PROVE StaysFinal(t)
  BY <1>0, <1>4 DEF BulkFail, StaysFinal, Guarded
<1>5. ASSUME NEW u \in Tasks, NEW w \in Pollers, PollWrite(w, u) PROVE StaysFinal(t)
  <2>1. job[w][u].pc \in Reading
    BY <1>5 DEF PollWrite, Reading
  <2>2. CASE job[w][u].seen \in Final
    BY <1>3, <1>5, <2>1, <2>2 DEF PollWrite
  <2>3. CASE job[w][u].seen \notin Final
    BY <1>0, <1>5, <2>1, <2>3, WinnersFindUnfinished DEF PollWrite, StaysFinal
  <2> QED
    BY <2>2, <2>3
<1>6. ASSUME NEW u \in Tasks, NEW w \in Pollers, WriteBack(w, u) PROVE StaysFinal(t)
  BY <1>0, <1>6 DEF WriteBack, StaysFinal, RowRows
<1>7. ASSUME NEW u \in Tasks, RealtimeWrite(u) PROVE StaysFinal(t)
  <2>1. u \in Realtime
    BY <1>7 DEF TasksInv, TaskInv, Placed, RealtimeWrite
  <2> QED
    BY <1>0, <1>7, <2>1 DEF RealtimeWrite, StaysFinal, Guarded
<1>8. ASSUME NEW u \in Tasks, NEW w \in Pollers, Poll(w, u) PROVE StaysFinal(t) \/ row' = row
  BY <1>3, <1>4, <1>5, <1>8, SMTT(30) DEF Poll, SweepRead, SweepTimedOutTask, PollRead, PollFetch, GiveUp, Reading
<1>9. ASSUME NEW u \in Tasks, NEW w \in Pollers, Bill(w, u) PROVE StaysFinal(t) \/ row' = row
  BY <1>6, <1>9 DEF Bill, SettleOnComplete, AdjustFunding, AdjustTokenQuota
<1>10. ASSUME NEW u \in Tasks, Submission(u) PROVE StaysFinal(t) \/ row' = row
  BY <1>2, <1>10 DEF Submission, PreConsume, SettleWallet, SettleQueue, SettleUnqueued,
                            SettleComplete
<1>11. ASSUME NEW u \in Tasks, Reconcile(u) \/ RealtimeRead(u) \/ UpstreamFinishes(u) \/ RemoveChannel(u)
                                \/ DeleteKey(u) \/ TimePasses(u)
       PROVE  row' = row
  BY <1>11 DEF Reconcile, RealtimeRead, UpstreamFinishes, RemoveChannel, DeleteKey, TimePasses
<1>12. ASSUME NEW w \in Pollers, Crash(w) PROVE row' = row
  BY <1>12 DEF Crash
<1>13. CASE UNCHANGED vars
  BY <1>13 DEF vars, StaysFinal
<1> QED
  BY <1>1, <1>7, <1>8, <1>9, <1>10, <1>11, <1>12, <1>13 DEF Next

\* A task that is final stays as it is while only compare-and-swap moves its row
\* (UpdateWithStatus): a copy read before loses, whoever holds it and for how long.
THEOREM FinalTasksStay == Spec => FinalStays
<1>1. Init => TasksInv
  BY InitTasks
<1>2. TasksInv /\ [Next]_vars => TasksInv'
  BY NextTasks
<1>3. TasksInv /\ [Next]_vars => [\A t \in Tasks : row[t].status \in Final /\ Guarded(t)
                                      => row'[t].status = row[t].status]_vars
  BY NextStaysFinal DEF StaysFinal
<1> QED
  BY <1>1, <1>2, <1>3, PTL DEF Spec, FinalStays
==============================================================================
