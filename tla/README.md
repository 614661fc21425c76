# SnowAPI: billing and subscription verification

SnowAPI is a gateway to large-language-model providers. It authenticates API
keys, picks an upstream channel, relays the request, and charges the user for
it: from a prepaid wallet or from a subscription with two kinds of allowance.
What is verified here is the part where an error costs somebody money and that
tests reach least: the charging of a request from its reservation to its
settlement, across concurrency, failures, resets, plan changes and restarts.

## Inventory

The system's components, their state, operations and what makes them correct.
`PROJECT.json` lists every component with its sources and its status.

| Component | State | Operations | Correct when | Hard because |
|---|---|---|---|---|
| Subscription ledger (`model/subscription*.go`) | subscriptions, quota windows, usage records | admit, adjust, queue and complete a settlement, refund, reset, expire, replace, clean up | usage is conserved, an allowance is never granted twice, late settlements hit their own window | requests outlive windows, periods, plans and subscriptions |
| Administrator changes (`model/admin_user_subscription.go`) | the same tables | set balances, return to the free tier, invalidate, delete, reset | reservations in flight stay covered | races with requests |
| Maintenance (`service/subscription_reset_task.go`) | cursor, current batch | recover settlements, expire, reset, retire windows, clean up | everything due is handled in the end, nothing is guessed, ticks end | stale batches, crashes, bounded batches |
| Billing session (`service/billing_session.go`, `funding_source.go`, `quota.go`) | session flags, copies of the usage reference, wallet, API key | reserve, raise, settle, refund, fee, realtime turns | refusals and failures cost nothing, a settlement costs what was consumed, on both counters | two counters, background refund, failures between steps |
| Asynchronous tasks (`service/task_*.go`, `relay/relay_task.go`) | tasks with status, quota, usage reference | submit, poll, time out, fail in bulk, recalculate, refund, look up | each task is billed once, for what its final status says | sweeper, pollers on several nodes and lookups write one row |
| System tasks (`model/system_task.go`, `service/system_task.go`) | tasks, one lock with a lease per type | create, claim, renew, finish, expire | one runner per type, every task ends | leases lost between statements, crashes |
| Group rate leases (`model/group_rate_lease.go`) | leases with tokens and expiry | acquire, reserve, renew, complete, clean up | limits hold among live requests | leases that lapse in use, rows removed by age |
| Wallet top-ups (`controller/topup.go`, `model/topup.go`) | orders, counted mutexes of a process | callback, manual completion | a payment is credited once, and in the end | repeated callbacks, mutexes made and removed on demand |
| Subscription orders (`model/subscription.go`, `subscription_checkout.go`) | orders with a snapshot of the price, history | create, repeat, settle, review, expire, bind, buy from the balance | a payment grants once, what was priced | plans and subscriptions change between pricing and payment |
| Checkout dialog and wallet page (`web/default`) | request ids, payment windows, quotes | confirm, retry, watch, abandon | no second order, nothing shown that did not happen, waits end | lost answers, late answers, closed windows |
| User groups (`model/user_group.go`, `redemption.go`) | group, group to restore, expiry | lend, buy, upgrade, downgrade, expire | a user returns to the right group | overlapping entitlements |
| Batch updater and caches (`model/utils.go`, `user_cache.go`, `common/redis.go`) | pending sums, cached balance and status | charge, flush, populate, increment, invalidate | no change is lost or made twice, stale copies go away | deferred writes by goroutines |
| Accounts in the browser (`web/default`: `lib/api.ts`, `auth-store.ts`, `main.tsx`) | stored session, tabs, query caches, requests under way | sign in and out, request, verify, reload | no account sees another's data | several tabs, late answers |
| Settings forms (`use-settings-form.ts`) | form, baseline, options | edit, save field by field, refetch | what was typed is stored, nothing else | refetches during a save, partial failure |
| Relay and channel selection, channels | retry state, channel cache, key status | select, relay, retry, disable | retries end, attempts use allowed channels | not modelled yet, see the plan |
| Others: price computation, rate limiting, affinity, bans, health, metrics, credentials, authentication, adaptors, settings, pages | | | | see `PROJECT.json` |

How they interact: a request passes the *group's rate lease*, creates a *billing
session*, and that reserves on the API key and on a funding source. For a
subscription the funding source calls the *ledger*, which returns a usage
reference with a version. When the request ends the session settles, or refunds
in a goroutine. A subscription settlement is first queued (durable), then
completed, by the session or by *maintenance*. *Tasks* keep the reference and come
back hours later; the jobs that poll them run under *system task leases*. The
wallet is filled by *top-ups*, changed by sessions through the *batch and the
cache*. Subscriptions come from *orders*, which the *checkout dialog* opens, and
with them the user's *group* changes.

## Modules

    UsageCharge                 what the ledger promises to one request
      ^ implemented by
    SubscriptionLedger          tables and transactions of one user
      ^ extended by
    SubscriptionMaintenance     the periodic task over the ledger, call by call
    SubscriptionLedgerProofs    types, queued settlements, the refinement; windows
                                in force; counters and deadlines; the task

    BillingSession              sessions over wallet, key and UsageCharge (INSTANCE)
      ^ extended by
    BillingSessionProofs        what a request has cost when it is over

    TaskBilling                 asynchronous tasks over UsageCharge (INSTANCE)
      ^ extended by
    TaskBillingProofs           what a task has cost, and final tasks

    SystemTaskLease             runners, tasks and the lock of one type
    GroupRateLease              rate leases of one user
    UserGroup                   plans, loans and the group of one user
    WalletTopUp                 top-up callbacks on the nodes
    QuotaCache                  one user's row, its batch and its Redis hash
      SystemTaskLeaseProofs, GroupProofs (UserGroup and GroupRateLease),
      WalletProofs (WalletTopUp and QuotaCache): theorems about these

    SubscriptionOrder           orders, payments and grants of one user
      ^ extended by
    SubscriptionCheckout        the browser's dialog over the orders
    WalletPayment               the wallet page: quotes and payment windows
      PurchaseProofs            orders sold as priced; an honest dialog and page
    AccountIsolation            tabs of one browser and their requests
    SettingsForm                one settings form and the server's options
      WebProofs                 whose data a tab shows; saves store what was typed

`UsageCharge` is the contract between the ledger and those who charge. The ledger
is shown to implement it (checked by TLC and proved), and `BillingSession` and
`TaskBilling` use the contract instead of the ledger, which keeps the state spaces
small. `MC*` modules hold the small instances. Where several modules share one
(`MCRelay`, `MCWallet`, `MCPurchase`, `MCWeb`), a variable `focus` chooses at the
start which of them moves: they share no state, so the union of their behaviours
says as much as their interleavings. In `MCSubscriptionLedger` it chooses which of the
ledger's callers act together, each set within bounds of its own. In the same way `site`, `policy`, `section` and
a task's `kind` are chosen at the start, so that one run covers several
deployments.

**SubscriptionLedger.** `sub`, `win` and `rec` are the tables
`user_subscriptions`, `subscription_quota_windows` and
`subscription_pre_consume_records` of one user; `now` is the database clock. Each
action is one database transaction: every one of them locks its rows (on SQLite,
the database) before reading and runs in `runSubscriptionQuotaTransaction`, which
repeats the whole transaction on a conflict. A transaction that returns an error
is rolled back, so failing conditions are the guards. The names of the actions
are those of the Go functions.

- Time is counted in ticks. Calendar periods (daily, weekly, monthly) are
  boundaries at multiples of `every`; custom periods repeat from their start.
  `LastReset` gives in closed form where the loop of
  `maybeResetUserSubscriptionWithPlanTx` stops.
- A plan is stored in the subscription row. The code reads the plan's schedule by
  id; edits of a plan after its purchase are not modelled.
- Which of several valid subscriptions is "current" depends on the user's group;
  it is an arbitrary choice. A purchase locks the user and leaves one valid
  subscription. Several occur with rows from before the ledger (`Legacy`) and when a
  binding by an administrator, which locks no user, runs beside a purchase or another
  binding: `AdminBindSubscription` replaces the subscriptions its query returned
  (`seen`) and may miss the newest ones. (The purchase may be the one that misses the
  binding; the rows left are the same.)
- A redemption may ask for the end of the subscription (`override`). That it moves the
  end of a current one only if both were redeemed is left open: the model allows
  both.
- `opening`, `manual`, `tokenNet` and the fields of deleted records are history
  variables. Nothing but properties and the refinement mapping reads them.
- `SetSubscriptionUsageFinal` asked to write what is already there changes
  nothing and is not a step. That it makes a record reserved only if it is so is a
  condition of its callers (`Reserve` runs before the session settles), not of the
  function. `RefundSubscriptionPreConsume` has no callers.
- Left out are the check of a difference against the largest quota in
  `checkedSubscriptionQuotaAdd` and the refusal to settle for a key of another user:
  no caller reaches them.
- Maintenance actions take the time `t` that the task read before its query,
  which may lag behind `now` by up to `MaxLag`.

**SubscriptionMaintenance.** `pc` is the call in which
`runSubscriptionQuotaResetOnce` is, `batch` the rows its query returned, `took`
the time it read, `cursor` the process-wide settlement cursor. Between the query
and each transaction anything may happen. `Crash` loses everything but the
tables and the consume logs. A consume log is the number of logs of a request,
its cost and the reservation it mentions: what `ReconcileSubscriptionSettlements`
compares.

**BillingSession.** One record per request holds the fields of `BillingSession`,
of its funding source and the part of `RelayInfo` that billing reads; in
particular both copies of the version of the usage reference. Every database
operation is a step and may fail; multi-statement operations are several steps.
What is left out: prices (any amount may be asked and settled), the trust rule
for tokens (the choice to trust is free where it is allowed), notifications and
statistics. `BillingSession.Reserve` currently has no callers; it is modelled as
the interface offers it. A realtime turn reads the balances (`CheckTurn`) and debits
them later (`PreWssConsumeQuota`, `TurnKey`), with other requests in between; for
an upstream model with a fixed price (`UsePrice`) a turn costs nothing and is not a
step.

**TaskBilling.** A task's life in three columns: `stage` is the submission
(`RelayTask`), `row` the table, `job` what each poller, the sweeper and the user's
lookup hold in memory: the copy they read, what the upstream said, the step of the
correction they are in. `net` sums what wallet and key were charged. Features of a
task decide its path (paid from a subscription, billed per call, on a channel that
may be removed, on a Gemini or Vertex channel). `excused` marks tasks for which an
operation failed. The upstream's verdict is any; money is corrected step by step:
funding, key, write-back of the row. A settlement that cannot be queued leaves the
reservation to stand for the task (`SettleUnqueued`). Rows written before usage
references existed are left out, and so are the sweep when it is turned off
(`TaskTimeoutMinutes` of 0, with which nothing makes a silent task final), the progress
of a task and the difference between SUBMITTED and QUEUED. A channel that cannot be
read for a moment is modelled as one that stays unreadable.

**SystemTaskLease.** Every statement of `ClaimSystemTask`, `RenewSystemTaskLock`,
`FinishSystemTask` and `ExpireStaleSystemTaskLocks` is a step, for one type of task.
Time is relative: a lease has `left` ticks, and its age after that. `MaxPause` bounds
how long a claim may stall between two of its statements. The insertion of a lock that
exists and the read that follows are one step, and beyond `Old` ages are not told
apart. The deletion of a stale lock compares with the clock of that moment, not with
the one read before the query: the model also deletes a
lock that the same runner took again for the same task and lost a second time, which
the earlier clock of the code spares.

**GroupRateLease.** The transactions of `group_rate_lease.go` for one user. `policy`
holds the limits, `timely`, whether heartbeats arrive before the lease ends, and
`budgeted`, whether requests reserve tokens and use no more than they reserved. Tasks
reserve none (`StartUnbudgeted`), and no upstream is bound to what a request declared;
without `budgeted` any number of tokens may be used, and the token limit is not
claimed.
`started` is a history variable: when a request was admitted, after its row is gone.

**UserGroup.** Each transaction that changes a user's group is one step, except
`Redeem`, whose check and writes are two: its check locks a row that may not exist.
`site.gapLocks` tells MySQL, which locks the gap, from PostgreSQL, which does not;
`site.promptExpiry` whether maintenance always comes before the next purchase. A code
may grant any plan of its group, where `Redeem` takes the first. The edits of a user by
an administrator (`EditWithTx`, `UpdateWithTx`), which may write any group, are left
out.

**WalletTopUp.** `orderLocks`, `refCount` and `owner` are the counted mutexes of
`controller/topup.go` in the memory of a node; each statement under them may fail.
The gateway repeats a callback until it is answered. Manual completions that are refused
at once (no amount to credit, an order of another provider) are left out: they change
nothing.

**QuotaCache.** One user on one node. `db` is the row, `cache` the hash, `store` the
batch, `taken` the batch being written, `job` the goroutines started by requests.
`RedisHIncrBy` reads the time to live and writes in two round trips, and so does
the model. `lost` counts what failed batch writes and crashes of the node dropped,
`balance` what every charge, refund and top-up should have led to. Left out is the
administrator's override, which sets a balance to a number of his. API keys use the
same code with other keys. A time to live is always set, as it is unless
`SYNC_FREQUENCY` is made zero.

**SubscriptionOrder** and **SubscriptionCheckout.** Plans are numbered by price. An
order keeps its snapshot: plan, version, current subscription and its end, nonce of
the account. Settlement runs in one transaction that locks the user; a binding by an
administrator locks nobody and is two steps. The dialog adds the browser: request
ids per method, an answer that may be lost, a payment window, a monitor with a
bounded number of checks and a grace after the window is closed. Left out are orders
whose plan or user is deleted before they are paid (their settlement fails and they
stay pending), a subscription that an administrator deletes or moves to another plan,
a purchase from the balance that fails and whose answer is also lost, and a dialog
that is mounted again.

**WalletPayment.** The wallet page: quotes under way with the number that decides
which answer counts, payments with their window, and the poll of each monitor. The page
is left once; a second mount, whose hook knows nothing of the monitors of the first,
is left out.

**AccountIsolation.** Tabs with a stored user, a version of the session, a query
cache and a page; requests with the account they were sent for, shared by identical
queries. The stored session (`lsUser`, `lsUid`) and the cookie are common to all
tabs; storage events are pending until a tab has seen them. Assumed: a user acts in
a tab only after it saw the events already fired, and one tab signs in at a time. A
browser starts signed out, signed in, or with a stored user whose session the server
has ended. OAuth sign-in and the handler of refused queries (`QueryCache.onError`) are
left out.

**SettingsForm.** `useSettingsForm` with the forms that use it. `base` stands for the
baseline, the defaults and their serialisation, which always change together.
`section` says which field is saved last, which is sent without its trailing slashes
(`ServerAddress` of the site form) and whether the defaults are new at every render.
The options come by `api.get`, which joins a request to an identical one in flight:
the refetch after a save may so bring options that were read before it
(`RefetchAfter`), and it may fail. A second submit while one is under way is left out,
as the button is disabled.

## Runs

Most runs check conjunctions of named parts, one for each question about a module
(`ChargedForOutcome`, `LeaseHonoured`, `SoldAsPriced`, ...). The parts stand before
the conjunction, each with its own comment; the text below names the parts.

| Run | Instance | Shows |
|---|---|---|
| `ledger` | 2 requests, amounts to 2, 4 ticks, 4 windows, a subscription from before the ledger; 1 request among administrators, 2 ticks; a purchase over 2 requests, or over a request and an old task, 3 ticks, 5 windows; purchases, redemptions and bindings that miss each other over 1 or 2 requests, 2 ticks, 6 windows, 4 subscriptions (the last one merges two that have a five-hour window each) | usage conserved (`UsageConserved`), records find their windows, limits exceeded only by settlement of incurred usage, queued settlements untouchable, deadlines fixed, reservations stay covered, usage shown is that of the current window, current windows open, one window of a kind in force, five-hour windows last five hours at most, rows well formed, `UsageCharge` implemented |
| `ledger_expiry` | 2 bindings, a request of 2 units, a purchase | **violation** of `ExpiryCapsFiveHourWindow` |
| `maintenance` | 2 requests, batch of 1, a crash or a failure, 3 ticks | ticks end, what is due is handled, queued and logged settlements happen in the end, nothing is guessed |
| `maintenance_livelock` | a plan change to a plan without resets | **violation** of `TickEnds`, a part of `DueIsHandled` |
| `relay` | a realtime connection of one turn and a request, all routes, fees, one failure; 2 plans, 2 codes, 3 subscriptions, 3 ticks; 3 requests under 4 policies | refusals cost nothing, settlements are exact, queued settlements reach both counters, the wallet pays a fee after its refund, key follows funding; no group outlives its plan, loans return to own groups, no loan over a subscription; request, concurrency, success and token limits |
| `billing_fee` | a request on a subscription that owes a fee | **violation** of `FeeAfterRefund` |
| `tasks` | a task of every kind, 2 pollers, sweeper, a lookup, a crash, a failure | refunds once, failures cost nothing, successes what the row says, final stays final, every task becomes final |
| `lease` | 2 runners, 2 tasks, claims that end within the lease, a crash, a failure | exclusion among leases, promises kept, verdicts stay, every task ends |
| `lease_cleanup` | 3 runners, 1 task, a crash | **violation** of `HeartbeatProtects` |
| `wallet` | 3 handlers of an order, a restart, a failure; 2 goroutines around a user, 2 changes or crashes | credited once, mutexes exclude and go away, calls return, paid is credited; balance conserved, hashes expire, the cache comes to agree |
| `purchase` | 2 orders and methods; an order and everybody else; 2 payments | one grant per order, as priced; limits; the dialog tells the truth and has one order open; quotes fit their input; waits end |
| `web` | 2 tabs, 2 accounts, 2 requests, one fault; a form of 2 fields, one of them an address, and another administrator | data and verdicts stay with their account, navigations end; saves are complete and in order, the baseline becomes the server's |

**Bounds.** Every bound is a constant in a guard. Two requests suffice for every
race on one record or window, since a step involves at most one request and the
counters it shares with others; limits of two need three requests, and a counted
mutex three handlers (one leaves while another waits and a third arrives). Four ticks
and periods of two give a window that ends inside a period, a period that ends
inside the subscription, and a request that settles after both. Four to six
windows allow both kinds to be replaced once with a request still attached to the
old ones, and those of two subscriptions to be merged. A difference that an old task
gives back comes while no request is in flight: no record says whose it was, so it
could take back what another request has reserved. Amounts to 2 tell a settlement above, at and below its reservation apart
and let two requests compete for the last unit. A batch of 1 makes every selection
a full batch. Two orders let one be paid while the other is priced against it. Two
tabs and accounts give every pair of old and new session; one bound, `MaxFaults`,
covers failing requests and sessions the server forgets, spent by histories that
start signed out or with an ended session. Accounts are alike, so the first to sign in is always the same. `MaxUsage` stands for the
largest 64-bit counter; it is above anything the small instances reach, so refusals
for overflow are part of the theorems only. Deadlock checking is off where bounded
histories do end; the maintenance runs check it. The safety of
`SystemTaskLease` is proved for any number of runners and for claims that stall
past the lease; `EveryTaskEnds` needs claims within it (see below).

**Fairness.** Assumed only where the code schedules the step itself:

- `SubscriptionMaintenance`: the task goes on (the ticker of
  `StartSubscriptionQuotaResetTask`) and time goes on.
- `TaskBilling`: started operations go on (WF), time passes, and the sweeper reads
  a task that stays selectable again and again (SF: pollers move the row between
  its reads).
- `SystemTaskLease`: time, the claiming poll and the cleanup poll come again (SF),
  and a claim or a handler that has started goes on (WF).
- `WalletTopUp`: a handler that can go on does, and the gateway repeats a callback.
- `QuotaCache`: goroutines, the batch ticker and the administrator's request go on;
  a key with a time to live expires.
- `SubscriptionOrder`, `SubscriptionCheckout`, `WalletPayment`: transactions under
  way, timers and answers of requests come; nobody is promised to pay or to confirm.
- `AccountIsolation`: requests are answered or fail, effects run. `BeforeLoad` is
  strongly fair only because the model has few request slots.
- `SettingsForm`: saves are answered, refused or lost, refetches are answered or fail,
  effects run.

Requests, buyers, administrators and recovery after failures are promised nothing;
failures and crashes are finite in number.

## Findings

**A tick of the maintenance task may never end** (`maintenance_livelock`).
`ResetDueSubscriptions` counts a row as reset although nothing was done because its
plan resets "never"; a plan change keeps the old reset time, so the row stays due
until the subscription expires, and the loop that selects it repeats while a full
batch is reported. Expiry is part of the same tick and is never reached again. It
takes a full batch (300) of such rows; with fewer the work is merely repeated each
minute.

**The cleanup of stale locks may fail a task that is well** (`lease_cleanup`).
`ExpireStaleSystemTaskLocks` reads the stale locks and then fails the task of each
whatever has become of the lock since; only the deletion of the lock asks again who
holds it. One runner takes the lock of a pending task and dies before it marks the
row, a second finds the stale lock, a third takes it over and runs the task, and the
second then fails the task although its runner holds a fresh lease. It takes three
runners: with two, whoever cleans up is the one who would have claimed.

**A merged five-hour window may outlive its subscription** (`ledger_expiry`). The doc
says that "Subscription expiry always caps the window end"
(`docs/subscription-quota-windows.md:11`). A new window is capped
(`createFiveHourQuotaWindowTx`), but the window that a purchase opens for those of
several subscriptions runs from the earliest start to the earliest end of theirs and
is not compared with the end of the new subscription, which is that of the current one.
Two bindings that miss each other, to a short plan and to a long one, and a request
that only the long one has room for are enough. Two such rows from before the ledger
would do as well.

**A violation fee and a refund on a subscription exclude each other** (`billing_fee`).
`ChargeViolationFeeIfNeeded` "charges an additional fee after the normal flow finishes
(including refund)" (`service/violation_fee.go:102`), but the refund is left to a
goroutine, and both write the usage record under the version the request knows. If the
refund is first, the fee is refused and the request has cost nothing; if the fee is
first, the refund is refused and the request has cost its reservation and the fee. On
the wallet both are additions and the comment holds, whatever their order.

**What the properties except.** Each condition in a property stands for a behaviour
of the code that a run without the condition exhibits:

- `FailedCostsFee` and `KeyFollowsFunding` leave out violation fees on a subscription,
  the subject of the finding above.
- Realtime connections paid from the wallet pay per turn, and for all turns again at
  the end; from a subscription the final settlement is refused (`SettledExactly`).
- A lookup of a Gemini or Vertex task writes over final rows: it may reopen a task
  that was refunded, or fail one that nobody refunds afterwards
  (`NeverOverRefunded`, `Guarded`). On a subscription a second refund leaves the usage
  record as it is, but changes the key again (`KeyFollowsFunding`).
- Tasks of a removed channel are failed in bulk and keep their charge (`Guarded`). A
  task whose settlement was completed by the reconciler holds a stale reference and
  cannot be refunded (`KnownRefs`).
- A claim that stalls past its own lease leaves a running task without a lock that
  nobody ever fails (hence `MaxPause` within `TTL` for `EveryTaskEnds` in `lease`).
- An administrator may set the balance of a window that also carries a finished
  request; a late correction of that request then takes back what the new balance no
  longer holds (`ReservationsCovered` leaves such windows out).
- The mutex of an order lives in one process: on two nodes a callback and a manual
  completion, or a repeated callback, credit an order twice (`Nodes` has one member).
- A paid order stays pending for good if the purchase limit refuses its grant
  (`PaidIsSettled`); a binding by an administrator may exceed the limit and leave
  two subscriptions in force (`LimitKept`, `OneInForce`).
- Two tabs that sign in at the same time as different accounts may show one with
  the other's data: the storage listener ignores `uid` (`OverlappingSignIns`).
- A plan without a group to return to, bought between the end of the last and its
  maintenance, returns to the paid group (`NoGroupOutlivesItsPlan`); without gap
  locks a group may be lent over a subscription (`NoLoanOverSubscription`).
- A hash that expires between a goroutine's test and its increment comes back with
  the balance alone, and a snapshot read before a user was disabled may be written
  after the hash was deleted; both until the time to live ends
  (`CacheAgreesInTheEnd`, `DisabledIsSeen`).
- What is typed while a save is under way is replaced when the save ends, and what is
  typed at any time when a refetch brings other options: the effect at
  `use-settings-form.ts:209-223` resets the form, although the comment at line 168
  says "No automatic resets that could overwrite user input". No property states the
  comment; `OnlyTypedIsWritten` states that nothing untyped is ever saved for it.
- After "Always refresh system-options" (`use-update-option.ts:63`) the refetch may join
  a request that the server read before the save, or fail: the form then compares with,
  and shows, older options until something is read again. The same after a save whose
  answer was lost, or that another administrator reverted (`missed` and `others` in
  `BaselineIsServerInTheEnd`).
- A group's token limit may be exceeded by tasks, which reserve nothing, and by
  upstreams that use more than was declared (`budgeted` in `TokenBound`).
- Deleting a subscription leaves a queued settlement that can never complete;
  invalidating one leaves its windows open.

## Proofs

The theorems hold for every choice of the constants that satisfies the named
assumptions of the modules: any number of requests, plans, runners, handlers,
orders, goroutines, any amounts, limits and bounds. A run shows the same property
on a small instance.

| Theorem | Property | Inductive invariant |
|---|---|---|
| `TypeCorrect`, `QueuedStaysReserved` | `TypeOK`, `QueuedIsReserved` | `Inv` |
| `LedgerImplementsUsageCharge` | `ImplementsUsageCharge` | `Inv` |
| `RecordsKeepWindows`, `OneWindowAtATime`, `CurrentWindowsCorrect` | `RecordsFindWindows`, `OneWindowInForce`, `CurrentWindowsAgree` | `WindowInv` |
| `DeadlinesFixed` | `DeadlineFixed` | `WindowInv` |
| `UsageIsConserved`, `OverrunsAreSettled` | `UsageConserved`, `OverrunOnlyBySettlement` | `UsageInv` |
| `ReservationsStayBooked` (`Deltas \subseteq Nat`) | `ReservationsCovered` | `CoverInv` |
| `SettledAsLogged`, `MaintenanceKeepsLedger` | `NeverGuessed`; `TypeOK`, `QueuedIsReserved` under the task | `TaskInv` |
| `MaintenanceImplementsLedger` (`MaxLag >= MaxTime`, `MaxVersion >= 1`) | `MSpec => Spec` | `TaskInv` |
| `RequestsChargedForOutcome` | `ChargedForOutcome` | `BillingInv` |
| `TasksChargedForStatus`, `FinalTasksStay` | `ChargedForStatus`, `FinalStays` | `TasksInv` |
| `LeasesAreHonoured`, `VerdictsStand` | `LeaseHonoured`, `VerdictStands` | `LeaseInv` |
| `CacheIsSound` | `CacheSound` | `CacheInv` |
| `OrderLocksExclude` | parts of `CreditedUnderLock` | `LockInv` |
| `TopUpsCreditedUnderLock` (`OneNode`) | `CreditedUnderLock` | `LockInv`, `NotYetCredited` |
| `LimitsHold` | `WithinLimits` | `RateInv` |
| `OrdersSoldAsPriced`, `CheckoutSoldAsPriced` | `SoldAsPriced` | `OrdersInv`, `CheckoutInv` |
| `CheckoutsHonest`, `LateAnswersOpenNothing` | `CheckoutHonest`, `OpensNothingAfterLeaving` (of `CheckoutEnds`) | `CheckoutInv` |
| `PaymentsHonest`, `OnlyLatestReported` | `PaymentHonest`, `OnlyLatestReports` (of `PaymentReported`) | `PaymentInv` |
| `TabsFollowTheirAccount` | parts of `OwnAccountOnly` | `TabsInv` |
| `TabsShowOwnAccount`, `LateRefusalsHarmless` (`~OverlappingSignIns`) | `OwnAccountOnly`, `LateRefusalIsHarmless` | `TabsInv`, `AloneInv` |
| `FormsSavedAsTyped` | `SavedAsTyped` | `FormInv` |
| `LoansRespectSubscriptions` | `NoLoanOverSubscription` | `GroupInv` |
| `GroupsAreReturned` (`SitesReturn`) | `GroupsReturn` | `ReturnInv` |

Each proof has the same shape: lemmas about the operators and what they return, a
lemma for each action that it keeps the invariant, one that combines them, and the
theorem by temporal reasoning. Why the invariants say more than the properties:

- **`Inv`** `== TypeOK /\ QueuedIsReserved /\ Untouched`. `TypeOK` alone is inductive;
  the refinement needs that a pending record is a reserved one, or its phase
  "queued" would hide another status, and that a record with status "none" is blank,
  or an admission would not start from `NoCharge`.
- **`WindowInv`** adds `IdsInOrder` (windows, rows and records never refer to an id not
  yet handed out, so a new window is nobody's), `RowsFit` (a subscription in use
  shows the usage of its current windows, which are its own and open) and
  `OpenIsCurrent` (an open window is the current one of its subscription). None of the
  three properties is inductive without the others: an admission opens a window
  because the row has none, and only `OpenIsCurrent` says that no other is open then.
- **`UsageInv`** adds that each window is accounted for, with reservations within its
  limit unless usage came from outside, and that refunded records hold nothing. The sum over the requests is the number of
  units they hold (`SumOver`: pairs of a request and a unit), so that "one request
  holds more" adds a set of known size and no induction over the requests is needed.
- **`CoverInv`** adds that a window set by hand, without a finished request, covers what
  is reserved on it.
  The hypothesis `Deltas \subseteq Nat` says that tasks from before the ledger, whose
  charges no record keeps, give nothing back; if they do, what they give may be what
  somebody else has reserved.
- **`TaskInv`** adds to `Inv` that a copy of a record which the task holds between its
  query and its transactions is not ahead of the record, and with the same version has
  the same charge. Every change of a charge raises the version (`Forward`), so a copy that
  passes the version check of `QueueSubscriptionSettlement` is not stale where it matters.
  The row that is handled next exists because record ids are numbers. It also says that a
  record is created with version 1 and stays there while reserved (`ReservedOnce`), and
  that the time a call works with was read from the clock. With these every step of the
  task is one step of the ledger, or none, so the theorems about the ledger hold while
  the task acts call by call. The hypotheses only say that the two bounds do not cut it
  short: a call may be as late as it likes, and a first version is allowed.
- **`BillingInv`** speaks of one session and its charge at a time (`SessionInv`): sessions
  meet only in the balances they check, and no amount that is charged depends on
  those. For each place a session may be at, and each source, it says what wallet,
  key and charge have given so far, if no statement of the session failed: between the two
  statements of a raise the source is ahead of the key by the raise (`Raised`), between
  those of a turn by the turn, between those of a refund behind it. On a subscription
  the two copies of the usage reference (`ref`, `infoRef`) are never ahead of the
  charge's version, and where one was left behind it can no longer change the charge:
  that is why a settlement that the periodic task completed is not charged again, and
  why the proof leaves out what a fee and a refund on a subscription come to.
- **`TasksInv`** speaks of one task at a time (`TaskInv`), for tasks share no state. It says
  which copies of the row may be about (`Placed`: a reader's copy is unfinished, so its
  compare-and-swap fails once the row is final), that at most one poller bills a task and
  that quota and reference of the row are those of the submission until it has
  (`OneWinner`), what wallet and key, or record and key, have paid at each of its steps
  (`OnWallet`, `OnSubscription`), and for tasks that lookups reopen, where several pollers
  may bill at once, that wallet and key differ by what these have still to do to the key
  (`Reopened`, in units). Looking for it showed that `KeyFollowsFunding` does not hold
  for realtime tasks on a subscription, a kind the run did not have; the property
  leaves them out now.
- **`LeaseInv`** says who may hold the lock: a claim that has just taken it and a
  handler that counts on it hold it, with at least the time they believe to have.
  Besides, a task that nobody claimed has no runner, a runner runs only what is in
  its name, and a claim is for a task its node does not run already. Nothing is assumed of how
  long a claim may stall.
- **`CacheInv`** bounds what the row has changed by, the batch and the batch under way
  together (`InRange`, a sum of distances): the range of the row alone is not inductive,
  for a charge or a refund that waits will move it.
  `AmountsAreBounded` (there is a largest amount) and `NoneIsNoNumber` are its
  assumptions.
- **`LockInv`** says that a handler past `LockOrder` uses the mutex the map has for its
  order, no two orders share one, the count is the number of users, and whoever works
  owns it. Removing at count zero is safe only because of the count. It holds on any
  number of nodes; that an order is credited once follows on one node only
  (`NotYetCredited`: before the credit the row is pending and the handler is the only
  one past its check), since the mutex lives in one process. `HandlersAssumption`:
  handlers are finitely many.
- **`RateInv`** ties rows to requests: a row outlasts the period its request counts in
  (`retain`), so counting rows counts requests (`WindowBound`), and a live request
  holds a lease if heartbeats keep up, so cleanup spares it. The limit on concurrent
  requests is kept for leases, of dead nodes too (`PendingBound`), which is what
  `AcquireGroupRateLease` counts. Tokens are summed as units again.
- **`GroupInv`** says that while a redemption holds the gap its check has read, nothing
  is in force; its types need that of finitely many ended subscriptions one is last.
- **`ReturnInv`** speaks of the group held apart from a loan (`Own`), which does not depend
  on the time. It is the group of the subscription in force, of which there is at most
  one; it was paid for, or is the default one; and something active will return it. Where
  plans return to the group held before, only one paid subscription is active, it ends
  after all that expired, so that `ExpireDueSubscriptions` takes it for the last, and it
  returns to the default group. Rows are numbered without gaps, so that a new one
  replaces none. The hypothesis `SitesReturn` names two kinds of deployment, those of the
  run: plans that all end in the default group, or plans that all have a group and return
  to the one held before, where maintenance comes before the next purchase. A plan that
  ends in another group, or a late expiry of a plan that names none, refutes the property.
- **`OrdersInv`** says that the TopUp row of an order follows its status; an order that
  succeeded has exactly one subscription row, as it was priced, and the row it was quoted
  for is no longer active; any other order has none. While no order binds the user, at
  most one row is in force. The row a purchase replaces is the first of those in force,
  which exists by the least-number principle (`WFMin`). `TradeNumbersDistinct` (an order's
  trade number is none of the two fixed sources of other rows) is its assumption.
- **`CheckoutInv`** adds that a request under way and an open payment page belong to an
  order that was made (`BooksOpen`), where the confirmation stands (`UiKept`: while a
  request is under way or an answer is due no order is remembered as pending; the verdict
  shown is the server's; after "paid" or "review" the dialog asks no more) and that the
  only order that can still be paid is the one the dialog remembers (`PayableKnown`):
  without it a second purchase could be opened next to a payable one.
- **`PaymentInv`** says that the last quote asked for is for the amount in the field, that
  payments start in order, that a request under way is the latest one's and no monitor is
  active then, that a monitor not stopped is the active one and the latest, and that
  verdicts are the server's.
- **`TabsInv`** says how a request is stamped: all who wait for it asked in the scope it
  left in, it carries the user id of that scope, the server lets it through only with a
  session of that user, and its version is not later than its tab's. A tab's verified
  version is not later either, and the guard asks only when somebody is signed in.
- **`AloneInv`** says that while somebody signs in no tab shows anybody and no event
  is pending, that the stored user and user id agree, that a tab which shows somebody
  shows the stored one with data of that account, and that requests of the version shown
  left after the last sign-in. Each of these fails when sign-ins overlap: the responses
  set the cookie in one order and localStorage in the other, and the storage listener
  does not look at `uid` (see the findings), hence the hypothesis.
- **`FormInv`** says that where a form differs from its baseline somebody typed, that the
  fields of a submission were typed as they are shown, and that those already stored,
  the address without its slashes, stay stored while the rest is sent, unless another
  administrator writes.

Only model-checked is liveness, in every module: the provers do not reason about
fairness and `ENABLED`.

## Plan

Done: all modules listed above, the runs, and as theorems the safety properties of all
modules. Left, in order:

1. `RelayRetry`: the retry loop and channel selection; it ends, and each attempt
   uses a channel that the group may use.
2. Multi-key channels: status of keys and automatic disabling.
3. `ResetSchedule`: the reset loop as a recursive function against the closed form
   `LastReset`.

## Not modelled

- Price computation and tiered billing: floating-point and decimal arithmetic. It
  enters as arbitrary amounts.
- Provider adaptors and format conversion: data without shared state.
- Crashes between a wallet reservation and its settlement: nothing in the code
  recovers them, so there is nothing to state. Overdraft by concurrent requests
  that passed the same check is inherent in the design likewise.
- Rate limiters (best effort by design), caches of hints, statistics, log
  aggregation, authentication protocols, configuration.
- Most of the web frontend, which makes up most of the repository's lines: forms,
  tables, charts, editors, translations and the classic theme render data and have
  no protocol of their own. Modelled are the parts that have one: sessions across
  tabs, checkout, payment windows and settings forms.
