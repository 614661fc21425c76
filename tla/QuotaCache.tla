---------------------------- MODULE QuotaCache ----------------------------
(***************************************************************************)
(* The balance and the status of a user in three places: the database row, *)
(* a hash in Redis that every request is authorised from, and the batch of *)
(* changes a node has not yet written.                                     *)
(*                                                                         *)
(* Redis is written by goroutines that nobody waits for, each of two round *)
(* trips: the time to live is read, and the write follows if there is one. *)
(* Meanwhile the hash may expire or be deleted, and the write then creates *)
(* it anew with one field.  One user, one node with the batch updater.     *)
(***************************************************************************)
EXTENDS Integers, FiniteSets

CONSTANTS
    Start,          \* the balance at first
    Amounts,        \* what one charge takes, one refund or top-up gives
    Slots,          \* goroutines under way at once
    None,           \* no hash, no job
    BatchEnabled,   \* BATCH_UPDATE_ENABLED
    MaxChanges      \* bound on charges, refunds, top-ups and crashes

ASSUME StartIsBalance == Start \in Nat /\ Amounts \subseteq Nat \ {0}
ASSUME AmountsAreBounded == \E a \in Amounts : \A b \in Amounts : b <= a
ASSUME NoneIsNoNumber == None \notin Int
ASSUME BatchIsFlag == BatchEnabled \in BOOLEAN /\ MaxChanges \in Nat

VARIABLES
    db,         \* the row: quota and status
    cache,      \* the hash: its fields, whether all are there, whether it expires
    store,      \* batchUpdateStores: the sum to be added to the row
    taken,      \* what batchUpdate is about to write, or None
    job,        \* the goroutines
    admin,      \* the administrator's request that disables the user
    uncached,      \* a top-up that has yet to invalidate the hash
    changes,    \* charges, refunds, top-ups and crashes so far
    balance,    \* what the balance ought to be
    lost        \* what batchUpdate failed to write or a crash took

cacheVars == <<db, cache, store, taken, job, admin, uncached, changes, balance, lost>>

CacheInit ==
    /\ db = [quota |-> Start, status |-> "enabled"]
    /\ cache = None
    /\ store = 0 /\ taken = None
    /\ job = [s \in Slots |-> None]
    /\ admin = [pc |-> "idle", quota |-> 0]
    /\ uncached = FALSE
    /\ changes = 0 /\ balance = Start /\ lost = 0

-----------------------------------------------------------------------------
(* The hash.                                                               *)

\* Mutant: the hash is written without a time to live.
PopulatedForever(q, st) == [full |-> TRUE, quota |-> q, status |-> st, expires |-> FALSE]
\* RedisHSetObj: every field, and the time to live, which is set unless
\* SYNC_FREQUENCY is made zero.
Populated(q, st) == [full |-> TRUE, quota |-> q, status |-> st, expires |-> TRUE]

\* RedisHIncrBy past its test: a hash that is gone comes back with one field.
Increased(delta) ==
    IF cache # None THEN [cache EXCEPT !.quota = @ + delta]
    ELSE [full |-> FALSE, quota |-> delta, status |-> "none", expires |-> TRUE]

\* RedisHSetField past its test, for the fields updateUserCache refreshes.
Refreshed(st) ==
    IF cache # None THEN [cache EXCEPT !.status = st]
    ELSE [full |-> FALSE, quota |-> 0, status |-> st, expires |-> TRUE]

\* The time to live runs out.
Expire ==
    /\ cache # None /\ cache.expires
    /\ cache' = None
    /\ UNCHANGED <<db, store, taken, job, admin, uncached, changes, balance, lost>>

-----------------------------------------------------------------------------
(* Goroutines that write the hash.                                         *)

Spawn(s, j) ==
    /\ job[s] = None
    /\ job' = [job EXCEPT ![s] = j]

\* GetUserCache finds no hash, reads the row and leaves the snapshot to a
\* goroutine.
GetUserCacheMiss(s) ==
    /\ cache = None
    /\ Spawn(s, [do |-> "populate", quota |-> db.quota, status |-> db.status])
    /\ UNCHANGED <<db, cache, store, taken, admin, uncached, changes, balance, lost>>

\* It finds a hash and returns it.
GetUserCacheHit ==
    /\ cache # None
    /\ UNCHANGED cacheVars

\* populateUserCache.
Populate(s) ==
    /\ job[s] # None /\ job[s].do = "populate"
    /\ cache' = Populated(job[s].quota, job[s].status)
    /\ job' = [job EXCEPT ![s] = None]
    /\ UNCHANGED <<db, store, taken, admin, uncached, changes, balance, lost>>

\* cacheDecrUserQuota: is there a hash that expires?
ReadTTL(s) ==
    /\ job[s] # None /\ job[s].do = "ttl"
    /\ job' = [job EXCEPT ![s] = IF cache = None THEN None ELSE [@ EXCEPT !.do = "incr"]]
    /\ UNCHANGED <<db, cache, store, taken, admin, uncached, changes, balance, lost>>

Incr(s) ==
    /\ job[s] # None /\ job[s].do = "incr"
    /\ cache' = Increased(job[s].delta)
    /\ job' = [job EXCEPT ![s] = None]
    /\ UNCHANGED <<db, store, taken, admin, uncached, changes, balance, lost>>

-----------------------------------------------------------------------------
(* Changes of the balance.                                                 *)

\* The balance changes by d: the hash by a goroutine, the row in a batch or,
\* without batches or if the caller insists, now.
AddQuota(s, d, now) ==
    /\ changes < MaxChanges
    /\ Spawn(s, [do |-> "ttl", delta |-> d])
    /\ IF BatchEnabled /\ ~now
       THEN store' = store + d /\ UNCHANGED db
       ELSE db' = [db EXCEPT !.quota = @ + d] /\ UNCHANGED store
    /\ changes' = changes + 1
    /\ balance' = balance + d
    /\ UNCHANGED <<cache, taken, admin, uncached, lost>>

DecreaseUserQuota(s, q, now) == AddQuota(s, - q, now)
IncreaseUserQuota(s, q, now) == AddQuota(s, q, now)

\* A top-up writes the row at once, then deletes the hash.
TopUp(q) ==
    /\ changes < MaxChanges /\ ~uncached
    /\ db' = [db EXCEPT !.quota = @ + q]
    /\ uncached' = TRUE
    /\ changes' = changes + 1
    /\ balance' = balance + q
    /\ UNCHANGED <<cache, store, taken, job, admin, lost>>

TopUpInvalidate ==
    /\ uncached
    /\ cache' = None
    /\ uncached' = FALSE
    /\ UNCHANGED <<db, store, taken, job, admin, changes, balance, lost>>

\* batchUpdate swaps the store for an empty one ...
BatchTake ==
    /\ taken = None /\ store # 0
    /\ taken' = store
    /\ store' = 0
    /\ UNCHANGED <<db, cache, job, admin, uncached, changes, balance, lost>>

\* ... and adds it to the row; an error is logged.
BatchWrite ==
    /\ taken # None
    /\ db' = [db EXCEPT !.quota = @ + taken]
    /\ taken' = None
    /\ UNCHANGED <<cache, store, job, admin, uncached, changes, balance, lost>>

BatchFail ==
    /\ taken # None
    /\ lost' = lost + taken
    /\ taken' = None
    /\ UNCHANGED <<db, cache, store, job, admin, uncached, changes, balance>>

\* The node dies with its batch, its goroutines and its requests.
NodeCrash ==
    /\ changes < MaxChanges
    /\ changes' = changes + 1
    /\ lost' = lost + store + (IF taken = None THEN 0 ELSE taken)
    /\ store' = 0 /\ taken' = None
    /\ job' = [s \in Slots |-> None]
    /\ uncached' = FALSE
    /\ admin' = [admin EXCEPT !.pc = IF @ = "done" THEN @ ELSE "idle"]
    /\ UNCHANGED <<db, cache, balance>>

-----------------------------------------------------------------------------
(* ManageUser disables the user: the row is read, changed in memory and    *)
(* written back, the hash refreshed and then deleted.                      *)

ManageLoad ==
    /\ admin.pc = "idle"
    /\ admin' = [pc |-> "write", quota |-> db.quota]
    /\ UNCHANGED <<db, cache, store, taken, job, uncached, changes, balance, lost>>

\* Mutant: the row is written back whole.
ManageWriteAll ==
    /\ admin.pc = "write"
    /\ db' = [quota |-> admin.quota, status |-> "disabled"]
    /\ admin' = [admin EXCEPT !.pc = "ttl"]
    /\ UNCHANGED <<cache, store, taken, job, uncached, changes, balance, lost>>
\* UpdateWithTx omits the balance.
ManageWrite ==
    /\ admin.pc = "write"
    /\ db' = [db EXCEPT !.status = "disabled"]
    /\ admin' = [admin EXCEPT !.pc = "ttl"]
    /\ UNCHANGED <<cache, store, taken, job, uncached, changes, balance, lost>>

\* updateUserCache, the test and the write of RedisHSetField.
ManageReadTTL ==
    /\ admin.pc = "ttl"
    /\ admin' = [admin EXCEPT !.pc = IF cache = None THEN "del" ELSE "refresh"]
    /\ UNCHANGED <<db, cache, store, taken, job, uncached, changes, balance, lost>>

ManageRefresh ==
    /\ admin.pc = "refresh"
    /\ cache' = Refreshed("disabled")
    /\ admin' = [admin EXCEPT !.pc = "del"]
    /\ UNCHANGED <<db, store, taken, job, uncached, changes, balance, lost>>

\* InvalidateUserCache.
ManageInvalidate ==
    /\ admin.pc = "del"
    /\ cache' = None
    /\ admin' = [admin EXCEPT !.pc = "done"]
    /\ UNCHANGED <<db, store, taken, job, uncached, changes, balance, lost>>

-----------------------------------------------------------------------------
\* What the administrator's request does once it has read the row.
ManageOn == ManageWrite \/ ManageReadTTL \/ ManageRefresh \/ ManageInvalidate
Goroutine(s) == Populate(s) \/ ReadTTL(s) \/ Incr(s)

CacheNext ==
    \/ \E s \in Slots : GetUserCacheMiss(s) \/ Goroutine(s)
    \/ \E s \in Slots, q \in Amounts, now \in BOOLEAN :
          DecreaseUserQuota(s, q, now) \/ IncreaseUserQuota(s, q, now)
    \/ \E q \in Amounts : TopUp(q)
    \/ TopUpInvalidate \/ BatchTake \/ BatchWrite \/ BatchFail \/ NodeCrash
    \/ ManageLoad \/ ManageOn \/ Expire \/ GetUserCacheHit

\* Goroutines and handlers run on, the updater's loop never ends, Redis drops
\* what has expired.
CacheFairness ==
    /\ \A s \in Slots : WF_cacheVars(Goroutine(s))
    /\ WF_cacheVars(BatchTake) /\ WF_cacheVars(BatchWrite \/ BatchFail)
    /\ WF_cacheVars(TopUpInvalidate) /\ WF_cacheVars(Expire)
    /\ WF_cacheVars(ManageOn)

CacheSpec == CacheInit /\ [][CacheNext]_cacheVars
FairCacheSpec == CacheSpec /\ CacheFairness

-----------------------------------------------------------------------------
(* Properties.                                                             *)

\* No more than this is ever charged or given.
Turnover == MaxChanges * (CHOOSE a \in Amounts : \A b \in Amounts : b <= a)

\* The values the variables range over.
CacheTypeOK ==
    /\ db.quota \in Start - Turnover .. Start + Turnover /\ db.status \in {"enabled", "disabled"}
    /\ cache # None => /\ cache.quota \in Int /\ cache.full \in BOOLEAN
                       /\ cache.status \in {"enabled", "disabled", "none"}
    /\ store \in -Turnover .. Turnover /\ taken \in Int \cup {None}
    /\ \A s \in Slots : job[s] # None => job[s].do \in {"populate", "ttl", "incr"}
    /\ admin.pc \in {"idle", "write", "ttl", "refresh", "del", "done"}

\* No change of the balance is lost or made twice between the batch, its write
\* and an administrator who writes the row back from an old copy: what a failed
\* batch or a crash dropped apart, the row and what is on its way add up.
BalanceConserved ==
    db.quota + store + (IF taken = None THEN 0 ELSE taken) + lost = balance

\* Whatever races created it, a hash has a time to live: Redis never keeps a
\* wrong one for good.
EveryHashExpires == cache # None => cache.expires

\* A user once disabled is in the end seen as such, though goroutines that read
\* the row before may still write the old status to Redis after it was deleted.
DisabledIsSeen ==
    [](admin.pc = "done" => <>[](cache # None => cache.status # "enabled"))

\* When the charges end, Redis comes to agree with the row and stays so, and it
\* shows whole users only.
CacheAgreesInTheEnd ==
    <>[](cache # None => cache.full /\ cache.quota = db.quota)

\* Between row, batch and Redis no change of a balance is lost or made twice, and
\* nothing wrong can stay in Redis for good.
CacheSound == CacheTypeOK /\ BalanceConserved /\ EveryHashExpires

\* Redis comes to tell what the row tells, of the balance and of the status.
CacheConverges == DisabledIsSeen /\ CacheAgreesInTheEnd
=============================================================================
