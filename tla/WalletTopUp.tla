---------------------------- MODULE WalletTopUp ----------------------------
(***************************************************************************)
(* Online top-ups of a wallet: RequestEpay stores a pending order, the     *)
(* payment gateway (external) calls EpayNotify when it was paid, and an    *)
(* administrator may complete an order by hand (AdminCompleteTopUp).       *)
(*                                                                         *)
(* EpayNotify answers "success" first and then works: it reads the order,  *)
(* saves it as successful and credits the wallet, three statements without *)
(* a transaction.  What keeps two of these apart is LockOrder, a mutex per *)
(* order in the memory of ONE node, counted by its users so that the last  *)
(* one removes it from the map.  ManualCompleteTopUp is one transaction.   *)
(*                                                                         *)
(* Amounts are abstracted: `credits' counts how often an order was added   *)
(* to the wallet.  Prices, signatures and log lines are left out; a        *)
(* callback that fails verification or reports another trade status        *)
(* changes nothing.                                                        *)
(***************************************************************************)
EXTENDS Naturals, FiniteSets

CONSTANTS
    Nodes,          \* server processes sharing the database
    Orders,         \* trade numbers
    Handlers,       \* HTTP handlers running at one time, at most
    Mutexes,        \* refCountedMutex objects, one per handler suffices
    NoMutex,        \* no entry in orderLocks
    MaxCalls,       \* bound on callbacks and manual completions
    MaxRestarts,     \* bound on restarts of a node
    MaxFailedStatements     \* bound on failing statements

ASSUME HandlersAssumption == IsFiniteSet(Handlers) /\ NoMutex \notin Mutexes

VARIABLES
    topup,          \* status of each order's TopUp row, "none" before it
    credits,        \* how often each order was credited
    gateway,        \* external: "unpaid", "paid" or "acked" (answered success)
    call,        \* what each handler does
    orderLocks,     \* [node][order]: the mutex in the map, or NoMutex
    refCount,       \* users of each mutex
    owner,          \* handlers that hold each mutex
    calls, restarts, failures

topUpVars == <<topup, credits, gateway, call, orderLocks, refCount, owner,
              calls, restarts, failures>>

locks == <<orderLocks, refCount, owner>>
rows == <<topup, credits, gateway>>
bounds == <<calls, restarts, failures>>

Idle == [pc |-> "idle"]

Busy(kind, n, o) ==
    [pc |-> "lock", kind |-> kind, node |-> n, order |-> o, mutex |-> NoMutex]

HandlerState ==
    {Idle} \cup [pc : {"lock", "wait", "work", "save", "credit", "unlock", "leave"},
                 kind : {"notify", "admin"}, node : Nodes, order : Orders,
                 mutex : Mutexes \cup {NoMutex}]

Serving == {h \in Handlers : call[h] # Idle}

TopUpInit ==
    /\ topup = [o \in Orders |-> "none"]
    /\ credits = [o \in Orders |-> 0]
    /\ gateway = [o \in Orders |-> "unpaid"]
    /\ call = [h \in Handlers |-> Idle]
    /\ orderLocks = [n \in Nodes |-> [o \in Orders |-> NoMutex]]
    /\ refCount = [m \in Mutexes |-> 0]
    /\ owner = [m \in Mutexes |-> {}]
    /\ calls = 0 /\ restarts = 0 /\ failures = 0

Goto(h, pc) == call' = [call EXCEPT ![h].pc = pc]

-----------------------------------------------------------------------------
(* Placing and paying an order. *)

\* RequestEpay: the row is stored before the payment URL is returned.
RequestEpay(o) ==
    /\ topup[o] = "none"
    /\ topup' = [topup EXCEPT ![o] = "pending"]
    /\ UNCHANGED <<credits, gateway, call, locks, bounds>>

\* External: the user pays behind the URL.
Pay(o) ==
    /\ topup[o] # "none"
    /\ gateway[o] = "unpaid"
    /\ gateway' = [gateway EXCEPT ![o] = "paid"]
    /\ UNCHANGED <<topup, credits, call, locks, bounds>>

-----------------------------------------------------------------------------
(* LockOrder and UnlockOrder. *)

Unused(m) ==
    /\ refCount[m] = 0
    /\ \A n \in Nodes, o \in Orders : orderLocks[n][o] # m
    /\ \A h \in Serving : call[h].mutex # m

\* The section under createLock: find or store the mutex, count this user.
LockOrder(h) ==
    /\ call[h].pc = "lock"
    /\ LET n == call[h].node
           o == call[h].order
       IN \E m \in Mutexes :
            /\ IF orderLocks[n][o] = NoMutex THEN Unused(m) ELSE m = orderLocks[n][o]
            /\ orderLocks' = [orderLocks EXCEPT ![n][o] = m]
            /\ refCount' = [refCount EXCEPT ![m] = @ + 1]
            /\ call' = [call EXCEPT ![h].pc = "wait", ![h].mutex = m]
    /\ UNCHANGED <<rows, owner, bounds>>

\* rcm.mu.Lock()
AcquireOrder(h) ==
    /\ call[h].pc = "wait"
    /\ owner[call[h].mutex] = {}
    /\ owner' = [owner EXCEPT ![call[h].mutex] = {h}]
    /\ Goto(h, "work")
    /\ UNCHANGED <<rows, orderLocks, refCount, bounds>>

\* rcm.mu.Unlock(), on the mutex the map holds now.
UnlockOrder(h) ==
    /\ call[h].pc = "unlock"
    /\ LET m == orderLocks[call[h].node][call[h].order]
       IN IF m = NoMutex
          THEN /\ call' = [call EXCEPT ![h] = Idle]
               /\ UNCHANGED owner
          ELSE /\ owner' = [owner EXCEPT ![m] = {}]
               /\ call' = [call EXCEPT ![h].pc = "leave", ![h].mutex = m]
    /\ UNCHANGED <<rows, orderLocks, refCount, bounds>>

\* Mutant: every user removes the mutex, whoever still waits for it.
ForgetAtOnce(h) ==
    /\ call[h].pc = "leave"
    /\ orderLocks' = [orderLocks EXCEPT ![call[h].node][call[h].order] = NoMutex]
    /\ refCount' = [refCount EXCEPT ![call[h].mutex] = IF @ > 0 THEN @ - 1 ELSE 0]
    /\ call' = [call EXCEPT ![h] = Idle]
    /\ UNCHANGED <<rows, owner, bounds>>

\* The section under createLock at the end: the last user removes the mutex.
ForgetOrder(h) ==
    /\ call[h].pc = "leave"
    /\ LET m == call[h].mutex
       IN /\ refCount' = [refCount EXCEPT ![m] = @ - 1]
          /\ orderLocks' = IF refCount[m] = 1
                           THEN [orderLocks EXCEPT ![call[h].node][call[h].order] = NoMutex]
                           ELSE orderLocks
    /\ call' = [call EXCEPT ![h] = Idle]
    /\ UNCHANGED <<rows, owner, bounds>>

-----------------------------------------------------------------------------
(* The gateway's callback. *)

\* EpayNotify up to LockOrder.  The gateway repeats a callback until it saw
\* "success", which EpayNotify writes first; the answer may still get lost.
EpayNotify(h, n, o) ==
    /\ call[h] = Idle
    /\ gateway[o] = "paid"
    /\ calls < MaxCalls
    /\ calls' = calls + 1
    /\ \E seen \in {"paid", "acked"} : gateway' = [gateway EXCEPT ![o] = seen]
    /\ call' = [call EXCEPT ![h] = Busy("notify", n, o)]
    /\ UNCHANGED <<topup, credits, locks, restarts, failures>>

\* GetTopUpByTradeNo, a plain read: only a pending order goes on.
LoadTopUp(h) ==
    /\ call[h].pc = "work"
    /\ call[h].kind = "notify"
    /\ Goto(h, IF topup[call[h].order] = "pending" THEN "save" ELSE "unlock")
    /\ UNCHANGED <<rows, locks, bounds>>

\* Mutant: the order is saved and the credit forgotten.
SaveTopUpOnly(h) ==
    /\ call[h].pc = "save"
    /\ topup' = [topup EXCEPT ![call[h].order] = "success"]
    /\ Goto(h, "unlock")
    /\ UNCHANGED <<credits, gateway, locks, bounds>>

\* topUp.Update(): saves every column, whatever the row says by now.
SaveTopUp(h) ==
    /\ call[h].pc = "save"
    /\ topup' = [topup EXCEPT ![call[h].order] = "success"]
    /\ Goto(h, "credit")
    /\ UNCHANGED <<credits, gateway, locks, bounds>>

\* IncreaseUserQuota(userId, quotaToAdd, true)
CreditUser(h) ==
    /\ call[h].pc = "credit"
    /\ credits' = [credits EXCEPT ![call[h].order] = @ + 1]
    /\ Goto(h, "unlock")
    /\ UNCHANGED <<topup, gateway, locks, bounds>>

\* A statement fails, of either handler: nothing of it is stored (the manual
\* completion's transaction as a whole), the error is logged, the handler returns.
StatementFails(h) ==
    /\ call[h].pc \in {"work", "save", "credit"}
    /\ failures < MaxFailedStatements
    /\ failures' = failures + 1
    /\ Goto(h, "unlock")
    /\ UNCHANGED <<rows, locks, calls, restarts>>

-----------------------------------------------------------------------------
(* Manual completion. *)

AdminCompleteTopUp(h, n, o) ==
    /\ call[h] = Idle
    /\ topup[o] # "none"
    /\ calls < MaxCalls
    /\ calls' = calls + 1
    /\ call' = [call EXCEPT ![h] = Busy("admin", n, o)]
    /\ UNCHANGED <<rows, locks, restarts, failures>>

\* One transaction on the locked row: nothing for a successful order, else
\* the status and the credit together.
ManualCompleteTopUp(h) ==
    /\ call[h].pc = "work"
    /\ call[h].kind = "admin"
    /\ LET o == call[h].order
       IN IF topup[o] = "pending"
          THEN /\ topup' = [topup EXCEPT ![o] = "success"]
               /\ credits' = [credits EXCEPT ![o] = @ + 1]
          ELSE UNCHANGED <<topup, credits>>
    /\ Goto(h, "unlock")
    /\ UNCHANGED <<gateway, locks, bounds>>

-----------------------------------------------------------------------------
(* Crashes. *)

\* A node stops: its handlers and its map of mutexes are gone.
Restart(n) ==
    /\ restarts < MaxRestarts
    /\ restarts' = restarts + 1
    /\ LET lost == {h \in Serving : call[h].node = n}
           gone == {call[h].mutex : h \in lost} \cup {orderLocks[n][o] : o \in Orders}
       IN /\ call' = [h \in Handlers |-> IF h \in lost THEN Idle ELSE call[h]]
          /\ refCount' = [m \in Mutexes |-> IF m \in gone THEN 0 ELSE refCount[m]]
          /\ owner' = [m \in Mutexes |-> IF m \in gone THEN {} ELSE owner[m]]
    /\ orderLocks' = [orderLocks EXCEPT ![n] = [o \in Orders |-> NoMutex]]
    /\ UNCHANGED <<rows, calls, failures>>

-----------------------------------------------------------------------------
CallStep(h) ==
    \/ LockOrder(h) \/ AcquireOrder(h) \/ UnlockOrder(h) \/ ForgetOrder(h)
    \/ LoadTopUp(h) \/ SaveTopUp(h) \/ CreditUser(h) \/ ManualCompleteTopUp(h)

TopUpNext ==
    \/ \E o \in Orders : RequestEpay(o) \/ Pay(o)
    \/ \E h \in Handlers, n \in Nodes, o \in Orders :
          EpayNotify(h, n, o) \/ AdminCompleteTopUp(h, n, o)
    \/ \E h \in Handlers : CallStep(h) \/ StatementFails(h)
    \/ \E n \in Nodes : Restart(n)

TopUpSpec == TopUpInit /\ [][TopUpNext]_topUpVars

\* A handler that can go on does (goroutines are scheduled), and the gateway
\* repeats a callback until it is answered.
Delivers(o) == \E h \in Handlers, n \in Nodes : EpayNotify(h, n, o)

FairTopUpSpec ==
    /\ TopUpSpec
    /\ \A h \in Handlers : WF_topUpVars(CallStep(h))
    /\ \A o \in Orders : WF_topUpVars(Delivers(o))

-----------------------------------------------------------------------------
(* Properties. *)

\* The type of the state; a mutex is counted by no more users than there are.
TopUpTypeOK ==
    /\ topup \in [Orders -> {"none", "pending", "success"}]
    /\ credits \in [Orders -> Nat]
    /\ gateway \in [Orders -> {"unpaid", "paid", "acked"}]
    /\ call \in [Handlers -> HandlerState]
    /\ orderLocks \in [Nodes -> [Orders -> Mutexes \cup {NoMutex}]]
    /\ refCount \in [Mutexes -> 0 .. Cardinality(Handlers)]
    /\ owner \in [Mutexes -> SUBSET Handlers]

\* A paid order is added to the wallet once, however often the gateway calls
\* back and an administrator completes the order meanwhile.
CreditedOnce == \A o \in Orders : credits[o] <= 1

\* LockOrder excludes: between AcquireOrder and UnlockOrder a node works on
\* an order in one handler, although the mutex is made and removed on the fly.
Working(h) == call[h].pc \in {"work", "save", "credit", "unlock"}

LockExcludes ==
    \A g, h \in Serving :
        /\ g # h /\ Working(g) /\ Working(h)
        /\ call[g].order = call[h].order
        => call[g].node # call[h].node

\* The map does not grow: an order nobody works on has no mutex in it.
LocksReclaimed ==
    \A n \in Nodes, o \in Orders :
        (\A h \in Serving : call[h].node = n => call[h].order # o)
            => orderLocks[n][o] = NoMutex

\* Every callback and every manual completion returns.
CallsReturn == \A h \in Handlers : call[h] # Idle ~> call[h] = Idle

\* What was paid is credited, once the gateway's callback came through, while
\* statements succeed and the node stays up.
PaidIsCredited ==
    \A o \in Orders : gateway[o] = "acked" ~> (credits[o] = 1 \/ restarts + failures > 0)

\* The counted mutexes of LockOrder and UnlockOrder exclude, go away, and keep
\* an order from being credited twice.
CreditedUnderLock == TopUpTypeOK /\ CreditedOnce /\ LockExcludes /\ LocksReclaimed

\* Callbacks do not wait for each other for ever and what was paid is credited.
TopUpsFinish == CallsReturn /\ PaidIsCredited
=============================================================================
