---------------------------- MODULE WalletProofs ----------------------------
(***************************************************************************)
(* The counted mutexes of LockOrder and UnlockOrder exclude and go away,   *)
(* on any number of nodes and with any number of handlers and orders; on   *)
(* one node they keep an order from being credited twice.                  *)
(*                                                                         *)
(* The invariant: a handler past LockOrder uses the mutex the map has for  *)
(* its order, no two orders share one, its count is the number of its      *)
(* users, and whoever works owns it.  That a mutex is removed by its last  *)
(* user only rests on the count, and exclusion rests on that.              *)
(*                                                                         *)
(* No change of a balance is lost or made twice between the row, the batch *)
(* and its write, whatever the amounts, however many goroutines and        *)
(* changes there are, and every hash in Redis has a time to live.          *)
(*                                                                         *)
(* The range of the row's balance is not inductive: a charge that waits in *)
(* the batch will lower it later.  What is, is the range of the row and    *)
(* the batches together, by the changes made so far.                       *)
(***************************************************************************)
EXTENDS WalletTopUp, QuotaCache, FiniteSetTheorems, TLAPS

-----------------------------------------------------------------------------
(* Crediting top-ups.                                                       *)

Places == {"lock", "wait", "work", "save", "credit", "unlock", "leave"}
Calling == [pc : Places, kind : {"notify", "admin"}, node : Nodes, order : Orders, mutex : Mutexes \cup {NoMutex}]

\* The handlers that use mutex m.
Users(m) == {h \in Handlers : call[h] # Idle /\ call[h].mutex = m}

RowsTyped ==
    /\ topup \in [Orders -> {"none", "pending", "success"}]
    /\ credits \in [Orders -> Nat]
    /\ gateway \in [Orders -> {"unpaid", "paid", "acked"}]

CallsTyped == call \in [Handlers -> HandlerState]

MapTyped == orderLocks \in [Nodes -> [Orders -> Mutexes \cup {NoMutex}]]

MutexesTyped == refCount \in [Mutexes -> Nat] /\ owner \in [Mutexes -> SUBSET Handlers]

\* A handler has no mutex before LockOrder, and the one of its order after it.
Entered ==
    \A h \in Handlers : call[h] # Idle =>
        /\ call[h].pc = "lock" => call[h].mutex = NoMutex
        /\ call[h].pc # "lock" => /\ call[h].mutex \in Mutexes
                                  /\ orderLocks[call[h].node][call[h].order] = call[h].mutex

\* No two orders, and no two nodes, share a mutex.
Apart ==
    \A m, n \in Nodes, o, p \in Orders :
        orderLocks[m][o] # NoMutex /\ orderLocks[m][o] = orderLocks[n][p] => m = n /\ o = p

\* The count of a mutex is the number of its users, and a mutex in the map has some.
Counted == \A m \in Mutexes : refCount[m] = Cardinality(Users(m))
InUse == \A n \in Nodes, o \in Orders : orderLocks[n][o] # NoMutex => Users(orderLocks[n][o]) # {}

\* Whoever works owns the mutex, alone.
Owned == \A h \in Handlers : call[h] # Idle /\ Working(h) => owner[call[h].mutex] = {h}

LockInv == CallsTyped /\ MapTyped /\ MutexesTyped /\ Entered /\ Apart /\ Counted /\ InUse /\ Owned

-----------------------------------------------------------------------------

LEMMA CallStates ==
    /\ Idle.pc = "idle" /\ HandlerState = {Idle} \cup Calling
    /\ \A c \in Calling : c # Idle /\ c.pc # "idle"
<1>1. Idle.pc = "idle"
  BY DEF Idle
<1>2. HandlerState = {Idle} \cup Calling
  BY DEF HandlerState, Calling, Places
<1>3. \A c \in Calling : c.pc # "idle"
  BY DEF Calling, Places
<1> QED
  BY <1>1, <1>2, <1>3

\* A handler at one of the places between is busy.
LEMMA AtPlace ==
    ASSUME CallsTyped, NEW h \in Handlers
    PROVE  /\ call[h] = Idle \/ (call[h] # Idle /\ call[h] \in Calling)
           /\ call[h].pc # "idle" => call[h] \in Calling
BY CallStates DEF CallsTyped

\* Users are finitely many.
LEMMA FiniteUsers == \A m : Users(m) \subseteq Handlers /\ IsFiniteSet(Users(m)) /\ Cardinality(Users(m)) \in Nat
                            /\ Cardinality(Users(m)) <= Cardinality(Handlers)
<1> SUFFICES ASSUME NEW m
             PROVE  /\ Users(m) \subseteq Handlers /\ IsFiniteSet(Users(m)) /\ Cardinality(Users(m)) \in Nat
                    /\ Cardinality(Users(m)) <= Cardinality(Handlers)
  OBVIOUS
<1>1. Users(m) \in SUBSET Handlers
  BY DEF Users
<1> QED
  BY <1>1, HandlersAssumption, FS_Subset, FS_CardinalityType

LEMMA LockInitInv == TopUpInit => LockInv
<1> SUFFICES ASSUME TopUpInit PROVE LockInv
  OBVIOUS
<1>1. CallsTyped /\ MapTyped /\ MutexesTyped
  BY CallStates DEF TopUpInit, CallsTyped, MapTyped, MutexesTyped
<1>2. \A h \in Handlers : call[h] = Idle
  BY DEF TopUpInit
<1>3. \A m : Users(m) = {}
  BY <1>2 DEF Users
<1>4. Counted
  BY <1>3, FS_EmptySet DEF TopUpInit, Counted
<1>5. Entered /\ Owned
  BY <1>2 DEF Entered, Owned
<1>6. Apart /\ InUse
  BY DEF TopUpInit, Apart, InUse
<1> QED
  BY <1>1, <1>4, <1>5, <1>6 DEF LockInv

-----------------------------------------------------------------------------
(* Steps that leave the mutexes and the map alone. *)

\* Handler h goes to place p.
LEMMA GotoSets ==
    ASSUME CallsTyped, NEW h \in Handlers, call[h] \in Calling, NEW p \in Places, Goto(h, p)
    PROVE  /\ CallsTyped' /\ call'[h] \in Calling /\ call'[h] # Idle
           /\ call'[h].pc = p /\ call'[h].kind = call[h].kind /\ call'[h].node = call[h].node
           /\ call'[h].order = call[h].order /\ call'[h].mutex = call[h].mutex
           /\ \A g \in Handlers \ {h} : call'[g] = call[g]
<1> DEFINE c == [call[h] EXCEPT !.pc = p]
<1>1. /\ c \in Calling /\ c.pc = p /\ c.kind = call[h].kind /\ c.node = call[h].node
      /\ c.order = call[h].order /\ c.mutex = call[h].mutex
  BY DEF Calling
<1>2. call' = [call EXCEPT ![h] = c]
  BY DEF Goto
<1> HIDE DEF c
<1>3. call'[h] = c /\ \A g \in Handlers \ {h} : call'[g] = call[g]
  BY <1>2 DEF CallsTyped
<1>4. CallsTyped'
  BY <1>1, <1>2, CallStates DEF CallsTyped
<1> QED
  BY <1>1, <1>3, <1>4, CallStates

\* Users do not change where handler h keeps its mutex.
LEMMA SameUsers ==
    ASSUME NEW h \in Handlers, call[h] # Idle, call'[h] # Idle, call'[h].mutex = call[h].mutex,
           \A g \in Handlers \ {h} : call'[g] = call[g]
    PROVE  \A m : Users(m)' = Users(m)
BY DEF Users

\* A handler past LockOrder goes on, and the owners stay unless it starts or stops to
\* work.
LEMMA GoesOn ==
    ASSUME LockInv, NEW h \in Handlers, call[h] \in Calling, call[h].pc # "lock",
           NEW p \in Places \ {"lock"}, Goto(h, p), UNCHANGED <<orderLocks, refCount>>,
           \/ UNCHANGED owner /\ (p \in {"work", "save", "credit", "unlock"} => Working(h))
           \/ owner[call[h].mutex] = {} /\ owner' = [owner EXCEPT ![call[h].mutex] = {h}]
           \/ /\ Working(h) /\ p = "leave" /\ owner' = [owner EXCEPT ![call[h].mutex] = {}]
    PROVE  LockInv'
<1>1. /\ CallsTyped /\ MapTyped /\ MutexesTyped /\ Entered /\ Apart /\ Counted /\ InUse /\ Owned
      /\ call[h] # Idle /\ p \in Places
  BY CallStates DEF LockInv
<1>2. /\ CallsTyped' /\ call'[h] \in Calling /\ call'[h] # Idle
      /\ call'[h].pc = p /\ call'[h].node = call[h].node
      /\ call'[h].order = call[h].order /\ call'[h].mutex = call[h].mutex
      /\ \A g \in Handlers \ {h} : call'[g] = call[g]
  BY <1>1, GotoSets
<1>3. \A m : Users(m)' = Users(m)
  BY <1>1, <1>2, SameUsers
<1>4. call[h].mutex \in Mutexes
  BY <1>1 DEF Entered
<1>5. MapTyped' /\ MutexesTyped'
  BY <1>1, <1>4 DEF MapTyped, MutexesTyped
<1>6. Entered' /\ Apart'
  BY <1>1, <1>2 DEF Entered, Apart
<1>7. Counted' /\ InUse'
  BY <1>1, <1>3 DEF Counted, InUse
<1>8. Owned'
  <2> SUFFICES ASSUME NEW g \in Handlers, call'[g] # Idle, Working(g)' PROVE owner'[call'[g].mutex] = {g}
    BY DEF Owned
  <2>1. CASE g = h
    <3>1. p \in {"work", "save", "credit", "unlock"} /\ call'[g].mutex = call[h].mutex
      BY <1>2, <2>1 DEF Working
    <3>2. owner' = [owner EXCEPT ![call[h].mutex] = {h}] \/ (UNCHANGED owner /\ Working(h))
      BY <3>1
    <3> QED
      BY <1>1, <1>4, <2>1, <3>1, <3>2 DEF Owned, MutexesTyped
  <2>2. CASE g # h
    <3>1. call'[g] = call[g] /\ call[g] # Idle /\ Working(g)
      BY <1>2, <2>2 DEF Working
    <3>2. owner[call[g].mutex] = {g}
      BY <1>1, <3>1 DEF Owned
    <3>3. call[g].mutex # call[h].mutex \/ UNCHANGED owner
      BY <1>1, <2>2, <3>2 DEF Owned
    <3>4. call[g].mutex \in Mutexes
      BY <1>1, <3>1 DEF Entered, Working
    <3>5. owner'[call[g].mutex] = owner[call[g].mutex]
      BY <1>1, <3>3, <3>4 DEF MutexesTyped
    <3> QED
      BY <3>1, <3>2, <3>5
  <2> QED
    BY <2>1, <2>2
<1> QED
  BY <1>2, <1>5, <1>6, <1>7, <1>8 DEF LockInv

-----------------------------------------------------------------------------
(* LockOrder and UnlockOrder. *)

LEMMA LockOrderInv == ASSUME LockInv, NEW h \in Handlers, LockOrder(h) PROVE LockInv'
<1>1. /\ CallsTyped /\ MapTyped /\ MutexesTyped /\ Entered /\ Apart /\ Counted /\ InUse /\ Owned
      /\ call[h].pc = "lock" /\ UNCHANGED owner
  BY DEF LockInv, LockOrder
<1>2. call[h] \in Calling /\ call[h] # Idle
  BY <1>1, AtPlace, CallStates
<1> DEFINE n == call[h].node
           o == call[h].order
<1>3. PICK m \in Mutexes :
        /\ IF orderLocks[n][o] = NoMutex THEN Unused(m) ELSE m = orderLocks[n][o]
        /\ orderLocks' = [orderLocks EXCEPT ![n][o] = m]
        /\ refCount' = [refCount EXCEPT ![m] = @ + 1]
        /\ call' = [call EXCEPT ![h].pc = "wait", ![h].mutex = m]
  BY DEF LockOrder
<1>4. n \in Nodes /\ o \in Orders
  BY <1>2 DEF Calling
<1> DEFINE c == [call[h] EXCEPT !.pc = "wait", !.mutex = m]
<1>5. c \in Calling /\ c.pc = "wait" /\ c.mutex = m /\ c.node = n /\ c.order = o
  BY <1>2 DEF Calling, Places
<1>6. call' = [call EXCEPT ![h] = c]
  BY <1>1, <1>3 DEF CallsTyped
<1> HIDE DEF n, o, c
<1>7. /\ CallsTyped' /\ call'[h] = c /\ call'[h] # Idle /\ \A g \in Handlers \ {h} : call'[g] = call[g]
  <2>1. CallsTyped'
    BY <1>1, <1>5, <1>6, CallStates DEF CallsTyped
  <2>2. call'[h] = c /\ \A g \in Handlers \ {h} : call'[g] = call[g]
    BY <1>1, <1>6 DEF CallsTyped
  <2> QED
    BY <1>5, <2>1, <2>2, CallStates
<1>8. /\ MapTyped' /\ orderLocks'[n][o] = m
      /\ \A k \in Nodes, p \in Orders : k # n \/ p # o => orderLocks'[k][p] = orderLocks[k][p]
  BY <1>1, <1>3, <1>4 DEF MapTyped
<1>9. orderLocks[n][o] = m \/ (orderLocks[n][o] = NoMutex /\ Unused(m))
  BY <1>3
<1>10. /\ \A k \in Nodes, p \in Orders : orderLocks[k][p] = m => k = n /\ p = o
       /\ \A g \in Handlers : call[g] # Idle /\ call[g].mutex = m => orderLocks[n][o] = m
  BY <1>1, <1>3, <1>4, <1>9, HandlersAssumption DEF Apart, Unused, Serving
<1>11. MutexesTyped' /\ refCount'[m] = refCount[m] + 1 /\ \A k \in Mutexes \ {m} : refCount'[k] = refCount[k]
  BY <1>1, <1>3 DEF MutexesTyped
<1>12. h \notin Users(m) /\ Users(m)' = Users(m) \cup {h} /\ \A k \in Mutexes \ {m} : Users(k)' = Users(k)
  <2>1. call[h].mutex = NoMutex
    BY <1>1, <1>2 DEF Entered
  <2> QED
    BY <1>5, <1>7, <2>1, HandlersAssumption DEF Users
<1>13. Entered'
  <2> SUFFICES ASSUME NEW g \in Handlers, call'[g] # Idle
               PROVE  /\ call'[g].pc = "lock" => call'[g].mutex = NoMutex
                      /\ call'[g].pc # "lock" => /\ call'[g].mutex \in Mutexes
                                                 /\ orderLocks'[call'[g].node][call'[g].order] = call'[g].mutex
    BY DEF Entered
  <2>1. CASE g = h
    BY <1>5, <1>7, <1>8, <2>1
  <2>2. CASE g # h
    <3>1. call'[g] = call[g] /\ call[g] \in Calling
      BY <1>1, <1>7, <2>2, AtPlace
    <3>2. call[g].node \in Nodes /\ call[g].order \in Orders
      BY <3>1 DEF Calling
    <3>3. call[g].pc # "lock" => orderLocks[call[g].node][call[g].order] = call[g].mutex /\ call[g].mutex \in Mutexes
      BY <1>1, <3>1 DEF Entered
    <3>4. call[g].pc # "lock" /\ call[g].node = n /\ call[g].order = o => call[g].mutex = m
      BY <1>9, <3>3, HandlersAssumption
    <3> QED
      BY <1>1, <1>8, <3>1, <3>2, <3>3, <3>4 DEF Entered
  <2> QED
    BY <2>1, <2>2
<1>14. Apart'
  BY <1>1, <1>8, <1>10 DEF Apart
<1>15. Counted'
  <2>1. Cardinality(Users(m) \cup {h}) = Cardinality(Users(m)) + 1
    BY <1>12, FiniteUsers, FS_AddElement
  <2> QED
    BY <1>1, <1>11, <1>12, <2>1 DEF Counted
<1>16. InUse'
  <2> SUFFICES ASSUME NEW k \in Nodes, NEW p \in Orders, orderLocks'[k][p] # NoMutex
               PROVE  (Users(orderLocks[k][p]))' # {}
    BY DEF InUse
  <2>1. CASE orderLocks'[k][p] = m
    BY <1>12, <2>1 DEF Users
  <2>2. CASE orderLocks'[k][p] # m
    <3>1. orderLocks'[k][p] = orderLocks[k][p]
      BY <1>8, <2>2
    <3>2. orderLocks[k][p] \in Mutexes \ {m} /\ Users(orderLocks[k][p]) # {}
      BY <1>1, <2>2, <3>1 DEF MapTyped, InUse
    <3>3. PICK g \in Handlers : call[g] # Idle /\ call[g].mutex = orderLocks[k][p]
      BY <3>2 DEF Users
    <3>4. g # h
      BY <1>1, <1>2, <3>2, <3>3, HandlersAssumption DEF Entered
    <3> QED
      BY <1>7, <3>1, <3>3, <3>4 DEF Users
  <2> QED
    BY <2>1, <2>2
<1>17. Owned'
  <2> SUFFICES ASSUME NEW g \in Handlers, call'[g] # Idle, Working(g)' PROVE owner'[call'[g].mutex] = {g}
    BY DEF Owned
  <2>1. g # h
    BY <1>5, <1>7 DEF Working
  <2>2. call'[g] = call[g]
    BY <1>7, <2>1
  <2>3. Working(g)
    BY <2>2 DEF Working
  <2> QED
    BY <1>1, <2>2, <2>3 DEF Owned
<1> QED
  BY <1>7, <1>8, <1>11, <1>13, <1>14, <1>15, <1>16, <1>17 DEF LockInv


LEMMA AcquireOrderInv == ASSUME LockInv, NEW h \in Handlers, AcquireOrder(h) PROVE LockInv'
<1>1. call[h].pc = "wait" /\ CallsTyped
  BY DEF AcquireOrder, LockInv
<1>2. call[h] \in Calling
  BY <1>1, AtPlace
<1>3. "work" \in Places \ {"lock"}
  BY DEF Places
<1> QED
  BY <1>1, <1>2, <1>3, GoesOn DEF AcquireOrder

\* The map still has the mutex that the handler locked.
LEMMA UnlockOrderInv == ASSUME LockInv, NEW h \in Handlers, UnlockOrder(h) PROVE LockInv'
<1>1. /\ call[h].pc = "unlock" /\ CallsTyped /\ Entered /\ UNCHANGED <<orderLocks, refCount>>
  BY DEF UnlockOrder, LockInv
<1>2. call[h] \in Calling /\ call[h] # Idle
  BY <1>1, AtPlace, CallStates
<1> DEFINE m == orderLocks[call[h].node][call[h].order]
<1>3. m = call[h].mutex /\ m # NoMutex
  BY <1>1, <1>2, HandlersAssumption DEF Entered
<1>4. owner' = [owner EXCEPT ![call[h].mutex] = {}] /\ call' = [call EXCEPT ![h].pc = "leave", ![h].mutex = call[h].mutex]
  BY <1>3 DEF UnlockOrder
<1>5. Goto(h, "leave")
  <2>1. call' = [call EXCEPT ![h] = [call[h] EXCEPT !.pc = "leave", !.mutex = call[h].mutex]]
    BY <1>1, <1>4 DEF CallsTyped
  <2>2. [call[h] EXCEPT !.pc = "leave", !.mutex = call[h].mutex] = [call[h] EXCEPT !.pc = "leave"]
    BY <1>2 DEF Calling
  <2> QED
    BY <2>1, <2>2 DEF Goto
<1>6. "leave" \in Places \ {"lock"} /\ Working(h)
  BY <1>1 DEF Places, Working
<1> QED
  BY <1>1, <1>2, <1>4, <1>5, <1>6, GoesOn

\* A handler returns from UnlockOrder: the mutex stays in the map as long as anybody
\* else uses it.
LEMMA ForgetOrderInv == ASSUME LockInv, NEW h \in Handlers, ForgetOrder(h) PROVE LockInv'
<1>1. /\ CallsTyped /\ MapTyped /\ MutexesTyped /\ Entered /\ Apart /\ Counted /\ InUse /\ Owned
      /\ call[h].pc = "leave" /\ UNCHANGED owner
  BY DEF LockInv, ForgetOrder
<1>2. call[h] \in Calling /\ call[h] # Idle
  BY <1>1, AtPlace, CallStates
<1>n. PICK n \in Nodes, o \in Orders, m \in Mutexes :
         n = call[h].node /\ o = call[h].order /\ m = call[h].mutex
  <2>1. call[h].node \in Nodes /\ call[h].order \in Orders
    BY <1>2 DEF Calling
  <2>2. call[h].mutex \in Mutexes
    BY <1>1, <1>2 DEF Entered
  <2> QED
    BY <2>1, <2>2
<1>3. n \in Nodes /\ o \in Orders /\ m \in Mutexes /\ orderLocks[n][o] = m
  BY <1>1, <1>2, <1>n DEF Entered
<1>4. /\ refCount' = [refCount EXCEPT ![m] = refCount[m] - 1]
      /\ orderLocks' = IF refCount[m] = 1 THEN [orderLocks EXCEPT ![n][o] = NoMutex] ELSE orderLocks
      /\ call' = [call EXCEPT ![h] = Idle]
  BY <1>n DEF ForgetOrder
<1>5. /\ CallsTyped' /\ call'[h] = Idle /\ \A g \in Handlers \ {h} : call'[g] = call[g]
  BY <1>1, <1>4, CallStates DEF CallsTyped
<1>6. h \in Users(m) /\ Users(m)' = Users(m) \ {h} /\ \A k \in Mutexes \ {m} : Users(k)' = Users(k)
  BY <1>2, <1>5, <1>n DEF Users
<1>7. /\ Cardinality(Users(m) \ {h}) = Cardinality(Users(m)) - 1 /\ Cardinality(Users(m)) \in Nat
      /\ (Cardinality(Users(m)) = 1 <=> Users(m) \ {h} = {})
  <2>1. /\ Cardinality(Users(m) \ {h}) = Cardinality(Users(m)) - 1 /\ IsFiniteSet(Users(m) \ {h})
        /\ Cardinality(Users(m)) \in Nat
    BY <1>6, FiniteUsers, FS_RemoveElement
  <2>2. Cardinality(Users(m) \ {h}) = 0 <=> Users(m) \ {h} = {}
    BY <2>1, FS_EmptySet
  <2> QED
    BY <2>1, <2>2
<1>8. refCount[m] = Cardinality(Users(m)) /\ refCount[m] - 1 \in Nat
  <2>1. refCount[m] = Cardinality(Users(m))
    BY <1>1, <1>3 DEF Counted
  <2>2. Cardinality(Users(m) \ {h}) \in Nat
    BY <1>6, FiniteUsers, FS_RemoveElement, FS_CardinalityType
  <2> QED
    BY <1>7, <2>1, <2>2
<1>9. MutexesTyped' /\ refCount'[m] = refCount[m] - 1 /\ \A k \in Mutexes \ {m} : refCount'[k] = refCount[k]
  BY <1>1, <1>3, <1>4, <1>8 DEF MutexesTyped
<1>10. /\ MapTyped' /\ \A k \in Nodes, p \in Orders : k # n \/ p # o => orderLocks'[k][p] = orderLocks[k][p]
       /\ orderLocks'[n][o] = IF refCount[m] = 1 THEN NoMutex ELSE m
  BY <1>1, <1>3, <1>4 DEF MapTyped
<1>11. Apart'
  BY <1>1, <1>3, <1>10 DEF Apart
<1>12. Counted'
  BY <1>1, <1>6, <1>7, <1>8, <1>9 DEF Counted
<1>13. Entered'
  <2> SUFFICES ASSUME NEW g \in Handlers, call'[g] # Idle
               PROVE  /\ call'[g].pc = "lock" => call'[g].mutex = NoMutex
                      /\ call'[g].pc # "lock" => /\ call'[g].mutex \in Mutexes
                                                 /\ orderLocks'[call'[g].node][call'[g].order] = call'[g].mutex
    BY DEF Entered
  <2>1. g # h /\ call'[g] = call[g] /\ call[g] \in Calling /\ call[g] # Idle
    BY <1>1, <1>5, AtPlace
  <2>2. call[g].node \in Nodes /\ call[g].order \in Orders
    BY <2>1 DEF Calling
  <2>3. ASSUME call[g].pc # "lock", call[g].node = n, call[g].order = o PROVE refCount[m] # 1 /\ call[g].mutex = m
    <3>1. call[g].mutex = m
      BY <1>1, <1>3, <2>1, <2>3 DEF Entered
    <3>2. g \in Users(m) \ {h}
      BY <2>1, <3>1 DEF Users
    <3> QED
      BY <1>7, <1>8, <3>1, <3>2
  <2> QED
    BY <1>1, <1>3, <1>10, <2>1, <2>2, <2>3 DEF Entered
<1>14. InUse'
  <2> SUFFICES ASSUME NEW k \in Nodes, NEW p \in Orders, orderLocks'[k][p] # NoMutex
               PROVE  (Users(orderLocks[k][p]))' # {}
    BY DEF InUse
  <2>1. orderLocks'[k][p] = orderLocks[k][p] /\ orderLocks[k][p] # NoMutex
    BY <1>3, <1>10
  <2>2. PICK g \in Handlers \ {h} : call[g] # Idle /\ call[g].mutex = orderLocks[k][p]
    <3>1. CASE orderLocks[k][p] = m
      <4>1. k = n /\ p = o
        BY <1>1, <1>3, <2>1, <3>1 DEF Apart
      <4>2. Users(m) \ {h} # {}
        BY <1>7, <1>8, <1>10, <2>1, <4>1
      <4> QED
        BY <3>1, <4>2 DEF Users
    <3>2. CASE orderLocks[k][p] # m
      BY <1>1, <1>n, <2>1, <3>2 DEF InUse, Users
    <3> QED
      BY <3>1, <3>2
  <2> QED
    BY <1>5, <2>1, <2>2 DEF Users
<1>15. Owned'
  <2> SUFFICES ASSUME NEW g \in Handlers, call'[g] # Idle, Working(g)' PROVE owner'[call'[g].mutex] = {g}
    BY DEF Owned
  <2>1. call'[g] = call[g]
    BY <1>5
  <2>2. Working(g)
    BY <2>1 DEF Working
  <2> QED
    BY <1>1, <2>1, <2>2 DEF Owned
<1> QED
  BY <1>5, <1>9, <1>10, <1>11, <1>12, <1>13, <1>14, <1>15 DEF LockInv


-----------------------------------------------------------------------------
(* Calls arrive; nodes restart. *)

\* A new call has no mutex yet.
LEMMA NewCallInv ==
    ASSUME LockInv, NEW h \in Handlers, NEW k \in {"notify", "admin"}, NEW n \in Nodes, NEW o \in Orders,
           call[h] = Idle, call' = [call EXCEPT ![h] = Busy(k, n, o)], UNCHANGED locks
    PROVE  LockInv'
<1>1. /\ CallsTyped /\ MapTyped /\ MutexesTyped /\ Entered /\ Apart /\ Counted /\ InUse /\ Owned
      /\ UNCHANGED <<orderLocks, refCount, owner>>
  BY DEF LockInv, locks
<1> DEFINE c == Busy(k, n, o)
<1>2. c \in Calling /\ c.pc = "lock" /\ c.mutex = NoMutex
  BY DEF Busy, Calling, Places
<1> HIDE DEF c
<1>3. call' = [call EXCEPT ![h] = c]
  BY DEF c
<1>4. CallsTyped' /\ call'[h] = c /\ \A g \in Handlers \ {h} : call'[g] = call[g]
  BY <1>1, <1>2, <1>3, CallStates DEF CallsTyped
<1>5. \A m \in Mutexes : Users(m)' = Users(m)
  BY <1>2, <1>4, HandlersAssumption DEF Users
<1>6. MapTyped' /\ MutexesTyped' /\ Apart'
  BY <1>1 DEF MapTyped, MutexesTyped, Apart
<1>7. Counted'
  BY <1>1, <1>5 DEF Counted
<1>8. InUse'
  <2> SUFFICES ASSUME NEW j \in Nodes, NEW p \in Orders, orderLocks[j][p] # NoMutex
               PROVE  (Users(orderLocks[j][p]))' # {}
    BY <1>1 DEF InUse
  <2>1. PICK g \in Handlers : call[g] # Idle /\ call[g].mutex = orderLocks[j][p]
    BY <1>1 DEF InUse, Users
  <2>2. g # h
    BY <2>1
  <2> QED
    BY <1>1, <1>4, <2>1, <2>2 DEF Users
<1>9. Entered' /\ Owned'
  BY <1>1, <1>2, <1>4 DEF Entered, Owned, Working
<1> QED
  BY <1>4, <1>6, <1>7, <1>8, <1>9 DEF LockInv

\* A mutex that another node's handler uses, or that its map holds, is none of the
\* restarted node's.
LEMMA RestartInv == ASSUME LockInv, NEW n \in Nodes, Restart(n) PROVE LockInv'
<1>1. CallsTyped /\ MapTyped /\ MutexesTyped /\ Entered /\ Apart /\ Counted /\ InUse /\ Owned
  BY DEF LockInv
<1>2. PICK dying, gone :
        /\ dying = {h \in Serving : call[h].node = n}
        /\ gone = {call[h].mutex : h \in dying} \cup {orderLocks[n][o] : o \in Orders}
        /\ call' = [h \in Handlers |-> IF h \in dying THEN Idle ELSE call[h]]
        /\ refCount' = [m \in Mutexes |-> IF m \in gone THEN 0 ELSE refCount[m]]
        /\ owner' = [m \in Mutexes |-> IF m \in gone THEN {} ELSE owner[m]]
        /\ orderLocks' = [orderLocks EXCEPT ![n] = [o \in Orders |-> NoMutex]]
  BY DEF Restart
<1>3. \A h \in Handlers : h \in dying <=> call[h] # Idle /\ call[h].node = n
  BY <1>2 DEF Serving
<1>4. \A m : m \in gone <=> \/ \E h \in Handlers : call[h] # Idle /\ call[h].node = n /\ call[h].mutex = m
                            \/ \E o \in Orders : orderLocks[n][o] = m
  <2>1. \A m : m \in gone <=> (\E h \in dying : call[h].mutex = m) \/ (\E o \in Orders : orderLocks[n][o] = m)
    BY <1>2, Zenon
  <2>2. dying \subseteq Handlers
    BY <1>2 DEF Serving
  <2> QED
    BY <1>3, <2>1, <2>2
<1>5. CallsTyped' /\ \A h \in Handlers : call'[h] = IF call[h] # Idle /\ call[h].node = n THEN Idle ELSE call[h]
  BY <1>1, <1>2, <1>3, CallStates DEF CallsTyped
<1>6. /\ MutexesTyped'
      /\ \A m \in Mutexes : /\ refCount'[m] = IF m \in gone THEN 0 ELSE refCount[m]
                            /\ owner'[m] = IF m \in gone THEN {} ELSE owner[m]
  BY <1>1, <1>2 DEF MutexesTyped
<1>7. /\ MapTyped' /\ \A o \in Orders : orderLocks'[n][o] = NoMutex
      /\ \A k \in Nodes \ {n} : orderLocks'[k] = orderLocks[k]
  BY <1>1, <1>2 DEF MapTyped
<1>8. ASSUME NEW h \in Handlers, call[h] # Idle, call[h].pc # "lock" PROVE call[h].mutex \in gone <=> call[h].node = n
  <2>1. /\ call[h].node \in Nodes /\ call[h].order \in Orders
        /\ call[h].mutex \in Mutexes /\ orderLocks[call[h].node][call[h].order] = call[h].mutex
    BY <1>1, <1>8, AtPlace DEF Entered, Calling
  <2>2. ASSUME NEW o \in Orders, orderLocks[n][o] = call[h].mutex PROVE call[h].node = n
    BY <1>1, <2>1, <2>2, HandlersAssumption DEF Apart
  <2>3. ASSUME NEW g \in Handlers, call[g] # Idle, call[g].node = n, call[g].mutex = call[h].mutex
        PROVE  call[h].node = n
    <3>1. call[g].pc # "lock"
      BY <1>1, <2>1, <2>3, HandlersAssumption DEF Entered
    <3>2. call[g].order \in Orders /\ orderLocks[n][call[g].order] = call[h].mutex
      BY <1>1, <2>3, <3>1, AtPlace DEF Entered, Calling
    <3> QED
      BY <2>2, <3>2
  <2> QED
    BY <1>4, <1>8, <2>2, <2>3
<1>9. ASSUME NEW m \in Mutexes PROVE Users(m)' = IF m \in gone THEN {} ELSE Users(m)
  <2>1. \A h \in Handlers : call[h] # Idle /\ call[h].mutex = m => call[h].pc # "lock"
    BY <1>1, HandlersAssumption DEF Entered
  <2>2. \A h \in Handlers : call[h] # Idle /\ call[h].mutex = m => (m \in gone <=> call[h].node = n)
    BY <1>8, <2>1
  <2> QED
    BY <1>5, <2>2 DEF Users
<1>10. Counted'
  BY <1>1, <1>6, <1>9, FS_EmptySet DEF Counted
<1>11. Apart'
  BY <1>1, <1>7 DEF Apart
<1>12. Entered'
  <2> SUFFICES ASSUME NEW g \in Handlers, call'[g] # Idle
               PROVE  /\ call'[g].pc = "lock" => call'[g].mutex = NoMutex
                      /\ call'[g].pc # "lock" => /\ call'[g].mutex \in Mutexes
                                                 /\ orderLocks'[call'[g].node][call'[g].order] = call'[g].mutex
    BY DEF Entered
  <2>1. call'[g] = call[g] /\ call[g] # Idle /\ call[g].node \in Nodes \ {n}
    BY <1>1, <1>5, AtPlace DEF Calling
  <2> QED
    BY <1>1, <1>7, <2>1 DEF Entered
<1>13. InUse'
  <2> SUFFICES ASSUME NEW k \in Nodes, NEW p \in Orders, orderLocks'[k][p] # NoMutex
               PROVE  (Users(orderLocks[k][p]))' # {}
    BY DEF InUse
  <2>1. k # n /\ orderLocks'[k][p] = orderLocks[k][p] /\ orderLocks[k][p] # NoMutex /\ orderLocks[k][p] \in Mutexes
    BY <1>1, <1>7 DEF MapTyped
  <2>2. PICK g \in Handlers : call[g] # Idle /\ call[g].mutex = orderLocks[k][p]
    BY <1>1, <2>1 DEF InUse, Users
  <2>3. call[g].pc # "lock"
    BY <1>1, <2>1, <2>2 DEF Entered
  <2>4. call[g].node \in Nodes /\ call[g].order \in Orders /\ orderLocks[call[g].node][call[g].order] = orderLocks[k][p]
    BY <1>1, <2>2, <2>3, AtPlace DEF Entered, Calling
  <2>5. call[g].node = k
    BY <1>1, <2>1, <2>4 DEF Apart
  <2>6. call'[g] = call[g]
    BY <1>5, <2>1, <2>5
  <2> QED
    BY <2>1, <2>2, <2>6 DEF Users
<1>14. Owned'
  <2> SUFFICES ASSUME NEW g \in Handlers, call'[g] # Idle, Working(g)' PROVE owner'[call'[g].mutex] = {g}
    BY DEF Owned
  <2>1. call'[g] = call[g] /\ call[g] # Idle /\ call[g].node # n
    BY <1>5
  <2>2. Working(g) /\ call[g].pc # "lock"
    BY <2>1 DEF Working
  <2>3. call[g].mutex \in Mutexes \ gone
    BY <1>1, <1>8, <2>1, <2>2 DEF Entered
  <2> QED
    BY <1>1, <1>6, <2>1, <2>2, <2>3 DEF Owned
<1> QED
  BY <1>5, <1>6, <1>7, <1>10, <1>11, <1>12, <1>13, <1>14 DEF LockInv


-----------------------------------------------------------------------------
(* The work under the lock, and the exclusion. *)

LEMMA WorkInv ==
    ASSUME LockInv, NEW h \in Handlers,
           LoadTopUp(h) \/ SaveTopUp(h) \/ CreditUser(h) \/ ManualCompleteTopUp(h) \/ StatementFails(h)
    PROVE  LockInv'
<1>1. /\ CallsTyped /\ call[h].pc \in {"work", "save", "credit"} /\ UNCHANGED <<orderLocks, refCount, owner>>
  BY DEF LockInv, LoadTopUp, SaveTopUp, CreditUser, ManualCompleteTopUp, StatementFails, locks
<1>2. call[h] \in Calling /\ Working(h)
  BY <1>1, AtPlace DEF Working
<1>3. PICK p \in {"save", "credit", "unlock"} : Goto(h, p)
  <2>1. LoadTopUp(h) => Goto(h, "save") \/ Goto(h, "unlock")
    BY DEF LoadTopUp
  <2> QED
    BY <2>1 DEF SaveTopUp, CreditUser, ManualCompleteTopUp, StatementFails
<1>4. p \in Places \ {"lock"}
  BY DEF Places
<1> QED
  BY <1>1, <1>2, <1>3, <1>4, GoesOn

LEMMA LockNextInv == LockInv /\ [TopUpNext]_topUpVars => LockInv'
<1> SUFFICES ASSUME LockInv, [TopUpNext]_topUpVars PROVE LockInv'
  OBVIOUS
<1>1. CASE UNCHANGED <<call, locks>>
  BY <1>1 DEF locks, LockInv, CallsTyped, MapTyped, MutexesTyped, Entered, Apart, Counted, InUse, Owned,
              Users, Working
<1>2. UNCHANGED topUpVars => UNCHANGED <<call, locks>>
  BY DEF topUpVars, locks
<1>3. ASSUME NEW o \in Orders, RequestEpay(o) \/ Pay(o) PROVE UNCHANGED <<call, locks>>
  BY <1>3 DEF RequestEpay, Pay
<1>4. ASSUME NEW h \in Handlers, NEW n \in Nodes, NEW o \in Orders, EpayNotify(h, n, o) \/ AdminCompleteTopUp(h, n, o)
      PROVE  LockInv'
  BY <1>4, NewCallInv DEF EpayNotify, AdminCompleteTopUp
<1>5. ASSUME NEW h \in Handlers, CallStep(h) \/ StatementFails(h) PROVE LockInv'
  BY <1>5, LockOrderInv, AcquireOrderInv, UnlockOrderInv, ForgetOrderInv, WorkInv DEF CallStep
<1>6. ASSUME NEW n \in Nodes, Restart(n) PROVE LockInv'
  BY <1>6, RestartInv
<1> QED
  BY <1>1, <1>2, <1>3, <1>4, <1>5, <1>6 DEF TopUpNext

\* Two that work on one order of one node use one mutex, and that has one owner.
LEMMA LockInvExcludes == LockInv => LockExcludes
<1> SUFFICES ASSUME LockInv, NEW g \in Serving, NEW h \in Serving, g # h, Working(g), Working(h),
                    call[g].order = call[h].order, call[g].node = call[h].node
             PROVE  FALSE
  BY DEF LockExcludes
<1>1. /\ Entered /\ Owned /\ g \in Handlers /\ h \in Handlers /\ call[g] # Idle /\ call[h] # Idle
      /\ call[g].pc # "lock" /\ call[h].pc # "lock"
  BY DEF LockInv, Serving, Working
<1>2. call[g].mutex = call[h].mutex
  BY <1>1 DEF Entered
<1>3. owner[call[g].mutex] = {g} /\ owner[call[h].mutex] = {h}
  BY <1>1 DEF Owned
<1> QED
  BY <1>2, <1>3

\* A mutex in the map has a user, and its user works on the order it is for.
LEMMA LockInvReclaims == LockInv => LocksReclaimed
<1> SUFFICES ASSUME LockInv, NEW n \in Nodes, NEW o \in Orders,
                    \A h \in Serving : call[h].node = n => call[h].order # o,
                    orderLocks[n][o] # NoMutex
             PROVE  FALSE
  BY DEF LocksReclaimed
<1>1. CallsTyped /\ MapTyped /\ Entered /\ Apart /\ InUse
  BY DEF LockInv
<1>2. PICK h \in Handlers : call[h] # Idle /\ call[h].mutex = orderLocks[n][o]
  BY <1>1 DEF InUse, Users
<1>3. call[h].pc # "lock"
  BY <1>1, <1>2 DEF Entered
<1>4. call[h].node \in Nodes /\ call[h].order \in Orders /\ orderLocks[call[h].node][call[h].order] = orderLocks[n][o]
  BY <1>1, <1>2, <1>3, AtPlace DEF Entered, Calling
<1>5. call[h].node = n /\ call[h].order = o
  BY <1>1, <1>4 DEF Apart
<1> QED
  BY <1>2, <1>5 DEF Serving

-----------------------------------------------------------------------------
(* What is credited. *)

\* An order that was not completed was not credited; one that is being completed was
\* not either.
NotYetCredited ==
    /\ \A o \in Orders : credits[o] <= 1 /\ (topup[o] # "success" => credits[o] = 0)
    /\ \A h \in Handlers : call[h] # Idle =>
          /\ call[h].pc = "save" => topup[call[h].order] = "pending"
          /\ call[h].pc = "credit" => topup[call[h].order] = "success" /\ credits[call[h].order] = 0

\* Where there is one node, an order is worked on by one handler.
OneNode == \A m, n \in Nodes : m = n

LEMMA WorksAlone ==
    ASSUME OneNode, LockInv, NEW g \in Handlers, NEW h \in Handlers, g # h, call[g] \in Calling, call[h] \in Calling,
           Working(g), Working(h)
    PROVE  call[g].order # call[h].order
<1>1. g \in Serving /\ h \in Serving
  BY CallStates DEF Serving
<1>2. call[g].node = call[h].node
  BY DEF OneNode, Calling
<1> QED
  BY <1>1, <1>2, LockInvExcludes DEF LockExcludes

LEMMA RowsNext == RowsTyped /\ LockInv /\ [TopUpNext]_topUpVars => RowsTyped'
<1> SUFFICES ASSUME RowsTyped, LockInv, [TopUpNext]_topUpVars PROVE RowsTyped'
  OBVIOUS
<1>1. CASE UNCHANGED rows
  BY <1>1 DEF rows, RowsTyped
<1>2. UNCHANGED topUpVars => UNCHANGED rows
  BY DEF topUpVars, rows
<1>3. ASSUME NEW o \in Orders, RequestEpay(o) \/ Pay(o) PROVE RowsTyped'
  BY <1>3 DEF RequestEpay, Pay, RowsTyped
<1>4. ASSUME NEW h \in Handlers, NEW n \in Nodes, NEW o \in Orders, EpayNotify(h, n, o) \/ AdminCompleteTopUp(h, n, o)
      PROVE  RowsTyped'
  BY <1>1, <1>4 DEF EpayNotify, AdminCompleteTopUp, RowsTyped
<1>5. ASSUME NEW h \in Handlers, SaveTopUp(h) \/ CreditUser(h) \/ ManualCompleteTopUp(h) PROVE RowsTyped'
  BY <1>5 DEF SaveTopUp, CreditUser, ManualCompleteTopUp, RowsTyped
<1>6. ASSUME NEW h \in Handlers, LockOrder(h) \/ AcquireOrder(h) \/ UnlockOrder(h) \/ ForgetOrder(h)
                                 \/ LoadTopUp(h) \/ StatementFails(h)
      PROVE  UNCHANGED rows
  BY <1>6 DEF LockOrder, AcquireOrder, UnlockOrder, ForgetOrder, LoadTopUp, StatementFails
<1>7. ASSUME NEW n \in Nodes, Restart(n) PROVE UNCHANGED rows
  BY <1>7 DEF Restart
<1> QED
  BY <1>1, <1>2, <1>3, <1>4, <1>5, <1>6, <1>7 DEF TopUpNext, CallStep


\* Where the rows stay, a handler that does not come to save or to credit changes
\* nothing about it.
LEMMA CreditStays ==
    ASSUME NotYetCredited, UNCHANGED <<topup, credits>>,
           \A g \in Handlers : \/ call'[g] = call[g] \/ call'[g] = Idle
                               \/ call'[g].pc \notin {"save", "credit"}
    PROVE  NotYetCredited'
BY DEF NotYetCredited

LEMMA CreditNext ==
    ASSUME OneNode, NotYetCredited, RowsTyped, LockInv, [TopUpNext]_topUpVars PROVE NotYetCredited'
<1>1. CallsTyped
  BY DEF LockInv
<1>2. CASE UNCHANGED topUpVars
  BY <1>2, CreditStays DEF topUpVars
<1>3. ASSUME NEW o \in Orders, RequestEpay(o) PROVE NotYetCredited'
  <2>1. topup[o] = "none" /\ topup' = [topup EXCEPT ![o] = "pending"] /\ UNCHANGED <<credits, call>>
    BY <1>3 DEF RequestEpay
  <2>2. topup'[o] = "pending" /\ \A p \in Orders \ {o} : topup'[p] = topup[p]
    BY <2>1 DEF RowsTyped
  <2>3. \A h \in Handlers : call[h] # Idle => call[h].order \in Orders
    BY <1>1, AtPlace DEF Calling
  <2> QED
    BY <2>1, <2>2, <2>3 DEF NotYetCredited
<1>4. ASSUME NEW o \in Orders, Pay(o) PROVE NotYetCredited'
  BY <1>4, CreditStays DEF Pay
<1>5. ASSUME NEW h \in Handlers, NEW n \in Nodes, NEW o \in Orders, EpayNotify(h, n, o) \/ AdminCompleteTopUp(h, n, o)
      PROVE  NotYetCredited'
  <2>1. PICK k : call' = [call EXCEPT ![h] = Busy(k, n, o)] /\ UNCHANGED <<topup, credits>>
    BY <1>5 DEF EpayNotify, AdminCompleteTopUp, rows
  <2>2. Busy(k, n, o).pc = "lock"
    BY DEF Busy
  <2>3. \A g \in Handlers : call'[g] = call[g] \/ call'[g].pc = "lock"
    BY <1>1, <2>1, <2>2 DEF CallsTyped
  <2> QED
    BY <2>1, <2>3, CreditStays
<1>6. ASSUME NEW h \in Handlers, LockOrder(h) \/ AcquireOrder(h) \/ UnlockOrder(h) \/ ForgetOrder(h)
                                 \/ StatementFails(h)
      PROVE  NotYetCredited'
  <2>1. UNCHANGED <<topup, credits>> /\ call[h] \in Calling
    <3>1. call[h].pc # "idle"
      BY <1>6 DEF LockOrder, AcquireOrder, UnlockOrder, ForgetOrder, StatementFails
    <3> QED
      BY <1>1, <1>6, <3>1, AtPlace DEF LockOrder, AcquireOrder, UnlockOrder, ForgetOrder, StatementFails, rows
  <2>2. ASSUME NEW c, call' = [call EXCEPT ![h] = c], c = Idle \/ c.pc \in {"wait", "work", "leave", "unlock"}
        PROVE  NotYetCredited'
    <3>1. \A g \in Handlers : call'[g] = call[g] \/ call'[g] = c
      BY <1>1, <2>2 DEF CallsTyped
    <3> QED
      BY <2>1, <2>2, <3>1, CreditStays
  <2>3. ASSUME NEW p \in {"work", "unlock"}, Goto(h, p) PROVE NotYetCredited'
    <3> DEFINE c == [call[h] EXCEPT !.pc = p]
    <3>1. call' = [call EXCEPT ![h] = c] /\ c.pc = p
      BY <2>1, <2>3 DEF Goto, Calling
    <3> HIDE DEF c
    <3> QED
      BY <2>2, <3>1
  <2>4. ASSUME NEW p \in {"wait", "leave"}, NEW m, call' = [call EXCEPT ![h].pc = p, ![h].mutex = m]
        PROVE  NotYetCredited'
    <3> DEFINE c == [call[h] EXCEPT !.pc = p, !.mutex = m]
    <3>1. call' = [call EXCEPT ![h] = c] /\ c.pc = p
      BY <1>1, <2>1, <2>4 DEF CallsTyped, Calling
    <3> HIDE DEF c
    <3> QED
      BY <2>2, <3>1
  <2>5. CASE LockOrder(h)
    BY <2>4, <2>5 DEF LockOrder
  <2>6. CASE AcquireOrder(h) \/ StatementFails(h)
    BY <2>3, <2>6 DEF AcquireOrder, StatementFails
  <2>7. CASE UnlockOrder(h)
    <3>1. call' = [call EXCEPT ![h] = Idle] \/ \E m : call' = [call EXCEPT ![h].pc = "leave", ![h].mutex = m]
      BY <2>7 DEF UnlockOrder
    <3> QED
      BY <2>2, <2>4, <3>1
  <2>8. CASE ForgetOrder(h)
    BY <2>2, <2>8 DEF ForgetOrder
  <2> QED
    BY <1>6, <2>5, <2>6, <2>7, <2>8
<1>7. ASSUME NEW n \in Nodes, Restart(n) PROVE NotYetCredited'
  <2>1. UNCHANGED <<topup, credits>> /\ \A g \in Handlers : call'[g] = call[g] \/ call'[g] = Idle
    BY <1>7 DEF Restart, rows
  <2> QED
    BY <2>1, CreditStays
<1>8. ASSUME NEW h \in Handlers, LoadTopUp(h) \/ SaveTopUp(h) \/ CreditUser(h) \/ ManualCompleteTopUp(h)
      PROVE  NotYetCredited'
  <2>1. call[h].pc \in {"work", "save", "credit"}
    BY <1>8 DEF LoadTopUp, SaveTopUp, CreditUser, ManualCompleteTopUp
  <2>2. call[h] \in Calling /\ call[h] # Idle /\ Working(h)
    BY <1>1, <2>1, AtPlace, CallStates DEF Working
  <2>3. PICK o \in Orders : o = call[h].order
    BY <2>2 DEF Calling
  <2>4. ASSUME NEW g \in Handlers \ {h}, call[g] # Idle, call[g].pc \in {"save", "credit"}
        PROVE  call[g].order \in Orders \ {o}
    <3>1. call[g] \in Calling /\ Working(g)
      BY <1>1, <2>4, AtPlace DEF Working
    <3> QED
      BY <2>2, <2>3, <2>4, <3>1, WorksAlone DEF Calling
  <2>5. ASSUME NEW p \in {"save", "credit", "unlock"}, Goto(h, p)
        PROVE  /\ call'[h].pc = p /\ call'[h].order = o /\ \A g \in Handlers \ {h} : call'[g] = call[g]
    <3>1. p \in Places
      BY DEF Places
    <3> QED
      BY <1>1, <2>2, <2>3, <2>5, <3>1, GotoSets
  <2>6. CASE LoadTopUp(h)
    <3>1. UNCHANGED <<topup, credits>> /\ \/ Goto(h, "save") /\ topup[o] = "pending"
                                          \/ Goto(h, "unlock")
      BY <2>3, <2>6 DEF LoadTopUp, rows
    <3>2. CASE Goto(h, "save") /\ topup[o] = "pending"
      <4>1. call'[h].pc = "save" /\ call'[h].order = o /\ \A g \in Handlers \ {h} : call'[g] = call[g]
        BY <2>5, <3>2
      <4> QED
        BY <3>1, <3>2, <4>1 DEF NotYetCredited
    <3>3. CASE Goto(h, "unlock")
      <4>1. call'[h].pc = "unlock" /\ \A g \in Handlers \ {h} : call'[g] = call[g]
        BY <2>5, <3>3
      <4> QED
        BY <3>1, <4>1, CreditStays
    <3> QED
      BY <3>1, <3>2, <3>3
  <2>7. CASE SaveTopUp(h)
    <3>1. call[h].pc = "save" /\ topup' = [topup EXCEPT ![o] = "success"] /\ Goto(h, "credit") /\ UNCHANGED credits
      BY <2>3, <2>7 DEF SaveTopUp
    <3>2. call'[h].pc = "credit" /\ call'[h].order = o /\ \A g \in Handlers \ {h} : call'[g] = call[g]
      BY <2>5, <3>1
    <3>3. topup'[o] = "success" /\ \A p \in Orders \ {o} : topup'[p] = topup[p]
      BY <3>1 DEF RowsTyped
    <3>4. credits[o] = 0
      BY <2>2, <2>3, <3>1 DEF NotYetCredited
    <3> QED
      BY <2>4, <3>1, <3>2, <3>3, <3>4 DEF NotYetCredited
  <2>8. CASE CreditUser(h)
    <3>1. call[h].pc = "credit" /\ credits' = [credits EXCEPT ![o] = credits[o] + 1] /\ Goto(h, "unlock") /\ UNCHANGED topup
      BY <2>3, <2>8 DEF CreditUser
    <3>2. call'[h].pc = "unlock" /\ \A g \in Handlers \ {h} : call'[g] = call[g]
      BY <2>5, <3>1
    <3>3. credits[o] = 0 /\ topup[o] = "success"
      BY <2>2, <2>3, <3>1 DEF NotYetCredited
    <3>4. credits'[o] = 1 /\ \A p \in Orders \ {o} : credits'[p] = credits[p]
      BY <3>1, <3>3 DEF RowsTyped
    <3> QED
      BY <2>4, <3>1, <3>2, <3>3, <3>4 DEF NotYetCredited
  <2>9. CASE ManualCompleteTopUp(h)
    <3>1. call'[h].pc = "unlock" /\ \A g \in Handlers \ {h} : call'[g] = call[g]
      BY <2>5, <2>9 DEF ManualCompleteTopUp
    <3>2. CASE topup[o] # "pending"
      <4>1. UNCHANGED <<topup, credits>>
        BY <2>3, <2>9, <3>2 DEF ManualCompleteTopUp
      <4> QED
        BY <3>1, <4>1, CreditStays
    <3>3. CASE topup[o] = "pending"
      <4>1. topup' = [topup EXCEPT ![o] = "success"] /\ credits' = [credits EXCEPT ![o] = credits[o] + 1]
        BY <2>3, <2>9, <3>3 DEF ManualCompleteTopUp
      <4>2. credits[o] = 0
        BY <3>3 DEF NotYetCredited
      <4>3. /\ topup'[o] = "success" /\ credits'[o] = 1
            /\ \A p \in Orders \ {o} : topup'[p] = topup[p] /\ credits'[p] = credits[p]
        BY <4>1, <4>2 DEF RowsTyped
      <4> QED
        BY <2>4, <3>1, <4>3 DEF NotYetCredited
    <3> QED
      BY <3>2, <3>3
  <2> QED
    BY <1>8, <2>6, <2>7, <2>8, <2>9
<1> QED
  BY <1>2, <1>3, <1>4, <1>5, <1>6, <1>7, <1>8 DEF TopUpNext, CallStep

-----------------------------------------------------------------------------
(* The theorems. *)

\* The types, from the lock's invariant: a count is the size of a set of handlers.
LEMMA LockInvTyped == RowsTyped /\ LockInv => TopUpTypeOK
<1> SUFFICES ASSUME RowsTyped, LockInv PROVE TopUpTypeOK
  OBVIOUS
<1>1. CallsTyped /\ MapTyped /\ MutexesTyped /\ Counted
  BY DEF LockInv
<1>2. \A m \in Mutexes : refCount[m] \in 0 .. Cardinality(Handlers)
  <2>1. Cardinality(Handlers) \in Nat
    BY HandlersAssumption, FS_CardinalityType
  <2> QED
    BY <1>1, <2>1, FiniteUsers DEF Counted
<1>3. refCount \in [Mutexes -> 0 .. Cardinality(Handlers)]
  BY <1>1, <1>2 DEF MutexesTyped
<1> QED
  BY <1>1, <1>3 DEF TopUpTypeOK, RowsTyped, CallsTyped, MapTyped, MutexesTyped

\* LockOrder and UnlockOrder exclude on every node, however many there are, and leave
\* no mutex behind: the last of the handlers that share one removes it, and nobody who
\* still waits for it finds another one in its place.
THEOREM OrderLocksExclude == TopUpSpec => [](TopUpTypeOK /\ LockExcludes /\ LocksReclaimed)
<1>1. TopUpInit => RowsTyped /\ LockInv
  BY LockInitInv DEF TopUpInit, RowsTyped
<1>2. RowsTyped /\ LockInv /\ [TopUpNext]_topUpVars => RowsTyped' /\ LockInv'
  BY RowsNext, LockNextInv
<1>3. RowsTyped /\ LockInv => TopUpTypeOK /\ LockExcludes /\ LocksReclaimed
  BY LockInvTyped, LockInvExcludes, LockInvReclaims
<1> QED
  BY <1>1, <1>2, <1>3, PTL DEF TopUpSpec

\* On one node, where the mutexes reach everybody, a paid order is credited once,
\* however often the gateway calls back, administrators complete it by hand, statements
\* fail and the node restarts (EpayNotify, AdminCompleteTopUp, ManualCompleteTopUp).
THEOREM TopUpsCreditedUnderLock == ASSUME OneNode PROVE TopUpSpec => []CreditedUnderLock
<1>1. TopUpInit => RowsTyped /\ LockInv /\ NotYetCredited
  <2>1. TopUpInit => RowsTyped /\ LockInv
    BY LockInitInv DEF TopUpInit, RowsTyped
  <2>2. TopUpInit => NotYetCredited
    BY DEF TopUpInit, NotYetCredited
  <2> QED
    BY <2>1, <2>2
<1>2. RowsTyped /\ LockInv /\ NotYetCredited /\ [TopUpNext]_topUpVars => RowsTyped' /\ LockInv' /\ NotYetCredited'
  BY RowsNext, LockNextInv, CreditNext
<1>3. RowsTyped /\ LockInv /\ NotYetCredited => CreditedUnderLock
  BY LockInvTyped, LockInvExcludes, LockInvReclaims DEF CreditedUnderLock, CreditedOnce, NotYetCredited
<1> QED
  BY <1>1, <1>2, <1>3, PTL DEF TopUpSpec

-----------------------------------------------------------------------------
(* Keeping the balance.                                                     *)

\* The largest amount, and what is on its way in the batch that is written.
Largest == CHOOSE a \in Amounts : \A b \in Amounts : b <= a
UnderWay == IF taken = None THEN 0 ELSE taken

\* The records the variables hold.
JobIs(j) ==
    \/ j \in [do : {"populate"}, quota : Int, status : {"enabled", "disabled"}]
    \/ j \in [do : {"ttl", "incr"}, delta : Int]

RowTyped ==
    /\ db \in [quota : Int, status : {"enabled", "disabled"}]
    /\ store \in Int /\ taken \in Int \cup {None} /\ lost \in Int /\ balance \in Int
    /\ changes \in 0 .. MaxChanges

HashTyped ==
    cache # None => cache \in [full : BOOLEAN, quota : Int, status : {"enabled", "disabled", "none"}, expires : {TRUE}]

JobsTyped == DOMAIN job = Slots /\ \A s \in Slots : job[s] # None => JobIs(job[s])

AdminTyped == admin \in [pc : {"idle", "write", "ttl", "refresh", "del", "done"}, quota : Int]

\* What waits, what is being written and what the row has changed by are
\* together no more than the changes made so far.
Distance(n) == IF n < 0 THEN - n ELSE n
InRange == Distance(store) + Distance(UnderWay) + Distance(db.quota - Start) <= changes * Largest

CacheInv == RowTyped /\ HashTyped /\ JobsTyped /\ AdminTyped /\ InRange /\ BalanceConserved

-----------------------------------------------------------------------------

\* Amounts are at most the largest one.
LEMMA LargestAmount == Largest \in Nat /\ \A q \in Amounts : q \in Nat /\ q > 0 /\ q <= Largest
<1>1. Largest \in Amounts /\ \A b \in Amounts : b <= Largest
  BY AmountsAreBounded DEF Largest
<1> QED
  BY <1>1, StartIsBalance

\* One more change reaches one amount further.
LEMMA OneMore == \A k \in Nat : /\ k * Largest \in Nat /\ (k + 1) * Largest = k * Largest + Largest
                                /\ \A n \in Nat : k <= n => k * Largest <= n * Largest
<1>1. Largest \in Nat
  BY LargestAmount
<1>2. \A a, k \in Nat : k * a \in Nat /\ (k + 1) * a = k * a + a
  OBVIOUS
<1>3. \A a, k, d \in Nat : k * a <= (k + d) * a
  <2> SUFFICES ASSUME NEW a \in Nat, NEW k \in Nat, NEW d \in Nat PROVE k * a <= (k + d) * a
    OBVIOUS
  <2>1. (k + d) * a = k * a + d * a /\ d * a \in Nat
    OBVIOUS
  <2> QED
    BY <2>1
<1>4. \A a, k, n \in Nat : k <= n => k * a <= n * a
  <2> SUFFICES ASSUME NEW a \in Nat, NEW k \in Nat, NEW n \in Nat, k <= n PROVE k * a <= n * a
    OBVIOUS
  <2>1. n - k \in Nat /\ k + (n - k) = n
    OBVIOUS
  <2> QED
    BY <1>3, <2>1
<1> QED
  BY <1>1, <1>2, <1>4

LEMMA CacheInitInv == CacheInit => CacheInv
<1> SUFFICES ASSUME CacheInit PROVE CacheInv
  OBVIOUS
<1>1. RowTyped /\ HashTyped /\ JobsTyped /\ AdminTyped
  BY StartIsBalance, BatchIsFlag DEF CacheInit, RowTyped, HashTyped, JobsTyped, AdminTyped
<1>2. InRange
  <2>1. 0 * Largest = 0
    BY LargestAmount
  <2> QED
    BY <2>1, StartIsBalance DEF CacheInit, InRange, UnderWay, Distance
<1>3. BalanceConserved
  BY StartIsBalance DEF CacheInit, BalanceConserved
<1> QED
  BY <1>1, <1>2, <1>3 DEF CacheInv

-----------------------------------------------------------------------------
(* Steps that move money. *)

\* The sums are kept where no amount changes.
LEMMA MoneyStays ==
    ASSUME InRange, BalanceConserved, db'.quota = db.quota, UNCHANGED <<store, taken, lost, balance, changes>>
    PROVE  InRange' /\ BalanceConserved'
BY DEF InRange, BalanceConserved, UnderWay

LEMMA AddKeeps ==
    ASSUME CacheInv, NEW s \in Slots, NEW d \in Int, NEW now \in BOOLEAN,
           Distance(d) <= Largest, AddQuota(s, d, now)
    PROVE  CacheInv'
<1>1. /\ RowTyped /\ HashTyped /\ JobsTyped /\ AdminTyped /\ InRange /\ BalanceConserved
      /\ UNCHANGED <<cache, taken, admin, lost>>
  BY DEF CacheInv, AddQuota
<1>2. /\ Largest \in Nat /\ changes \in Nat /\ changes < MaxChanges
      /\ store \in Int /\ db.quota \in Int /\ UnderWay \in Int /\ lost \in Int /\ balance \in Int
  BY <1>1, LargestAmount, NoneIsNoNumber, BatchIsFlag DEF RowTyped, AddQuota, UnderWay
<1>3. changes' = changes + 1 /\ balance' = balance + d
  BY DEF AddQuota
<1>4. changes' * Largest = changes * Largest + Largest /\ changes * Largest \in Nat
  BY <1>2, <1>3, OneMore
<1>5. db' \in [quota : Int, status : {"enabled", "disabled"}]
      /\ \/ store' = store + d /\ db'.quota = db.quota
         \/ store' = store /\ db'.quota = db.quota + d
  <2>1. CASE BatchEnabled /\ ~now
    BY <1>1, <2>1 DEF AddQuota, RowTyped
  <2>2. CASE ~(BatchEnabled /\ ~now)
    <3>1. store' = store /\ db' = [db EXCEPT !.quota = db.quota + d] /\ db.quota + d \in Int
      BY <1>2, <2>2 DEF AddQuota
    <3> QED
      BY <1>1, <3>1 DEF RowTyped
  <2> QED
    BY <2>1, <2>2
<1>6. RowTyped'
  BY <1>1, <1>2, <1>3, <1>5, BatchIsFlag DEF RowTyped
<1>7. JobsTyped'
  <2> DEFINE j == [do |-> "ttl", delta |-> d]
  <2>1. job' = [job EXCEPT ![s] = j] /\ JobIs(j)
    BY DEF AddQuota, Spawn, JobIs
  <2> HIDE DEF j
  <2> QED
    BY <1>1, <2>1 DEF JobsTyped
<1>8. UnderWay' = UnderWay
  BY <1>1 DEF UnderWay
<1>9. InRange'
  <2> DEFINE C == changes * Largest
             D == changes' * Largest
  <2>1. D = C + Largest /\ C \in Nat
    BY <1>4
  <2>2. Distance(store) + Distance(UnderWay) + Distance(db.quota - Start) <= C
    BY <1>1 DEF InRange
  <2> HIDE DEF C, D
  <2>3. Distance(store') + Distance(UnderWay') + Distance(db'.quota - Start) <= D
    BY <1>2, <1>5, <1>8, <2>1, <2>2, StartIsBalance DEF Distance
  <2> QED
    BY <2>3 DEF InRange, D
<1>10. BalanceConserved'
  <2>1. db.quota + store + UnderWay + lost = balance
    BY <1>1 DEF BalanceConserved, UnderWay
  <2>2. db'.quota + store' + UnderWay' + lost' = balance'
    BY <1>1, <1>2, <1>3, <1>5, <1>8, <2>1
  <2> QED
    BY <2>2 DEF BalanceConserved, UnderWay
<1> QED
  BY <1>1, <1>6, <1>7, <1>9, <1>10 DEF CacheInv, HashTyped, AdminTyped

LEMMA TopUpKeeps == ASSUME CacheInv, NEW q \in Amounts, TopUp(q) PROVE CacheInv'
<1>1. /\ RowTyped /\ HashTyped /\ JobsTyped /\ AdminTyped /\ InRange /\ BalanceConserved
      /\ UNCHANGED <<cache, store, taken, job, admin, lost>>
  BY DEF CacheInv, TopUp
<1>2. /\ q \in Nat /\ q <= Largest /\ Largest \in Nat /\ changes \in Nat /\ changes < MaxChanges
      /\ store \in Int /\ db.quota \in Int /\ UnderWay \in Int /\ lost \in Int /\ balance \in Int
  BY <1>1, LargestAmount, NoneIsNoNumber, BatchIsFlag DEF RowTyped, TopUp, UnderWay
<1>3. changes' = changes + 1 /\ balance' = balance + q
  BY DEF TopUp
<1>4. changes' * Largest = changes * Largest + Largest /\ changes * Largest \in Nat
  BY <1>2, <1>3, OneMore
<1>5. db' \in [quota : Int, status : {"enabled", "disabled"}] /\ db'.quota = db.quota + q
  <2>1. db' = [db EXCEPT !.quota = db.quota + q] /\ db.quota + q \in Int
    BY <1>2 DEF TopUp
  <2> QED
    BY <1>1, <2>1 DEF RowTyped
<1>6. RowTyped'
  BY <1>1, <1>2, <1>3, <1>5, BatchIsFlag DEF RowTyped
<1>7. UnderWay' = UnderWay
  BY <1>1 DEF UnderWay
<1>8. InRange'
  <2> DEFINE C == changes * Largest
             D == changes' * Largest
  <2>1. D = C + Largest /\ C \in Nat
    BY <1>4
  <2>2. Distance(store) + Distance(UnderWay) + Distance(db.quota - Start) <= C
    BY <1>1 DEF InRange
  <2> HIDE DEF C, D
  <2>3. Distance(store') + Distance(UnderWay') + Distance(db'.quota - Start) <= D
    BY <1>1, <1>2, <1>5, <1>7, <2>1, <2>2, StartIsBalance DEF Distance
  <2> QED
    BY <2>3 DEF InRange, D
<1>9. BalanceConserved'
  BY <1>1, <1>2, <1>3, <1>5 DEF BalanceConserved, UnderWay
<1> QED
  BY <1>1, <1>6, <1>8, <1>9 DEF CacheInv, HashTyped, JobsTyped, AdminTyped

LEMMA BatchKeeps == ASSUME CacheInv, BatchTake \/ BatchWrite \/ BatchFail PROVE CacheInv'
<1>1. /\ RowTyped /\ HashTyped /\ JobsTyped /\ AdminTyped /\ InRange /\ BalanceConserved
      /\ UNCHANGED <<cache, job, admin, changes, balance>>
  BY DEF CacheInv, BatchTake, BatchWrite, BatchFail
<1>2. /\ store \in Int /\ db.quota \in Int /\ UnderWay \in Int /\ lost \in Int /\ balance \in Int /\ changes \in Nat
      /\ (taken # None => taken \in Int /\ UnderWay = taken)
  BY <1>1, NoneIsNoNumber, BatchIsFlag DEF RowTyped, UnderWay
<1>3. /\ db' \in [quota : Int, status : {"enabled", "disabled"}] /\ store' \in Int /\ taken' \in Int \cup {None}
      /\ lost' \in Int /\ UnderWay' \in Int
      /\ \/ db'.quota = db.quota /\ store' = 0 /\ UnderWay = 0 /\ UnderWay' = store /\ lost' = lost
         \/ db'.quota = db.quota + UnderWay /\ store' = store /\ UnderWay' = 0 /\ lost' = lost
         \/ db'.quota = db.quota /\ store' = store /\ UnderWay' = 0 /\ lost' = lost + UnderWay
  <2>1. CASE BatchTake
    <3>1. taken = None /\ taken' = store /\ store' = 0 /\ db' = db /\ lost' = lost
      BY <2>1 DEF BatchTake
    <3> QED
      BY <1>1, <1>2, <3>1, NoneIsNoNumber DEF RowTyped, UnderWay
  <2>2. CASE BatchWrite
    <3>1. taken # None /\ taken' = None /\ store' = store /\ lost' = lost /\ db' = [db EXCEPT !.quota = db.quota + taken]
      BY <2>2 DEF BatchWrite
    <3>2. db' \in [quota : Int, status : {"enabled", "disabled"}] /\ db'.quota = db.quota + taken
      BY <1>1, <1>2, <3>1 DEF RowTyped
    <3> QED
      BY <1>1, <1>2, <3>1, <3>2 DEF RowTyped, UnderWay
  <2>3. CASE BatchFail
    <3>1. taken # None /\ taken' = None /\ store' = store /\ lost' = lost + taken /\ db' = db
      BY <2>3 DEF BatchFail
    <3> QED
      BY <1>1, <1>2, <3>1 DEF RowTyped, UnderWay
  <2> QED
    BY <2>1, <2>2, <2>3
<1>4. RowTyped'
  BY <1>1, <1>3 DEF RowTyped
<1>5. InRange'
  <2> DEFINE C == changes * Largest
  <2>1. C \in Nat /\ changes' * Largest = C
    BY <1>1, <1>2, OneMore
  <2>2. Distance(store) + Distance(UnderWay) + Distance(db.quota - Start) <= C
    BY <1>1 DEF InRange
  <2> HIDE DEF C
  <2>3. Distance(store') + Distance(UnderWay') + Distance(db'.quota - Start) <= C
    BY <1>2, <1>3, <2>1, <2>2, StartIsBalance DEF Distance
  <2> QED
    BY <2>1, <2>3 DEF InRange
<1>6. BalanceConserved'
  <2>1. db.quota + store + UnderWay + lost = balance
    BY <1>1 DEF BalanceConserved, UnderWay
  <2>2. db'.quota + store' + UnderWay' + lost' = balance'
    BY <1>1, <1>2, <1>3, <2>1
  <2> QED
    BY <2>2 DEF BalanceConserved, UnderWay
<1> QED
  BY <1>1, <1>4, <1>5, <1>6 DEF CacheInv, HashTyped, JobsTyped, AdminTyped


-----------------------------------------------------------------------------
(* Steps of the goroutines and of the administrator. *)

HashSet == [full : BOOLEAN, quota : Int, status : {"enabled", "disabled", "none"}, expires : {TRUE}]

\* A step that leaves the money alone keeps the invariant if the hash, the goroutines
\* and the administrator stay well formed.
LEMMA HashKeeps ==
    ASSUME CacheInv, UNCHANGED <<store, taken, lost, balance, changes>>, db'.quota = db.quota,
           db' \in [quota : Int, status : {"enabled", "disabled"}],
           HashTyped', JobsTyped', AdminTyped'
    PROVE  CacheInv'
<1>1. RowTyped'
  BY DEF CacheInv, RowTyped
<1>2. InRange' /\ BalanceConserved'
  BY MoneyStays DEF CacheInv
<1> QED
  BY <1>1, <1>2 DEF CacheInv

\* A goroutine of slot s ends, or becomes a well-formed j.
LEMMA JobsKept ==
    ASSUME JobsTyped, NEW s \in Slots, NEW j, job' = [job EXCEPT ![s] = j], j = None \/ JobIs(j) PROVE JobsTyped'
BY DEF JobsTyped

LEMMA MissKeeps == ASSUME CacheInv, NEW s \in Slots, GetUserCacheMiss(s) PROVE CacheInv'
<1>1. RowTyped /\ HashTyped /\ JobsTyped /\ AdminTyped
  BY DEF CacheInv
<1> DEFINE j == [do |-> "populate", quota |-> db.quota, status |-> db.status]
<1>2. job' = [job EXCEPT ![s] = j] /\ UNCHANGED <<db, cache, store, taken, admin, changes, balance, lost>>
  BY DEF GetUserCacheMiss, Spawn
<1>3. JobIs(j)
  BY <1>1 DEF RowTyped, JobIs
<1> HIDE DEF j
<1>4. JobsTyped'
  BY <1>1, <1>2, <1>3, JobsKept
<1> QED
  BY <1>1, <1>2, <1>4, HashKeeps DEF HashTyped, AdminTyped, RowTyped

LEMMA GoroutineKeeps == ASSUME CacheInv, NEW s \in Slots, Goroutine(s) PROVE CacheInv'
<1>1. /\ RowTyped /\ HashTyped /\ JobsTyped /\ AdminTyped /\ job[s] # None /\ JobIs(job[s])
      /\ UNCHANGED <<db, store, taken, admin, changes, balance, lost>>
  BY DEF CacheInv, Goroutine, Populate, ReadTTL, Incr, JobsTyped
<1>2. CASE Populate(s)
  <2>1. job' = [job EXCEPT ![s] = None] /\ cache' = Populated(job[s].quota, job[s].status)
    BY <1>2 DEF Populate
  <2>2. job[s].quota \in Int /\ job[s].status \in {"enabled", "disabled"}
    BY <1>1, <1>2 DEF Populate, JobIs
  <2>3. HashTyped'
    BY <2>1, <2>2 DEF HashTyped, Populated
  <2>4. JobsTyped'
    BY <1>1, <2>1, JobsKept
  <2> QED
    BY <1>1, <2>3, <2>4, HashKeeps DEF AdminTyped, RowTyped
<1>3. CASE ReadTTL(s)
  <2> DEFINE k == [job[s] EXCEPT !.do = "incr"]
             j == IF cache = None THEN None ELSE k
  <2>1. job' = [job EXCEPT ![s] = j] /\ UNCHANGED cache
    BY <1>3 DEF ReadTTL
  <2>2. job[s] \in [do : {"ttl", "incr"}, delta : Int]
    BY <1>1, <1>3 DEF ReadTTL, JobIs
  <2>3. j = None \/ JobIs(j)
    <3>1. k \in [do : {"ttl", "incr"}, delta : Int]
      BY <2>2
    <3> QED
      BY <3>1 DEF JobIs
  <2> HIDE DEF j
  <2>4. JobsTyped'
    BY <1>1, <2>1, <2>3, JobsKept
  <2> QED
    BY <1>1, <2>1, <2>4, HashKeeps DEF AdminTyped, RowTyped, HashTyped
<1>4. CASE Incr(s)
  <2>1. job' = [job EXCEPT ![s] = None] /\ cache' = Increased(job[s].delta)
    BY <1>4 DEF Incr
  <2>2. job[s].delta \in Int
    BY <1>1, <1>4 DEF Incr, JobIs
  <2>3. HashTyped'
    <3>1. CASE cache = None
      BY <2>1, <2>2, <3>1 DEF HashTyped, Increased
    <3>2. CASE cache # None
      <4>1. cache \in HashSet /\ cache' = [cache EXCEPT !.quota = cache.quota + job[s].delta]
        BY <1>1, <2>1, <3>2 DEF HashTyped, Increased, HashSet
      <4>2. cache.quota + job[s].delta \in Int
        BY <2>2, <4>1 DEF HashSet
      <4>3. cache' \in HashSet
        BY ONLY <4>1, <4>2 DEF HashSet
      <4> QED
        BY <4>3 DEF HashTyped, HashSet
    <3> QED
      BY <3>1, <3>2
  <2>4. JobsTyped'
    BY <1>1, <2>1, JobsKept
  <2> QED
    BY <1>1, <2>3, <2>4, HashKeeps DEF AdminTyped, RowTyped
<1> QED
  BY <1>2, <1>3, <1>4 DEF Goroutine

LEMMA ManageKeeps == ASSUME CacheInv, ManageLoad \/ ManageOn PROVE CacheInv'
<1>1. /\ RowTyped /\ HashTyped /\ JobsTyped /\ AdminTyped
      /\ UNCHANGED <<store, taken, job, changes, balance, lost>>
  BY DEF CacheInv, ManageLoad, ManageOn, ManageWrite, ManageReadTTL, ManageRefresh, ManageInvalidate
<1>2. JobsTyped'
  BY <1>1 DEF JobsTyped
<1>3. AdminTyped'
  BY <1>1 DEF AdminTyped, RowTyped, ManageLoad, ManageOn, ManageWrite, ManageReadTTL, ManageRefresh, ManageInvalidate
<1>4. db'.quota = db.quota /\ db' \in [quota : Int, status : {"enabled", "disabled"}]
  BY <1>1 DEF RowTyped, ManageLoad, ManageOn, ManageWrite, ManageReadTTL, ManageRefresh, ManageInvalidate
<1>5. HashTyped'
  <2>1. CASE UNCHANGED cache
    BY <1>1, <2>1 DEF HashTyped
  <2>2. CASE cache' = None
    BY <2>2 DEF HashTyped
  <2>3. CASE cache' = Refreshed("disabled")
    <3>1. CASE cache = None
      BY <2>3, <3>1 DEF HashTyped, Refreshed
    <3>2. CASE cache # None
      <4>1. cache \in HashSet /\ cache' = [cache EXCEPT !.status = "disabled"]
        BY <1>1, <2>3, <3>2 DEF HashTyped, Refreshed, HashSet
      <4>2. cache' \in HashSet
        BY <4>1 DEF HashSet
      <4> QED
        BY <4>2 DEF HashTyped, HashSet
    <3> QED
      BY <3>1, <3>2
  <2> QED
    BY <2>1, <2>2, <2>3 DEF ManageLoad, ManageOn, ManageWrite, ManageReadTTL, ManageRefresh, ManageInvalidate
<1> QED
  BY <1>1, <1>2, <1>3, <1>4, <1>5, HashKeeps

\* What the node held in memory is lost, and counted as such.
LEMMA NodeCrashKeeps == ASSUME CacheInv, NodeCrash PROVE CacheInv'
<1>1. /\ RowTyped /\ HashTyped /\ AdminTyped /\ InRange /\ BalanceConserved
      /\ UNCHANGED <<db, cache, balance>> /\ changes < MaxChanges /\ changes' = changes + 1 /\ store' = 0 /\ taken' = None
      /\ lost' = lost + store + UnderWay /\ job' = [s \in Slots |-> None]
      /\ admin' = [admin EXCEPT !.pc = IF @ = "done" THEN @ ELSE "idle"]
  BY DEF CacheInv, NodeCrash, UnderWay
<1>2. /\ store \in Int /\ db.quota \in Int /\ UnderWay \in Int /\ lost \in Int /\ balance \in Int
      /\ changes \in Nat /\ UnderWay' = 0 /\ Largest \in Nat
  BY <1>1, BatchIsFlag, LargestAmount, NoneIsNoNumber DEF RowTyped, UnderWay
<1>3. RowTyped' /\ HashTyped'
  <2>1. db' = db /\ balance' = balance /\ cache' = cache
    BY <1>1
  <2>2. lost' \in Int /\ changes' \in 0 .. MaxChanges /\ store' \in Int /\ taken' \in Int \cup {None}
    BY <1>1, <1>2, BatchIsFlag
  <2>3. RowTyped'
    BY <1>1, <1>2, <2>1, <2>2 DEF RowTyped
  <2> QED
    BY <1>1, <2>1, <2>3 DEF HashTyped
<1>4. JobsTyped' /\ AdminTyped'
  BY <1>1 DEF JobsTyped, AdminTyped
<1>5. InRange'
  <2> DEFINE C == changes * Largest
  <2>1. C \in Nat /\ changes' * Largest = C + Largest
    BY <1>1, <1>2, OneMore
  <2>2. Distance(store) + Distance(UnderWay) + Distance(db.quota - Start) <= C
    BY <1>1 DEF InRange
  <2> HIDE DEF C
  <2>3. Distance(store') + Distance(UnderWay') + Distance(db'.quota - Start) <= C + Largest
    BY <1>1, <1>2, <2>1, <2>2, StartIsBalance DEF Distance
  <2> QED
    BY <2>1, <2>3 DEF InRange
<1>6. BalanceConserved'
  <2>1. db.quota + store + UnderWay + lost = balance
    BY <1>1 DEF BalanceConserved, UnderWay
  <2>2. db'.quota + store' + UnderWay' + lost' = balance'
    BY <1>1, <1>2, <2>1
  <2> QED
    BY <2>2 DEF BalanceConserved, UnderWay
<1> QED
  BY <1>1, <1>3, <1>4, <1>5, <1>6 DEF CacheInv

LEMMA DropKeeps == ASSUME CacheInv, Expire \/ TopUpInvalidate PROVE CacheInv'
<1>1. RowTyped /\ JobsTyped /\ AdminTyped /\ UNCHANGED <<db, store, taken, job, admin, changes, balance, lost>>
  BY DEF CacheInv, Expire, TopUpInvalidate
<1>2. HashTyped'
  BY DEF HashTyped, Expire, TopUpInvalidate
<1> QED
  BY <1>1, <1>2, HashKeeps DEF JobsTyped, AdminTyped, RowTyped

-----------------------------------------------------------------------------
(* The theorem. *)

LEMMA CacheNextInv == CacheInv /\ [CacheNext]_cacheVars => CacheInv'
<1> SUFFICES ASSUME CacheInv, [CacheNext]_cacheVars PROVE CacheInv'
  OBVIOUS
<1>1. CASE UNCHANGED cacheVars
  BY <1>1 DEF cacheVars, CacheInv, RowTyped, HashTyped, JobsTyped, AdminTyped, InRange, BalanceConserved, UnderWay
<1>2. ASSUME NEW s \in Slots, GetUserCacheMiss(s) \/ Goroutine(s) PROVE CacheInv'
  BY <1>2, MissKeeps, GoroutineKeeps
<1>3. ASSUME NEW s \in Slots, NEW q \in Amounts, NEW now \in BOOLEAN,
             DecreaseUserQuota(s, q, now) \/ IncreaseUserQuota(s, q, now)
      PROVE  CacheInv'
  <2>1. q \in Int /\ - q \in Int /\ Distance(q) <= Largest /\ Distance(- q) <= Largest
    BY LargestAmount DEF Distance
  <2> QED
    BY <1>3, <2>1, AddKeeps DEF DecreaseUserQuota, IncreaseUserQuota
<1>4. ASSUME NEW q \in Amounts, TopUp(q) PROVE CacheInv'
  BY <1>4, TopUpKeeps
<1>5. CASE BatchTake \/ BatchWrite \/ BatchFail
  BY <1>5, BatchKeeps
<1>6. CASE ManageLoad \/ ManageOn
  BY <1>6, ManageKeeps
<1>7. CASE Expire \/ TopUpInvalidate
  BY <1>7, DropKeeps
<1>9. CASE NodeCrash
  BY <1>9, NodeCrashKeeps
<1>8. CASE GetUserCacheHit
  BY <1>1, <1>8 DEF GetUserCacheHit
<1> QED
  BY <1>1, <1>2, <1>3, <1>4, <1>5, <1>6, <1>7, <1>8, <1>9 DEF CacheNext

\* Between the row, the batch and Redis no change of a balance is lost or made twice,
\* and nothing wrong can stay in Redis for good (DecreaseUserQuota, batchUpdate,
\* ManageUser, RedisHIncrBy): for every set of amounts, any number of changes and
\* goroutines, with batches and without.
THEOREM CacheIsSound == CacheSpec => []CacheSound
<1>1. CacheInit => CacheInv
  BY CacheInitInv
<1>2. CacheInv /\ [CacheNext]_cacheVars => CacheInv'
  BY CacheNextInv
<1>3. CacheInv => CacheSound
  <2> SUFFICES ASSUME CacheInv PROVE CacheSound
    OBVIOUS
  <2>1. RowTyped /\ HashTyped /\ JobsTyped /\ AdminTyped /\ InRange /\ BalanceConserved
    BY DEF CacheInv
  <2>2. /\ changes \in Nat /\ MaxChanges \in Nat /\ changes <= MaxChanges /\ store \in Int /\ db.quota \in Int
        /\ UnderWay \in Int
    BY <2>1, BatchIsFlag, NoneIsNoNumber DEF RowTyped, UnderWay
  <2>3. changes * Largest <= Turnover /\ Turnover \in Nat /\ changes * Largest \in Nat
    BY <2>2, OneMore DEF Turnover, Largest
  <2> DEFINE C == changes * Largest
  <2>4. /\ Distance(store) + Distance(UnderWay) + Distance(db.quota - Start) <= C
        /\ C \in Nat /\ C <= Turnover
    BY <2>1, <2>3 DEF InRange
  <2> HIDE DEF C
  <2>5. db.quota \in Start - Turnover .. Start + Turnover /\ store \in -Turnover .. Turnover
    BY <2>2, <2>3, <2>4, StartIsBalance DEF Distance
  <2>6. CacheTypeOK
    BY <2>1, <2>5 DEF CacheTypeOK, RowTyped, HashTyped, JobsTyped, JobIs, AdminTyped
  <2>7. EveryHashExpires
    BY <2>1 DEF EveryHashExpires, HashTyped
  <2> QED
    BY <2>1, <2>6, <2>7 DEF CacheSound
<1> QED
  BY <1>1, <1>2, <1>3, PTL DEF CacheSpec
=============================================================================
