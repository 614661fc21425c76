----------------------------- MODULE GroupProofs ----------------------------
(***************************************************************************)
(* The limits of a group hold for any number of requests and any policy,   *)
(* and no group is lent over a subscription where the database locks the   *)
(* gap that the check has read.                                            *)
(*                                                                         *)
(* The limits are enforced by counting rows, so what has to be invariant   *)
(* is that rows and requests agree: a row outlasts the period its request  *)
(* counts in, and a live request whose heartbeat keeps up holds a lease.   *)
(***************************************************************************)
EXTENDS UserGroup, GroupRateLease, FiniteSetTheorems, TLAPS

Phases == {"new", "refused", "probe", "budget", "serve", "failing", "done", "dead"}
Recorded == [found : BOOLEAN, start : Nat, completed : Nat, until : Nat, retain : Nat,
             tokens : Nat, success : BOOLEAN]

RateTyped ==
    /\ policy \in Policies /\ clock \in Nat \ {0}
    /\ row \in [Calls -> Recorded]
    /\ req \in [Calls -> Phases]
    /\ started \in [Calls -> Nat]

\* The row of request r: when it was admitted, for as long as that counts.
Noted(r) ==
    /\ row[r].completed <= clock /\ row[r].start <= clock
    /\ policy.budgeted => row[r].tokens <= TPMLimit
    /\ req[r] \in {"new", "refused"} => ~row[r].found /\ started[r] = 0
    /\ row[r].found => started[r] = row[r].start /\ row[r].retain >= row[r].start + Period
    /\ started[r] > 0 /\ ~row[r].found => started[r] + Period < clock

\* A live request has not completed its row, and holds it if heartbeats keep up.
Live(r) ==
    r \in Running =>
        /\ row[r].found => row[r].completed = 0
        /\ policy.timely => row[r].found /\ row[r].until > clock

Recent == {r \in Calls : started[r] > 0 /\ started[r] > clock - Period}
Taking == SucceededSince(clock - Period) \cup Pending
Counted == Pending \cup CompletedSince(clock - Minute)

\* More than ConcurrencyBound: the requests of dead nodes count as well.
PendingBound ==
    policy.timely /\ ConcurrencyLimit > 0 => Cardinality(Pending) <= ConcurrencyLimit

RateBounds == WindowBound /\ PendingBound /\ SuccessBound /\ TokenBound

RateInv ==
    /\ RateTyped
    /\ \A r \in Calls : Noted(r) /\ Live(r)
    /\ RateBounds

-----------------------------------------------------------------------------
(* Counting.                                                               *)

\* The fields of a policy.
LEMMA PolicyTyped ==
    ASSUME policy \in Policies
    PROVE  /\ Period \in Nat \ {0} /\ policy.timely \in BOOLEAN /\ policy.budgeted \in BOOLEAN
           /\ MaxRequests \in Nat /\ ConcurrencyLimit \in Nat
           /\ MaxSuccessfulRequests \in Nat /\ TPMLimit \in Nat
           /\ Lease \in Nat \ {0} /\ Minute \in Nat \ {0}
BY RateAssumption
   DEF Period, MaxRequests, ConcurrencyLimit, MaxSuccessfulRequests, TPMLimit

\* A set that was below the limit and gains one element is within it.
LEMMA OneMore ==
    ASSUME NEW S, IsFiniteSet(S), NEW x, NEW T \in SUBSET (S \cup {x}),
           NEW n \in Nat, Cardinality(S) < n
    PROVE  IsFiniteSet(T) /\ Cardinality(T) <= n
<1>1. IsFiniteSet(S \cup {x}) /\ Cardinality(S \cup {x}) <= Cardinality(S) + 1
  <2>1. Cardinality(S) \in Nat
      BY FS_CardinalityType
  <2>2. /\ IsFiniteSet(S \cup {x})
        /\ Cardinality(S \cup {x}) = IF x \in S THEN Cardinality(S) ELSE Cardinality(S) + 1
      BY FS_AddElement
  <2>. QED
      BY <2>1, <2>2
<1>2. IsFiniteSet(T) /\ Cardinality(T) <= Cardinality(S \cup {x})
    BY <1>1, FS_Subset
<1>3. Cardinality(S) \in Nat /\ Cardinality(T) \in Nat /\ Cardinality(S \cup {x}) \in Nat
    BY <1>1, <1>2, FS_CardinalityType
<1>. QED
    BY <1>1, <1>2, <1>3

\* A set within the limit stays within it when it shrinks.
LEMMA NoMore ==
    ASSUME NEW S, IsFiniteSet(S), NEW T \in SUBSET S, NEW n \in Nat, Cardinality(S) <= n
    PROVE  IsFiniteSet(T) /\ Cardinality(T) <= n
<1>1. IsFiniteSet(T) /\ Cardinality(T) <= Cardinality(S)
    BY FS_Subset
<1>. QED
    BY <1>1, FS_CardinalityType

\* A request succeeded or is under way, never both: SuccessBound counts a set.
LEMMA SuccessesAreTaking ==
    ASSUME RateTyped
    PROVE  /\ IsFiniteSet(Taking)
           /\ Cardinality(Taking) = Cardinality(SucceededSince(clock - Period)) + Cardinality(Pending)
<1>1. Pending \in SUBSET Calls /\ SucceededSince(clock - Period) \in SUBSET Calls
    BY DEF Pending, Rows, SucceededSince, CompletedSince
<1>2. IsFiniteSet(Pending) /\ IsFiniteSet(SucceededSince(clock - Period))
    BY <1>1, FS_Subset, RateAssumption
<1>3. SucceededSince(clock - Period) \cap Pending = {}
    BY DEF Pending, Rows, SucceededSince, CompletedSince, RateTyped, Recorded
<1>4. /\ Cardinality(Pending) \in Nat /\ Cardinality(SucceededSince(clock - Period)) \in Nat
      /\ Cardinality(SucceededSince(clock - Period) \cap Pending) = 0
    BY <1>2, <1>3, FS_CardinalityType, FS_EmptySet
<1>5. /\ IsFiniteSet(Taking)
      /\ Cardinality(Taking) = Cardinality(SucceededSince(clock - Period)) + Cardinality(Pending)
                               - Cardinality(SucceededSince(clock - Period) \cap Pending)
    BY <1>2, FS_Union DEF Taking
<1>. QED
    BY <1>4, <1>5

\* The same of the next state.
LEMMA SuccessesAreTakingNext ==
    (RateTyped =>
        Cardinality(Taking) = Cardinality(SucceededSince(clock - Period)) + Cardinality(Pending))'
<1>1. RateTyped =>
          Cardinality(Taking) = Cardinality(SucceededSince(clock - Period)) + Cardinality(Pending)
    BY SuccessesAreTaking
<1>. QED
    BY <1>1, PTL

\* The tokens that count are finitely many.
LEMMA UnitsFinite ==
    ASSUME RateTyped, \A r \in Calls : row[r].tokens <= TPMLimit,
           NEW S \in SUBSET Calls
    PROVE  /\ TokenUnits(S) \in SUBSET (Calls \X (1 .. TPMLimit))
           /\ IsFiniteSet(TokenUnits(S)) /\ TokenSum(S) \in Nat
<1>0. TPMLimit \in Nat
    BY PolicyTyped DEF RateTyped
<1>1. TokenUnits(S) \in SUBSET (Calls \X (1 .. TPMLimit))
  <2>1. \A s \in S : row[s].tokens \in Nat /\ row[s].tokens <= TPMLimit
      BY DEF RateTyped, Recorded
  <2>. QED
      BY <1>0, <2>1 DEF TokenUnits
<1>2. IsFiniteSet(1 .. TPMLimit)
    BY <1>0, FS_Interval
<1>3. IsFiniteSet(Calls \X (1 .. TPMLimit))
    BY <1>2, FS_Product, RateAssumption
<1>4. IsFiniteSet(TokenUnits(S))
    BY <1>1, <1>3, FS_Subset
<1>. QED
    BY <1>1, <1>4, FS_CardinalityType DEF TokenSum


\* What counts of request q does not grow in a step.
Fades(q) ==
    /\ started'[q] = started[q]
    /\ policy.timely =>
          /\ q \in Pending' => q \in Pending
          /\ q \in Taking' => q \in Taking
          /\ q \in Counted' => q \in Counted /\ (policy.budgeted => row'[q].tokens <= row[q].tokens)

\* The units of the requests that count.
LEMMA UnitsOf ==
    ASSUME RateTyped, NEW S \in SUBSET Calls, NEW u
    PROVE  u \in TokenUnits(S) <=>
              \E s \in S : \E k \in Nat : k >= 1 /\ k <= row[s].tokens /\ u = <<s, k>>
<1>1. \A s \in S : row[s].tokens \in Nat
    BY DEF RateTyped, Recorded
<1>. QED
    BY <1>1 DEF TokenUnits

\* The same of the next state.
LEMMA UnitsOfNext ==
    ASSUME RateTyped', NEW S \in SUBSET Calls, NEW u
    PROVE  u \in UNION {{s} \X (1 .. row'[s].tokens) : s \in S} <=>
              \E s \in S : \E k \in Nat : k >= 1 /\ k <= row'[s].tokens /\ u = <<s, k>>
<1>1. \A s \in S : row'[s].tokens \in Nat
    BY DEF RateTyped, Recorded
<1>. QED
    BY <1>1

\* Where what counts does not grow, the limits go on to hold.
LEMMA BoundsFade ==
    ASSUME RateInv, RateTyped', policy' = policy, clock' >= clock,
           \A q \in Calls : Fades(q)
    PROVE  RateBounds'
<1>. USE DEF RateInv, RateBounds
<1>p. /\ Period \in Nat \ {0} /\ policy.timely \in BOOLEAN /\ policy.budgeted \in BOOLEAN
      /\ MaxRequests \in Nat /\ ConcurrencyLimit \in Nat
      /\ MaxSuccessfulRequests \in Nat /\ TPMLimit \in Nat
    BY PolicyTyped DEF RateTyped
<1>q. /\ Period' = Period /\ MaxRequests' = MaxRequests
      /\ ConcurrencyLimit' = ConcurrencyLimit /\ TPMLimit' = TPMLimit
      /\ MaxSuccessfulRequests' = MaxSuccessfulRequests
    BY DEF Period, MaxRequests, ConcurrencyLimit, TPMLimit, MaxSuccessfulRequests
<1>c. clock \in Nat /\ clock' \in Nat
    BY DEF RateTyped
<1>1. WindowBound'
  <2>1. Recent' \in SUBSET Recent
      BY <1>p, <1>q, <1>c DEF Recent, Fades, RateTyped
  <2>2. IsFiniteSet(Recent)
      BY FS_Subset, RateAssumption DEF Recent
  <2>3. MaxRequests > 0 => Cardinality(Recent) <= MaxRequests
      BY DEF WindowBound, Recent
  <2>4. MaxRequests > 0 => Cardinality(Recent') <= MaxRequests
      BY <1>p, <2>1, <2>2, <2>3, NoMore
  <2>. QED
      BY <1>q, <2>4 DEF WindowBound, Recent
<1>2. PendingBound'
  <2>1. SUFFICES ASSUME policy.timely, ConcurrencyLimit > 0
                 PROVE  Cardinality(Pending') <= ConcurrencyLimit
      BY <1>q DEF PendingBound
  <2>2. Pending' \in SUBSET Calls /\ Pending \in SUBSET Calls
      BY DEF Pending, Rows
  <2>3. Pending' \in SUBSET Pending
      BY <2>1, <2>2 DEF Fades
  <2>4. IsFiniteSet(Pending)
      BY <2>2, FS_Subset, RateAssumption
  <2>. QED
      BY <1>p, <2>1, <2>3, <2>4, NoMore DEF PendingBound
<1>3. SuccessBound'
  <2>1. SUFFICES ASSUME policy.timely, MaxSuccessfulRequests > 0
                 PROVE  Cardinality(Taking') <= MaxSuccessfulRequests
    <3>1. Cardinality(Taking') = (Cardinality(SucceededSince(clock - Period)) + Cardinality(Pending))'
        BY SuccessesAreTakingNext
    <3>. QED
        BY <1>q, <3>1 DEF SuccessBound
  <2>2. Taking' \in SUBSET Calls /\ Taking \in SUBSET Calls
      BY DEF Taking, SucceededSince, CompletedSince, Pending, Rows
  <2>3. Taking' \in SUBSET Taking
      BY <2>1, <2>2 DEF Fades
  <2>4. IsFiniteSet(Taking) /\ Cardinality(Taking) <= MaxSuccessfulRequests
      BY <2>1, SuccessesAreTaking DEF SuccessBound
  <2>. QED
      BY <1>p, <2>3, <2>4, NoMore
<1>4. TokenBound'
  <2>1. SUFFICES ASSUME policy.timely, policy.budgeted, TPMLimit > 0
                 PROVE  TokenSum(Counted)' <= TPMLimit
      BY <1>q DEF TokenBound, Counted
  <2>2. Counted' \in SUBSET Calls /\ Counted \in SUBSET Calls
      BY DEF Counted, CompletedSince, Pending, Rows
  <2>3. \A q \in Calls : row[q].tokens \in Nat /\ row'[q].tokens \in Nat
      BY DEF RateTyped, Recorded
  <2>4. TokenUnits(Counted)' \in SUBSET TokenUnits(Counted)
    <3>1. SUFFICES ASSUME NEW u \in TokenUnits(Counted)'
                   PROVE  u \in TokenUnits(Counted)
        OBVIOUS
    <3>2. PICK s \in Counted' : \E k \in Nat : k >= 1 /\ k <= row'[s].tokens /\ u = <<s, k>>
        BY <2>2, <3>1, UnitsOfNext DEF TokenUnits
    <3>3. PICK k \in Nat : k >= 1 /\ k <= row'[s].tokens /\ u = <<s, k>>
        BY <3>2
    <3>4. s \in Counted /\ row'[s].tokens <= row[s].tokens
        BY <2>1, <2>2, <3>2 DEF Fades
    <3>5. k <= row[s].tokens
        BY <2>2, <2>3, <3>3, <3>4
    <3>. QED
        BY <2>2, <3>3, <3>4, <3>5, UnitsOf
  <2>5. IsFiniteSet(TokenUnits(Counted))
      BY <2>1, <2>2, UnitsFinite DEF Noted
  <2>6. Cardinality(TokenUnits(Counted)) <= TPMLimit
      BY <2>1 DEF TokenBound, TokenSum, Counted
  <2>7. Cardinality(TokenUnits(Counted)') <= TPMLimit
      BY <1>p, <2>4, <2>5, <2>6, NoMore
  <2>. QED
      BY <2>7 DEF TokenSum
<1>. QED
    BY <1>1, <1>2, <1>3, <1>4


-----------------------------------------------------------------------------
(* The steps.                                                              *)

LEMMA RateStarts == RateInit => RateInv
<1>. SUFFICES ASSUME RateInit PROVE RateInv
    OBVIOUS
<1>p. /\ Period \in Nat \ {0} /\ policy.timely \in BOOLEAN /\ policy.budgeted \in BOOLEAN
      /\ MaxRequests \in Nat /\ ConcurrencyLimit \in Nat
      /\ MaxSuccessfulRequests \in Nat /\ TPMLimit \in Nat
    BY PolicyTyped DEF RateInit
<1>1. RateTyped
    BY DEF RateInit, RateTyped, Recorded, NoRow, Phases
<1>2. \A q \in Calls : Noted(q) /\ Live(q)
    BY <1>p DEF RateInit, Noted, Live, NoRow, Running
<1>3. Pending = {} /\ CompletedSince(clock - Minute) = {} /\ SucceededSince(clock - Period) = {}
      /\ Recent = {}
    BY DEF RateInit, NoRow, Pending, Rows, CompletedSince, SucceededSince, Recent
<1>4. TokenUnits(Pending \cup CompletedSince(clock - Minute)) = {}
    BY <1>3 DEF TokenUnits
<1>5. Cardinality({}) = 0
    BY FS_EmptySet
<1>6. WindowBound
  <2>1. SUFFICES MaxRequests > 0 => Cardinality(Recent) <= MaxRequests
      BY DEF WindowBound, Recent
  <2>. QED
      BY <1>p, <1>3, <1>5
<1>7. PendingBound /\ SuccessBound
    BY <1>p, <1>3, <1>5 DEF PendingBound, SuccessBound
<1>8. TokenBound
  <2>1. TokenSum(Pending \cup CompletedSince(clock - Minute)) = 0
      BY <1>4, <1>5 DEF TokenSum
  <2>. QED
      BY <1>p, <2>1 DEF TokenBound
<1>. QED
    BY <1>1, <1>2, <1>6, <1>7, <1>8 DEF RateInv, RateBounds

\* A step that moves handlers only.
LEMMA PhaseKeeps ==
    ASSUME RateInv, UNCHANGED <<policy, clock, row, started>>,
           req' \in [Calls -> Phases],
           \A q \in Calls : q \in Running' => q \in Running,
           \A q \in Calls : req'[q] \in {"new", "refused"} => req[q] \in {"new", "refused"}
    PROVE  RateInv'
<1>1. RateTyped'
    BY DEF RateInv, RateTyped
<1>2. \A q \in Calls : Noted(q)'
    BY DEF RateInv, Noted, TPMLimit, Period
<1>3. \A q \in Calls : Live(q)'
    BY DEF RateInv, Live, Running
<1>4. \A q \in Calls : Fades(q)
  <2>1. Pending' = Pending /\ Taking' = Taking /\ Counted' = Counted
      BY DEF Pending, Taking, Counted, SucceededSince, CompletedSince, Rows, Period
  <2>2. \A q \in Calls : row[q].tokens \in Nat
      BY DEF RateInv, RateTyped, Recorded
  <2>. QED
      BY <2>1, <2>2 DEF Fades
<1>5. clock \in Nat
    BY DEF RateInv, RateTyped
<1>6. RateBounds'
    BY <1>1, <1>4, <1>5, BoundsFade
<1>. QED
    BY <1>1, <1>2, <1>3, <1>6 DEF RateInv

LEMMA AcquireKeeps ==
    ASSUME RateInv, NEW r \in Calls, AcquireGroupRateLease(r)
    PROVE  RateInv'
<1>t. /\ policy \in Policies /\ clock \in Nat \ {0} /\ row \in [Calls -> Recorded]
      /\ req \in [Calls -> Phases] /\ started \in [Calls -> Nat]
    BY DEF RateInv, RateTyped
<1>p. /\ Period \in Nat \ {0} /\ policy.timely \in BOOLEAN /\ policy.budgeted \in BOOLEAN
      /\ MaxRequests \in Nat /\ ConcurrencyLimit \in Nat
      /\ MaxSuccessfulRequests \in Nat /\ TPMLimit \in Nat
      /\ Lease \in Nat \ {0} /\ Minute \in Nat \ {0}
    BY <1>t, PolicyTyped
<1>a. req[r] = "new" /\ policy' = policy /\ clock' = clock
    BY DEF AcquireGroupRateLease
<1>1. CASE Limited
  <2>1. req' = [req EXCEPT ![r] = "refused"] /\ UNCHANGED <<row, started>>
      BY <1>1 DEF AcquireGroupRateLease
  <2>2. req' \in [Calls -> Phases]
      BY <1>t, <2>1 DEF Phases
  <2>3. \A q \in Calls : q \in Running' => q \in Running
      BY <1>t, <2>1 DEF Running
  <2>4. \A q \in Calls : req'[q] \in {"new", "refused"} => req[q] \in {"new", "refused"}
      BY <1>t, <1>a, <2>1
  <2>. QED
      BY <1>a, <2>1, <2>2, <2>3, <2>4, PhaseKeeps
<1>2. CASE ~Limited
  <2>0. /\ row' = [row EXCEPT ![r] = [NoRow EXCEPT !.found = TRUE, !.start = clock,
                                        !.until = clock + Lease,
                                        !.retain = clock + Period + Lease]]
        /\ started' = [started EXCEPT ![r] = clock]
        /\ req' = [req EXCEPT ![r] = IF TPMLimit > 0 THEN "probe" ELSE "serve"]
      BY <1>2 DEF AcquireGroupRateLease
  <2>1. /\ row'[r].found /\ row'[r].start = clock /\ row'[r].completed = 0
        /\ row'[r].until = clock + Lease /\ row'[r].retain = clock + Period + Lease
        /\ row'[r].tokens = 0 /\ row'[r].success = FALSE /\ row'[r] \in Recorded
    <3>1. row'[r] = [NoRow EXCEPT !.found = TRUE, !.start = clock, !.until = clock + Lease,
                                  !.retain = clock + Period + Lease]
        BY <1>t, <2>0
    <3>2. row'[r] = [found |-> TRUE, start |-> clock, completed |-> 0, until |-> clock + Lease,
                     retain |-> clock + Period + Lease, tokens |-> 0, success |-> FALSE]
        BY <3>1 DEF NoRow
    <3>3. clock \in Nat /\ clock + Lease \in Nat /\ clock + Period + Lease \in Nat
        BY <1>t, <1>p
    <3>. QED
        BY <3>2, <3>3 DEF Recorded
  <2>2. \A q \in Calls : q # r =>
            row'[q] = row[q] /\ started'[q] = started[q] /\ req'[q] = req[q]
      BY <1>t, <2>0
  <2>3. /\ started'[r] = clock /\ req'[r] \in {"probe", "serve"}
        /\ started[r] = 0 /\ ~row[r].found
      BY <1>t, <1>a, <2>0 DEF RateInv, Noted
  <2>4. RateTyped'
    <3>1. row' \in [Calls -> Recorded]
        BY <1>t, <2>0, <2>1
    <3>2. req' \in [Calls -> Phases] /\ started' \in [Calls -> Nat]
        BY <1>t, <2>0 DEF Phases
    <3>. QED
        BY <1>t, <1>a, <3>1, <3>2 DEF RateTyped
  <2>q. /\ Period' = Period /\ MaxRequests' = MaxRequests
        /\ ConcurrencyLimit' = ConcurrencyLimit /\ TPMLimit' = TPMLimit
        /\ MaxSuccessfulRequests' = MaxSuccessfulRequests
      BY <1>a DEF Period, MaxRequests, ConcurrencyLimit, TPMLimit, MaxSuccessfulRequests
  <2>5. \A q \in Calls : Noted(q)'
    <3>1. Noted(r)'
        BY <1>t, <1>p, <1>a, <2>1, <2>3, <2>q DEF Noted
    <3>2. \A q \in Calls : q # r => Noted(q)'
        BY <1>a, <2>2, <2>q DEF RateInv, Noted
    <3>. QED
        BY <3>1, <3>2
  <2>6. \A q \in Calls : Live(q)'
    <3>1. Live(r)'
        BY <1>t, <1>p, <1>a, <2>1 DEF Live
    <3>2. \A q \in Calls : q # r => Live(q)'
        BY <1>a, <2>2 DEF RateInv, Live, Running
    <3>. QED
        BY <3>1, <3>2
  <2>7. RateBounds'
    <3>a. \A q \in Calls : q # r =>
              /\ q \in Pending' <=> q \in Pending
              /\ q \in SucceededSince(clock - Period)' <=> q \in SucceededSince(clock - Period)
              /\ q \in CompletedSince(clock - Minute)' <=> q \in CompletedSince(clock - Minute)
        BY <1>a, <2>2, <2>q DEF Pending, SucceededSince, CompletedSince, Rows
    <3>b. /\ r \notin Pending /\ r \notin SucceededSince(clock - Period)'
          /\ r \notin CompletedSince(clock - Minute)'
        BY <1>t, <1>p, <2>1, <2>3 DEF Pending, SucceededSince, CompletedSince, Rows
    <3>c. /\ Pending' \in SUBSET Calls /\ Taking' \in SUBSET Calls
          /\ Counted' \in SUBSET Calls /\ Counted \in SUBSET Calls
        BY DEF Pending, Taking, Counted, SucceededSince, CompletedSince, Rows
    <3>1. WindowBound'
      <4>1. SUFFICES ASSUME MaxRequests > 0
                     PROVE  Cardinality(Recent') <= MaxRequests
          BY <2>q DEF WindowBound, Recent
      <4>2. IsFiniteSet(StartedSince(clock - Period))
          BY FS_Subset, RateAssumption DEF StartedSince, Rows
      <4>3. Cardinality(StartedSince(clock - Period)) < MaxRequests
        <5>1. Cardinality(StartedSince(clock - Period)) \in Nat
            BY <4>2, FS_CardinalityType
        <5>. QED
            BY <1>2, <1>p, <4>1, <5>1 DEF Limited, Reaches
      <4>4. Recent' \in SUBSET (StartedSince(clock - Period) \cup {r})
        <5>1. SUFFICES ASSUME NEW q \in Calls, q \in Recent', q # r
                       PROVE  q \in StartedSince(clock - Period)
            BY DEF Recent
        <5>2. started[q] > 0 /\ started[q] > clock - Period /\ started[q] \in Nat
            BY <1>t, <1>a, <2>2, <2>q, <5>1 DEF Recent
        <5>3. row[q].found /\ row[q].start = started[q]
            BY <1>t, <1>p, <5>2 DEF RateInv, Noted
        <5>. QED
            BY <5>2, <5>3 DEF StartedSince, Rows
      <4>. QED
          BY <1>p, <4>2, <4>3, <4>4, OneMore
    <3>2. PendingBound'
      <4>1. SUFFICES ASSUME policy.timely, ConcurrencyLimit > 0
                     PROVE  Cardinality(Pending') <= ConcurrencyLimit
          BY <1>a, <2>q DEF PendingBound
      <4>2. IsFiniteSet(Pending)
          BY FS_Subset, RateAssumption DEF Pending, Rows
      <4>3. Cardinality(Pending) < ConcurrencyLimit
        <5>1. Cardinality(Pending) \in Nat
            BY <4>2, FS_CardinalityType
        <5>. QED
            BY <1>2, <1>p, <4>1, <5>1 DEF Limited, Reaches
      <4>4. Pending' \in SUBSET (Pending \cup {r})
          BY <3>a, <3>c
      <4>. QED
          BY <1>p, <4>2, <4>3, <4>4, OneMore
    <3>3. SuccessBound'
      <4>1. SUFFICES ASSUME policy.timely, MaxSuccessfulRequests > 0
                     PROVE  Cardinality(Taking') <= MaxSuccessfulRequests
        <5>1. Cardinality(Taking') = (Cardinality(SucceededSince(clock - Period)) + Cardinality(Pending))'
            BY <2>4, SuccessesAreTakingNext
        <5>. QED
            BY <1>a, <2>q, <5>1 DEF SuccessBound
      <4>2. IsFiniteSet(Taking) /\ Cardinality(Taking) = SuccessesTaken
          BY SuccessesAreTaking DEF RateInv, SuccessesTaken
      <4>3. Cardinality(Taking) < MaxSuccessfulRequests
        <5>1. Cardinality(Taking) \in Nat
            BY <4>2, FS_CardinalityType
        <5>. QED
            BY <1>2, <1>p, <4>1, <4>2, <5>1 DEF Limited, Reaches
      <4>4. Taking' \in SUBSET (Taking \cup {r})
          BY <3>a, <3>c DEF Taking
      <4>. QED
          BY <1>p, <4>2, <4>3, <4>4, OneMore
    <3>4. TokenBound'
      <4>1. SUFFICES ASSUME policy.timely, policy.budgeted, TPMLimit > 0
                     PROVE  TokenSum(Counted)' <= TPMLimit
          BY <1>a, <2>q DEF TokenBound, Counted
      <4>2. TokenUnits(Counted)' \in SUBSET TokenUnits(Counted)
        <5>1. SUFFICES ASSUME NEW u \in TokenUnits(Counted)'
                       PROVE  u \in TokenUnits(Counted)
            OBVIOUS
        <5>2. PICK s \in Counted' : \E k \in Nat : k >= 1 /\ k <= row'[s].tokens /\ u = <<s, k>>
            BY <2>4, <3>c, <5>1, UnitsOfNext DEF TokenUnits
        <5>3. s # r
            BY <2>1, <5>2
        <5>4. s \in Counted /\ row'[s] = row[s]
            BY <2>2, <3>a, <3>c, <5>2, <5>3 DEF Counted
        <5>. QED
            BY <3>c, <5>2, <5>4, UnitsOf DEF RateInv
      <4>3. IsFiniteSet(TokenUnits(Counted))
          BY <3>c, <4>1, UnitsFinite DEF RateInv, Noted
      <4>4. Cardinality(TokenUnits(Counted)) <= TPMLimit
          BY <4>1 DEF RateInv, RateBounds, TokenBound, TokenSum, Counted
      <4>5. Cardinality(TokenUnits(Counted)') <= TPMLimit
          BY <1>p, <4>2, <4>3, <4>4, NoMore
      <4>. QED
          BY <4>5 DEF TokenSum
    <3>. QED
        BY <3>1, <3>2, <3>3, <3>4 DEF RateBounds
  <2>. QED
      BY <2>4, <2>5, <2>6, <2>7 DEF RateInv
<1>. QED
    BY <1>1, <1>2


LEMMA ReserveKeeps ==
    ASSUME RateInv, NEW r \in Calls, NEW tokens \in Nat, ReserveGroupRateTokens(r, tokens)
    PROVE  RateInv'
<1>t. /\ policy \in Policies /\ clock \in Nat \ {0} /\ row \in [Calls -> Recorded]
      /\ req \in [Calls -> Phases] /\ started \in [Calls -> Nat]
    BY DEF RateInv, RateTyped
<1>p. /\ Period \in Nat \ {0} /\ policy.timely \in BOOLEAN /\ policy.budgeted \in BOOLEAN /\ TPMLimit \in Nat
    BY <1>t, PolicyTyped
<1>a. req[r] \in {"probe", "budget"} /\ UNCHANGED <<policy, clock, started>>
    BY DEF ReserveGroupRateTokens
<1>r. r \in Running
    BY <1>a DEF Running
<1>1. CASE ~(row[r].found /\ row[r].completed = 0 /\ Fits(r, tokens))
  <2>1. req' = [req EXCEPT ![r] = "failing"] /\ UNCHANGED row
      BY <1>1 DEF ReserveGroupRateTokens
  <2>2. req' \in [Calls -> Phases]
      BY <1>t, <2>1 DEF Phases
  <2>3. \A q \in Calls : q \in Running' => q \in Running
      BY <1>t, <1>r, <2>1 DEF Running
  <2>4. \A q \in Calls : req'[q] \in {"new", "refused"} => req[q] \in {"new", "refused"}
      BY <1>t, <2>1
  <2>. QED
      BY <1>a, <2>1, <2>2, <2>3, <2>4, PhaseKeeps
<1>2. CASE row[r].found /\ row[r].completed = 0 /\ Fits(r, tokens)
  <2>0. /\ row' = [row EXCEPT ![r].tokens = tokens]
        /\ req' = [req EXCEPT ![r] = IF @ = "probe" THEN "budget" ELSE "serve"]
      BY <1>2 DEF ReserveGroupRateTokens
  <2>1. /\ row'[r].found = row[r].found /\ row'[r].start = row[r].start
        /\ row'[r].completed = row[r].completed /\ row'[r].until = row[r].until
        /\ row'[r].retain = row[r].retain /\ row'[r].success = row[r].success
        /\ row'[r].tokens = tokens /\ row'[r] \in Recorded
    <3>1. row'[r] = [row[r] EXCEPT !.tokens = tokens] /\ row[r] \in Recorded
        BY <1>t, <2>0
    <3>. QED
        BY <3>1 DEF Recorded
  <2>2. \A q \in Calls : q # r => row'[q] = row[q] /\ req'[q] = req[q]
      BY <1>t, <2>0
  <2>3. req'[r] \in {"budget", "serve"}
      BY <1>t, <2>0
  <2>4. RateTyped'
    <3>1. row' \in [Calls -> Recorded]
        BY <1>t, <2>0, <2>1
    <3>2. req' \in [Calls -> Phases]
        BY <1>t, <2>0 DEF Phases
    <3>. QED
        BY <1>t, <1>a, <3>1, <3>2 DEF RateTyped
  <2>q. Period' = Period /\ TPMLimit' = TPMLimit
      BY <1>a DEF Period, TPMLimit
  <2>c. /\ Counted \in SUBSET Calls /\ TokensCounted(r) \in SUBSET Calls
        /\ TokensCounted(r) = Counted \ {r}
      BY DEF Counted, TokensCounted, Pending, CompletedSince, Rows
  <2>f. ASSUME policy.budgeted
        PROVE  IsFiniteSet(TokenUnits(TokensCounted(r))) /\ TokensUsed(r) \in Nat
      BY <2>c, <2>f, UnitsFinite DEF RateInv, Noted, TokensUsed
  <2>g. ASSUME policy.budgeted
        PROVE  TokensUsed(r) + tokens <= TPMLimit
      BY <1>2, <1>p, <2>f, <2>g DEF Fits
  <2>5. \A q \in Calls : Noted(q)'
    <3>1. Noted(r)'
      <4>1. policy.budgeted => tokens <= TPMLimit
          BY <1>p, <2>f, <2>g
      <4>. QED
          BY <1>2, <1>a, <2>1, <2>3, <2>q, <4>1 DEF RateInv, Noted
    <3>2. \A q \in Calls : q # r => Noted(q)'
        BY <1>a, <2>2, <2>q DEF RateInv, Noted
    <3>. QED
        BY <3>1, <3>2
  <2>6. \A q \in Calls : Live(q)'
      BY <1>a, <1>r, <2>1, <2>2 DEF RateInv, Live, Running
  <2>7. /\ Pending' = Pending /\ Recent' = Recent
        /\ SucceededSince(clock - Period)' = SucceededSince(clock - Period)
        /\ CompletedSince(clock - Minute)' = CompletedSince(clock - Minute)
    <3>1. \A q \in Calls :
              /\ row'[q].found = row[q].found /\ row'[q].completed = row[q].completed
              /\ row'[q].until = row[q].until /\ row'[q].success = row[q].success
        BY <2>1, <2>2
    <3>2. Rows' = Rows
        BY <3>1 DEF Rows
    <3>3. Pending' = Pending
        BY <1>a, <3>1, <3>2 DEF Pending, Rows
    <3>4. CompletedSince(clock - Minute)' = CompletedSince(clock - Minute)
        BY <1>a, <3>1, <3>2 DEF CompletedSince, Rows
    <3>5. CompletedSince(clock - Period)' = CompletedSince(clock - Period)
        BY <1>a, <2>q, <3>1, <3>2 DEF CompletedSince, Rows
    <3>6. SucceededSince(clock - Period)' = SucceededSince(clock - Period)
        BY <3>1, <3>5 DEF SucceededSince, CompletedSince, Rows
    <3>. QED
        BY <1>a, <2>q, <3>3, <3>4, <3>6 DEF Recent
  <2>8. WindowBound' /\ PendingBound' /\ SuccessBound'
    <3>1. WindowBound' = WindowBound
        BY <1>a, <2>q DEF WindowBound, MaxRequests
    <3>2. PendingBound' = PendingBound
        BY <1>a, <2>7 DEF PendingBound, ConcurrencyLimit
    <3>3. SuccessBound' = SuccessBound
        BY <1>a, <2>7 DEF SuccessBound, MaxSuccessfulRequests
    <3>. QED
        BY <3>1, <3>2, <3>3 DEF RateInv, RateBounds
  <2>9. TokenBound'
    <3>1. SUFFICES ASSUME policy.budgeted
                   PROVE  TokenSum(Counted)' <= TPMLimit
        BY <1>a, <2>q DEF TokenBound, Counted
    <3>2. Counted' = Counted
        BY <2>7 DEF Counted
    <3>d. DEFINE Own == {r} \X (1 .. tokens)
    <3>3. IsFiniteSet(Own) /\ Cardinality(Own) = tokens
      <4>1. IsFiniteSet(1 .. tokens) /\ Cardinality(1 .. tokens) = tokens
          BY FS_Interval
      <4>2. IsFiniteSet({r}) /\ Cardinality({r}) = 1
          BY FS_Singleton
      <4>3. IsFiniteSet(Own) /\ Cardinality(Own) = Cardinality({r}) * Cardinality(1 .. tokens)
          BY <4>1, <4>2, FS_Product
      <4>. QED
          BY <4>1, <4>2, <4>3
    <3>4. TokenUnits(Counted)' \in SUBSET (TokenUnits(TokensCounted(r)) \cup Own)
      <4>1. SUFFICES ASSUME NEW u \in TokenUnits(Counted)', u \notin Own
                     PROVE  u \in TokenUnits(TokensCounted(r))
          OBVIOUS
      <4>2. PICK s \in Counted : \E k \in Nat : k >= 1 /\ k <= row'[s].tokens /\ u = <<s, k>>
          BY <2>4, <2>c, <3>2, <4>1, UnitsOfNext DEF TokenUnits
      <4>3. s # r
          BY <2>1, <4>1, <4>2
      <4>4. s \in TokensCounted(r) /\ row'[s] = row[s]
          BY <2>2, <2>c, <4>2, <4>3
      <4>. QED
          BY <2>c, <4>2, <4>4, UnitsOf DEF RateInv
    <3>5. /\ IsFiniteSet(TokenUnits(TokensCounted(r)) \cup Own)
          /\ Cardinality(TokenUnits(TokensCounted(r)) \cup Own) =
                Cardinality(TokenUnits(TokensCounted(r))) + Cardinality(Own)
                - Cardinality(TokenUnits(TokensCounted(r)) \cap Own)
        BY <2>f, <3>1, <3>3, FS_Union
    <3>6. Cardinality(TokenUnits(TokensCounted(r)) \cap Own) \in Nat
      <4>1. IsFiniteSet(TokenUnits(TokensCounted(r)) \cap Own)
          BY <3>3, FS_Subset
      <4>. QED
          BY <4>1, FS_CardinalityType
    <3>7. Cardinality(TokenUnits(TokensCounted(r))) = TokensUsed(r)
        BY DEF TokensUsed, TokenSum
    <3>. HIDE DEF Own
    <3>8. Cardinality(TokenUnits(TokensCounted(r)) \cup Own) <= TPMLimit
        BY <1>p, <2>f, <2>g, <3>1, <3>3, <3>5, <3>6, <3>7
    <3>9. Cardinality(TokenUnits(Counted)') <= TPMLimit
        BY <1>p, <3>4, <3>5, <3>8, NoMore
    <3>. QED
        BY <3>9 DEF TokenSum
  <2>. QED
      BY <2>4, <2>5, <2>6, <2>8, <2>9 DEF RateInv, RateBounds
<1>. QED
    BY <1>1, <1>2


LEMMA CompleteKeeps ==
    ASSUME RateInv, NEW r \in Calls, NEW success \in BOOLEAN, NEW tokens \in Nat,
           CompleteGroupRateLease(r, success, tokens)
    PROVE  RateInv'
<1>t. /\ policy \in Policies /\ clock \in Nat \ {0} /\ row \in [Calls -> Recorded]
      /\ req \in [Calls -> Phases] /\ started \in [Calls -> Nat]
    BY DEF RateInv, RateTyped
<1>p. /\ Period \in Nat \ {0} /\ policy.timely \in BOOLEAN /\ policy.budgeted \in BOOLEAN /\ TPMLimit \in Nat
      /\ Lease \in Nat \ {0} /\ Minute \in Nat \ {0}
    BY <1>t, PolicyTyped
<1>a. /\ req[r] \in {"failing", "serve"} /\ UNCHANGED <<policy, clock, started>>
      /\ policy.budgeted => tokens <= row[r].tokens
      /\ req' = [req EXCEPT ![r] = "done"]
    BY DEF CompleteGroupRateLease
<1>r. r \in Running
    BY <1>a DEF Running
<1>b. /\ req' \in [Calls -> Phases]
      /\ \A q \in Calls : q \in Running' => q \in Running /\ q # r
      /\ \A q \in Calls : req'[q] \in {"new", "refused"} => req[q] \in {"new", "refused"}
    BY <1>t, <1>a DEF Phases, Running
<1>1. CASE ~(row[r].found /\ row[r].completed = 0)
  <2>1. row' = row
      BY <1>1 DEF CompleteGroupRateLease
  <2>. QED
      BY <1>a, <1>b, <2>1, PhaseKeeps
<1>2. CASE row[r].found /\ row[r].completed = 0
  <2>0. row' = [row EXCEPT ![r].completed = clock, ![r].success = success,
                           ![r].tokens = tokens, ![r].retain = Retained]
      BY <1>2 DEF CompleteGroupRateLease
  <2>n. Retained \in Nat /\ Retained >= clock + Period
      BY <1>t, <1>p DEF Retained
  <2>1. /\ row'[r].found = row[r].found /\ row'[r].start = row[r].start
        /\ row'[r].completed = clock /\ row'[r].until = row[r].until
        /\ row'[r].retain = Retained /\ row'[r].success = success
        /\ row'[r].tokens = tokens /\ row'[r] \in Recorded
    <3>1. /\ row'[r] = [row[r] EXCEPT !.completed = clock, !.success = success,
                                     !.tokens = tokens, !.retain = Retained]
          /\ row[r] \in Recorded
        BY <1>t, <2>0
    <3>. QED
        BY <1>t, <2>n, <3>1 DEF Recorded
  <2>2. \A q \in Calls : q # r => row'[q] = row[q] /\ req'[q] = req[q]
      BY <1>t, <1>a, <2>0
  <2>4. RateTyped'
    <3>1. row' \in [Calls -> Recorded]
        BY <1>t, <2>0, <2>1
    <3>. QED
        BY <1>t, <1>a, <1>b, <3>1 DEF RateTyped
  <2>q. Period' = Period /\ TPMLimit' = TPMLimit
      BY <1>a DEF Period, TPMLimit
  <2>v. /\ row[r].start \in Nat /\ row[r].start <= clock
        /\ row[r].tokens \in Nat /\ (policy.budgeted => row[r].tokens <= TPMLimit)
        /\ started[r] = row[r].start /\ row[r].found
      BY <1>2, <1>t DEF RateInv, Noted, Recorded
  <2>5. \A q \in Calls : Noted(q)'
    <3>1. Noted(r)'
      <4>1. req'[r] = "done"
          BY <1>t, <1>a
      <4>2. (policy.budgeted => tokens <= TPMLimit) /\ Retained >= row[r].start + Period
          BY <1>t, <1>p, <1>a, <2>n, <2>v
      <4>. QED
          BY <1>t, <1>a, <2>1, <2>q, <2>v, <4>1, <4>2 DEF Noted
    <3>2. \A q \in Calls : q # r => Noted(q)'
        BY <1>a, <2>2, <2>q DEF RateInv, Noted
    <3>. QED
        BY <3>1, <3>2
  <2>6. \A q \in Calls : Live(q)'
      BY <1>a, <1>b, <2>2 DEF RateInv, Live
  <2>7. \A q \in Calls : Fades(q)
    <3>1. \A q \in Calls : q # r => Fades(q)
      <4>1. \A q \in Calls : row[q].tokens \in Nat
          BY <1>t DEF Recorded
      <4>. QED
          BY <1>a, <2>2, <2>q, <4>1
             DEF Fades, Taking, Counted, Pending, SucceededSince, CompletedSince, Rows
    <3>2. policy.timely => r \in Pending
        BY <1>2, <1>r DEF RateInv, Live, Pending, Rows
    <3>3. r \notin Pending'
        BY <1>t, <2>1 DEF Pending, Rows
    <3>. QED
        BY <1>a, <2>1, <3>1, <3>2, <3>3 DEF Fades, Taking, Counted
  <2>9. RateBounds'
      BY <1>t, <1>a, <2>4, <2>7, BoundsFade
  <2>. QED
      BY <2>4, <2>5, <2>6, <2>9 DEF RateInv
<1>. QED
    BY <1>1, <1>2

LEMMA RenewKeeps ==
    ASSUME RateInv, NEW r \in Calls, RenewGroupRateLease(r)
    PROVE  RateInv'
<1>t. /\ policy \in Policies /\ clock \in Nat \ {0} /\ row \in [Calls -> Recorded]
      /\ req \in [Calls -> Phases] /\ started \in [Calls -> Nat]
    BY DEF RateInv, RateTyped
<1>p. /\ Period \in Nat \ {0} /\ policy.timely \in BOOLEAN /\ policy.budgeted \in BOOLEAN /\ TPMLimit \in Nat
      /\ Lease \in Nat \ {0} /\ Minute \in Nat \ {0}
    BY <1>t, PolicyTyped
<1>a. /\ r \in Running /\ UNCHANGED <<policy, clock, req, started>>
      /\ row[r].found /\ row[r].completed = 0
      /\ row' = [row EXCEPT ![r].until = clock + Lease]
    BY DEF RenewGroupRateLease
<1>1. /\ row'[r].found = row[r].found /\ row'[r].start = row[r].start
      /\ row'[r].completed = row[r].completed /\ row'[r].until = clock + Lease
      /\ row'[r].retain = row[r].retain /\ row'[r].success = row[r].success
      /\ row'[r].tokens = row[r].tokens /\ row'[r] \in Recorded
  <2>1. row'[r] = [row[r] EXCEPT !.until = clock + Lease] /\ row[r] \in Recorded
      BY <1>t, <1>a
  <2>2. clock + Lease \in Nat
      BY <1>t, <1>p
  <2>. QED
      BY <2>1, <2>2 DEF Recorded
<1>2. \A q \in Calls : q # r => row'[q] = row[q]
    BY <1>t, <1>a
<1>4. RateTyped'
  <2>1. row' \in [Calls -> Recorded]
      BY <1>t, <1>a, <1>1
  <2>. QED
      BY <1>t, <1>a, <2>1 DEF RateTyped
<1>q. Period' = Period /\ TPMLimit' = TPMLimit /\ Running' = Running
    BY <1>a DEF Period, TPMLimit, Running
<1>5. \A q \in Calls : Noted(q)'
    BY <1>a, <1>1, <1>2, <1>q DEF RateInv, Noted
<1>6. \A q \in Calls : Live(q)'
    BY <1>t, <1>p, <1>a, <1>1, <1>2, <1>q DEF RateInv, Live
<1>7. \A q \in Calls : Fades(q)
  <2>1. \A q \in Calls : row[q].tokens \in Nat
      BY <1>t DEF Recorded
  <2>2. \A q \in Calls : q # r => Fades(q)
      BY <1>a, <1>2, <1>q, <2>1
         DEF Fades, Taking, Counted, Pending, SucceededSince, CompletedSince, Rows
  <2>3. policy.timely => r \in Pending
      BY <1>a DEF RateInv, Live, Pending, Rows
  <2>. QED
      BY <1>a, <1>1, <2>1, <2>2, <2>3 DEF Fades, Taking, Counted
<1>9. RateBounds'
    BY <1>t, <1>a, <1>4, <1>7, BoundsFade
<1>. QED
    BY <1>4, <1>5, <1>6, <1>9 DEF RateInv

LEMMA CrashKeeps ==
    ASSUME RateInv, NEW r \in Calls, Crash(r)
    PROVE  RateInv'
<1>t. req \in [Calls -> Phases]
    BY DEF RateInv, RateTyped
<1>1. UNCHANGED <<policy, clock, row, started>> /\ req' = [req EXCEPT ![r] = "dead"]
    BY DEF Crash
<1>2. req' \in [Calls -> Phases]
    BY <1>t, <1>1 DEF Phases
<1>3. \A q \in Calls : q \in Running' => q \in Running
    BY <1>t, <1>1 DEF Running
<1>4. \A q \in Calls : req'[q] \in {"new", "refused"} => req[q] \in {"new", "refused"}
    BY <1>t, <1>1
<1>. QED
    BY <1>1, <1>2, <1>3, <1>4, PhaseKeeps

LEMMA UnbudgetedKeeps ==
    ASSUME RateInv, NEW r \in Calls, StartUnbudgeted(r)
    PROVE  RateInv'
<1>t. req \in [Calls -> Phases]
    BY DEF RateInv, RateTyped
<1>1. /\ UNCHANGED <<policy, clock, row, started>> /\ req[r] = "budget"
      /\ req' = [req EXCEPT ![r] = "serve"]
    BY DEF StartUnbudgeted
<1>2. req' \in [Calls -> Phases]
    BY <1>t, <1>1 DEF Phases
<1>3. \A q \in Calls : q \in Running' => q \in Running
    BY <1>t, <1>1 DEF Running
<1>4. \A q \in Calls : req'[q] \in {"new", "refused"} => req[q] \in {"new", "refused"}
    BY <1>t, <1>1
<1>. QED
    BY <1>1, <1>2, <1>3, <1>4, PhaseKeeps

LEMMA CleanupKeeps ==
    ASSUME RateInv, CleanupGroupRateLeases
    PROVE  RateInv'
<1>t. /\ policy \in Policies /\ clock \in Nat \ {0} /\ row \in [Calls -> Recorded]
      /\ req \in [Calls -> Phases] /\ started \in [Calls -> Nat]
    BY DEF RateInv, RateTyped
<1>p. /\ Period \in Nat \ {0} /\ policy.timely \in BOOLEAN /\ policy.budgeted \in BOOLEAN /\ TPMLimit \in Nat
      /\ Lease \in Nat \ {0} /\ Minute \in Nat \ {0}
    BY <1>t, PolicyTyped
<1>a. /\ UNCHANGED <<policy, clock, req, started>>
      /\ row' = [q \in Calls |-> IF Removable(q) THEN NoRow ELSE row[q]]
    BY DEF CleanupGroupRateLeases
<1>0. NoRow \in Recorded
    BY DEF NoRow, Recorded
<1>1. \A q \in Calls : Removable(q) =>
          /\ ~row'[q].found /\ row'[q].start = 0 /\ row'[q].completed = 0 /\ row'[q].tokens = 0
          /\ row[q].found /\ row[q].retain < clock
          /\ row[q].completed > 0 \/ row[q].until < clock
    BY <1>a DEF NoRow, Removable
<1>2. \A q \in Calls : ~Removable(q) => row'[q] = row[q]
    BY <1>a
<1>4. RateTyped'
  <2>1. row' \in [Calls -> Recorded]
      BY <1>t, <1>a, <1>0
  <2>. QED
      BY <1>t, <1>a, <2>1 DEF RateTyped
<1>q. Period' = Period /\ TPMLimit' = TPMLimit /\ Running' = Running
    BY <1>a DEF Period, TPMLimit, Running
<1>v. \A q \in Calls :
          /\ row[q].start \in Nat /\ row[q].completed \in Nat /\ row[q].until \in Nat
          /\ row[q].retain \in Nat /\ row[q].tokens \in Nat /\ started[q] \in Nat
    BY <1>t DEF Recorded
<1>5. \A q \in Calls : Noted(q)'
  <2>1. SUFFICES ASSUME NEW q \in Calls PROVE Noted(q)'
      OBVIOUS
  <2>2. CASE ~Removable(q)
      BY <1>a, <1>2, <1>q, <2>2 DEF RateInv, Noted
  <2>3. CASE Removable(q)
    <3>1. started[q] = row[q].start /\ row[q].start + Period < clock
        BY <1>t, <1>p, <1>1, <1>v, <2>3 DEF RateInv, Noted
    <3>2. req[q] \notin {"new", "refused"}
        BY <1>1, <2>3 DEF RateInv, Noted
    <3>. QED
        BY <1>t, <1>p, <1>a, <1>1, <1>q, <1>v, <2>3, <3>1, <3>2 DEF Noted
  <2>. QED
      BY <2>2, <2>3
<1>6. \A q \in Calls : Live(q)'
  <2>1. SUFFICES ASSUME NEW q \in Calls PROVE Live(q)'
      OBVIOUS
  <2>2. CASE ~Removable(q)
      BY <1>a, <1>2, <1>q, <2>2 DEF RateInv, Live
  <2>3. CASE Removable(q)
      BY <1>t, <1>a, <1>1, <1>q, <1>v, <2>3 DEF RateInv, Live
  <2>. QED
      BY <2>2, <2>3
<1>7. \A q \in Calls : Fades(q)
  <2>1. SUFFICES ASSUME NEW q \in Calls PROVE Fades(q)
      OBVIOUS
  <2>2. CASE ~Removable(q)
      BY <1>a, <1>2, <1>q, <1>v, <2>2
         DEF Fades, Taking, Counted, Pending, SucceededSince, CompletedSince, Rows
  <2>3. CASE Removable(q)
      BY <1>a, <1>1, <1>q, <1>v, <2>3
         DEF Fades, Taking, Counted, Pending, SucceededSince, CompletedSince, Rows
  <2>. QED
      BY <2>2, <2>3
<1>9. RateBounds'
    BY <1>t, <1>a, <1>4, <1>7, BoundsFade
<1>. QED
    BY <1>4, <1>5, <1>6, <1>9 DEF RateInv

LEMMA TickKeeps ==
    ASSUME RateInv, RateTick
    PROVE  RateInv'
<1>t. /\ policy \in Policies /\ clock \in Nat \ {0} /\ row \in [Calls -> Recorded]
      /\ req \in [Calls -> Phases] /\ started \in [Calls -> Nat]
    BY DEF RateInv, RateTyped
<1>p. /\ Period \in Nat \ {0} /\ policy.timely \in BOOLEAN /\ policy.budgeted \in BOOLEAN /\ TPMLimit \in Nat
      /\ Lease \in Nat \ {0} /\ Minute \in Nat \ {0}
    BY <1>t, PolicyTyped
<1>a. /\ UNCHANGED <<policy, row, req, started>> /\ clock' = clock + 1
      /\ policy.timely => \A r \in Running : row[r].until > clock + 1
    BY DEF RateTick
<1>4. RateTyped'
    BY <1>t, <1>a DEF RateTyped
<1>q. Period' = Period /\ TPMLimit' = TPMLimit /\ Running' = Running
    BY <1>a DEF Period, TPMLimit, Running
<1>v. \A q \in Calls :
          /\ row[q].start \in Nat /\ row[q].completed \in Nat /\ row[q].until \in Nat
          /\ row[q].retain \in Nat /\ row[q].tokens \in Nat /\ started[q] \in Nat
    BY <1>t DEF Recorded
<1>5. \A q \in Calls : Noted(q)'
    BY <1>t, <1>p, <1>a, <1>q, <1>v DEF RateInv, Noted
<1>6. \A q \in Calls : Live(q)'
    BY <1>t, <1>a, <1>q, <1>v DEF RateInv, Live
<1>7. \A q \in Calls : Fades(q)
    BY <1>t, <1>p, <1>a, <1>q, <1>v
       DEF Fades, Taking, Counted, Pending, SucceededSince, CompletedSince, Rows
<1>9. RateBounds'
    BY <1>t, <1>a, <1>4, <1>7, BoundsFade
<1>. QED
    BY <1>4, <1>5, <1>6, <1>9 DEF RateInv

LEMMA RateInvStep == RateInv /\ [RateNext]_rateVars => RateInv'
<1>. SUFFICES ASSUME RateInv, [RateNext]_rateVars PROVE RateInv'
    OBVIOUS
<1>b. Budgets \cup {0} \subseteq Nat
    BY RateAssumption
<1>1. CASE \E r \in Calls : AcquireGroupRateLease(r)
    BY <1>1, AcquireKeeps
<1>2. CASE \E r \in Calls, tokens \in Budgets \cup {0} : ReserveGroupRateTokens(r, tokens)
    BY <1>2, <1>b, ReserveKeeps
<1>3. CASE \E r \in Calls, tokens \in Budgets \cup {0}, success \in BOOLEAN :
              CompleteGroupRateLease(r, success, tokens)
    BY <1>3, <1>b, CompleteKeeps
<1>4. CASE \E r \in Calls : RenewGroupRateLease(r)
    BY <1>4, RenewKeeps
<1>5. CASE \E r \in Calls : Crash(r)
    BY <1>5, CrashKeeps
<1>6. CASE CleanupGroupRateLeases
    BY <1>6, CleanupKeeps
<1>9. CASE \E r \in Calls : StartUnbudgeted(r)
    BY <1>9, UnbudgetedKeeps
<1>7. CASE RateTick
    BY <1>7, TickKeeps
<1>8. CASE UNCHANGED rateVars
  <2>1. UNCHANGED <<policy, clock, row, started>> /\ req' = req
      BY <1>8 DEF rateVars
  <2>2. req' \in [Calls -> Phases]
      BY <2>1 DEF RateInv, RateTyped
  <2>3. Running' = Running
      BY <2>1 DEF Running
  <2>. QED
      BY <2>1, <2>2, <2>3, PhaseKeeps
<1>. QED
    BY <1>1, <1>2, <1>3, <1>4, <1>5, <1>6, <1>7, <1>8, <1>9 DEF RateNext

\* The limits follow: live requests are among those that hold a lease.
LEMMA InvWithinLimits == RateInv => WithinLimits
<1>. SUFFICES ASSUME RateInv PROVE WithinLimits
    OBVIOUS
<1>1. RateTypeOK
    BY DEF RateInv, RateTypeOK, Noted, Live
<1>2. LiveKept
    BY DEF RateInv, LiveKept, Live, Running
<1>3. ConcurrencyBound
  <2>1. SUFFICES ASSUME policy.timely, ConcurrencyLimit > 0
                 PROVE  Cardinality(Running) <= ConcurrencyLimit
      BY DEF ConcurrencyBound
  <2>2. Running \in SUBSET Pending
      BY <2>1 DEF RateInv, Live, Running, Pending, Rows
  <2>3. IsFiniteSet(Pending)
      BY FS_Subset, RateAssumption DEF Pending, Rows
  <2>4. Cardinality(Pending) <= ConcurrencyLimit /\ ConcurrencyLimit \in Nat
      BY <2>1, PolicyTyped DEF RateInv, RateTyped, RateBounds, PendingBound
  <2>. QED
      BY <2>2, <2>3, <2>4, NoMore
<1>. QED
    BY <1>1, <1>2, <1>3 DEF RateInv, RateBounds, WithinLimits

\* The limits of a group hold at every moment, for any number of requests and
\* any policy: AcquireGroupRateLease and ReserveGroupRateTokens count rows, and
\* cleanup, crashes and renewals never hide a request that counts.
THEOREM LimitsHold == RateSpec => []WithinLimits
<1>1. RateInit => RateInv
    BY RateStarts
<1>2. RateInv /\ [RateNext]_rateVars => RateInv'
    BY RateInvStep
<1>3. RateInv => WithinLimits
    BY InvWithinLimits
<1>. QED
    BY <1>1, <1>2, <1>3, PTL DEF RateSpec


-----------------------------------------------------------------------------
(* Loans and subscriptions.                                                *)

Sold == [status : {"none", "active", "expired", "cancelled"}, end : Nat, plan : Plans \cup {None},
         upgrade : Groups \cup {None}, prev : Groups \cup {None},
         downgrade : Groups \cup {None},
         source : {"none", "order", "admin", "redemption", "deleted"}]
UserRow == [group : Groups, restore : Groups \cup {None}, expires : Nat]

GroupTyped ==
    /\ site \in Sites /\ now \in 1 .. MaxTime
    /\ user \in UserRow
    /\ subs \in [Ids -> Sold]
    /\ code \in [Codes -> {"enabled", "redeeming", "used"}]

\* While a redemption holds the gap it has read, nothing is in force.
GapHeld ==
    GapLocks /\ (\E c \in Codes : code[c] = "redeeming") => \A i \in Ids : ~InForce(i)

GroupInv == GroupTyped /\ GapHeld

\* The plans of a deployment.
LEMMA PlanTyped ==
    ASSUME GroupTyped, NEW p \in Plans
    PROVE  /\ PlanOf[p].upgrade \in Groups \cup {None} /\ PlanOf[p].downgrade \in Groups \cup {None}
           /\ PlanOf[p].length \in Nat
BY PlansWellFormed DEF GroupTyped, PlanOf

\* The user's row as it is read.
LEMMA LoadedTyped ==
    ASSUME NEW u \in UserRow
    PROVE  Loaded(u) \in UserRow /\ Held(u) \in Groups
BY DefaultIsGroup DEF Loaded, Held, UserRow, OrDefault

\* ... after a plan took effect, ...
LEMMA UpgradedTyped ==
    ASSUME NEW u \in UserRow, NEW g \in Groups \cup {None}
    PROVE  Upgraded(u, g) \in UserRow
<1>1. Loaded(u) \in UserRow
    BY LoadedTyped
<1>2. g # None => [group |-> g, restore |-> None, expires |-> 0] \in UserRow
    BY DEF UserRow
<1>. QED
    BY <1>1, <1>2 DEF Upgraded

\* ... and after one is over.
LEMMA DowngradedTyped ==
    ASSUME NEW u \in UserRow, NEW s \in Sold
    PROVE  Downgraded(u, s) \in UserRow
<1>1. Loaded(u) \in UserRow
    BY LoadedTyped
<1>2. Target(Loaded(u), s) \in Groups \cup {None}
    BY DEF Target, Sold
<1>3. PICK l \in UserRow, t \in Groups \cup {None} : l = Loaded(u) /\ t = Target(Loaded(u), s)
    BY <1>1, <1>2
<1>4. t # None => WithHeld(l, t) \in UserRow
    BY DEF WithHeld, UserRow
<1>. QED
    BY <1>3, <1>4 DEF Downgraded

\* CreateUserSubscriptionFromPlanTx leaves rows.
LEMMA CreatedTyped ==
    ASSUME GroupTyped, NEW p \in Plans, NEW source \in {"order", "admin", "redemption"},
           NEW up \in Groups \cup {None}, NEW down \in Groups \cup {None}, NEW over \in Nat
    PROVE  CreatedSubs(user, p, source, up, down, over) \in [Ids -> Sold]
<1>t. now \in Nat /\ user \in UserRow /\ subs \in [Ids -> Sold]
    BY GroupBounds DEF GroupTyped
<1>. DEFINE current == {subs[i] : i \in {j \in Ids : InForce(j)}}
            first == CHOOSE s \in current : TRUE
            prev == PrevGroup(user, current, up)
            end == IF current = {} THEN (IF over # 0 THEN over ELSE now + PlanOf[p].length)
                   ELSE LET s == CHOOSE s \in current : TRUE
                        IN IF source = "redemption" /\ s.source = "redemption" /\ over > s.end
                           THEN over ELSE s.end
<1>1. current \in SUBSET Sold
    BY <1>t
<1>2. current # {} => first \in Sold
    BY <1>1
<1>3. prev \in Groups \cup {None}
  <2>1. Loaded(user) \in UserRow /\ Held(Loaded(user)) \in Groups
      BY <1>t, LoadedTyped
  <2>2. current # {} => first.prev \in Groups \cup {None}
      BY <1>2 DEF Sold
  <2>. HIDE DEF current
  <2>. QED
      BY <2>1, <2>2 DEF PrevGroup
<1>4. end \in Nat
  <2>1. now + PlanOf[p].length \in Nat
      BY <1>t, PlanTyped
  <2>2. current # {} => first.end \in Nat
      BY <1>2 DEF Sold
  <2>. HIDE DEF current
  <2>. QED
      BY <2>1, <2>2
<1>5. [status |-> "active", end |-> end, plan |-> p, upgrade |-> up, prev |-> prev,
       downgrade |-> down, source |-> source] \in Sold
  <2>. HIDE DEF end, prev
  <2>. QED
      BY <1>3, <1>4 DEF Sold
<1>6. \A i \in Ids : [subs[i] EXCEPT !.status = "cancelled", !.end = now] \in Sold
    BY <1>t DEF Sold
<1>. HIDE DEF end, prev
<1>7. CreatedSubs(user, p, source, up, down, over) =
        [i \in Ids |->
          IF i = NextId
          THEN [status |-> "active", end |-> end, plan |-> p, upgrade |-> up, prev |-> prev,
                downgrade |-> down, source |-> source]
          ELSE IF InForce(i) THEN [subs[i] EXCEPT !.status = "cancelled", !.end = now]
          ELSE subs[i]]
    BY DEF CreatedSubs, end, prev
<1>. QED
    BY <1>t, <1>5, <1>6, <1>7


\* Of finitely many subscriptions one ends last, the later id deciding a tie.
LEMMA LastExists ==
    ASSUME NEW S \in [Ids -> Sold], NEW D \in SUBSET Ids, D # {}
    PROVE  \E i \in D : \A j \in D : S[j].end < S[i].end \/ (S[j].end = S[i].end /\ j <= i)
<1>t. \A i \in D : i \in Int /\ S[i].end \in Nat
    BY GroupBounds DEF Ids, Sold
<1>f. IsFiniteSet(D)
  <2>1. IsFiniteSet(Ids)
      BY GroupBounds, FS_Interval DEF Ids
  <2>. QED
      BY <2>1, FS_Subset
<1>. DEFINE After(i) == {j \in D : S[i].end < S[j].end \/ (S[i].end = S[j].end /\ i < j)}
            Sets == {After(i) : i \in D}
<1>1. Sets \subseteq FiniteSubsetsOf(D) /\ Sets # {}
  <2>1. FiniteSubsetsOf(D) = SUBSET D
      BY <1>f, FS_FiniteSubsetsOfFinite
  <2>2. Sets \subseteq SUBSET D
      OBVIOUS
  <2>3. PICK d \in D : TRUE
      OBVIOUS
  <2>4. After(d) \in Sets
      OBVIOUS
  <2>. HIDE DEF Sets
  <2>. QED
      BY <2>1, <2>2, <2>4
<1>2. PICK A \in Sets : \A B \in Sets : <<B, A>> \notin StrictSubsetOrdering(D)
  <2>. HIDE DEF Sets
  <2>. QED
      BY <1>1, WFMin, FS_StrictSubsetOrderingWellFounded
<1>3. PICK i \in D : A = After(i)
    BY <1>2
<1>4. After(i) = {}
  <2>1. SUFFICES ASSUME NEW j \in After(i) PROVE FALSE
      OBVIOUS
  <2>2. /\ j \in D /\ After(j) \in SUBSET After(i) /\ j \notin After(j)
        /\ After(i) \in SUBSET D /\ After(j) \in SUBSET D
      BY <1>t, <2>1
  <2>3. After(j) \in Sets
      BY <2>2
  <2>. HIDE DEF After, Sets
  <2>4. <<After(j), After(i)>> \in StrictSubsetOrdering(D)
      BY <2>1, <2>2 DEF StrictSubsetOrdering
  <2>. QED
      BY <1>2, <1>3, <2>3, <2>4
<1>. QED
    BY <1>t, <1>4

\* A step in which no code starts to be redeemed and nothing comes into force.
LEMMA GapStaysHeld ==
    ASSUME GroupInv, GroupTyped', site' = site,
           \A c \in Codes : code'[c] = "redeeming" => code[c] = "redeeming",
           \A i \in Ids : InForce(i)' => InForce(i)
    PROVE  GroupInv'
BY DEF GroupInv, GapHeld, GapLocks

LEMMA PurchaseKeeps ==
    ASSUME GroupInv, NEW p \in Plans, NEW source \in {"order", "admin"}, Purchase(p, source)
    PROVE  GroupInv'
<1>1. GroupTyped
    BY DEF GroupInv
<1>2. PlanOf[p].upgrade \in Groups \cup {None} /\ PlanOf[p].downgrade \in Groups \cup {None}
    BY <1>1, PlanTyped
<1>3. subs' \in [Ids -> Sold]
  <2>1. subs' = CreatedSubs(user, p, source, PlanOf[p].upgrade, PlanOf[p].downgrade, 0)
      BY DEF Purchase
  <2>. QED
      BY <1>1, <1>2, <2>1, CreatedTyped
<1>4. user' \in UserRow
    BY <1>1, <1>2, UpgradedTyped DEF GroupTyped, Purchase
<1>5. GroupTyped'
    BY <1>1, <1>3, <1>4 DEF GroupTyped, Purchase
<1>6. GapHeld'
    BY DEF GapHeld, Purchase, GapLocks
<1>. QED
    BY <1>5, <1>6 DEF GroupInv

LEMMA ExpireKeeps ==
    ASSUME GroupInv, ExpireDue
    PROVE  GroupInv'
<1>t. now \in Nat /\ user \in UserRow /\ subs \in [Ids -> Sold]
    BY GroupBounds DEF GroupInv, GroupTyped
<1>a. /\ UNCHANGED <<site, now, code>>
      /\ subs' = [i \in Ids |-> IF Due(i) THEN [subs[i] EXCEPT !.status = "expired"] ELSE subs[i]]
    BY DEF ExpireDue
<1>1. \A i \in Ids : [subs[i] EXCEPT !.status = "expired"] \in Sold
    BY <1>t DEF Sold
<1>2. subs' \in [Ids -> Sold]
    BY <1>t, <1>a, <1>1
<1>3. user' \in UserRow
  <2>. DEFINE done == {i \in Ids : /\ subs'[i].status = "expired"
                                   /\ subs'[i].downgrade # None \/ subs'[i].upgrade # None}
              last == CHOOSE i \in done : \A j \in done :
                        subs'[j].end < subs'[i].end \/ (subs'[j].end = subs'[i].end /\ j <= i)
  <2>1. user' = IF Upgrading(subs') # {} \/ done = {} THEN user ELSE Downgraded(user, subs'[last])
      BY DEF ExpireDue
  <2>2. done # {} => last \in done
    <3>1. done \in SUBSET Ids
        OBVIOUS
    <3>. HIDE DEF done
    <3>2. done # {} => \E i \in done : \A j \in done :
              subs'[j].end < subs'[i].end \/ (subs'[j].end = subs'[i].end /\ j <= i)
        BY <1>2, <3>1, LastExists
    <3>. QED
        BY <3>2
  <2>3. done # {} => subs'[last] \in Sold
      BY <1>2, <2>2
  <2>. HIDE DEF done, last
  <2>. QED
      BY <1>t, <2>1, <2>3, DowngradedTyped
<1>4. GroupTyped'
    BY <1>a, <1>2, <1>3 DEF GroupInv, GroupTyped
<1>5. \A i \in Ids : InForce(i)' => InForce(i)
  <2>1. \A i \in Ids : subs'[i].status = "active" => subs'[i] = subs[i]
      BY <1>t, <1>a DEF Sold
  <2>. QED
      BY <1>a, <2>1 DEF InForce
<1>. QED
    BY <1>a, <1>4, <1>5, GapStaysHeld

\* The user's row after an administrator ended subscription i.
LEMMA AfterEndTyped ==
    ASSUME GroupTyped, NEW i \in Ids
    PROVE  AfterEnd(i, subs) \in UserRow
BY LoadedTyped, DowngradedTyped DEF GroupTyped, AfterEnd

LEMMA AdminKeeps ==
    ASSUME GroupInv,
           AdminFree \/ \E i \in Ids : AdminInvalidate(i) \/ AdminDelete(i)
    PROVE  GroupInv'
<1>t. now \in Nat /\ user \in UserRow /\ subs \in [Ids -> Sold] /\ GroupTyped
    BY GroupBounds DEF GroupInv, GroupTyped
<1>c. \A i \in Ids : [subs[i] EXCEPT !.status = "cancelled", !.end = now] \in Sold
    BY <1>t DEF Sold
<1>1. CASE AdminFree
  <2>0. /\ UNCHANGED <<site, now, code>>
        /\ subs' = [i \in Ids |-> IF InForce(i) THEN [subs[i] EXCEPT !.status = "cancelled", !.end = now]
                                  ELSE subs[i]]
        /\ user' = [group |-> Default, restore |-> None, expires |-> 0]
      BY <1>1 DEF AdminFree
  <2>1. subs' \in [Ids -> Sold]
      BY <1>t, <1>c, <2>0
  <2>2. user' \in UserRow
      BY <2>0, DefaultIsGroup DEF UserRow
  <2>3. GroupTyped'
      BY <1>t, <2>0, <2>1, <2>2 DEF GroupTyped
  <2>4. \A i \in Ids : InForce(i)' => InForce(i)
      BY <1>t, <2>0 DEF InForce, Sold
  <2>. QED
      BY <2>0, <2>3, <2>4, GapStaysHeld
<1>2. ASSUME NEW i \in Ids, AdminInvalidate(i) PROVE GroupInv'
  <2>0. /\ UNCHANGED <<site, now, code>> /\ user' = AfterEnd(i, subs)
        /\ subs' = [subs EXCEPT ![i] = [subs[i] EXCEPT !.status = "cancelled", !.end = now]]
      BY <1>2, <1>t DEF AdminInvalidate
  <2>1. subs' \in [Ids -> Sold]
      BY <1>t, <1>c, <2>0
  <2>2. GroupTyped'
      BY <1>t, <2>0, <2>1, AfterEndTyped DEF GroupTyped
  <2>3. \A j \in Ids : InForce(j)' => InForce(j)
      BY <1>t, <2>0 DEF InForce, Sold
  <2>. QED
      BY <2>0, <2>2, <2>3, GapStaysHeld
<1>3. ASSUME NEW i \in Ids, AdminDelete(i) PROVE GroupInv'
  <2>0. /\ UNCHANGED <<site, now, code>> /\ user' = AfterEnd(i, subs)
        /\ subs' = [subs EXCEPT ![i] = [NoSub EXCEPT !.source = "deleted"]]
      BY <1>3 DEF AdminDelete
  <2>1. [NoSub EXCEPT !.source = "deleted"] \in Sold
        /\ [NoSub EXCEPT !.source = "deleted"].status = "none"
      BY DEF NoSub, Sold
  <2>2. subs' \in [Ids -> Sold]
      BY <1>t, <2>0, <2>1
  <2>3. GroupTyped'
      BY <1>t, <2>0, <2>2, AfterEndTyped DEF GroupTyped
  <2>4. \A j \in Ids : InForce(j)' => InForce(j)
      BY <1>t, <2>0, <2>1 DEF InForce
  <2>. QED
      BY <2>0, <2>3, <2>4, GapStaysHeld
<1>. QED
    BY <1>1, <1>2, <1>3


\* A lent group is a group.
LEMMA LoanTyped ==
    ASSUME NEW u \in UserRow, now \in Nat, NEW c \in Codes
    PROVE  Loan(u, CodeOf[c].group, CodeOf[c].minutes) \in UserRow
<1>1. CodeOf[c].group \in Groups /\ CodeOf[c].minutes \in Nat
    BY CodesWellFormed
<1>2. Held(u) \in Groups
    BY LoadedTyped
<1>3. u.expires \in Nat
    BY DEF UserRow
<1>. QED
    BY <1>1, <1>2, <1>3 DEF Loan, UserRow

LEMMA RedeemKeeps ==
    ASSUME GroupInv, NEW c \in Codes, RedeemCheck(c) \/ RedeemCommit(c) \/ RedeemAbort(c)
    PROVE  GroupInv'
<1>t. /\ now \in Nat /\ user \in UserRow /\ subs \in [Ids -> Sold] /\ GroupTyped
      /\ code \in [Codes -> {"enabled", "redeeming", "used"}]
    BY GroupBounds DEF GroupInv, GroupTyped
<1>1. CASE RedeemCheck(c)
  <2>1. GroupTyped'
      BY <1>1, <1>t DEF RedeemCheck, GroupTyped
  <2>2. GapHeld'
      BY <1>1 DEF RedeemCheck, GapHeld, InForce
  <2>. QED
      BY <2>1, <2>2 DEF GroupInv
<1>2. CASE RedeemCommit(c)
  <2>. DEFINE lent == Loan(Loaded(user), CodeOf[c].group, CodeOf[c].minutes)
  <2>0. /\ UNCHANGED <<site, now>> /\ user' = lent
        /\ code' = [code EXCEPT ![c] = "used"]
        /\ GapLocks => \A d \in Codes \ {c} : code[d] # "redeeming"
        /\ \/ subs' = subs
           \/ \E p \in Plans : subs' = CreatedSubs(user, p, "redemption", None, None, lent.expires)
      BY <1>2 DEF RedeemCommit
  <2>1. lent \in UserRow
      BY <1>t, LoadedTyped, LoanTyped
  <2>2. lent.expires \in Nat
      BY <2>1 DEF UserRow
  <2>. HIDE DEF lent
  <2>3. subs' \in [Ids -> Sold]
    <3>1. \A p \in Plans : CreatedSubs(user, p, "redemption", None, None, lent.expires) \in [Ids -> Sold]
        BY <1>t, <2>2, CreatedTyped
    <3>. QED
        BY <1>t, <2>0, <3>1
  <2>4. GroupTyped'
      BY <1>t, <2>0, <2>1, <2>3 DEF GroupTyped
  <2>5. GapHeld'
      BY <1>t, <2>0 DEF GapHeld, GapLocks
  <2>. QED
      BY <2>4, <2>5 DEF GroupInv
<1>3. CASE RedeemAbort(c)
  <2>1. GroupTyped' /\ site' = site
      BY <1>3, <1>t DEF RedeemAbort, GroupTyped
  <2>2. \A d \in Codes : code'[d] = "redeeming" => code[d] = "redeeming"
      BY <1>3, <1>t DEF RedeemAbort
  <2>3. \A i \in Ids : InForce(i)' => InForce(i)
      BY <1>3 DEF RedeemAbort, InForce
  <2>. QED
      BY <2>1, <2>2, <2>3, GapStaysHeld
<1>. QED
    BY <1>1, <1>2, <1>3

LEMMA GroupInvStep == GroupInv /\ [GroupNext]_groupVars => GroupInv'
<1>. SUFFICES ASSUME GroupInv, [GroupNext]_groupVars PROVE GroupInv'
    OBVIOUS
<1>t. now \in 1 .. MaxTime /\ user \in UserRow /\ subs \in [Ids -> Sold] /\ GroupTyped
    BY DEF GroupInv, GroupTyped
<1>1. CASE \E p \in Plans, source \in {"order", "admin"} : Purchase(p, source)
    BY <1>1, PurchaseKeeps
<1>2. CASE ExpireDue
    BY <1>2, ExpireKeeps
<1>3. CASE AdminFree \/ \E i \in Ids : AdminInvalidate(i) \/ AdminDelete(i)
    BY <1>3, AdminKeeps
<1>4. CASE \E c \in Codes : RedeemCheck(c) \/ RedeemCommit(c) \/ RedeemAbort(c)
    BY <1>4, RedeemKeeps
<1>5. CASE ResolveExpired
  <2>1. GroupTyped' /\ site' = site
      BY <1>5, <1>t, LoadedTyped DEF ResolveExpired, GroupTyped
  <2>2. \A i \in Ids : InForce(i)' => InForce(i)
      BY <1>5 DEF ResolveExpired, InForce
  <2>. QED
      BY <1>5, <2>1, <2>2, GapStaysHeld DEF ResolveExpired
<1>6. CASE Tick
  <2>1. GroupTyped' /\ site' = site
      BY <1>6, <1>t, GroupBounds DEF Tick, GroupTyped
  <2>2. \A i \in Ids : InForce(i)' => InForce(i)
    <3>1. \A i \in Ids : subs[i].end \in Nat
        BY <1>t DEF Sold
    <3>. QED
        BY <1>6, <1>t, <3>1, GroupBounds DEF Tick, InForce
  <2>. QED
      BY <1>6, <2>1, <2>2, GapStaysHeld DEF Tick
<1>7. CASE UNCHANGED groupVars
    BY <1>7 DEF groupVars, GroupInv, GroupTyped, GapHeld, GapLocks, InForce
<1>. QED
    BY <1>1, <1>2, <1>3, <1>4, <1>5, <1>6, <1>7 DEF GroupNext

\* Nobody redeems at the start.
LEMMA GroupStarts == GroupInit => GroupInv
<1>. SUFFICES ASSUME GroupInit PROVE GroupInv
    OBVIOUS
<1>1. NoSub \in Sold
    BY DEF NoSub, Sold
<1>2. user \in UserRow
    BY DefaultIsGroup DEF GroupInit, UserRow
<1>3. GroupTyped
    BY <1>1, <1>2, GroupBounds DEF GroupInit, GroupTyped
<1>4. GapHeld
    BY DEF GroupInit, GapHeld
<1>. QED
    BY <1>3, <1>4 DEF GroupInv

\* Redeem lends no group to a user who has a subscription, whatever is bought,
\* assigned, ended or redeemed between its check and its writes, where the
\* database locks the gap the check has read.
THEOREM LoansRespectSubscriptions == GroupSpec => NoLoanOverSubscription
<1>1. GroupInit => GroupInv
    BY GroupStarts
<1>2. GroupInv /\ [GroupNext]_groupVars => GroupInv'
    BY GroupInvStep
<1>3. GroupInv /\ [GroupNext]_groupVars =>
          [GapLocks => \A c \in Codes : code[c] = "redeeming" /\ code'[c] = "used"
             => \A i \in Ids : ~InForce(i)]_groupVars
    BY DEF GroupInv, GapHeld
<1>. QED
    BY <1>1, <1>2, <1>3, PTL DEF GroupSpec, NoLoanOverSubscription

-----------------------------------------------------------------------------
(* Groups are returned.                                                     *)

\* The group the user holds apart from a loan, over or not.
Own(u) == IF u.expires = 0 THEN u.group ELSE OrDefault(u.restore)

\* The deployments the theorem is about: every plan ends in the default group; or
\* every plan has a group, ends in the one held before or in the default one, and
\* maintenance has run whenever somebody buys.
ExplicitSite(s) == \A p \in Plans : s.plan[p].downgrade = Default
ReturningSite(s) ==
    /\ s.promptExpiry
    /\ \A p \in Plans : s.plan[p].upgrade # None /\ s.plan[p].downgrade \in {None, Default}
SitesReturn == \A s \in Sites : ExplicitSite(s) \/ ReturningSite(s)

Paid(i) == subs[i].source \in {"order", "admin"}
PaidActive(i) == Paid(i) /\ subs[i].status = "active"

\* A row that was paid for is as its plan says; any other changes no group.
RowKept(i) ==
    /\ Paid(i) => /\ subs[i].plan \in Plans
                  /\ subs[i].upgrade = PlanOf[subs[i].plan].upgrade
                  /\ subs[i].downgrade = PlanOf[subs[i].plan].downgrade
    /\ ~Paid(i) => subs[i].upgrade = None /\ subs[i].downgrade = None /\ subs[i].prev = None
    /\ subs[i].source \in {"none", "deleted"} <=> ~Exists(i)
    /\ subs[i].status = "expired" => subs[i].end <= now

\* Rows are numbered without gaps.
RowsInOrder ==
    \E k \in 0 .. MaxSubs : \A i \in Ids : (Exists(i) \/ subs[i].source = "deleted") <=> i <= k

\* At most one subscription is in force, and the user holds its group.
InForceHeld ==
    /\ \A i, j \in Ids : InForce(i) /\ InForce(j) => i = j
    /\ \A i \in Ids : InForce(i) /\ subs[i].upgrade # None => Own(user) = subs[i].upgrade

\* The group held is the default one or was paid for.
OwnWasPaid == Own(user) = Default \/ \E i \in Ids : Paid(i) /\ subs[i].upgrade = Own(user)

\* While it is not the default one something active will return it.
ExplicitReturns == ExplicitSite(site) => Own(user) = Default \/ \E i \in Ids : PaidActive(i)

\* A plan without an explicit group knows that the default group was held before,
\* is the only active one that was paid for, and ends last.
PlanReturns ==
    ReturningSite(site) =>
        /\ \A i \in Ids : Paid(i) =>
             subs[i].prev = Default \/ (subs[i].prev = None /\ subs[i].upgrade = Default)
        /\ \A i, j \in Ids : PaidActive(i) /\ PaidActive(j) => i = j
        /\ \A i, j \in Ids : Paid(i) /\ subs[i].status = "expired" /\ PaidActive(j)
             => subs[i].end < subs[j].end
        /\ Own(user) = Default \/ \E i \in Ids : PaidActive(i) /\ subs[i].upgrade = Own(user)

ReturnInv ==
    /\ GroupTyped
    /\ \A i \in Ids : RowKept(i)
    /\ RowsInOrder /\ InForceHeld /\ OwnWasPaid /\ ExplicitReturns /\ PlanReturns

\* What is read and written of the group held does not depend on the time.
LEMMA OwnHeld ==
    ASSUME NEW u \in UserRow, now \in Nat
    PROVE  /\ Own(u) \in Groups /\ Held(Loaded(u)) = Own(u)
           /\ Own(Loaded(u)) = Own(u)
           /\ OnLoan(Loaded(u)) => Loaded(u).expires # 0
           /\ ~OnLoan(Loaded(u)) => Loaded(u).expires = 0 /\ Loaded(u).group = Own(u)
<1>1. u.group \in Groups /\ u.restore \in Groups \cup {None} /\ u.expires \in Nat
    BY DEF UserRow
<1>2. OrDefault(u.restore) \in Groups
    BY <1>1, DefaultIsGroup DEF OrDefault
<1>3. CASE u.expires = 0
    BY <1>1, <1>3 DEF Own, Held, Loaded, OnLoan
<1>4. CASE OnLoan(u)
    BY <1>1, <1>2, <1>4 DEF Own, Held, Loaded, OnLoan
<1>5. CASE u.expires # 0 /\ ~OnLoan(u)
  <2>1. Loaded(u) = [group |-> OrDefault(u.restore), restore |-> None, expires |-> 0]
      BY <1>5 DEF Loaded
  <2>2. ~OnLoan(Loaded(u))
      BY <2>1 DEF OnLoan
  <2>. QED
      BY <1>2, <1>5, <2>1, <2>2 DEF Own, Held
<1>. QED
    BY <1>3, <1>4, <1>5

\* A plan that takes effect gives its group.
LEMMA OwnUpgraded ==
    ASSUME NEW u \in UserRow, now \in Nat, NEW g \in Groups \cup {None}
    PROVE  Own(Upgraded(u, g)) = IF g = None THEN Own(u) ELSE g
<1>1. CASE g = None
    BY <1>1 DEF Upgraded
<1>2. CASE g # None /\ Held(Loaded(u)) = g /\ ~OnLoan(Loaded(u))
  <2>1. Upgraded(u, g) = Loaded(u)
      BY <1>2 DEF Upgraded
  <2>. QED
      BY <1>2, <2>1, OwnHeld
<1>3. CASE g # None /\ ~(Held(Loaded(u)) = g /\ ~OnLoan(Loaded(u)))
  <2>1. Upgraded(u, g) = [group |-> g, restore |-> None, expires |-> 0]
      BY <1>3 DEF Upgraded
  <2>. QED
      BY <1>3, <2>1 DEF Own
<1>. QED
    BY <1>1, <1>2, <1>3

\* A subscription that is over takes the user to its target, if it has one.
LEMMA OwnDowngraded ==
    ASSUME NEW u \in UserRow, now \in Nat, NEW s \in Sold,
           NEW t, t = Target(Loaded(u), s)
    PROVE  Own(Downgraded(u, s)) = IF t = None THEN Own(u) ELSE t
<1>1. PICK l \in UserRow : l = Loaded(u)
    BY LoadedTyped
<1>2. /\ Held(l) = Own(u) /\ Own(l) = Own(u)
      /\ OnLoan(l) => l.expires # 0
      /\ ~OnLoan(l) => l.expires = 0
    BY <1>1, OwnHeld
<1>3. CASE t = None \/ t = Held(l)
  <2>1. Downgraded(u, s) = l
      BY <1>1, <1>3 DEF Downgraded
  <2>. QED
      BY <1>2, <1>3, <2>1
<1>4. CASE ~(t = None \/ t = Held(l))
  <2>1. Downgraded(u, s) = WithHeld(l, t)
      BY <1>1, <1>4 DEF Downgraded
  <2>2. CASE OnLoan(l)
    <3>1. WithHeld(l, t) = [l EXCEPT !.restore = t]
        BY <2>2 DEF WithHeld
    <3>2. [l EXCEPT !.restore = t].restore = t /\ [l EXCEPT !.restore = t].expires = l.expires
        BY DEF UserRow
    <3>. QED
        BY <1>2, <1>4, <2>1, <2>2, <3>1, <3>2 DEF Own, OrDefault
  <2>3. CASE ~OnLoan(l)
    <3>1. WithHeld(l, t) = [l EXCEPT !.group = t]
        BY <2>3 DEF WithHeld
    <3>2. [l EXCEPT !.group = t].group = t /\ [l EXCEPT !.group = t].expires = l.expires
        BY DEF UserRow
    <3>. QED
        BY <1>2, <1>4, <2>1, <2>3, <3>1, <3>2 DEF Own
  <2>. QED
      BY <2>2, <2>3
<1>. QED
    BY <1>3, <1>4

\* ... which is the default group where its plan says so, ...
LEMMA EndsInDefault ==
    ASSUME NEW u \in UserRow, now \in Nat, NEW s \in Sold, s.downgrade = Default
    PROVE  Own(Downgraded(u, s)) = Default
<1>1. Target(Loaded(u), s) = Default /\ Default # None
    BY DefaultIsGroup DEF Target
<1>. QED
    BY <1>1, OwnDowngraded

\* ... or where it returns to it.
Returns(s) ==
    /\ s.downgrade \in {None, Default} /\ s.upgrade # None
    /\ s.prev = Default \/ (s.prev = None /\ s.upgrade = Default)

LEMMA EndReturns ==
    ASSUME NEW u \in UserRow, now \in Nat, NEW s \in Sold, Returns(s)
    PROVE  /\ Own(Downgraded(u, s)) \in {Own(u), Default}
           /\ s.upgrade = Own(u) => Own(Downgraded(u, s)) = Default
<1>1. PICK t : t = Target(Loaded(u), s)
    OBVIOUS
<1>2. t \in {None, Default} /\ (s.upgrade = Own(u) => t = Default \/ (t = None /\ s.upgrade = Default))
    BY <1>1, OwnHeld DEF Target, Returns
<1>3. Own(Downgraded(u, s)) = IF t = None THEN Own(u) ELSE t
    BY <1>1, OwnDowngraded
<1>. QED
    BY <1>2, <1>3, DefaultIsGroup

\* A loan hides the group held and keeps it.
LEMMA OwnLent ==
    ASSUME NEW u \in UserRow, now \in 1 .. MaxTime, NEW c \in Codes
    PROVE  Own(Loan(Loaded(u), CodeOf[c].group, CodeOf[c].minutes)) = Own(u)
<1>1. PICK l \in UserRow : l = Loaded(u)
    BY LoadedTyped
<1>2. CodeOf[c].minutes \in Nat \ {0} /\ l.expires \in Nat /\ now \in Nat
    BY CodesWellFormed, GroupBounds DEF UserRow
<1>3. Held(l) = Own(u) /\ Own(u) \in Groups
    BY <1>1, <1>2, OwnHeld
<1>4. PICK e \in Nat : /\ e = (IF OnLoan(l) /\ l.group = CodeOf[c].group THEN l.expires ELSE now)
                       /\ e + CodeOf[c].minutes # 0
    BY <1>2
<1>5. Loan(l, CodeOf[c].group, CodeOf[c].minutes) =
        [group |-> CodeOf[c].group, restore |-> Own(u), expires |-> e + CodeOf[c].minutes]
    BY <1>3, <1>4 DEF Loan
<1>. QED
    BY <1>1, <1>3, <1>4, <1>5, DefaultIsGroup DEF Own, OrDefault


-----------------------------------------------------------------------------
(* What a step does to the rows.                                            *)

\* A row that stays, or ends: cancelled or expired.
Aged(i) ==
    \/ subs'[i] = subs[i]
    \/ Exists(i) /\ subs'[i] = [subs[i] EXCEPT !.status = "cancelled", !.end = now]
    \/ Due(i) /\ subs'[i] = [subs[i] EXCEPT !.status = "expired"]

\* What was sold of it stays, and nothing becomes active again.
StillSold(i) ==
    /\ Paid(i)' <=> Paid(i)
    /\ Exists(i)' <=> Exists(i)
    /\ subs'[i].source = subs[i].source
    /\ subs'[i].upgrade = subs[i].upgrade /\ subs'[i].downgrade = subs[i].downgrade
    /\ subs'[i].prev = subs[i].prev
    /\ subs'[i].status = "active" => subs[i].status = "active" /\ subs'[i].end = subs[i].end
    /\ subs'[i].status = "expired" =>
         /\ subs'[i].end = subs[i].end
         /\ subs[i].status = "expired" \/ Due(i)
    /\ RowKept(i)'

LEMMA AgedIsSold ==
    ASSUME GroupTyped, NEW i \in Ids, RowKept(i), Aged(i), site' = site, now' = now
    PROVE  StillSold(i)
<1>t. subs[i] \in Sold /\ now \in Nat
    BY GroupBounds DEF GroupTyped
<1>p. PlanOf' = PlanOf
    BY DEF PlanOf
<1>1. CASE subs'[i] = subs[i]
    BY <1>1, <1>p DEF StillSold, RowKept, Paid, Exists
<1>2. CASE Exists(i) /\ subs'[i] = [subs[i] EXCEPT !.status = "cancelled", !.end = now]
  <2>1. /\ subs'[i].status = "cancelled" /\ subs'[i].source = subs[i].source
        /\ subs'[i].upgrade = subs[i].upgrade /\ subs'[i].downgrade = subs[i].downgrade
        /\ subs'[i].prev = subs[i].prev /\ subs'[i].plan = subs[i].plan
      BY <1>2, <1>t DEF Sold
  <2>. QED
      BY <1>2, <1>p, <2>1 DEF StillSold, RowKept, Paid, Exists
<1>3. CASE Due(i) /\ subs'[i] = [subs[i] EXCEPT !.status = "expired"]
  <2>1. /\ subs'[i].status = "expired" /\ subs'[i].source = subs[i].source
        /\ subs'[i].upgrade = subs[i].upgrade /\ subs'[i].downgrade = subs[i].downgrade
        /\ subs'[i].prev = subs[i].prev /\ subs'[i].plan = subs[i].plan
        /\ subs'[i].end = subs[i].end
      BY <1>3, <1>t DEF Sold
  <2>. QED
      BY <1>3, <1>p, <2>1 DEF StillSold, RowKept, Paid, Exists, Due
<1>. QED
    BY <1>1, <1>2, <1>3 DEF Aged

\* Rows keep their numbers.
LEMMA OrderKept ==
    ASSUME RowsInOrder,
           \A i \in Ids : (Exists(i) \/ subs[i].source = "deleted") <=>
                          (Exists(i) \/ subs[i].source = "deleted")'
    PROVE  RowsInOrder'
<1>1. PICK k \in 0 .. MaxSubs : \A i \in Ids : (Exists(i) \/ subs[i].source = "deleted") <=> i <= k
    BY DEF RowsInOrder
<1>2. \A i \in Ids : (Exists(i) \/ subs[i].source = "deleted")' <=> i <= k
    BY <1>1
<1>. QED
    BY <1>2 DEF RowsInOrder

\* The next number is free, and the one after those in use.
LEMMA NextIsFree ==
    ASSUME RowsInOrder, NextId \in Ids
    PROVE  /\ ~Exists(NextId) /\ subs[NextId].source # "deleted"
           /\ \A i \in Ids : (Exists(i) \/ subs[i].source = "deleted") <=> i <= NextId - 1
<1>1. PICK k \in 0 .. MaxSubs : \A i \in Ids : (Exists(i) \/ subs[i].source = "deleted") <=> i <= k
    BY DEF RowsInOrder
<1>2. {i \in Ids : Exists(i) \/ subs[i].source = "deleted"} = 1 .. k
    BY <1>1, GroupBounds DEF Ids
<1>3. Cardinality(1 .. k) = k
    BY <1>1, GroupBounds, FS_Interval
<1>k. k \in Nat
    BY <1>1, GroupBounds
<1>4. NextId = k + 1 /\ k \in Nat
    BY <1>k, <1>2, <1>3 DEF NextId
<1>5. NextId - 1 = k /\ ~(NextId <= k)
    BY <1>4
<1>6. ~(Exists(NextId) \/ subs[NextId].source = "deleted")
    BY <1>1, <1>5
<1>. QED
    BY <1>1, <1>5, <1>6

\* What is in force.
Current == {subs[i] : i \in {j \in Ids : InForce(j)}}

\* The row of a new subscription, and what is left of the others.
NewRow(n, p, source, up, down) ==
    /\ subs'[n].status = "active" /\ subs'[n].plan = p /\ subs'[n].source = source
    /\ subs'[n].upgrade = up /\ subs'[n].downgrade = down
    /\ subs'[n].prev = PrevGroup(user, Current, up)
    /\ source # "redemption" => subs'[n].end > now
OtherRows(n) ==
    \A i \in Ids : i # n => /\ Aged(i)
                            /\ InForce(i) => subs'[i].status = "cancelled"
                            /\ ~InForce(i) => subs'[i] = subs[i]

LEMMA CreatedRows ==
    ASSUME GroupTyped, RowsInOrder, NextId \in Ids, NEW p \in Plans,
           NEW source \in {"order", "admin", "redemption"},
           NEW up \in Groups \cup {None}, NEW down \in Groups \cup {None}, NEW over \in Nat,
           source # "redemption" => over = 0,
           subs' = CreatedSubs(user, p, source, up, down, over)
    PROVE  NewRow(NextId, p, source, up, down) /\ OtherRows(NextId)
<1>t. now \in Nat /\ subs \in [Ids -> Sold]
    BY GroupBounds DEF GroupTyped
<1>. DEFINE end == IF Current = {} THEN (IF over # 0 THEN over ELSE now + PlanOf[p].length)
                   ELSE LET s == CHOOSE s \in Current : TRUE
                        IN IF source = "redemption" /\ s.source = "redemption" /\ over > s.end
                           THEN over ELSE s.end
<1>1. subs' =
        [i \in Ids |->
          IF i = NextId
          THEN [status |-> "active", end |-> end, plan |-> p, upgrade |-> up,
                prev |-> PrevGroup(user, Current, up), downgrade |-> down, source |-> source]
          ELSE IF InForce(i) THEN [subs[i] EXCEPT !.status = "cancelled", !.end = now]
          ELSE subs[i]]
    BY DEF CreatedSubs, Current
<1>2. source # "redemption" => end > now
  <2>1. SUFFICES ASSUME source # "redemption" PROVE end > now
      OBVIOUS
  <2>2. CASE Current = {}
    <3>1. PlanOf[p].length \in Nat \ {0}
        BY PlansWellFormed DEF GroupTyped, PlanOf
    <3>2. end = now + PlanOf[p].length
        BY <2>1, <2>2
    <3>. QED
        BY <1>t, <3>1, <3>2
  <2>3. CASE Current # {}
    <3>1. PICK s \in Current : s = CHOOSE x \in Current : TRUE
        BY <2>3
    <3>2. s.end > now
        BY <3>1 DEF Current, InForce
    <3>3. end = s.end
        BY <2>1, <2>3, <3>1
    <3>. QED
        BY <3>2, <3>3
  <2>. QED
      BY <2>2, <2>3
<1>. HIDE DEF end
<1>3. subs'[NextId] = [status |-> "active", end |-> end, plan |-> p, upgrade |-> up,
                       prev |-> PrevGroup(user, Current, up), downgrade |-> down, source |-> source]
    BY <1>1
<1>4. NewRow(NextId, p, source, up, down)
    BY <1>2, <1>3 DEF NewRow
<1>5. OtherRows(NextId)
  <2>1. SUFFICES ASSUME NEW i \in Ids, i # NextId
                 PROVE  /\ Aged(i)
                        /\ InForce(i) => subs'[i].status = "cancelled"
                        /\ ~InForce(i) => subs'[i] = subs[i]
      BY DEF OtherRows
  <2>2. CASE InForce(i)
    <3>1. subs'[i] = [subs[i] EXCEPT !.status = "cancelled", !.end = now]
        BY <1>1, <2>1, <2>2
    <3>2. subs'[i].status = "cancelled"
        BY <1>t, <3>1 DEF Sold
    <3>. QED
        BY <2>2, <3>1, <3>2 DEF Aged, Exists, InForce
  <2>3. CASE ~InForce(i)
      BY <1>1, <2>1, <2>3 DEF Aged
  <2>. QED
      BY <2>2, <2>3
<1>. QED
    BY <1>4, <1>5

\* The new row is the only one in force; rows are kept and numbered.
LEMMA CreatedKept ==
    ASSUME GroupTyped, \A i \in Ids : RowKept(i), RowsInOrder,
           NEW n \in Ids, n = NextId,
           site' = site, now' = now, OtherRows(n),
           RowKept(n)', subs'[n].status = "active"
    PROVE  /\ \A i \in Ids : RowKept(i)'
           /\ RowsInOrder'
           /\ \A i \in Ids : InForce(i)' => i = n
           /\ \A i \in Ids : i # n => StillSold(i)
           /\ ~Paid(n) /\ ~Exists(n)
<1>1. ASSUME NEW i \in Ids, i # n PROVE StillSold(i)
  <2>1. Aged(i)
      BY <1>1 DEF OtherRows
  <2>. QED
      BY <1>1, <2>1, AgedIsSold
<1>3. /\ ~Exists(n) /\ subs[n].source # "deleted" /\ n \in Nat
      /\ \A i \in Ids : (Exists(i) \/ subs[i].source = "deleted") <=> i <= n - 1
    BY NextIsFree, GroupBounds DEF Ids
<1>4. Exists(n)'
    BY DEF Exists
<1>5. RowsInOrder'
  <2>1. ASSUME NEW i \in Ids
        PROVE  (Exists(i) \/ subs[i].source = "deleted")' <=> i <= n
    <3>1. CASE i = n
        BY <1>4, <3>1 DEF Ids
    <3>2. CASE i # n
      <4>1. StillSold(i)
          BY <1>1, <3>2
      <4>2. i <= n - 1 <=> i <= n
          BY <3>2, GroupBounds DEF Ids
      <4>. QED
          BY <1>3, <4>1, <4>2 DEF StillSold
    <3>. QED
        BY <3>1, <3>2
  <2>2. n \in 0 .. MaxSubs
      BY GroupBounds DEF Ids
  <2>. QED
      BY <2>1, <2>2 DEF RowsInOrder
<1>6. \A i \in Ids : RowKept(i)'
    BY <1>1 DEF StillSold
<1>7. ASSUME NEW i \in Ids, i # n PROVE ~InForce(i)'
    BY <1>7 DEF OtherRows, InForce
<1>8. ~Paid(n)
    BY <1>3 DEF RowKept, Paid, Exists
<1>. QED
    BY <1>1, <1>3, <1>5, <1>6, <1>7, <1>8

\* A purchase in a returning site: only the default group can be the one held.
LEMMA DefaultBeforePurchase ==
    ASSUME ReturnInv, ReturningSite(site), \A i \in Ids : ~Due(i),
           NEW up \in Groups, NEW prev, prev = PrevGroup(user, Current, up)
    PROVE  prev = Default \/ (prev = None /\ up = Default)
<1>t. now \in Nat /\ user \in UserRow
    BY GroupBounds DEF ReturnInv, GroupTyped
<1>i. \A i \in Ids : subs[i].status = "active" => InForce(i)
  <2>1. \A i \in Ids : subs[i].end \in Nat
      BY DEF ReturnInv, GroupTyped, Sold
  <2>. QED
      BY <1>t, <2>1 DEF Due, InForce
<1>h. Held(Loaded(user)) = Own(user) /\ up # None
    BY <1>t, OwnHeld, DefaultIsGroup
<1>r. /\ \A i \in Ids : Paid(i) => subs[i].prev = Default \/ (subs[i].prev = None /\ subs[i].upgrade = Default)
      /\ Own(user) = Default \/ \E i \in Ids : PaidActive(i) /\ subs[i].upgrade = Own(user)
    BY DEF ReturnInv, PlanReturns
<1>1. CASE Current # {} /\ (CHOOSE s \in Current : TRUE).prev # None
  <2>1. PICK i \in Ids : InForce(i) /\ subs[i] = CHOOSE s \in Current : TRUE
      BY <1>1 DEF Current
  <2>2. prev = subs[i].prev /\ prev # None
      BY <1>1, <2>1 DEF PrevGroup
  <2>3. Paid(i)
      BY <2>2 DEF ReturnInv, RowKept
  <2>. QED
      BY <1>r, <2>2, <2>3
<1>2. CASE ~(Current # {} /\ (CHOOSE s \in Current : TRUE).prev # None)
  <2>1. prev = IF Own(user) # up \/ OnLoan(Loaded(user)) THEN Own(user) ELSE None
      BY <1>2, <1>h DEF PrevGroup
  <2>2. Own(user) = Default
    <3>1. SUFFICES ASSUME NEW i \in Ids, PaidActive(i), subs[i].upgrade = Own(user)
                   PROVE  Own(user) = Default
        BY <1>r
    <3>2. InForce(i)
        BY <1>i, <3>1 DEF PaidActive
    <3>3. Current # {}
        BY <3>2 DEF Current
    <3>4. PICK j \in Ids : InForce(j) /\ subs[j] = CHOOSE s \in Current : TRUE
        BY <3>3 DEF Current
    <3>5. j = i
        BY <3>2, <3>4 DEF ReturnInv, InForceHeld
    <3>6. subs[i].prev = None
        BY <1>2, <3>3, <3>4, <3>5
    <3>7. Default # None
        BY DefaultIsGroup
    <3>. QED
        BY <1>r, <3>1, <3>6, <3>7 DEF PaidActive
  <2>. QED
      BY <2>1, <2>2
<1>. QED
    BY <1>1, <1>2

\* A purchase returns what was held before, or names the group to return to.
LEMMA PurchaseReturns ==
    ASSUME SitesReturn, ReturnInv, GroupTyped',
           NEW p \in Plans, NEW source \in {"order", "admin"}, Purchase(p, source)
    PROVE  ReturnInv'
<1>t. now \in Nat /\ user \in UserRow /\ GroupTyped /\ site \in Sites
    BY GroupBounds DEF ReturnInv, GroupTyped
<1>a. /\ site' = site /\ now' = now
      /\ PromptExpiry => \A i \in Ids : ~Due(i)
      /\ subs' = CreatedSubs(user, p, source, PlanOf[p].upgrade, PlanOf[p].downgrade, 0)
      /\ user' = Upgraded(user, PlanOf[p].upgrade)
    BY DEF Purchase
<1>n. PICK n \in Ids : n = NextId
    BY DEF Purchase
<1>u. PICK up, down : /\ up = PlanOf[p].upgrade /\ down = PlanOf[p].downgrade
                      /\ up \in Groups \cup {None} /\ down \in Groups \cup {None}
    BY <1>t, PlanTyped
<1>1. NewRow(n, p, source, up, down) /\ OtherRows(n)
  <2>1. RowsInOrder
      BY DEF ReturnInv
  <2>. QED
      BY <1>t, <1>a, <1>n, <1>u, <2>1, CreatedRows
<1>2. /\ subs'[n].status = "active" /\ subs'[n].plan = p /\ subs'[n].source = source
      /\ subs'[n].upgrade = up /\ subs'[n].downgrade = down
      /\ subs'[n].prev = PrevGroup(user, Current, up) /\ subs'[n].end > now
    BY <1>1 DEF NewRow
<1>3. RowKept(n)' /\ PaidActive(n)'
  <2>1. PlanOf' = PlanOf
      BY <1>a DEF PlanOf
  <2>. QED
      BY <1>2, <1>u, <2>1 DEF RowKept, Paid, PaidActive, Exists
<1>4. /\ \A i \in Ids : RowKept(i)'
      /\ RowsInOrder'
      /\ \A i \in Ids : InForce(i)' => i = n
      /\ \A i \in Ids : i # n => StillSold(i)
      /\ ~Paid(n) /\ ~Exists(n)
    BY <1>t, <1>a, <1>n, <1>1, <1>2, <1>3, CreatedKept DEF ReturnInv
<1>o. Own(user)' = IF up = None THEN Own(user) ELSE up
    BY <1>t, <1>a, <1>u, OwnUpgraded
<1>5. InForceHeld'
    BY <1>2, <1>4, <1>o DEF InForceHeld
<1>6. OwnWasPaid'
  <2>1. CASE up = None
    <3>1. Own(user) = Default \/ \E i \in Ids : Paid(i) /\ subs[i].upgrade = Own(user)
        BY DEF ReturnInv, OwnWasPaid
    <3>2. \A i \in Ids : Paid(i) => Paid(i)' /\ subs'[i].upgrade = subs[i].upgrade
        BY <1>4 DEF StillSold
    <3>. QED
        BY <1>o, <2>1, <3>1, <3>2 DEF OwnWasPaid
  <2>2. CASE up # None
      BY <1>2, <1>3, <1>o, <2>2 DEF OwnWasPaid, PaidActive
  <2>. QED
      BY <2>1, <2>2
<1>7. ExplicitReturns'
    BY <1>3 DEF ExplicitReturns
<1>8. PlanReturns'
  <2>1. SUFFICES ASSUME ReturningSite(site)
        PROVE  /\ \A i \in Ids : Paid(i)' =>
                    subs'[i].prev = Default \/ (subs'[i].prev = None /\ subs'[i].upgrade = Default)
               /\ \A i, j \in Ids : PaidActive(i)' /\ PaidActive(j)' => i = j
               /\ \A i, j \in Ids : Paid(i)' /\ subs'[i].status = "expired" /\ PaidActive(j)'
                    => subs'[i].end < subs'[j].end
               /\ Own(user)' = Default \/ \E i \in Ids : PaidActive(i)' /\ subs'[i].upgrade = Own(user)'
      BY <1>a DEF PlanReturns, ReturningSite
  <2>2. (\A i \in Ids : ~Due(i)) /\ up # None
      BY <1>a, <1>u, <2>1 DEF ReturningSite, PromptExpiry, PlanOf
  <2>3. subs'[n].prev = Default \/ (subs'[n].prev = None /\ subs'[n].upgrade = Default)
    <3>1. PICK prev : prev = PrevGroup(user, Current, up)
        OBVIOUS
    <3>2. prev = Default \/ (prev = None /\ up = Default)
        BY <1>u, <2>1, <2>2, <3>1, DefaultBeforePurchase
    <3>. QED
        BY <1>2, <3>1, <3>2
  <2>4. ASSUME NEW i \in Ids, Paid(i)'
        PROVE  subs'[i].prev = Default \/ (subs'[i].prev = None /\ subs'[i].upgrade = Default)
    <3>1. CASE i # n
      <4>1. Paid(i) /\ subs'[i].prev = subs[i].prev /\ subs'[i].upgrade = subs[i].upgrade
          BY <1>4, <2>4, <3>1 DEF StillSold
      <4>. QED
          BY <2>1, <4>1 DEF ReturnInv, PlanReturns
    <3>. QED
        BY <2>3, <3>1
  <2>5. ASSUME NEW i \in Ids, PaidActive(i)' PROVE i = n
    <3>1. SUFFICES ASSUME i # n PROVE FALSE
        OBVIOUS
    <3>2. subs'[i].status = "active"
        BY <2>5 DEF PaidActive
    <3>3. subs[i].status = "active" /\ ~InForce(i)
        BY <1>1, <1>4, <3>1, <3>2 DEF StillSold, OtherRows
    <3>4. subs[i].end \in Nat
        BY <1>t DEF GroupTyped, Sold
    <3>. QED
        BY <1>t, <2>2, <3>3, <3>4 DEF InForce, Due
  <2>6. ASSUME NEW i \in Ids, subs'[i].status = "expired" PROVE subs'[i].end < subs'[n].end
    <3>1. subs'[i].end <= now
        BY <1>4, <1>a, <2>6 DEF RowKept
    <3>2. subs'[i].end \in Nat /\ subs'[n].end \in Nat
        BY DEF GroupTyped, Sold
    <3>. QED
        BY <1>2, <1>t, <3>1, <3>2
  <2>. QED
      BY <1>2, <1>3, <1>o, <2>2, <2>4, <2>5, <2>6
<1>. QED
    BY <1>4, <1>5, <1>6, <1>7, <1>8 DEF ReturnInv

-----------------------------------------------------------------------------
(* Steps that sell nothing.                                                 *)

\* A row that is deleted.
Gone(i) == Exists(i) /\ subs'[i].status = "none" /\ subs'[i].source = "deleted" /\ RowKept(i)'

\* The group held is that of the subscription in force, was paid for, and will
\* be returned.
HeldRight ==
    /\ \A i \in Ids : InForce(i) /\ subs[i].upgrade # None => Own(user) = subs[i].upgrade
    /\ OwnWasPaid /\ ExplicitReturns
    /\ ReturningSite(site) =>
         Own(user) = Default \/ \E i \in Ids : PaidActive(i) /\ subs[i].upgrade = Own(user)

\* It is so after a step that leaves the group held to the subscription in force,
\* and otherwise returns it unless what paid for it is left.
LEMMA HeldAfterEnd ==
    ASSUME ReturnInv, site' = site,
           \A j \in Ids : InForce(j)' /\ subs'[j].upgrade # None =>
                InForce(j) /\ subs'[j].upgrade = subs[j].upgrade /\ Own(user)' = Own(user),
           \/ Own(user)' = Own(user) /\ \A j \in Ids : Paid(j) =>
                Paid(j)' /\ subs'[j].upgrade = subs[j].upgrade /\ (PaidActive(j) => PaidActive(j)')
           \/ Own(user)' = Default
           \/ Own(user)' = Own(user) /\ \E j \in Ids : PaidActive(j)' /\ subs'[j].upgrade = Own(user)
    PROVE  HeldRight'
<1>1. \A i \in Ids : InForce(i)' /\ subs'[i].upgrade # None => Own(user)' = subs'[i].upgrade
    BY DEF ReturnInv, InForceHeld
<1>2. OwnWasPaid'
    BY DEF ReturnInv, OwnWasPaid, PaidActive
<1>3. ExplicitReturns'
  <2>1. SUFFICES ASSUME ExplicitSite(site)
                 PROVE  Own(user)' = Default \/ \E i \in Ids : PaidActive(i)'
      BY DEF ExplicitReturns, ExplicitSite
  <2>. QED
      BY <2>1 DEF ReturnInv, ExplicitReturns, PaidActive
<1>4. ReturningSite(site)' =>
         Own(user)' = Default \/ \E i \in Ids : PaidActive(i)' /\ subs'[i].upgrade = Own(user)'
  <2>1. SUFFICES ASSUME ReturningSite(site)
                 PROVE  Own(user)' = Default \/ \E i \in Ids : PaidActive(i)' /\ subs'[i].upgrade = Own(user)'
      BY DEF ReturningSite
  <2>. QED
      BY <2>1 DEF ReturnInv, PlanReturns, PaidActive
<1>. QED
    BY <1>1, <1>2, <1>3, <1>4 DEF HeldRight

\* What was paid for and ends keeps its order, and the group to return to.
LEMMA PlansKept ==
    ASSUME ReturnInv, site' = site, \A i \in Ids : Paid(i)' => StillSold(i), HeldRight'
    PROVE  PlanReturns'
<1>1. SUFFICES ASSUME ReturningSite(site)
      PROVE  /\ \A i \in Ids : Paid(i)' =>
                  subs'[i].prev = Default \/ (subs'[i].prev = None /\ subs'[i].upgrade = Default)
             /\ \A i, j \in Ids : PaidActive(i)' /\ PaidActive(j)' => i = j
             /\ \A i, j \in Ids : Paid(i)' /\ subs'[i].status = "expired" /\ PaidActive(j)'
                  => subs'[i].end < subs'[j].end
             /\ Own(user)' = Default \/ \E i \in Ids : PaidActive(i)' /\ subs'[i].upgrade = Own(user)'
    BY DEF PlanReturns, ReturningSite
<1>2. /\ \A i \in Ids : Paid(i) =>
           subs[i].prev = Default \/ (subs[i].prev = None /\ subs[i].upgrade = Default)
      /\ \A i, j \in Ids : PaidActive(i) /\ PaidActive(j) => i = j
      /\ \A i, j \in Ids : Paid(i) /\ subs[i].status = "expired" /\ PaidActive(j)
           => subs[i].end < subs[j].end
    BY <1>1 DEF ReturnInv, PlanReturns
<1>4. \A i \in Ids : PaidActive(i)' => PaidActive(i) /\ subs'[i].end = subs[i].end
    BY DEF StillSold, PaidActive
<1>5. ASSUME NEW i \in Ids, NEW j \in Ids, Paid(i)', subs'[i].status = "expired", PaidActive(j)'
      PROVE  subs'[i].end < subs'[j].end
  <2>1. Paid(i) /\ subs'[i].end = subs[i].end /\ (subs[i].status = "expired" \/ Due(i))
      BY <1>5 DEF StillSold
  <2>2. PaidActive(j) /\ subs'[j].end = subs[j].end /\ subs'[j].status = "active"
      BY <1>4, <1>5 DEF PaidActive
  <2>3. ~Due(i)
    <3>1. SUFFICES ASSUME Due(i) PROVE FALSE
        OBVIOUS
    <3>2. PaidActive(i)
        BY <2>1, <3>1 DEF PaidActive, Due
    <3>. QED
        BY <1>2, <1>5, <2>2, <3>2
  <2>. QED
      BY <1>2, <2>1, <2>2, <2>3
<1>6. \A i \in Ids : Paid(i)' =>
           subs'[i].prev = Default \/ (subs'[i].prev = None /\ subs'[i].upgrade = Default)
    BY <1>2 DEF StillSold
<1>7. Own(user)' = Default \/ \E i \in Ids : PaidActive(i)' /\ subs'[i].upgrade = Own(user)'
    BY <1>1 DEF HeldRight, ReturningSite
<1>. QED
    BY <1>2, <1>4, <1>5, <1>6, <1>7

\* Rows that only end keep the rest of the invariant.
LEMMA RowsEnd ==
    ASSUME ReturnInv, GroupTyped', site' = site, now' = now,
           \A i \in Ids : StillSold(i) \/ Gone(i), HeldRight'
    PROVE  ReturnInv'
<1>1. \A i \in Ids : RowKept(i)'
    BY DEF StillSold, Gone
<1>2. RowsInOrder'
  <2>1. \A i \in Ids : (Exists(i) \/ subs[i].source = "deleted") <=>
                       (Exists(i) \/ subs[i].source = "deleted")'
      BY DEF StillSold, Gone, Exists
  <2>. QED
      BY <2>1, OrderKept DEF ReturnInv
<1>3. \A i \in Ids : subs'[i].status = "active" => StillSold(i)
    BY DEF Gone
<1>4. \A i \in Ids : InForce(i)' => InForce(i)
    BY <1>3 DEF StillSold, InForce
<1>5. InForceHeld'
    BY <1>4 DEF ReturnInv, InForceHeld, HeldRight
<1>6. PlanReturns'
  <2>1. \A i \in Ids : Paid(i)' => StillSold(i)
      BY DEF Gone, Paid
  <2>. QED
      BY <2>1, PlansKept
<1>. QED
    BY <1>1, <1>2, <1>5, <1>6 DEF ReturnInv, HeldRight

\* The plans of the rows that were paid for.
LEMMA PaidEnds ==
    ASSUME SitesReturn, ReturnInv, NEW i \in Ids, Paid(i)
    PROVE  /\ subs[i].downgrade # None \/ subs[i].upgrade # None
           /\ subs[i].downgrade = Default \/ (ReturningSite(site) /\ Returns(subs[i]))
<1>1. /\ subs[i].plan \in Plans /\ site \in Sites
      /\ subs[i].upgrade = PlanOf[subs[i].plan].upgrade
      /\ subs[i].downgrade = PlanOf[subs[i].plan].downgrade
    BY DEF ReturnInv, RowKept, GroupTyped
<1>2. CASE ExplicitSite(site)
    BY <1>1, <1>2, DefaultIsGroup DEF ExplicitSite, PlanOf
<1>3. CASE ReturningSite(site)
  <2>1. subs[i].upgrade # None /\ subs[i].downgrade \in {None, Default}
      BY <1>1, <1>3 DEF ReturningSite, PlanOf
  <2>2. subs[i].prev = Default \/ (subs[i].prev = None /\ subs[i].upgrade = Default)
      BY <1>3 DEF ReturnInv, PlanReturns
  <2>. QED
      BY <1>3, <2>1, <2>2 DEF Returns
<1>. QED
    BY <1>1, <1>2, <1>3 DEF SitesReturn

\* An upgrading subscription in force was paid for, and its group is held.
LEMMA InForcePaid ==
    ASSUME ReturnInv, NEW j \in Ids, InForce(j), subs[j].upgrade # None
    PROVE  PaidActive(j) /\ Own(user) = subs[j].upgrade
BY DEF ReturnInv, RowKept, InForceHeld, PaidActive, InForce

\* Where the end of subscription i leaves the user, as administrators end it.
LEMMA OwnAfterEnd ==
    ASSUME SitesReturn, ReturnInv, NEW i \in Ids, user' = AfterEnd(i, subs)
    PROVE  /\ \A j \in Ids : j # i /\ InForce(j) /\ subs[j].upgrade # None => Own(user)' = Own(user)
           /\ \/ Own(user)' = Own(user) /\ ~Paid(i)
              \/ Own(user)' = Default
              \/ Own(user)' = Own(user) /\ \E j \in Ids : j # i /\ PaidActive(j) /\ subs[j].upgrade = Own(user)
<1>t. now \in Nat /\ user \in UserRow /\ subs[i] \in Sold
    BY GroupBounds DEF ReturnInv, GroupTyped
<1>1. CASE subs[i].downgrade = None /\ subs[i].upgrade = None
  <2>1. user' = user
      BY <1>1 DEF AfterEnd
  <2>2. ~Paid(i)
      BY <1>1, PaidEnds
  <2>. QED
      BY <2>1, <2>2
<1>2. CASE ~(subs[i].downgrade = None /\ subs[i].upgrade = None) /\ Upgrading(subs) \ {i} # {}
  <2>1. user' = Loaded(user)
      BY <1>2 DEF AfterEnd
  <2>2. Own(user)' = Own(user)
      BY <1>t, <2>1, OwnHeld
  <2>3. PICK j \in Ids : j # i /\ InForce(j) /\ subs[j].upgrade # None
      BY <1>2 DEF Upgrading, InForce
  <2>4. PaidActive(j) /\ Own(user) = subs[j].upgrade
      BY <2>3, InForcePaid
  <2>. QED
      BY <2>2, <2>3, <2>4
<1>3. CASE ~(subs[i].downgrade = None /\ subs[i].upgrade = None) /\ Upgrading(subs) \ {i} = {}
  <2>1. user' = Downgraded(user, subs[i])
      BY <1>3 DEF AfterEnd
  <2>2. \A j \in Ids : j # i => ~(InForce(j) /\ subs[j].upgrade # None)
      BY <1>3 DEF Upgrading, InForce
  <2>3. Paid(i)
      BY <1>3 DEF ReturnInv, RowKept
  <2>4. CASE subs[i].downgrade = Default
      BY <1>t, <2>1, <2>2, <2>4, EndsInDefault
  <2>5. CASE ReturningSite(site) /\ Returns(subs[i])
    <3>1. /\ Own(user)' \in {Own(user), Default}
          /\ subs[i].upgrade = Own(user) => Own(user)' = Default
        BY <1>t, <2>1, <2>5, EndReturns
    <3>2. Own(user) = Default \/ \E j \in Ids : PaidActive(j) /\ subs[j].upgrade = Own(user)
        BY <2>5 DEF ReturnInv, PlanReturns
    <3>. QED
        BY <2>2, <3>1, <3>2
  <2>. QED
      BY <2>3, <2>4, <2>5, PaidEnds
<1>. QED
    BY <1>1, <1>2, <1>3

\* Administrators invalidate, delete and free.
LEMMA AdminReturns ==
    ASSUME SitesReturn, ReturnInv, GroupTyped',
           AdminFree \/ \E i \in Ids : AdminInvalidate(i) \/ AdminDelete(i)
    PROVE  ReturnInv'
<1>t. /\ now \in Nat /\ user \in UserRow /\ subs \in [Ids -> Sold] /\ GroupTyped
      /\ \A i \in Ids : RowKept(i)
    BY GroupBounds DEF ReturnInv, GroupTyped
<1>1. CASE AdminFree
  <2>0. /\ site' = site /\ now' = now
        /\ subs' = [i \in Ids |-> IF InForce(i) THEN [subs[i] EXCEPT !.status = "cancelled", !.end = now]
                                  ELSE subs[i]]
        /\ user' = [group |-> Default, restore |-> None, expires |-> 0]
      BY <1>1 DEF AdminFree
  <2>1. \A i \in Ids : Aged(i)
      BY <2>0 DEF Aged, InForce, Exists
  <2>2. \A i \in Ids : StillSold(i)
      BY <1>t, <2>0, <2>1, AgedIsSold
  <2>3. \A i \in Ids : ~InForce(i)'
      BY <1>t, <2>0 DEF InForce, Sold
  <2>4. Own(user)' = Default
      BY <2>0 DEF Own
  <2>5. HeldRight'
      BY <2>0, <2>3, <2>4, HeldAfterEnd
  <2>. QED
      BY <2>0, <2>2, <2>5, RowsEnd
<1>2. ASSUME NEW i \in Ids, AdminInvalidate(i) \/ AdminDelete(i) PROVE ReturnInv'
  <2>0. /\ site' = site /\ now' = now /\ user' = AfterEnd(i, subs) /\ Exists(i)
        /\ \/ subs' = [subs EXCEPT ![i] = [subs[i] EXCEPT !.status = "cancelled", !.end = now]]
           \/ subs' = [subs EXCEPT ![i] = [NoSub EXCEPT !.source = "deleted"]]
      BY <1>2, <1>t DEF AdminInvalidate, AdminDelete
  <2>1. \A j \in Ids : j # i => subs'[j] = subs[j]
      BY <1>t, <2>0
  <2>2. \A j \in Ids : j # i => StillSold(j)
      BY <1>t, <2>0, <2>1, AgedIsSold DEF Aged
  <2>3. (StillSold(i) \/ Gone(i)) /\ subs'[i].status # "active"
    <3>1. CASE subs' = [subs EXCEPT ![i] = [subs[i] EXCEPT !.status = "cancelled", !.end = now]]
      <4>1. subs'[i] = [subs[i] EXCEPT !.status = "cancelled", !.end = now]
          BY <1>t, <3>1
      <4>2. subs'[i].status = "cancelled"
          BY <1>t, <4>1 DEF Sold
      <4>3. StillSold(i)
          BY <1>t, <2>0, <4>1, AgedIsSold DEF Aged
      <4>. QED
          BY <4>2, <4>3
    <3>2. CASE subs' = [subs EXCEPT ![i] = [NoSub EXCEPT !.source = "deleted"]]
      <4>1. subs'[i] = [NoSub EXCEPT !.source = "deleted"]
          BY <1>t, <3>2
      <4>2. /\ subs'[i].status = "none" /\ subs'[i].source = "deleted" /\ subs'[i].upgrade = None
            /\ subs'[i].downgrade = None /\ subs'[i].prev = None
          BY <4>1 DEF NoSub
      <4>. QED
          BY <2>0, <4>2 DEF Gone, RowKept, Paid, Exists
    <3>. QED
        BY <2>0, <3>1, <3>2
  <2>4. \A j \in Ids : InForce(j)' => j # i /\ InForce(j) /\ subs'[j].upgrade = subs[j].upgrade
      BY <2>0, <2>1, <2>3 DEF InForce
  <2>5. /\ \A j \in Ids : j # i /\ InForce(j) /\ subs[j].upgrade # None => Own(user)' = Own(user)
        /\ \/ Own(user)' = Own(user) /\ ~Paid(i)
           \/ Own(user)' = Default
           \/ Own(user)' = Own(user) /\ \E j \in Ids : j # i /\ PaidActive(j) /\ subs[j].upgrade = Own(user)
      BY <2>0, OwnAfterEnd
  <2>6. \A j \in Ids : j # i => /\ Paid(j)' <=> Paid(j)
                                /\ PaidActive(j)' <=> PaidActive(j)
                                /\ subs'[j].upgrade = subs[j].upgrade
      BY <2>1 DEF Paid, PaidActive
  <2>7. HeldRight'
      BY <2>0, <2>4, <2>5, <2>6, HeldAfterEnd
  <2>. QED
      BY <2>0, <2>2, <2>3, <2>7, RowsEnd
<1>. QED
    BY <1>1, <1>2

\* ExpireDueSubscriptions: the last of those expired returns the group.
LEMMA ExpireReturns ==
    ASSUME SitesReturn, ReturnInv, GroupTyped', ExpireDue
    PROVE  ReturnInv'
<1>t. /\ now \in Nat /\ user \in UserRow /\ subs \in [Ids -> Sold] /\ GroupTyped
      /\ \A i \in Ids : RowKept(i)
    BY GroupBounds DEF ReturnInv, GroupTyped
<1>p. subs' \in [Ids -> Sold]
    BY DEF GroupTyped
<1>a. /\ site' = site /\ now' = now
      /\ subs' = [i \in Ids |-> IF Due(i) THEN [subs[i] EXCEPT !.status = "expired"] ELSE subs[i]]
    BY DEF ExpireDue
<1>1. \A i \in Ids : StillSold(i)
  <2>1. \A i \in Ids : Aged(i)
      BY <1>a DEF Aged
  <2>. QED
      BY <1>t, <1>a, <2>1, AgedIsSold
<1>2. \A i \in Ids : /\ Due(i) => subs'[i].status = "expired"
                     /\ ~Due(i) => subs'[i] = subs[i]
    BY <1>t, <1>a DEF Sold
<1>. DEFINE done == {i \in Ids : /\ subs'[i].status = "expired"
                                 /\ subs'[i].downgrade # None \/ subs'[i].upgrade # None}
            last == CHOOSE i \in done : \A j \in done :
                      subs'[j].end < subs'[i].end \/ (subs'[j].end = subs'[i].end /\ j <= i)
<1>3. user' = IF Upgrading(subs') # {} \/ done = {} THEN user ELSE Downgraded(user, subs'[last])
    BY DEF ExpireDue
<1>4. done # {} => /\ last \in done
                   /\ \A j \in done : subs'[j].end < subs'[last].end \/ (subs'[j].end = subs'[last].end /\ j <= last)
  <2>1. done \in SUBSET Ids
      OBVIOUS
  <2>. HIDE DEF done
  <2>2. done # {} => \E i \in done : \A j \in done :
            subs'[j].end < subs'[i].end \/ (subs'[j].end = subs'[i].end /\ j <= i)
      BY <1>p, <2>1, LastExists
  <2>. QED
      BY <2>2
<1>5. \A i \in Ids : InForce(i) => subs'[i] = subs[i] /\ InForce(i)'
  <2>1. \A i \in Ids : subs[i].end \in Nat
      BY <1>t DEF Sold
  <2>. QED
      BY <1>t, <1>a, <1>2, <2>1 DEF InForce, Due
<1>6. \A i \in Ids : InForce(i)' => InForce(i) /\ subs'[i].upgrade = subs[i].upgrade
    BY <1>1, <1>a DEF InForce, StillSold
<1>7. CASE Upgrading(subs') # {}
  <2>1. user' = user
      BY <1>3, <1>7
  <2>2. PICK j \in Ids : InForce(j)' /\ subs'[j].upgrade # None
      BY <1>a, <1>7 DEF Upgrading, InForce
  <2>3. InForce(j) /\ subs'[j] = subs[j] /\ subs[j].upgrade # None
      BY <1>5, <1>6, <2>2
  <2>4. PaidActive(j) /\ Own(user) = subs[j].upgrade
      BY <2>3, InForcePaid
  <2>5. PaidActive(j)'
      BY <2>3, <2>4 DEF PaidActive, Paid
  <2>6. HeldRight'
      BY <1>a, <1>6, <2>1, <2>3, <2>4, <2>5, HeldAfterEnd
  <2>. QED
      BY <1>a, <1>1, <2>6, RowsEnd
<1>8. CASE Upgrading(subs') = {} /\ done = {}
  <2>1. user' = user
      BY <1>3, <1>8
  <2>2. ASSUME NEW i \in Ids, Paid(i)
        PROVE  Paid(i)' /\ subs'[i].upgrade = subs[i].upgrade /\ (PaidActive(i) => PaidActive(i)')
    <3>1. subs[i].downgrade # None \/ subs[i].upgrade # None
        BY <2>2, PaidEnds
    <3>2. subs'[i].status # "expired"
        BY <1>1, <1>8, <3>1 DEF StillSold
    <3>3. subs'[i] = subs[i]
        BY <1>2, <3>2
    <3>. QED
        BY <2>2, <3>3 DEF Paid, PaidActive
  <2>3. HeldRight'
      BY <1>a, <1>6, <2>1, <2>2, HeldAfterEnd
  <2>. QED
      BY <1>a, <1>1, <2>3, RowsEnd
<1>9. CASE Upgrading(subs') = {} /\ done # {}
  <2>0. \A i \in Ids : ~(InForce(i)' /\ subs'[i].upgrade # None)
      BY <1>a, <1>9 DEF Upgrading, InForce
  <2>1. PICK k \in Ids : /\ k = last /\ k \in done
                         /\ \A j \in done : subs'[j].end < subs'[k].end \/ (subs'[j].end = subs'[k].end /\ j <= k)
      BY <1>4, <1>9
  <2>2. user' = Downgraded(user, subs'[k])
      BY <1>3, <1>9, <2>1
  <2>3. Paid(k) /\ RowKept(k)' /\ Paid(k)'
      BY <1>1, <1>t, <2>1 DEF StillSold, RowKept
  <2>4. subs'[k] \in Sold
      BY <1>p
  <2>5. CASE subs[k].downgrade = Default
    <3>1. subs'[k].downgrade = Default
        BY <1>1, <2>5 DEF StillSold
    <3>2. Own(user)' = Default
        BY <1>t, <2>2, <2>4, <3>1, EndsInDefault
    <3>3. HeldRight'
        BY <1>a, <2>0, <3>2, HeldAfterEnd
    <3>. QED
        BY <1>a, <1>1, <3>3, RowsEnd
  <2>6. CASE ReturningSite(site) /\ Returns(subs[k])
    <3>1. Returns(subs'[k]) /\ subs'[k].upgrade = subs[k].upgrade
        BY <1>1, <2>6 DEF StillSold, Returns
    <3>2. /\ Own(user)' \in {Own(user), Default}
          /\ subs[k].upgrade = Own(user) => Own(user)' = Default
        BY <1>t, <2>2, <2>4, <3>1, EndReturns
    <3>3. Own(user)' = Default
      <4>1. SUFFICES ASSUME NEW j \in Ids, PaidActive(j), subs[j].upgrade = Own(user)
                     PROVE  subs[k].upgrade = Own(user)
        <5>1. Own(user) = Default \/ \E j \in Ids : PaidActive(j) /\ subs[j].upgrade = Own(user)
            BY <2>6 DEF ReturnInv, PlanReturns
        <5>. QED
            BY <3>2, <5>1
      <4>2. subs[j].upgrade # None
          BY <1>t, <4>1, OwnHeld, DefaultIsGroup
      <4>3. Due(j) /\ subs'[j].status = "expired" /\ subs'[j].upgrade = subs[j].upgrade
            /\ subs'[j].end = subs[j].end
        <5>1. ~InForce(j)
            BY <1>5, <2>0, <4>2
        <5>2. subs[j].end \in Nat
            BY <1>t DEF Sold
        <5>3. Due(j)
            BY <1>t, <4>1, <5>1, <5>2 DEF Due, InForce, PaidActive
        <5>. QED
            BY <1>1, <1>2, <5>3 DEF StillSold
      <4>4. j \in done
          BY <4>2, <4>3
      <4>5. subs'[k].status = "expired" /\ subs'[k].end = subs[k].end
            /\ (subs[k].status = "expired" \/ Due(k))
          BY <1>1, <2>1 DEF StillSold
      <4>6. subs[k].end \in Nat /\ subs[j].end \in Nat
          BY <1>t DEF Sold
      <4>7. CASE Due(k)
          BY <2>3, <2>6, <4>1, <4>7 DEF ReturnInv, PlanReturns, PaidActive, Due
      <4>8. CASE subs[k].status = "expired"
        <5>1. subs[k].end < subs[j].end
            BY <2>3, <2>6, <4>1, <4>8 DEF ReturnInv, PlanReturns
        <5>2. subs'[j].end < subs'[k].end \/ subs'[j].end = subs'[k].end
            BY <2>1, <4>4
        <5>. QED
            BY <4>3, <4>5, <4>6, <5>1, <5>2
      <4>. QED
          BY <4>5, <4>7, <4>8
    <3>4. HeldRight'
        BY <1>a, <2>0, <3>3, HeldAfterEnd
    <3>. QED
        BY <1>a, <1>1, <3>4, RowsEnd
  <2>. QED
      BY <2>3, <2>5, <2>6, PaidEnds
<1>. QED
    BY <1>7, <1>8, <1>9

\* Redeem: the loan hides the group held, and the row that funds it changes none.
LEMMA CommitReturns ==
    ASSUME ReturnInv, GroupTyped', NEW c \in Codes, RedeemCommit(c)
    PROVE  ReturnInv'
<1>t. /\ now \in 1 .. MaxTime /\ now \in Nat /\ user \in UserRow /\ subs \in [Ids -> Sold] /\ GroupTyped
      /\ \A i \in Ids : RowKept(i)
    BY GroupBounds DEF ReturnInv, GroupTyped
<1>. DEFINE lent == Loan(Loaded(user), CodeOf[c].group, CodeOf[c].minutes)
<1>a. /\ site' = site /\ now' = now /\ user' = lent
      /\ \/ subs' = subs
         \/ /\ \A i \in Ids : ~(InForce(i) /\ subs[i].source # "redemption")
            /\ NextId \in Ids
            /\ \E p \in Plans : subs' = CreatedSubs(user, p, "redemption", None, None, lent.expires)
    BY DEF RedeemCommit
<1>l. lent.expires \in Nat
  <2>1. lent \in UserRow
      BY <1>t, LoadedTyped, LoanTyped
  <2>. QED
      BY <2>1 DEF UserRow
<1>o. Own(user)' = Own(user)
    BY <1>t, <1>a, OwnLent
<1>. HIDE DEF lent
<1>1. CASE subs' = subs
  <2>1. \A i \in Ids : StillSold(i)
      BY <1>t, <1>a, <1>1, AgedIsSold DEF Aged
  <2>2. \A i \in Ids : (InForce(i)' <=> InForce(i)) /\ (Paid(i)' <=> Paid(i)) /\ (PaidActive(i)' <=> PaidActive(i))
      BY <1>a, <1>1 DEF InForce, Paid, PaidActive
  <2>3. HeldRight'
      BY <1>1, <1>a, <1>o, <2>2, HeldAfterEnd
  <2>. QED
      BY <1>a, <2>1, <2>3, RowsEnd
<1>2. ASSUME NextId \in Ids, \A i \in Ids : ~(InForce(i) /\ subs[i].source # "redemption"),
             NEW p \in Plans, subs' = CreatedSubs(user, p, "redemption", None, None, lent.expires)
      PROVE  ReturnInv'
  <2>n. PICK n \in Ids : n = NextId
      BY <1>2
  <2>1. NewRow(n, p, "redemption", None, None) /\ OtherRows(n)
    <3>1. RowsInOrder
        BY DEF ReturnInv
    <3>. QED
        BY <1>t, <1>l, <1>2, <2>n, <3>1, CreatedRows
  <2>2. /\ subs'[n].status = "active" /\ subs'[n].source = "redemption"
        /\ subs'[n].upgrade = None /\ subs'[n].downgrade = None
        /\ subs'[n].prev = PrevGroup(user, Current, None)
      BY <2>1 DEF NewRow
  <2>3. PrevGroup(user, Current, None) = None
    <3>1. \A s \in Current : s.prev = None
        BY <1>t, <1>2 DEF Current, RowKept, Paid
    <3>2. Current # {} => (CHOOSE s \in Current : TRUE) \in Current
        OBVIOUS
    <3>. QED
        BY <3>1, <3>2 DEF PrevGroup
  <2>4. RowKept(n)' /\ ~Paid(n)'
      BY <2>2, <2>3 DEF RowKept, Paid, Exists
  <2>5. /\ \A i \in Ids : RowKept(i)'
        /\ RowsInOrder'
        /\ \A i \in Ids : InForce(i)' => i = n
        /\ \A i \in Ids : i # n => StillSold(i)
        /\ ~Paid(n) /\ ~Exists(n)
      BY <1>t, <1>a, <2>n, <2>1, <2>2, <2>4, CreatedKept DEF ReturnInv
  <2>6. ASSUME NEW j \in Ids, Paid(j)
        PROVE  Paid(j)' /\ subs'[j].upgrade = subs[j].upgrade /\ (PaidActive(j) => PaidActive(j)')
    <3>1. j # n
        BY <2>5, <2>6
    <3>2. ~InForce(j)
        BY <1>2, <2>6 DEF Paid
    <3>3. subs'[j] = subs[j]
        BY <2>1, <3>1, <3>2 DEF OtherRows
    <3>. QED
        BY <2>6, <3>3 DEF Paid, PaidActive
  <2>7. HeldRight'
    <3>1. \A j \in Ids : ~(InForce(j)' /\ subs'[j].upgrade # None)
        BY <2>2, <2>5
    <3>. QED
        BY <1>a, <1>o, <2>6, <3>1, HeldAfterEnd
  <2>8. PlanReturns'
    <3>1. \A i \in Ids : Paid(i)' => StillSold(i)
        BY <2>4, <2>5
    <3>. QED
        BY <1>a, <2>7, <3>1, PlansKept
  <2>9. InForceHeld'
      BY <2>5, <2>7 DEF InForceHeld, HeldRight
  <2>. QED
      BY <2>5, <2>7, <2>8, <2>9 DEF ReturnInv, HeldRight
<1>. QED
    BY <1>a, <1>1, <1>2

\* The clock, and steps that change neither rows nor the group held.
LEMMA OthersReturn ==
    ASSUME ReturnInv, GroupTyped', site' = site, subs' = subs, Own(user)' = Own(user),
           now' \in Nat, now' >= now
    PROVE  ReturnInv'
<1>t. now \in Nat /\ \A i \in Ids : subs[i].end \in Nat
    BY GroupBounds DEF ReturnInv, GroupTyped, Sold
<1>1. PlanOf' = PlanOf
    BY DEF PlanOf
<1>2. \A i \in Ids : (Paid(i)' <=> Paid(i)) /\ (PaidActive(i)' <=> PaidActive(i)) /\ (Exists(i)' <=> Exists(i))
    BY DEF Paid, PaidActive, Exists
<1>3. \A i \in Ids : InForce(i)' => InForce(i)
    BY <1>t DEF InForce
<1>4. \A i \in Ids : RowKept(i)'
    BY <1>t, <1>1, <1>2 DEF ReturnInv, RowKept
<1>5. RowsInOrder'
    BY <1>2, OrderKept DEF ReturnInv
<1>6. InForceHeld'
    BY <1>3 DEF ReturnInv, InForceHeld
<1>7. OwnWasPaid'
    BY <1>2 DEF ReturnInv, OwnWasPaid
<1>8. ExplicitReturns'
    BY <1>2 DEF ReturnInv, ExplicitReturns, ExplicitSite
<1>9. PlanReturns'
  <2>1. ReturningSite(site)' <=> ReturningSite(site)
      BY DEF ReturningSite
  <2>. QED
      BY <1>2, <2>1 DEF ReturnInv, PlanReturns
<1>. QED
    BY <1>4, <1>5, <1>6, <1>7, <1>8, <1>9 DEF ReturnInv

LEMMA ReturnInvStep ==
    ASSUME SitesReturn
    PROVE  ReturnInv /\ GroupTyped' /\ [GroupNext]_groupVars => ReturnInv'
<1>. SUFFICES ASSUME ReturnInv, GroupTyped', [GroupNext]_groupVars PROVE ReturnInv'
    OBVIOUS
<1>t. now \in Nat /\ user \in UserRow
    BY GroupBounds DEF ReturnInv, GroupTyped
<1>1. CASE \E p \in Plans, source \in {"order", "admin"} : Purchase(p, source)
    BY <1>1, PurchaseReturns
<1>2. CASE ExpireDue
    BY <1>2, ExpireReturns
<1>3. CASE AdminFree \/ \E i \in Ids : AdminInvalidate(i) \/ AdminDelete(i)
    BY <1>3, AdminReturns
<1>4. ASSUME NEW c \in Codes, RedeemCheck(c) \/ RedeemAbort(c) PROVE ReturnInv'
  <2>1. site' = site /\ now' = now /\ user' = user /\ subs' = subs
      BY <1>4 DEF RedeemCheck, RedeemAbort
  <2>. QED
      BY <1>t, <2>1, OthersReturn
<1>5. ASSUME NEW c \in Codes, RedeemCommit(c) PROVE ReturnInv'
    BY <1>5, CommitReturns
<1>6. CASE ResolveExpired
  <2>1. site' = site /\ now' = now /\ user' = Loaded(user) /\ subs' = subs
      BY <1>6 DEF ResolveExpired
  <2>2. Own(user)' = Own(user)
      BY <1>t, <2>1, OwnHeld
  <2>. QED
      BY <1>t, <2>1, <2>2, OthersReturn
<1>7. CASE Tick
  <2>1. site' = site /\ now' = now + 1 /\ user' = user /\ subs' = subs
      BY <1>7 DEF Tick
  <2>2. now' \in Nat /\ now' >= now
      BY <1>t, <2>1
  <2>. QED
      BY <2>1, <2>2, OthersReturn
<1>8. CASE UNCHANGED groupVars
  <2>1. site' = site /\ now' = now /\ user' = user /\ subs' = subs
      BY <1>8 DEF groupVars
  <2>. QED
      BY <1>t, <2>1, OthersReturn
<1>. QED
    BY <1>1, <1>2, <1>3, <1>4, <1>5, <1>6, <1>7, <1>8 DEF GroupNext

\* The user starts in the default group, and nothing was sold.
LEMMA ReturnStarts == GroupInit /\ GroupTyped => ReturnInv
<1>. SUFFICES ASSUME GroupInit, GroupTyped PROVE ReturnInv
    OBVIOUS
<1>1. \A i \in Ids : /\ subs[i].status = "none" /\ subs[i].source = "none" /\ subs[i].upgrade = None
                     /\ subs[i].downgrade = None /\ subs[i].prev = None
    BY DEF GroupInit, NoSub
<1>2. \A i \in Ids : ~Exists(i) /\ ~Paid(i) /\ ~InForce(i) /\ ~PaidActive(i) /\ RowKept(i)
    BY <1>1 DEF Exists, Paid, InForce, PaidActive, RowKept
<1>3. Own(user) = Default
    BY DEF GroupInit, Own
<1>4. RowsInOrder
  <2>1. \A i \in Ids : (Exists(i) \/ subs[i].source = "deleted") <=> i <= 0
      BY <1>1, <1>2, GroupBounds DEF Ids
  <2>2. 0 \in 0 .. MaxSubs
      BY GroupBounds
  <2>. QED
      BY <2>1, <2>2 DEF RowsInOrder
<1>. QED
    BY <1>2, <1>3, <1>4 DEF ReturnInv, InForceHeld, OwnWasPaid, ExplicitReturns, PlanReturns

\* What is returned, and when.
LEMMA InvReturns ==
    ASSUME SitesReturn, ReturnInv
    PROVE  GroupsReturn
<1>t. now \in Nat /\ user \in UserRow /\ site \in Sites /\ subs \in [Ids -> Sold]
    BY GroupBounds DEF ReturnInv, GroupTyped
<1>1. GroupTypeOK
    BY DEF ReturnInv, GroupTyped, GroupTypeOK, UserRow, Sold
<1>2. NoGroupOutlivesItsPlan
  <2>1. SUFFICES ASSUME \A i \in Ids : subs[i].status # "active", ~OnLoan(user)
                 PROVE  Loaded(user).group = Default
      BY DEF NoGroupOutlivesItsPlan
  <2>2. Own(user) = Default
      BY <1>t, <2>1 DEF SitesReturn, ReturnInv, ExplicitReturns, PlanReturns, PaidActive
  <2>3. ~OnLoan(Loaded(user))
      BY <1>t, <2>1 DEF Loaded, OnLoan
  <2>. QED
      BY <1>t, <2>2, <2>3, OwnHeld
<1>3. LoanReturnsToOwnGroup
  <2>1. SUFFICES ASSUME OnLoan(user)
        PROVE  OrDefault(user.restore) \in {Default} \cup
                 {PlanOf[p].upgrade : p \in {subs[i].plan : i \in {j \in Ids : subs[j].source \in {"order", "admin"}}}}
      BY DEF LoanReturnsToOwnGroup
  <2>2. OrDefault(user.restore) = Own(user)
    <3>1. user.expires > now
        BY <2>1 DEF OnLoan
    <3>. QED
        BY <1>t, <3>1 DEF Own, UserRow
  <2>3. CASE Own(user) = Default
      BY <2>2, <2>3
  <2>4. ASSUME NEW i \in Ids, Paid(i), subs[i].upgrade = Own(user)
        PROVE  Own(user) \in {PlanOf[p].upgrade : p \in {subs[k].plan : k \in {j \in Ids : subs[j].source \in {"order", "admin"}}}}
    <3>1. subs[i].upgrade = PlanOf[subs[i].plan].upgrade
        BY <2>4 DEF ReturnInv, RowKept
    <3>2. i \in {j \in Ids : subs[j].source \in {"order", "admin"}}
        BY <2>4 DEF Paid
    <3>. QED
        BY <2>4, <3>1, <3>2
  <2>. QED
      BY <2>2, <2>3, <2>4 DEF ReturnInv, OwnWasPaid
<1>. QED
    BY <1>1, <1>2, <1>3 DEF GroupsReturn

\* Plans and loans give a group for their time: when nothing is active and no
\* loan runs the user is back in the default group, and what a loan hides is
\* the default group or one that was paid for.  It is so on deployments whose plans
\* all end in the default group, whatever comes late; and on those whose plans
\* all have a group and return to the one held before, if maintenance comes before
\* the next purchase.
THEOREM GroupsAreReturned ==
    ASSUME SitesReturn
    PROVE  GroupSpec => []GroupsReturn
<1>1. GroupInit => GroupInv /\ ReturnInv
    BY GroupStarts, ReturnStarts DEF GroupInv
<1>2. GroupInv /\ ReturnInv /\ [GroupNext]_groupVars => GroupInv' /\ ReturnInv'
  <2>. SUFFICES ASSUME GroupInv, ReturnInv, [GroupNext]_groupVars PROVE GroupInv' /\ ReturnInv'
      OBVIOUS
  <2>1. GroupInv'
      BY GroupInvStep
  <2>2. GroupTyped'
      BY <2>1 DEF GroupInv
  <2>3. ReturnInv'
      BY <2>2, ReturnInvStep
  <2>. QED
      BY <2>1, <2>3
<1>3. ReturnInv => GroupsReturn
    BY InvReturns
<1>. QED
    BY <1>1, <1>2, <1>3, PTL DEF GroupSpec
=============================================================================
