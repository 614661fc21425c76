--------------------------- MODULE GroupRateLease ---------------------------
(***************************************************************************)
(* The limits of a user group (src/model/group_rate_lease.go, src/         *)
(* middleware/model-rate-limit.go, src/controller/relay.go): requests per  *)
(* period, requests at a time, successful requests per period, and tokens  *)
(* per minute, for one user under one policy.                              *)
(*                                                                         *)
(* Each request holds a lease row.  A transaction that locks the user's    *)
(* row is one step.  A lease that is not renewed in time no longer counts, *)
(* and old rows are removed.  A limit of zero is no limit.                 *)
(***************************************************************************)
EXTENDS Integers, FiniteSets

CONSTANTS
    Calls,                  \* requests of the user
    Policies,               \* policies: a period, four limits, and whether the
                            \* heartbeats of live requests keep up and
                            \* requests reserve and keep to a budget
    Budgets,                \* what requests reserve: input plus declared output
    Lease,                  \* how long a lease lasts, and the least retention
    Minute,                 \* the window of the token limit
    MaxClock,               \* bound on the clock
    MaxCrashes              \* bound on requests whose node dies

VARIABLES
    policy,     \* the policy of the user's group
    clock,
    row,        \* row[r]: the GroupRateLease of request r
    req,        \* req[r]: how far request r is in its handler
    crashes,
    started     \* history: when each admitted request was admitted

rateVars == <<policy, clock, row, req, crashes, started>>

ASSUME RateAssumption ==
    /\ IsFiniteSet(Calls)
    /\ Lease \in Nat \ {0} /\ Minute \in Nat \ {0} /\ Budgets \subseteq Nat
    /\ MaxClock \in Nat /\ MaxCrashes \in Nat
    /\ \A p \in Policies :
          /\ p.period \in Nat \ {0} /\ p.timely \in BOOLEAN /\ p.budgeted \in BOOLEAN
          /\ {p.requests, p.concurrency, p.successes, p.tpm} \subseteq Nat

Period == policy.period
MaxRequests == policy.requests
ConcurrencyLimit == policy.concurrency
MaxSuccessfulRequests == policy.successes
TPMLimit == policy.tpm

\* "completed" is 0 while the request runs; the clock starts at 1.
NoRow == [found |-> FALSE, start |-> 0, completed |-> 0, until |-> 0, retain |-> 0,
          tokens |-> 0, success |-> FALSE]

Rows == {r \in Calls : row[r].found}

\* Requests that hold a lease: not completed and not run out.
Pending == {r \in Rows : row[r].completed = 0 /\ row[r].until > clock}

\* Since a cutoff c, which in the code is long after 0.
StartedSince(c) == {r \in Rows : row[r].start > c}
CompletedSince(c) == {r \in Rows : row[r].completed > 0 /\ row[r].completed > c}
SucceededSince(c) == {r \in CompletedSince(c) : row[r].success}

Reaches(limit, n) == limit > 0 /\ n >= limit

\* Requests under way may all succeed.
SuccessesTaken == Cardinality(SucceededSince(clock - Period)) + Cardinality(Pending)

Limited ==
    \/ Reaches(MaxRequests, Cardinality(StartedSince(clock - Period)))
    \/ Reaches(ConcurrencyLimit, Cardinality(Pending))
    \/ Reaches(MaxSuccessfulRequests, SuccessesTaken)

\* AcquireGroupRateLease.  A refused request is over, one without a token limit
\* is served at once.
AcquireGroupRateLease(r) ==
    /\ req[r] = "new"
    /\ IF Limited
       THEN req' = [req EXCEPT ![r] = "refused"] /\ UNCHANGED <<row, started>>
       ELSE /\ row' = [row EXCEPT ![r] = [NoRow EXCEPT !.found = TRUE, !.start = clock,
                                            !.until = clock + Lease,
                                            !.retain = clock + Period + Lease]]
            /\ started' = [started EXCEPT ![r] = clock]
            /\ req' = [req EXCEPT ![r] = IF TPMLimit > 0 THEN "probe" ELSE "serve"]
    /\ UNCHANGED <<policy, clock, crashes>>

\* Mutant of TokensCounted: only what is finished counts.
TokensCountedEnded(r) == CompletedSince(clock - Minute) \ {r}

\* The other requests whose tokens count against the minute.
TokensCounted(r) == (Pending \cup CompletedSince(clock - Minute)) \ {r}

\* The tokens of the requests in S, one by one, and their sum.
TokenUnits(S) == UNION {{s} \X (1 .. row[s].tokens) : s \in S}
TokenSum(S) == Cardinality(TokenUnits(S))

TokensUsed(r) == TokenSum(TokensCounted(r))

Fits(r, tokens) == TokensUsed(r) < TPMLimit /\ tokens <= TPMLimit - TokensUsed(r)

\* ReserveGroupRateTokens: with nothing at first, to refuse an exhausted minute,
\* then with the budget of the request.  A refusal ends the request.
ReserveGroupRateTokens(r, tokens) ==
    /\ \/ req[r] = "probe" /\ tokens = 0
       \/ req[r] = "budget" /\ tokens \in Budgets
    /\ IF row[r].found /\ row[r].completed = 0 /\ Fits(r, tokens)
       THEN /\ row' = [row EXCEPT ![r].tokens = tokens]
            /\ req' = [req EXCEPT ![r] = IF @ = "probe" THEN "budget" ELSE "serve"]
       ELSE req' = [req EXCEPT ![r] = "failing"] /\ UNCHANGED row
    /\ UNCHANGED <<policy, clock, crashes, started>>

\* Task routes reserve no budget.
StartUnbudgeted(r) ==
    /\ req[r] = "budget" /\ ~policy.budgeted
    /\ req' = [req EXCEPT ![r] = "serve"]
    /\ UNCHANGED <<policy, clock, row, crashes, started>>

\* How long a completed row is kept.
Retained == IF Period > Lease THEN clock + Period ELSE clock + Lease

\* CompleteGroupRateLease when the handler returns: actual tokens, if known,
\* replace the reservation, whatever they are; a failure that used none gives it
\* back.
CompleteGroupRateLease(r, success, tokens) ==
    /\ \/ req[r] = "failing" /\ ~success /\ tokens = 0
       \/ req[r] = "serve"
    /\ policy.budgeted => tokens <= row[r].tokens
    /\ row' = IF row[r].found /\ row[r].completed = 0
              THEN [row EXCEPT ![r].completed = clock, ![r].success = success,
                               ![r].tokens = tokens, ![r].retain = Retained]
              ELSE row
    /\ req' = [req EXCEPT ![r] = "done"]
    /\ UNCHANGED <<policy, clock, crashes, started>>

Running == {r \in Calls : req[r] \in {"probe", "budget", "serve", "failing"}}

\* RenewGroupRateLease, which does not ask whether the lease has run out.
RenewGroupRateLease(r) ==
    /\ r \in Running /\ row[r].found /\ row[r].completed = 0 /\ row[r].until # clock + Lease
    /\ row' = [row EXCEPT ![r].until = clock + Lease]
    /\ UNCHANGED <<policy, clock, req, crashes, started>>

Removable(r) ==
    /\ row[r].found /\ row[r].retain < clock
    /\ row[r].completed > 0 \/ row[r].until < clock

CleanupGroupRateLeases ==
    /\ \E r \in Calls : Removable(r)
    /\ row' = [r \in Calls |-> IF Removable(r) THEN NoRow ELSE row[r]]
    /\ UNCHANGED <<policy, clock, req, crashes, started>>

\* The node of a request dies: nobody completes or renews its lease.
Crash(r) ==
    /\ r \in Running /\ crashes < MaxCrashes
    /\ crashes' = crashes + 1
    /\ req' = [req EXCEPT ![r] = "dead"]
    /\ UNCHANGED <<policy, clock, row, started>>

\* External: time passes; if heartbeats keep up, no live request's lease runs out.
RateTick ==
    /\ clock < MaxClock
    /\ policy.timely => \A r \in Running : row[r].until > clock + 1
    /\ clock' = clock + 1
    /\ UNCHANGED <<policy, row, req, crashes, started>>

RateInit ==
    /\ policy \in Policies
    /\ clock = 1
    /\ row = [r \in Calls |-> NoRow]
    /\ req = [r \in Calls |-> "new"]
    /\ crashes = 0
    /\ started = [r \in Calls |-> 0]

RateNext ==
    \/ \E r \in Calls :
       \/ AcquireGroupRateLease(r)
       \/ \E tokens \in Budgets \cup {0} :
          \/ ReserveGroupRateTokens(r, tokens)
          \/ \E success \in BOOLEAN : CompleteGroupRateLease(r, success, tokens)
       \/ StartUnbudgeted(r)
       \/ RenewGroupRateLease(r)
       \/ Crash(r)
    \/ CleanupGroupRateLeases
    \/ RateTick

RateSpec == RateInit /\ [][RateNext]_rateVars

---------------------------------------------------------------------------
(* Properties. *)

\* The rows and the handlers agree: a live request that was admitted has an
\* uncompleted row, unless its lease ran out and cleanup removed it.
RateTypeOK ==
    \A r \in Calls :
        /\ row[r].completed <= clock /\ row[r].start <= clock
        /\ (r \in Running /\ row[r].found) => row[r].completed = 0
        /\ req[r] \in {"new", "refused"} => ~row[r].found

\* No more than MaxRequests requests are admitted in any Period, although rows
\* are removed, leases run out and nodes die.
WindowBound ==
    MaxRequests > 0 =>
        Cardinality({r \in Calls : started[r] > 0 /\ started[r] > clock - Period}) <= MaxRequests

\* No more than ConcurrencyLimit requests run at a time, if heartbeats keep up.
ConcurrencyBound == policy.timely /\ ConcurrencyLimit > 0 => Cardinality(Running) <= ConcurrencyLimit

\* No more than MaxSuccessfulRequests requests succeed in a Period, even if all
\* that run now should succeed.
SuccessBound ==
    policy.timely /\ MaxSuccessfulRequests > 0 =>
        Cardinality(SucceededSince(clock - Period)) + Cardinality(Pending) <= MaxSuccessfulRequests

\* What is reserved or was used within a minute stays within the limit, as long
\* as requests reserve a budget and the upstream keeps to it.
TokenBound ==
    policy.timely /\ policy.budgeted /\ TPMLimit > 0 =>
        TokenSum(Pending \cup CompletedSince(clock - Minute)) <= TPMLimit

\* Cleanup never removes the row of a live request whose heartbeat keeps up
\* (the comment of CleanupGroupRateLeases).
LiveKept == policy.timely => \A r \in Running : row[r].found

\* The limits of the user's group hold at every moment: requests per period
\* always, those of live requests as long as heartbeats keep up
\* (AcquireGroupRateLease, ReserveGroupRateTokens, CleanupGroupRateLeases).
WithinLimits ==
    /\ RateTypeOK
    /\ WindowBound
    /\ ConcurrencyBound
    /\ SuccessBound
    /\ TokenBound
    /\ LiveKept
=============================================================================
