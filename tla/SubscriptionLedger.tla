------------------------- MODULE SubscriptionLedger -------------------------
(***************************************************************************)
(* The subscription quota ledger of one user: the tables                   *)
(* user_subscriptions, subscription_quota_windows and                      *)
(* subscription_pre_consume_records, and the database transactions of      *)
(* src/model/subscription*.go and admin_user_subscription.go that change   *)
(* them.                                                                   *)
(*                                                                         *)
(* A transaction locks its rows (or, on SQLite, the database) before it    *)
(* reads them and is retried as a whole when it conflicts, so it is one    *)
(* action.  A transaction that returns an error is rolled back and changes *)
(* nothing: its failing conditions are the missing guards of the action.   *)
(* Callers are arbitrary: sessions, task pollers, administrators and the   *)
(* maintenance task may call in any order, late, or never.                 *)
(***************************************************************************)
EXTENDS Integers, Sequences, FiniteSetsExt

CONSTANTS
    Requests,    \* request ids; an id is admitted at most once
    Plans,       \* subscription plans: [total, fiveHour, reset, every, lasts]
    Overrides,   \* times at which the entitlement of a redemption code ends
    Legacy,      \* subscription rows that predate the window ledger
    Deltas,      \* differences still owed by tasks that predate it
    Balances,    \* remaining allowances an administrator may set
    FiveHours,   \* length of a five-hour window, in ticks
    Retention,   \* how long finished records are kept, in ticks
    MaxQuota,    \* common.MaxQuota: largest amount a request may carry
    MaxUsage,    \* math.MaxInt64: largest value of a usage counter
    MaxTime,     \* bound on the clock
    MaxLag,      \* bound on how far maintenance lags behind the clock
    MaxSub,      \* bound on the number of subscription rows ever created
    MaxWindow,   \* bound on the number of window rows ever created
    MaxVersion   \* bound on the version of a record

Quotas  == 0 .. MaxQuota
Times   == 0 .. MaxTime
SubIds  == 1 .. MaxSub
WinIds  == 1 .. MaxWindow

VARIABLES
    now,      \* the database clock
    sub,      \* user_subscriptions by id
    win,      \* subscription_quota_windows by id
    rec,      \* subscription_pre_consume_records by request id
    subSeq,   \* last subscription id handed out
    winSeq    \* last window id handed out

vars == <<now, sub, win, rec, subSeq, winSeq>>

-----------------------------------------------------------------------------
(* Rows.  An absent row has status, kind or status "none".                 *)

PlanRows ==
    [total : Nat, fiveHour : Nat, reset : {"never", "aligned", "custom"},
     every : Nat \ {0}, lasts : Nat \ {0}]

SubRows ==
    [status : {"none", "active", "expired", "cancelled"}, plan : PlanRows, used : Nat,
     curP : 0 .. MaxWindow, curF : 0 .. MaxWindow,
     start : Nat, end : Nat, last : Nat, next : Nat]

\* "opening" and "manual" are history: the usage a window was created with, and
\* whether its usage was ever set other than through a record.
WinRows ==
    [kind : {"none", "period", "five_hour"}, sub : 0 .. MaxSub, total : Nat,
     used : Nat, start : Nat, end : Nat, closed : BOOLEAN, updated : Nat,
     opening : Nat, manual : BOOLEAN]

\* "forgotten" marks a deleted row; its fields, and "tokenNet" (what the
\* settlement transaction took from the API key), are kept as history.
RecRows ==
    [status : {"none", "reserved", "settled", "refunded", "forgotten"},
     sub : 0 .. MaxSub, period : 0 .. MaxWindow, five : 0 .. MaxWindow,
     pre : Quotas, final : Quotas, version : Nat, pending : BOOLEAN,
     quota : Quotas, tokenPre : Quotas, updated : Nat, tokenNet : Int]

NoPlan == [total |-> 0, fiveHour |-> 0, reset |-> "never", every |-> 1, lasts |-> 1]

NoSub ==
    [status |-> "none", plan |-> NoPlan, used |-> 0, curP |-> 0, curF |-> 0,
     start |-> 0, end |-> 0, last |-> 0, next |-> 0]

NoWin ==
    [kind |-> "none", sub |-> 0, total |-> 0, used |-> 0, start |-> 0, end |-> 0,
     closed |-> FALSE, updated |-> 0, opening |-> 0, manual |-> FALSE]

NoRec ==
    [status |-> "none", sub |-> 0, period |-> 0, five |-> 0, pre |-> 0,
     final |-> 0, version |-> 0, pending |-> FALSE, quota |-> 0,
     tokenPre |-> 0, updated |-> 0, tokenNet |-> 0]

Live(r) == rec[r].status \in {"reserved", "settled", "refunded"}

ASSUME BoundsAssumption ==
    /\ MaxQuota \in Nat /\ MaxUsage \in Nat /\ MaxTime \in Nat \ {0}
    /\ MaxLag \in Nat /\ MaxSub \in Nat /\ MaxWindow \in Nat /\ MaxVersion \in Nat
    /\ FiveHours \in Nat \ {0} /\ Retention \in Nat

ASSUME RequestsAssumption == IsFiniteSet(Requests)

ASSUME PlansAssumption ==
    Plans \subseteq PlanRows /\ Overrides \subseteq Nat /\ Deltas \subseteq Int /\ Balances \subseteq Quotas

ASSUME LegacyAssumption ==
    /\ Legacy \in Seq(SubRows) /\ Len(Legacy) <= MaxSub
    /\ \A s \in 1 .. Len(Legacy) :
          /\ Legacy[s].status = "active" /\ Legacy[s].curP = 0 /\ Legacy[s].curF = 0
          /\ Legacy[s].start < Legacy[s].end

-----------------------------------------------------------------------------
(* Reset schedule.  "custom" periods repeat from their base; the calendar   *)
(* periods (daily, weekly, monthly) are boundaries at fixed times.          *)

\* calcNextResetTime: the boundary after base, or 0 when the subscription
\* has none before it ends.
NextReset(base, plan, end) ==
    LET n == IF plan.reset = "custom" THEN base + plan.every
                                      ELSE ((base \div plan.every) + 1) * plan.every
    IN  IF plan.reset = "never" \/ n > end THEN 0 ELSE n

\* Where the loop of maybeResetUserSubscriptionWithPlanTx stops: the last
\* boundary in (base, t] that the subscription still reaches, or base.
LastReset(base, plan, end, t) ==
    LET m == IF t < end THEN t ELSE end
        b == IF plan.reset = "custom"
             THEN base + ((m - base) \div plan.every) * plan.every
             ELSE (m \div plan.every) * plan.every
    IN  IF plan.reset = "never" \/ m < base \/ b < base THEN base ELSE b

ResetBase(row) == IF row.last > 0 THEN row.last ELSE row.start

ResetFires(row, t) ==
    row.next <= t /\ LastReset(ResetBase(row), row.plan, row.end, t) > ResetBase(row)

\* A new period begins at boundary b.
Turned(row, b) ==
    [row EXCEPT !.used = 0, !.curP = 0, !.last = b, !.next = NextReset(b, row.plan, row.end)]

MaybeReset(row, t) ==
    LET base == ResetBase(row)
        b    == LastReset(base, row.plan, row.end, t)
    IN  IF ResetFires(row, t) THEN Turned(row, b)
        ELSE IF row.next = 0 /\ NextReset(base, row.plan, row.end) > 0
        THEN [row EXCEPT !.last = base, !.next = NextReset(base, row.plan, row.end)]
        ELSE row

PeriodStart(row) == ResetBase(row)

PeriodEnd(row) ==
    IF row.next = 0 \/ row.next > row.end \/ row.next <= PeriodStart(row)
    THEN row.end ELSE row.next

-----------------------------------------------------------------------------
(* Windows.                                                                 *)

NewWindow(kind, s, total, used, start, end) ==
    [kind |-> kind, sub |-> s, total |-> total, used |-> used, start |-> start,
     end |-> end, closed |-> FALSE, updated |-> now, opening |-> used,
     manual |-> FALSE]

PeriodWindow(s, row) ==
    NewWindow("period", s, row.plan.total, row.used, PeriodStart(row), PeriodEnd(row))

FiveHourWindow(s, row) ==
    NewWindow("five_hour", s, row.plan.fiveHour, 0, now,
              IF now + FiveHours > row.end THEN row.end ELSE now + FiveHours)

\* Mutants: closing a window cuts it short; nothing is closed.
ClosedShort(row, t) == [row EXCEPT !.closed = TRUE, !.updated = t, !.end = t]
CloseNone(W, t) == win

\* closeSubscriptionQuotaWindowTx: a closed window keeps its closing time.
Closed(row, t) ==
    IF row.closed THEN row ELSE [row EXCEPT !.closed = TRUE, !.updated = t]

CloseAll(W, t) == [w \in WinIds |-> IF w \in W THEN Closed(win[w], t) ELSE win[w]]

\* loadSubscriptionQuotaWindowTx succeeds.
Loadable(w, s, kind) == w # 0 => win[w].kind = kind /\ win[w].sub = s

CurrentLoadable(s) ==
    Loadable(sub[s].curP, s, "period") /\ Loadable(sub[s].curF, s, "five_hour")

CurrentWindows(s) == {sub[s].curP, sub[s].curF} \ {0}

\* Mutants of CheckedAdd: no floor; every decrease empties the counter.
CheckedAddNoFloor(current, delta) == current + delta
CheckedAddToFloor(current, delta) == IF delta < 0 THEN 0 ELSE current + delta

\* checkedSubscriptionQuotaAdd: a decrease stops at zero, an increase that
\* would overflow is refused.
CheckedAdd(current, delta) ==
    IF delta < 0 /\ -delta >= current THEN 0 ELSE current + delta

Addable(current, delta) == delta <= MaxUsage - current

\* The subscriptions a request can use: active and not past their end.
ValidSubs(t) == {s \in SubIds : sub[s].status = "active" /\ sub[s].end > t}

\* Candidates are tried in order of end time and id, except that the current
\* one, c, comes first.  Which one is current depends on the user's group.
Earlier(x, y) == sub[x].end < sub[y].end \/ (sub[x].end = sub[y].end /\ x < y)

TriedBefore(c, x, y) == x # y /\ (x = c \/ (y # c /\ Earlier(x, y)))

-----------------------------------------------------------------------------
(* Admission.                                                               *)

PeriodUsed(row) == IF row.curP # 0 THEN win[row.curP].used ELSE row.used

\* prepareFiveHourQuotaWindowTx: the current window still counts.
FiveHourLive(row) ==
    /\ row.plan.fiveHour > 0 /\ row.curF # 0
    /\ now < win[row.curF].end /\ ~win[row.curF].closed

FiveHourUsed(row) == IF FiveHourLive(row) THEN win[row.curF].used ELSE 0

\* Mutant of Admits: room for something is taken for room for a.
AdmitsSome(row, a) ==
    /\ row.plan.total > 0 => PeriodUsed(row) < row.plan.total
    /\ row.plan.fiveHour > 0 => FiveHourUsed(row) < row.plan.fiveHour

Admits(row, a) ==
    /\ row.plan.total > 0 => PeriodUsed(row) + a <= row.plan.total
    /\ row.plan.fiveHour > 0 => FiveHourUsed(row) + a <= row.plan.fiveHour

\* The allowance of subscription s is charged with amount a of request r, in
\* windows opened where needed.  "past" are the candidates tried before it: they
\* keep the period reset that admission gave them.
Admit(r, a, s, past) ==
    LET row   == MaybeReset(sub[s], now)
        newP  == row.curP = 0
        newF  == row.plan.fiveHour > 0 /\ ~FiveHourLive(row)
        p     == IF newP THEN winSeq + 1 ELSE row.curP
        last  == winSeq + (IF newP THEN 1 ELSE 0) + (IF newF THEN 1 ELSE 0)
        f     == IF newF THEN last ELSE row.curF
        used  == PeriodUsed(row) + a
        retired == {sub[x].curP : x \in {x \in past \cup {s} : ResetFires(sub[x], now)}}
                     \cup (IF newF THEN {row.curF} ELSE {})
        charged(w) == [w EXCEPT !.used = @ + a, !.updated = now]
    IN
    /\ Addable(PeriodUsed(row), a) /\ Addable(FiveHourUsed(row), a)
    /\ last <= MaxWindow
    /\ win' = [w \in WinIds |->
                 IF w = p THEN charged(IF newP THEN PeriodWindow(s, row) ELSE win[p])
                 ELSE IF w = f /\ row.plan.fiveHour > 0
                 THEN charged(IF newF THEN FiveHourWindow(s, row) ELSE win[f])
                 ELSE IF w \in retired THEN Closed(win[w], now) ELSE win[w]]
    /\ sub' = [x \in SubIds |->
                 IF x = s THEN [row EXCEPT !.used = used, !.curP = p, !.curF = f]
                 ELSE IF x \in past THEN MaybeReset(sub[x], now) ELSE sub[x]]
    /\ rec' = [rec EXCEPT ![r] =
                 [NoRec EXCEPT !.status = "reserved", !.sub = s, !.period = p,
                               !.five = IF row.plan.fiveHour > 0 THEN f ELSE 0,
                               !.pre = a, !.final = a, !.version = 1, !.updated = now]]
    /\ winSeq' = last

\* Admission of request r: the first candidate with room takes it.
PreConsumeUserSubscription(r, a) ==
    /\ rec[r].status = "none"
    /\ \E c, s \in ValidSubs(now) :
       LET past == {x \in ValidSubs(now) : TriedBefore(c, x, s)} IN
       /\ \A x \in past \cup {s} : CurrentLoadable(x)
       /\ Admits(MaybeReset(sub[s], now), a)
       /\ \A x \in past : ~Admits(MaybeReset(sub[x], now), a)
       /\ Admit(r, a, s, past)
    /\ UNCHANGED <<now, subSeq>>

-----------------------------------------------------------------------------
(* Changing what a request is charged (adjustSubscriptionUsageTx).          *)

\* The new amount f can be written in state st.  The windows are those of the
\* record, however old; only reservations are held to the allowance.
Adjustable(r, f, st) ==
    LET p == rec[r].period
        q == rec[r].five
        d == f - rec[r].final
        within(w) == CheckedAdd(win[w].used, d) <= win[w].total
    IN  d # 0 =>
          /\ sub[rec[r].sub].status # "none"
          /\ win[p].kind = "period" /\ win[p].sub = rec[r].sub
          /\ Loadable(q, rec[r].sub, "five_hour")
          /\ Addable(win[p].used, d) /\ (q # 0 => Addable(win[q].used, d))
          /\ st = "reserved" => /\ win[p].total > 0 => within(p)
                                /\ q # 0 => within(q)

\* Mutant of IsCurrent: late changes of an old period are shown too.
AlwaysCurrent(s, p) == TRUE

IsCurrent(s, p) == sub[s].curP = p

\* The counters after the change: both windows, and the subscription when the
\* record's period is still its current one.
AdjustCounters(r, f) ==
    LET d == f - rec[r].final
        s == rec[r].sub
        p == rec[r].period
    IN  IF d = 0 THEN UNCHANGED <<win, sub>> ELSE
        /\ win' = [w \in WinIds |->
                     IF w \in {p, rec[r].five}
                     THEN [win[w] EXCEPT !.used = CheckedAdd(@, d), !.updated = now]
                     ELSE win[w]]
        /\ sub' = IF IsCurrent(s, p)
                  THEN [sub EXCEPT ![s].used = CheckedAdd(win[p].used, d)]
                  ELSE sub

Adjusted(r, f, st) ==
    [rec[r] EXCEPT !.final = f, !.status = st, !.version = @ + 1, !.updated = now]

\* Mutant of Changeable: a queued settlement shuts nobody out.
ChangeableWhilePending(r, v) ==
    Live(r) /\ rec[r].version = v /\ rec[r].status # "refunded"

\* The caller holds a reference of version v.  A refund is final; a queued
\* settlement shuts out every other change.
Changeable(r, v) ==
    Live(r) /\ ~rec[r].pending /\ rec[r].version = v /\ rec[r].status # "refunded"

\* Callers keep a reservation only while the record is reserved.
SetSubscriptionUsageFinal(r, v, f, st) ==
    /\ Changeable(r, v) /\ v < MaxVersion
    /\ ~(rec[r].final = f /\ rec[r].status = st)
    /\ st = "reserved" => rec[r].status = "reserved"
    /\ Adjustable(r, f, st)
    /\ AdjustCounters(r, f)
    /\ rec' = [rec EXCEPT ![r] = Adjusted(r, f, st)]
    /\ UNCHANGED <<now, subSeq, winSeq>>

RefundSubscriptionUsage(r, v) == SetSubscriptionUsageFinal(r, v, 0, "refunded")

\* The target of a settlement is made durable before any counter changes.
QueueSubscriptionSettlement(r, v, quota, tokenPre) ==
    /\ rec[r].status = "reserved" /\ ~rec[r].pending
    /\ rec[r].version = v
    /\ rec' = [rec EXCEPT ![r].pending = TRUE, ![r].quota = quota,
                          ![r].tokenPre = tokenPre, ![r].updated = now]
    /\ UNCHANGED <<now, sub, win, subSeq, winSeq>>

\* One transaction for the allowance and the API key.  keyFound: the key has
\* not been deleted since.
CompleteSubscriptionSettlement(r, keyFound) ==
    LET q == rec[r].quota IN
    /\ rec[r].pending /\ rec[r].status = "reserved"
    /\ Adjustable(r, q, "settled")
    /\ AdjustCounters(r, q)
    /\ rec' = [rec EXCEPT ![r] =
                 [Adjusted(r, q, "settled") EXCEPT
                    !.pending = FALSE,
                    !.tokenNet = IF keyFound THEN q - rec[r].tokenPre ELSE 0]]
    /\ UNCHANGED <<now, subSeq, winSeq>>

\* Tasks submitted before the window ledger existed carry no reference: the
\* difference goes to whatever period is current.
PostConsumeUserSubscriptionDelta(s, d) ==
    LET p == sub[s].curP IN
    /\ sub[s].status # "none" /\ d # 0
    /\ Loadable(p, s, "period")
    /\ Addable(sub[s].used, d) /\ (p # 0 => Addable(win[p].used, d))
    /\ win' = IF p = 0 THEN win
              ELSE [win EXCEPT ![p].used = CheckedAdd(@, d), ![p].updated = now,
                               ![p].manual = TRUE]
    /\ sub' = [sub EXCEPT ![s].used = CheckedAdd(IF p = 0 THEN @ ELSE win[p].used, d)]
    /\ UNCHANGED <<now, rec, subSeq, winSeq>>

-----------------------------------------------------------------------------
(* Maintenance.  t is the time the task read before it selected its rows;   *)
(* the clock may have moved on since.                                       *)

ExpireDueSubscriptions(t) ==
    LET due == {s \in SubIds : sub[s].status = "active" /\ sub[s].end <= t} IN
    /\ due # {}
    /\ \A s \in due : CurrentLoadable(s)
    /\ sub' = [s \in SubIds |-> IF s \in due THEN [sub[s] EXCEPT !.status = "expired"]
                                             ELSE sub[s]]
    /\ win' = CloseAll(UNION {CurrentWindows(s) : s \in due}, t)
    /\ UNCHANGED <<now, rec, subSeq, winSeq>>

\* The row is selected while active but locked again without that condition.
ResetDueSubscriptions(s, t) ==
    /\ sub[s].status # "none" /\ sub[s].next > 0 /\ sub[s].next <= t
    /\ Loadable(sub[s].curP, s, "period")
    /\ sub' = [sub EXCEPT ![s] = MaybeReset(sub[s], t)]
    /\ win' = IF ResetFires(sub[s], t) THEN CloseAll({sub[s].curP}, t) ELSE win
    /\ UNCHANGED <<now, rec, subSeq, winSeq>>

ResetDueFiveHourSubscriptionWindows(s, t) ==
    LET w == sub[s].curF IN
    /\ s \in ValidSubs(t) /\ w # 0
    /\ Loadable(w, s, "five_hour") /\ win[w].end <= t
    /\ win' = CloseAll({w}, t)
    /\ sub' = [sub EXCEPT ![s].curF = 0]
    /\ UNCHANGED <<now, rec, subSeq, winSeq>>

CleanupSubscriptionPreConsumeRecords ==
    LET old == {r \in Requests : /\ rec[r].status \in {"settled", "refunded"}
                                 /\ ~rec[r].pending
                                 /\ rec[r].updated < now - Retention}
    IN  /\ old # {}
        /\ rec' = [r \in Requests |-> IF r \in old
                                      THEN [rec[r] EXCEPT !.status = "forgotten"]
                                      ELSE rec[r]]
        /\ UNCHANGED <<now, sub, win, subSeq, winSeq>>

\* Mutant of Held: only reservations in flight keep their windows.
HeldByReserved ==
    UNION {{rec[r].period, rec[r].five} : r \in {r \in Requests : rec[r].status = "reserved"}}

\* The windows that some retained record refers to.
Held == UNION {{rec[r].period, rec[r].five} : r \in {r \in Requests : Live(r)}}

CleanupSubscriptionQuotaWindows ==
    LET old == {w \in WinIds : /\ win[w].kind # "none" /\ win[w].closed
                               /\ win[w].updated < now - Retention /\ w \notin Held}
    IN  /\ old # {}
        /\ win' = [w \in WinIds |-> IF w \in old THEN NoWin ELSE win[w]]
        /\ UNCHANGED <<now, sub, rec, subSeq, winSeq>>

-----------------------------------------------------------------------------
(* Purchase, upgrade and administration.                                    *)

\* The row of a first subscription to plan.
FreshSub(plan, end) ==
    LET n == NextReset(now, plan, end) IN
    [NoSub EXCEPT !.status = "active", !.plan = plan, !.start = now,
                  !.end = end, !.next = n,
                  !.last = IF n > 0 THEN now ELSE 0]

\* The row that replaces the current subscription c (row is c after its due
\* reset): its term, and the period of the window that is carried over, w.
ReplacementSub(plan, row, w, used, end) ==
    LET n == IF w = 0 THEN row.next ELSE win[w].end IN
    [NoSub EXCEPT !.status = "active", !.plan = plan, !.used = used,
                  !.start = row.start, !.end = end,
                  !.last = IF w = 0 THEN row.last ELSE win[w].start,
                  !.next = IF n > end THEN end ELSE n]

\* Subscription id takes the place of the valid ones, V, with current one c.
\* Their windows are closed; what they have used moves to the new row, capped
\* for the five-hour window.  The period continues from that of src; a and b are
\* the five-hour windows that start and end first.
Replace(plan, V, c, src, a, b, used, usedF, end) ==
    LET id   == subSeq + 1
        new  == IF c = 0 THEN FreshSub(plan, end)
                ELSE ReplacementSub(plan, MaybeReset(sub[c], now),
                                    IF src = 0 THEN 0 ELSE MaybeReset(sub[src], now).curP,
                                    used, end)
        newP == used > 0 \/ src # 0
        newF == a # 0
        p    == winSeq + 1
        last == winSeq + (IF newP THEN 1 ELSE 0) + (IF newF THEN 1 ELSE 0)
        shut == CloseAll(UNION {CurrentWindows(s) : s \in V}, now)
    IN
    /\ id <= MaxSub /\ last <= MaxWindow
    /\ sub' = [s \in SubIds |->
                 IF s = id THEN [new EXCEPT !.curP = IF newP THEN p ELSE 0,
                                            !.curF = IF newF THEN last ELSE 0]
                 ELSE IF s \in V
                 THEN [MaybeReset(sub[s], now) EXCEPT !.status = "cancelled", !.end = now]
                 ELSE sub[s]]
    /\ win' = [w \in WinIds |->
                 IF newP /\ w = p THEN PeriodWindow(id, new)
                 ELSE IF newF /\ w = last
                 THEN NewWindow("five_hour", id, plan.fiveHour,
                                IF usedF > plan.fiveHour THEN plan.fiveHour ELSE usedF,
                                win[a].start, win[b].end)
                 ELSE shut[w]]
    /\ winSeq' = last
    /\ subSeq' = id

\* What the valid subscriptions V have used in their period, after a due reset,
\* and in the five-hour windows W.
PeriodCarried(V)   == MapThenSumSet(LAMBDA s : MaybeReset(sub[s], now).used, V)
FiveHourCarried(W) == MapThenSumSet(LAMBDA w : win[w].used, W)

\* When the new subscription ends: with the current one, c, or at the end of a
\* first term.  A redemption code gives its own end to a first subscription, and
\* to a current one that was redeemed too and ends earlier.
EndTimes(plan, c, override) ==
    IF c = 0 THEN {IF override = 0 THEN now + plan.lasts ELSE override}
             ELSE {sub[c].end} \cup {e \in {override} : e > sub[c].end}

\* Mutant of SpansWindows: the merged window lasts as long as any of them.
SpansWindowsToLast(a, b, W) ==
    \A w \in W : win[a].start <= win[w].start /\ win[b].end >= win[w].end

\* The merged five-hour window starts with a, the first of W to start, and ends
\* with b, the first of them to end.
SpansWindows(a, b, W) ==
    \A w \in W : win[a].start <= win[w].start /\ win[b].end <= win[w].end

\* The valid subscriptions that a query returns which knows of ids up to "seen".
FoundSubs(seen) == {s \in ValidSubs(now) : s <= seen}

\* A new subscription to plan replaces every one that its query returned.
\* override: the end that is asked for, or 0.
CreateUserSubscriptionFromPlanTx(plan, seen, override) ==
    LET V        == FoundSubs(seen)
        row(s)   == MaybeReset(sub[s], now)
        periods  == {s \in V : row(s).curP # 0 /\ win[row(s).curP].end > now}
        fives    == {w \in WinIds : \E s \in V : sub[s].curF = w /\ win[w].end > now}
        newF     == plan.fiveHour > 0 /\ fives # {}
    IN
    /\ override = 0 \/ override > now
    /\ \A s \in V : CurrentLoadable(s)
    /\ \E used \in {u \in 0 .. MaxUsage : u = PeriodCarried(V)} :
       \E usedF \in {u \in 0 .. MaxUsage : u = FiveHourCarried(fives)} :
       \E c \in (IF V = {} THEN {0} ELSE V) :
       \E src \in (IF periods = {} THEN {0} ELSE periods) :
       \E a, b \in (IF newF THEN fives ELSE {0}) :
       \E end \in EndTimes(plan, c, override) :
       /\ src # 0 => \/ src = c
                     \/ c \notin periods /\ \A x \in periods \ {src} : Earlier(src, x)
       /\ newF => SpansWindows(a, b, fives)
       /\ Replace(plan, V, c, src, a, b, used, usedF, end)
    /\ UNCHANGED <<now, rec>>

\* The transaction locks the rows it finds but, unlike a purchase, not the user: it
\* may miss the row of a purchase or binding that commits while it runs, and then
\* leaves two subscriptions in force.
AdminBindSubscription(plan, seen) == CreateUserSubscriptionFromPlanTx(plan, seen, 0)

\* Ends a subscription at once.  Its windows stay open.
AdminInvalidateUserSubscription(s) ==
    /\ sub[s].status # "none"
    /\ sub' = [sub EXCEPT ![s].status = "cancelled", ![s].end = now]
    /\ UNCHANGED <<now, win, rec, subSeq, winSeq>>

\* Removes the row.  Windows and records of the subscription remain.
AdminDeleteUserSubscription(s) ==
    /\ sub[s].status # "none"
    /\ sub' = [sub EXCEPT ![s] = NoSub]
    /\ UNCHANGED <<now, win, rec, subSeq, winSeq>>

\* Manual reset of every valid subscription to plan.
AdminResetUserSubscriptionsByPlan(plan, advance, period, fiveHour) ==
    LET S == {s \in ValidSubs(now) : sub[s].plan = plan}
        cleared(row) ==
            LET n == NextReset(now, plan, row.end)
                x == IF fiveHour THEN [row EXCEPT !.curF = 0] ELSE row
                y == IF period THEN [x EXCEPT !.used = 0, !.curP = 0] ELSE x
            IN  IF period /\ advance
                THEN [y EXCEPT !.next = n, !.last = IF n > 0 THEN now ELSE 0] ELSE y
    IN
    /\ S # {} /\ (period \/ fiveHour)
    /\ \A s \in S : CurrentLoadable(s)
    /\ sub' = [s \in SubIds |-> IF s \in S THEN cleared(sub[s]) ELSE sub[s]]
    /\ win' = CloseAll((IF period THEN {sub[s].curP : s \in S} ELSE {}) \cup
                       (IF fiveHour THEN {sub[s].curF : s \in S} ELSE {}), now)
    /\ UNCHANGED <<now, rec, subSeq, winSeq>>

\* Mutant of NoneReserved: they do not wait.
NotAsked == TRUE

\* Administrators wait for requests in flight before they touch balances.
NoneReserved == \A r \in Requests : rec[r].status # "reserved"

\* Sets the remaining allowance of the current subscription s, of its period
\* and of its five-hour window, opening a window where needed.  -1: not given.
ChangeAdminBalance(s, remP, remF) ==
    LET doP  == remP >= 0
        doF  == remF >= 0
        row  == MaybeReset(sub[s], now)
        plan == row.plan
        newP == doP /\ row.curP = 0
        newF == doF /\ ~FiveHourLive(row) /\ remF < plan.fiveHour
        p    == IF newP THEN winSeq + 1 ELSE row.curP
        last == winSeq + (IF newP THEN 1 ELSE 0) + (IF newF THEN 1 ELSE 0)
        f    == IF newF THEN last ELSE row.curF
        setF == doF /\ (newF \/ FiveHourLive(row))
        retired == (IF ResetFires(sub[s], now) THEN {sub[s].curP} ELSE {}) \cup
                   (IF newF THEN {row.curF} ELSE {})
        put(w, u) == [w EXCEPT !.used = u, !.updated = now, !.manual = TRUE]
    IN
    /\ s \in ValidSubs(now) /\ NoneReserved /\ CurrentLoadable(s)
    /\ doP \/ doF
    /\ doP => plan.total > 0 /\ remP <= plan.total
    /\ doF => plan.fiveHour > 0 /\ remF <= plan.fiveHour
    /\ last <= MaxWindow
    /\ win' = [w \in WinIds |->
                 IF doP /\ w = p
                 THEN put(IF newP THEN PeriodWindow(s, row) ELSE win[p], plan.total - remP)
                 ELSE IF setF /\ w = f
                 THEN put(IF newF THEN FiveHourWindow(s, row) ELSE win[f],
                          plan.fiveHour - remF)
                 ELSE IF w \in retired THEN Closed(win[w], now) ELSE win[w]]
    /\ sub' = [sub EXCEPT ![s] = [row EXCEPT !.used = IF doP THEN plan.total - remP ELSE @,
                                             !.curP = p, !.curF = f]]
    /\ winSeq' = last
    /\ UNCHANGED <<now, rec, subSeq>>

\* Returns the user to the free tier.
ChangeAdminFree ==
    LET V == ValidSubs(now) IN
    /\ V # {} /\ NoneReserved
    /\ \A s \in V : CurrentLoadable(s)
    /\ sub' = [s \in SubIds |-> IF s \in V
                                THEN [sub[s] EXCEPT !.status = "cancelled", !.end = now]
                                ELSE sub[s]]
    /\ win' = CloseAll(UNION {CurrentWindows(s) : s \in V}, now)
    /\ UNCHANGED <<now, rec, subSeq, winSeq>>

Tick == now < MaxTime /\ now' = now + 1 /\ UNCHANGED <<sub, win, rec, subSeq, winSeq>>

-----------------------------------------------------------------------------
Init ==
    /\ now = 1
    /\ sub = [s \in SubIds |-> IF s <= Len(Legacy) THEN Legacy[s] ELSE NoSub]
    /\ win = [w \in WinIds |-> NoWin]
    /\ rec = [r \in Requests |-> NoRec]
    /\ subSeq = Len(Legacy)
    /\ winSeq = 0

\* What requests and their tasks do: admission, changes, settlement.
RequestStep ==
    \/ \E s \in SubIds, d \in Deltas : PostConsumeUserSubscriptionDelta(s, d)
    \/ \E r \in Requests :
       \/ \E a \in Quotas \ {0} : PreConsumeUserSubscription(r, a)
       \/ \E v \in 1 .. MaxVersion, f \in Quotas, st \in {"reserved", "settled"} :
             SetSubscriptionUsageFinal(r, v, f, st)
       \/ \E v \in 1 .. MaxVersion : RefundSubscriptionUsage(r, v)
       \/ \E v \in 1 .. MaxVersion, q \in Quotas :
             QueueSubscriptionSettlement(r, v, q, rec[r].final)
       \/ \E k \in BOOLEAN : CompleteSubscriptionSettlement(r, k)

\* What the periodic task does.
MaintenanceStep ==
    \/ \E t \in {t \in 1 .. now : t >= now - MaxLag} :
          \/ ExpireDueSubscriptions(t)
          \/ \E s \in SubIds : \/ ResetDueSubscriptions(s, t)
                               \/ ResetDueFiveHourSubscriptionWindows(s, t)
    \/ CleanupSubscriptionPreConsumeRecords
    \/ CleanupSubscriptionQuotaWindows

\* A subscription is bought or redeemed, with the user locked, or bound by an
\* administrator.
PurchaseStep ==
    \/ \E plan \in Plans, override \in {0} \cup Overrides :
          CreateUserSubscriptionFromPlanTx(plan, subSeq, override)
    \/ \E plan \in Plans, seen \in Len(Legacy) .. subSeq : AdminBindSubscription(plan, seen)

\* What administrators do.
AdminStep ==
    \/ \E s \in SubIds : \/ AdminInvalidateUserSubscription(s)
                         \/ AdminDeleteUserSubscription(s)
                         \/ \E remP, remF \in {-1} \cup Balances :
                               ChangeAdminBalance(s, remP, remF)
    \/ \E plan \in Plans, advance, period, fiveHour \in BOOLEAN :
          AdminResetUserSubscriptionsByPlan(plan, advance, period, fiveHour)
    \/ ChangeAdminFree

Next == RequestStep \/ MaintenanceStep \/ PurchaseStep \/ AdminStep \/ Tick

Spec == Init /\ [][Next]_vars

-----------------------------------------------------------------------------
(* Properties.                                                              *)

\* Every row is well formed, ids stay within what has been handed out, and an
\* admitted record names a subscription and a period window.
TypeOK ==
    /\ now \in 1 .. MaxTime
    /\ sub \in [SubIds -> SubRows]
    /\ win \in [WinIds -> WinRows]
    /\ rec \in [Requests -> RecRows]
    /\ subSeq \in 0 .. MaxSub
    /\ winSeq \in 0 .. MaxWindow
    /\ \A r \in Requests : rec[r].status # "none" =>
          rec[r].sub \in SubIds /\ rec[r].period \in WinIds

Exists(w) == w # 0 /\ win[w].kind # "none"

\* What request r holds on window w.
HeldOn(r, w) ==
    IF rec[r].status # "none" /\ w \in {rec[r].period, rec[r].five} THEN rec[r].final ELSE 0

Holds(w) == [r \in Requests |-> HeldOn(r, w)]

\* What the requests in flight hold on window w.
Reserves(w) == [r \in Requests |-> IF rec[r].status = "reserved" THEN HeldOn(r, w) ELSE 0]

\* The sum of h over the requests, counted as a set of quota units.
SumOver(h) == Cardinality({u \in Requests \X (1 .. MaxQuota) : u[2] <= h[u[1]]})

\* Usage on a window is exactly what it was opened with plus the amounts of the
\* requests admitted to it, whatever resets, upgrades, late settlements, refunds
\* and retention passes happened since (docs/subscription-quota-windows.md:
\* "no historical row is zeroed").  Manually set windows are excepted.
UsageConserved ==
    \A w \in WinIds :
        win[w].kind # "none" /\ ~win[w].manual =>
            win[w].used = win[w].opening + SumOver(Holds(w))

\* The usage shown on a subscription is that of its current period window: the
\* late settlement of an old period never leaks into the new one, and a current
\* one is never missed (adjustSubscriptionUsageTx).
SubscriptionMirrorsWindow ==
    \A s \in SubIds : Exists(sub[s].curP) => sub[s].used = win[sub[s].curP].used

\* Every retained record still finds its windows, so that a settlement or a
\* refund of it can be carried out (CleanupSubscriptionQuotaWindows).
RecordsFindWindows ==
    \A r \in Requests : Live(r) =>
        /\ Exists(rec[r].period) /\ Loadable(rec[r].period, rec[r].sub, "period")
        /\ Loadable(rec[r].five, rec[r].sub, "five_hour")

\* The current windows of a subscription in use exist, are its own and are
\* open: no admission is charged to a window that was already retired.
CurrentWindowsOpen ==
    \A s \in SubIds : sub[s].status = "active" =>
        /\ CurrentLoadable(s)
        /\ \A w \in CurrentWindows(s) : ~win[w].closed

\* What a subscription shows and charges is one thing: its current windows are
\* open and its own, and its usage is theirs, whoever turned them over.
CurrentWindowsAgree == SubscriptionMirrorsWindow /\ CurrentWindowsOpen

\* A subscription never has two windows of a kind in force at once, which would
\* grant its allowance twice.  (An administrator's invalidation, AdminInvalidate-
\* UserSubscription, leaves windows open; the subscription is then not in use.)
OneWindowInForce ==
    \A u, w \in WinIds :
        /\ win[u].kind # "none" /\ win[u].kind = win[w].kind /\ win[u].sub = win[w].sub
        /\ ~win[u].closed /\ ~win[w].closed
        => u = w

\* A window on which no request has been settled yet is never over its limit, unless
\* it was opened over it or set from outside: admissions and raised reservations
\* alone, of however many requests at once, never get there (Adjustable, Admits).
OverrunOnlyBySettlement ==
    \A w \in WinIds :
        /\ win[w].kind # "none" /\ ~win[w].manual
        /\ win[w].total > 0 /\ win[w].used > win[w].total
        => \/ win[w].opening > win[w].total
           \/ \E r \in Requests : /\ w \in {rec[r].period, rec[r].five}
                                  /\ rec[r].status \in {"settled", "forgotten"}

\* A settlement that is queued belongs to a reserved record: nothing refunds or
\* settles it behind the reconciler's back (SetSubscriptionUsageFinal).
QueuedIsReserved ==
    \A r \in Requests : rec[r].pending => rec[r].status = "reserved"

\* Request r is done with window w.
FinishedOn(r, w) ==
    /\ w \in {rec[r].period, rec[r].five}
    /\ rec[r].status \in {"settled", "refunded", "forgotten"}

\* Reservations in flight stay booked on their windows: whatever an administrator
\* sets, resets or cancels, what they may still consume is never given away again
\* (ChangeAdminUserSubscription refuses while requests are in flight).  Excepted
\* are windows whose usage was set by hand and that also carry a finished request:
\* a late correction of that request takes back what the new balance no longer holds.
ReservationsCovered ==
    \A w \in WinIds :
        /\ win[w].kind # "none"
        /\ win[w].manual => \A r \in Requests : ~FinishedOn(r, w)
        => win[w].used >= SumOver(Reserves(w))

\* A five-hour window is never longer than five hours, also when it stands for the
\* windows of several subscriptions that were in force together and a purchase
\* merged them, time after time (CreateUserSubscriptionFromPlanTx).
FiveHourSpan ==
    \A w \in WinIds : win[w].kind = "five_hour" => win[w].end <= win[w].start + FiveHours

\* A five-hour window never outlives the subscription it belongs to: what
\* docs/subscription-quota-windows.md says ("Subscription expiry always caps the
\* window end").  A merged window does, when the current subscription ends first:
\* its end is not compared with that of the new subscription.
ExpiryCapsFiveHourWindow ==
    \A s \in SubIds :
        sub[s].status = "active" /\ Exists(sub[s].curF) => win[sub[s].curF].end <= sub[s].end

\* A window's deadline and limit are fixed when it is opened, and a closed
\* window never reopens ("Further requests share that window; they do not move
\* its deadline").
DeadlineFixed ==
    [][\A w \in WinIds :
          win[w].kind # "none" /\ win'[w].kind # "none" =>
             /\ win'[w].end = win[w].end /\ win'[w].total = win[w].total
             /\ win[w].closed => win'[w].closed]_vars

\* A record as the request sees it, and the promise of UsageCharge about it.
ChargeOf(row) ==
    [phase    |-> IF row.pending THEN "queued" ELSE row.status,
     amount   |-> row.final,    target   |-> row.quota,
     tokenPre |-> row.tokenPre, tokenNet |-> row.tokenNet,
     version  |-> row.version]

Charges == [r \in Requests |-> ChargeOf(rec[r])]

Charge == INSTANCE UsageCharge WITH charge <- Charges

\* Each request is charged as UsageCharge allows: admitted once, settled to its
\* queued target once for allowance and key together, refunded for good.
ImplementsUsageCharge == Charge!Spec
=============================================================================
