---------------------- MODULE SubscriptionLedgerProofs ----------------------
(***************************************************************************)
(* Proofs about SubscriptionLedger, for every set of requests and plans and *)
(* every value of the bounds.  First its records: what a request was       *)
(* charged, and the refinement of UsageCharge; then its windows: one of a  *)
(* kind is in force, the current ones are open and agree with their        *)
(* subscription, and a record finds the windows it was admitted to.  The   *)
(* latter rests on the order in which ids are handed out, and on an open   *)
(* window being the current one of its subscription.  Last the counters    *)
(* and the deadlines: what a window shows is what it was opened with plus  *)
(* what the requests admitted to it hold, it covers what is reserved, it   *)
(* exceeds its limit only where the code lets it, its deadline never       *)
(* moves, and a five-hour window ends with its subscription.  At the end   *)
(* the periodic task of SubscriptionMaintenance: it settles only what a    *)
(* log proves, and does to the tables what the ledger allows.              *)
(***************************************************************************)
EXTENDS SubscriptionMaintenance, FiniteSetTheorems, FunctionTheorems, TLAPS

-----------------------------------------------------------------------------
(* The schedule and the rows built from it are well typed.                  *)

\* Rounding down to a multiple of e stays a natural number (the arithmetic of
\* the reset boundaries).
LEMMA RoundDown ==
    ASSUME NEW a \in Nat, NEW e \in Nat \ {0}
    PROVE  (a \div e) \in Nat /\ (a \div e) * e \in Nat
<1>1. (a \div e) \in Nat
  BY SMT
<1>2. \A x, y \in Nat : x * y \in Nat
  BY SMT
<1> QED  BY <1>1, <1>2

\* calcNextResetTime returns a time, or 0.
LEMMA NextResetType ==
    ASSUME NEW base \in Nat, NEW plan \in PlanRows, NEW end \in Nat
    PROVE  NextReset(base, plan, end) \in Nat
<1>1. plan.every \in Nat \ {0}
  BY DEF PlanRows
<1>2. (base \div plan.every) + 1 \in Nat
  BY <1>1, RoundDown
<1>3. \A x, y \in Nat : x * y \in Nat
  BY SMT
<1>4. ((base \div plan.every) + 1) * plan.every \in Nat
  BY <1>1, <1>2, <1>3
<1> QED  BY <1>1, <1>4 DEF NextReset

\* The reset loop stops at a time.
LEMMA LastResetType ==
    ASSUME NEW base \in Nat, NEW plan \in PlanRows, NEW end \in Nat, NEW t \in Nat
    PROVE  LastReset(base, plan, end, t) \in Nat
<1> DEFINE m == IF t < end THEN t ELSE end
<1>1. plan.every \in Nat \ {0}
  BY DEF PlanRows
<1>2. m \in Nat
  OBVIOUS
<1>3. (m \div plan.every) * plan.every \in Nat
  BY <1>1, <1>2, RoundDown
<1>4. CASE m < base
  BY <1>4 DEF LastReset
<1>5. CASE ~(m < base)
  <2>1. m - base \in Nat
    BY <1>2, <1>5
  <2>2. ((m - base) \div plan.every) * plan.every \in Nat
    BY <1>1, <2>1, RoundDown
  <2> QED  BY <1>1, <1>3, <2>2 DEF LastReset
<1> QED  BY <1>4, <1>5

\* A subscription row stays a row when its due reset is applied.
LEMMA MaybeResetType ==
    ASSUME NEW row \in SubRows, NEW t \in Nat
    PROVE  MaybeReset(row, t) \in SubRows
<1>1. row.plan \in PlanRows /\ row.end \in Nat /\ ResetBase(row) \in Nat
  BY DEF SubRows, ResetBase
<1> DEFINE b == LastReset(ResetBase(row), row.plan, row.end, t)
<1>2. b \in Nat
  BY <1>1, LastResetType
<1>3. NextReset(b, row.plan, row.end) \in Nat /\ NextReset(ResetBase(row), row.plan, row.end) \in Nat
  BY <1>1, <1>2, NextResetType
<1> HIDE DEF b
<1>z. 0 \in 0 .. MaxWindow
  BY BoundsAssumption
<1>4. [row EXCEPT !.used = 0, !.curP = 0, !.last = b, !.next = NextReset(b, row.plan, row.end)] \in SubRows
  BY <1>2, <1>3, <1>z DEF SubRows
<1>5. [row EXCEPT !.last = ResetBase(row), !.next = NextReset(ResetBase(row), row.plan, row.end)] \in SubRows
  BY <1>1, <1>3 DEF SubRows
<1> QED  BY <1>4, <1>5 DEF MaybeReset, Turned, b

\* A period has a start and an end.
LEMMA PeriodTypes ==
    ASSUME NEW row \in SubRows
    PROVE  PeriodStart(row) \in Nat /\ PeriodEnd(row) \in Nat
BY DEF SubRows, PeriodStart, PeriodEnd, ResetBase

-----------------------------------------------------------------------------
(* Windows are well typed.                                                  *)

\* createSubscriptionQuotaWindowTx writes a well-formed row.
LEMMA NewWindowType ==
    ASSUME now \in Nat, NEW s \in SubIds, NEW kind \in {"period", "five_hour"},
           NEW total \in Nat, NEW used \in Nat, NEW start \in Nat, NEW end \in Nat
    PROVE  NewWindow(kind, s, total, used, start, end) \in WinRows
<1>1. s \in 0 .. MaxSub
  BY BoundsAssumption DEF SubIds
<1> QED  BY <1>1 DEF NewWindow, WinRows

\* So do the two kinds of windows that admission opens.
LEMMA OpenedWindowTypes ==
    ASSUME now \in Nat, NEW s \in SubIds, NEW row \in SubRows
    PROVE  PeriodWindow(s, row) \in WinRows /\ FiveHourWindow(s, row) \in WinRows
<1>1. row.plan.total \in Nat /\ row.plan.fiveHour \in Nat /\ row.used \in Nat /\ row.end \in Nat
  BY DEF SubRows, PlanRows
<1>2. PeriodWindow(s, row) \in WinRows
  BY <1>1, PeriodTypes, NewWindowType DEF PeriodWindow
<1>3. (IF now + FiveHours > row.end THEN row.end ELSE now + FiveHours) \in Nat
  BY <1>1, BoundsAssumption
<1>4. FiveHourWindow(s, row) \in WinRows
  BY <1>1, <1>3, NewWindowType DEF FiveHourWindow
<1> QED  BY <1>2, <1>4

\* Closing keeps a row well formed.
LEMMA ClosedType ==
    ASSUME NEW row \in WinRows, NEW t \in Nat
    PROVE  Closed(row, t) \in WinRows
BY DEF Closed, WinRows

LEMMA CloseAllType ==
    ASSUME win \in [WinIds -> WinRows], NEW W, NEW t \in Nat
    PROVE  CloseAll(W, t) \in [WinIds -> WinRows]
BY ClosedType DEF CloseAll

\* A charge leaves a counter that is not negative (checkedSubscriptionQuotaAdd).
LEMMA CheckedAddType ==
    ASSUME NEW current \in Nat, NEW delta \in Int
    PROVE  CheckedAdd(current, delta) \in Nat
BY DEF CheckedAdd

-----------------------------------------------------------------------------
(* Every action preserves the type invariant.                               *)

\* Changing what a request is charged keeps windows and subscriptions typed.
LEMMA AdjustCountersType ==
    ASSUME TypeOK, NEW r \in Requests, rec[r].status # "none", NEW f \in Quotas,
           AdjustCounters(r, f)
    PROVE  win' \in [WinIds -> WinRows] /\ sub' \in [SubIds -> SubRows]
<1> DEFINE d == f - rec[r].final
           s == rec[r].sub
           p == rec[r].period
<1>0. rec[r] \in RecRows /\ d \in Int /\ now \in Nat
  BY BoundsAssumption DEF TypeOK, RecRows, Quotas
<1>1. CASE d = 0
  BY <1>1 DEF AdjustCounters, TypeOK
<1>2. CASE d # 0
  <2>1. \A w \in WinIds : [win[w] EXCEPT !.used = CheckedAdd(@, d), !.updated = now] \in WinRows
    <3> TAKE w \in WinIds
    <3>1. win[w] \in WinRows /\ win[w].used \in Nat
      BY DEF TypeOK, WinRows
    <3>2. CheckedAdd(win[w].used, d) \in Nat
      BY <1>0, <3>1, CheckedAddType
    <3> QED  BY <1>0, <3>1, <3>2 DEF WinRows
  <2>2. win' \in [WinIds -> WinRows]
    BY <1>2, <2>1 DEF AdjustCounters, TypeOK
  <2>3. sub' \in [SubIds -> SubRows]
    <3>1. s \in SubIds /\ p \in WinIds
      BY DEF TypeOK
    <3>2. CheckedAdd(win[p].used, d) \in Nat
      BY <1>0, <3>1, CheckedAddType DEF TypeOK, WinRows
    <3>3. [sub[s] EXCEPT !.used = CheckedAdd(win[p].used, d)] \in SubRows
      BY <3>1, <3>2 DEF TypeOK, SubRows
    <3>4. sub' \in {sub, [sub EXCEPT ![s].used = CheckedAdd(win[p].used, d)]}
      BY <1>2 DEF AdjustCounters
    <3> QED  BY <3>1, <3>3, <3>4 DEF TypeOK
  <2> QED  BY <2>2, <2>3
<1> QED  BY <1>1, <1>2

\* updateSubscriptionUsageRecordTx writes a well-formed record that still names
\* the same subscription and windows.
LEMMA AdjustedType ==
    ASSUME TypeOK, NEW r \in Requests, NEW f \in Quotas,
           NEW st \in {"reserved", "settled", "refunded"}
    PROVE  /\ Adjusted(r, f, st) \in RecRows
           /\ Adjusted(r, f, st).sub = rec[r].sub
           /\ Adjusted(r, f, st).period = rec[r].period
<1>1. rec[r] \in RecRows /\ now \in Nat
  BY BoundsAssumption DEF TypeOK
<1>2. rec[r].version + 1 \in Nat
  BY <1>1 DEF RecRows
<1>3. st \in {"none", "reserved", "settled", "refunded", "forgotten"}
  OBVIOUS
<1> QED  BY <1>1, <1>2, <1>3 DEF Adjusted, RecRows

\* SetSubscriptionUsageFinal, RefundSubscriptionUsage.
LEMMA SetFinalType ==
    ASSUME TypeOK, NEW r \in Requests, NEW v \in Nat, NEW f \in Quotas,
           NEW st \in {"reserved", "settled", "refunded"},
           SetSubscriptionUsageFinal(r, v, f, st)
    PROVE  TypeOK'
<1>0. rec[r] \in RecRows /\ now \in Nat /\ rec[r].status # "none"
  BY BoundsAssumption DEF TypeOK, SetSubscriptionUsageFinal, Changeable, Live
<1>1. win' \in [WinIds -> WinRows] /\ sub' \in [SubIds -> SubRows]
  BY <1>0, AdjustCountersType DEF SetSubscriptionUsageFinal
<1>2. Adjusted(r, f, st) \in RecRows /\ Adjusted(r, f, st).sub = rec[r].sub
        /\ Adjusted(r, f, st).period = rec[r].period
  BY AdjustedType
<1>3. rec' = [rec EXCEPT ![r] = Adjusted(r, f, st)] /\ UNCHANGED <<now, subSeq, winSeq>>
  BY DEF SetSubscriptionUsageFinal
<1> QED  BY <1>0, <1>1, <1>2, <1>3 DEF TypeOK

LEMMA QueueType ==
    ASSUME TypeOK, NEW r \in Requests, NEW v, NEW q \in Quotas, NEW p \in Quotas,
           QueueSubscriptionSettlement(r, v, q, p)
    PROVE  TypeOK'
<1>0. rec[r] \in RecRows /\ now \in Nat
  BY BoundsAssumption DEF TypeOK
<1> DEFINE new == [rec[r] EXCEPT !.pending = TRUE, !.quota = q, !.tokenPre = p, !.updated = now]
<1>1. new \in RecRows /\ new.sub = rec[r].sub /\ new.period = rec[r].period
         /\ new.status = rec[r].status
  BY <1>0 DEF RecRows
<1>2. rec' = [rec EXCEPT ![r] = new]
  BY DEF QueueSubscriptionSettlement, TypeOK
<1> HIDE DEF new
<1>3. UNCHANGED <<now, sub, win, subSeq, winSeq>>
  BY DEF QueueSubscriptionSettlement
<1> QED  BY <1>1, <1>2, <1>3 DEF TypeOK

LEMMA CompleteType ==
    ASSUME TypeOK, NEW r \in Requests, NEW k \in BOOLEAN,
           CompleteSubscriptionSettlement(r, k)
    PROVE  TypeOK'
<1> DEFINE q == rec[r].quota
           net == IF k THEN q - rec[r].tokenPre ELSE 0
           new == [Adjusted(r, q, "settled") EXCEPT !.pending = FALSE, !.tokenNet = net]
<1>0. rec[r] \in RecRows /\ now \in Nat /\ rec[r].status # "none" /\ q \in Quotas
  BY BoundsAssumption DEF TypeOK, CompleteSubscriptionSettlement, RecRows
<1>1. win' \in [WinIds -> WinRows] /\ sub' \in [SubIds -> SubRows]
  BY <1>0, AdjustCountersType DEF CompleteSubscriptionSettlement
<1>2. net \in Int
  BY <1>0, BoundsAssumption DEF RecRows, Quotas
<1>3. Adjusted(r, q, "settled") \in RecRows /\ Adjusted(r, q, "settled").sub = rec[r].sub
        /\ Adjusted(r, q, "settled").period = rec[r].period
  BY <1>0, AdjustedType
<1>4. rec' = [rec EXCEPT ![r] = new] /\ UNCHANGED <<now, subSeq, winSeq>>
  BY DEF CompleteSubscriptionSettlement
<1> HIDE DEF net
<1>5. new \in RecRows /\ new.sub = rec[r].sub /\ new.period = rec[r].period
  BY <1>2, <1>3 DEF RecRows
<1> HIDE DEF new
<1> QED  BY <1>0, <1>1, <1>4, <1>5 DEF TypeOK

LEMMA PostDeltaType ==
    ASSUME TypeOK, NEW s \in SubIds, NEW d \in Int, PostConsumeUserSubscriptionDelta(s, d)
    PROVE  TypeOK'
<1> DEFINE p == sub[s].curP
           u == CheckedAdd(IF p = 0 THEN sub[s].used ELSE win[p].used, d)
           newS == [sub[s] EXCEPT !.used = u]
           newW == [win[p] EXCEPT !.used = CheckedAdd(@, d), !.updated = now, !.manual = TRUE]
<1>0. sub[s] \in SubRows /\ now \in Nat /\ p \in 0 .. MaxWindow /\ (p # 0 => p \in WinIds)
  BY BoundsAssumption DEF TypeOK, SubRows, WinIds
<1>1. p # 0 => win[p] \in WinRows /\ win[p].used \in Nat
  BY <1>0 DEF TypeOK, WinRows
<1>2. u \in Nat
  BY <1>0, <1>1, CheckedAddType DEF SubRows
<1>3. newS \in SubRows
  BY <1>0, <1>2 DEF SubRows
<1>4. p # 0 => newW \in WinRows
  <2>1. p # 0 => CheckedAdd(win[p].used, d) \in Nat
    BY <1>1, CheckedAddType
  <2> QED  BY <1>0, <1>1, <2>1 DEF WinRows
<1>5. /\ win' = IF p = 0 THEN win ELSE [win EXCEPT ![p] = newW]
      /\ sub' = [sub EXCEPT ![s] = newS]
      /\ UNCHANGED <<now, rec, subSeq, winSeq>>
  BY DEF PostConsumeUserSubscriptionDelta, TypeOK
<1> HIDE DEF p, newS, newW
<1> QED  BY <1>0, <1>3, <1>4, <1>5 DEF TypeOK

LEMMA ExpireType ==
    ASSUME TypeOK, NEW t \in Nat, ExpireDueSubscriptions(t)
    PROVE  TypeOK'
<1>1. \A s \in SubIds : [sub[s] EXCEPT !.status = "expired"] \in SubRows
  BY DEF TypeOK, SubRows
<1>2. sub' \in [SubIds -> SubRows]
  BY <1>1 DEF ExpireDueSubscriptions, TypeOK
<1>3. win' \in [WinIds -> WinRows]
  BY CloseAllType DEF ExpireDueSubscriptions, TypeOK
<1> QED  BY <1>2, <1>3 DEF ExpireDueSubscriptions, TypeOK

LEMMA ResetDueType ==
    ASSUME TypeOK, NEW s \in SubIds, NEW t \in Nat, ResetDueSubscriptions(s, t)
    PROVE  TypeOK'
<1>1. MaybeReset(sub[s], t) \in SubRows
  BY MaybeResetType DEF TypeOK
<1>2. win' \in [WinIds -> WinRows]
  BY CloseAllType DEF ResetDueSubscriptions, TypeOK
<1> QED  BY <1>1, <1>2 DEF ResetDueSubscriptions, TypeOK

LEMMA ResetFiveHourType ==
    ASSUME TypeOK, NEW s \in SubIds, NEW t \in Nat, ResetDueFiveHourSubscriptionWindows(s, t)
    PROVE  TypeOK'
<1>1. [sub[s] EXCEPT !.curF = 0] \in SubRows
  BY BoundsAssumption DEF TypeOK, SubRows
<1>2. win' \in [WinIds -> WinRows]
  BY CloseAllType DEF ResetDueFiveHourSubscriptionWindows, TypeOK
<1>3. sub' = [sub EXCEPT ![s] = [sub[s] EXCEPT !.curF = 0]]
  BY DEF ResetDueFiveHourSubscriptionWindows, TypeOK
<1> QED  BY <1>1, <1>2, <1>3 DEF ResetDueFiveHourSubscriptionWindows, TypeOK

LEMMA CleanupType ==
    ASSUME TypeOK,
           CleanupSubscriptionPreConsumeRecords \/ CleanupSubscriptionQuotaWindows
    PROVE  TypeOK'
<1>1. CASE CleanupSubscriptionPreConsumeRecords
  <2>1. \A r \in Requests : /\ [rec[r] EXCEPT !.status = "forgotten"] \in RecRows
                            /\ [rec[r] EXCEPT !.status = "forgotten"].sub = rec[r].sub
                            /\ [rec[r] EXCEPT !.status = "forgotten"].period = rec[r].period
    BY DEF TypeOK, RecRows
  <2>2. rec' \in [Requests -> RecRows]
    BY <1>1, <2>1 DEF CleanupSubscriptionPreConsumeRecords, TypeOK
  <2>3. \A r \in Requests : /\ rec'[r].sub = rec[r].sub /\ rec'[r].period = rec[r].period
                            /\ rec'[r].status = "none" <=> rec[r].status = "none"
    BY <1>1, <2>1 DEF CleanupSubscriptionPreConsumeRecords, TypeOK, RecRows
  <2> QED  BY <1>1, <2>2, <2>3 DEF CleanupSubscriptionPreConsumeRecords, TypeOK
<1>2. CASE CleanupSubscriptionQuotaWindows
  <2>1. NoWin \in WinRows
    BY BoundsAssumption DEF NoWin, WinRows
  <2>2. win' \in [WinIds -> WinRows]
    BY <1>2, <2>1 DEF CleanupSubscriptionQuotaWindows, TypeOK
  <2> QED  BY <1>2, <2>2 DEF CleanupSubscriptionQuotaWindows, TypeOK
<1> QED  BY <1>1, <1>2

\* Admission: windows, subscription and record are written together.
LEMMA AdmitType ==
    ASSUME TypeOK, NEW r \in Requests, NEW a \in Quotas \ {0}, NEW s \in SubIds, NEW past,
           Admit(r, a, s, past)
    PROVE  /\ win' \in [WinIds -> WinRows] /\ sub' \in [SubIds -> SubRows]
           /\ rec' \in [Requests -> RecRows] /\ winSeq' \in 0 .. MaxWindow
           /\ rec'[r].sub \in SubIds /\ rec'[r].period \in WinIds
           /\ \A x \in Requests \ {r} : rec'[x] = rec[x]
<1> DEFINE row   == MaybeReset(sub[s], now)
           newP  == row.curP = 0
           newF  == row.plan.fiveHour > 0 /\ ~FiveHourLive(row)
           p     == IF newP THEN winSeq + 1 ELSE row.curP
           last  == winSeq + (IF newP THEN 1 ELSE 0) + (IF newF THEN 1 ELSE 0)
           f     == IF newF THEN last ELSE row.curF
           used  == PeriodUsed(row) + a
           charged(w) == [w EXCEPT !.used = @ + a, !.updated = now]
           five  == IF row.plan.fiveHour > 0 THEN f ELSE 0
           new   == [NoRec EXCEPT !.status = "reserved", !.sub = s, !.period = p,
                                  !.five = five, !.pre = a, !.final = a, !.version = 1,
                                  !.updated = now]
<1>0. now \in Nat /\ winSeq \in Nat /\ a \in Nat /\ MaxWindow \in Nat
  BY BoundsAssumption DEF TypeOK, Quotas
<1>1. row \in SubRows
  BY <1>0, MaybeResetType DEF TypeOK
<1>2. row.curP \in 0 .. MaxWindow /\ row.curF \in 0 .. MaxWindow /\ row.used \in Nat
  BY <1>1 DEF SubRows
<1>3. last <= MaxWindow /\ winSeq' = last /\ rec' = [rec EXCEPT ![r] = new]
  BY DEF Admit
<1>4. sub' = [x \in SubIds |->
                IF x = s THEN [row EXCEPT !.used = used, !.curP = p, !.curF = f]
                ELSE IF x \in past THEN MaybeReset(sub[x], now) ELSE sub[x]]
  BY DEF Admit
<1>5. \A w \in WinIds : win'[w] =
        IF w = p THEN charged(IF newP THEN PeriodWindow(s, row) ELSE win[p])
        ELSE IF w = f /\ row.plan.fiveHour > 0
        THEN charged(IF newF THEN FiveHourWindow(s, row) ELSE win[f])
        ELSE IF w \in {sub[x].curP : x \in {x \in past \cup {s} : ResetFires(sub[x], now)}}
                        \cup (IF newF THEN {row.curF} ELSE {})
        THEN Closed(win[w], now) ELSE win[w]
  BY DEF Admit
<1>6. win' = [w \in WinIds |-> win'[w]]
  BY DEF Admit
<1> HIDE DEF row, newF
<1>7. last \in 0 .. MaxWindow
  BY <1>0, <1>3
<1>8. p \in WinIds
  BY <1>0, <1>2, <1>3 DEF WinIds
<1>9. f \in 0 .. MaxWindow /\ five \in 0 .. MaxWindow
  BY <1>2, <1>0, <1>7
<1>10. used \in Nat
  <2>1. \A w \in WinIds : win[w].used \in Nat
    BY DEF TypeOK, WinRows
  <2> QED  BY <1>0, <1>2, <2>1 DEF PeriodUsed, WinIds
<1>11. \A w \in WinRows : charged(w) \in WinRows
  <2> SUFFICES ASSUME NEW w \in WinRows
               PROVE  charged(w) \in WinRows
    OBVIOUS
  <2>1. w.used + a \in Nat
    BY <1>0 DEF WinRows
  <2> QED  BY <1>0, <2>1 DEF WinRows
<1> HIDE DEF charged, last, used, five
<1>12. win' \in [WinIds -> WinRows]
  <2> SUFFICES ASSUME NEW w \in WinIds
               PROVE  win'[w] \in WinRows
    BY <1>6
  <2>1. win[w] \in WinRows /\ Closed(win[w], now) \in WinRows
    BY <1>0, ClosedType DEF TypeOK
  <2>2. PeriodWindow(s, row) \in WinRows /\ FiveHourWindow(s, row) \in WinRows
    BY <1>0, <1>1, OpenedWindowTypes
  <2> HIDE DEF f, p
  <2>3. CASE w = p
    BY <1>5, <1>11, <2>1, <2>2, <2>3
  <2>4. CASE w # p /\ w = f /\ row.plan.fiveHour > 0
    BY <1>5, <1>11, <2>1, <2>2, <2>4
  <2>5. CASE w # p /\ ~(w = f /\ row.plan.fiveHour > 0)
    BY <1>5, <2>1, <2>5
  <2> QED  BY <2>3, <2>4, <2>5
<1>13. p \in 0 .. MaxWindow
  BY <1>0, <1>8 DEF WinIds
<1> HIDE DEF p, f
<1>14. sub' \in [SubIds -> SubRows]
  <2>1. [row EXCEPT !.used = used, !.curP = p, !.curF = f] \in SubRows
    BY <1>1, <1>9, <1>10, <1>13 DEF SubRows
  <2>2. \A x \in SubIds : sub[x] \in SubRows /\ MaybeReset(sub[x], now) \in SubRows
    BY <1>0, MaybeResetType DEF TypeOK
  <2> QED  BY <1>4, <2>1, <2>2
<1>15. new \in RecRows /\ new.sub = s /\ new.period = p
  <2>1. s \in 0 .. MaxSub /\ 0 \in 0 .. MaxWindow /\ 0 \in Quotas /\ 0 \in 0 .. MaxSub
    BY BoundsAssumption DEF SubIds, Quotas
  <2>2. NoRec \in RecRows
    BY <2>1 DEF NoRec, RecRows
  <2> DEFINE half == [NoRec EXCEPT !.status = "reserved", !.sub = s, !.period = p, !.five = five]
  <2>3. half \in RecRows /\ half.sub = s /\ half.period = p
    BY <1>9, <1>13, <2>1, <2>2 DEF RecRows
  <2>4. new = [half EXCEPT !.pre = a, !.final = a, !.version = 1, !.updated = now]
    BY DEF NoRec
  <2> HIDE DEF half, new
  <2> QED  BY <1>0, <2>3, <2>4 DEF RecRows
<1> HIDE DEF new
<1>16. rec \in [Requests -> RecRows]
  BY DEF TypeOK
<1> QED  BY <1>3, <1>7, <1>8, <1>12, <1>14, <1>15, <1>16

\* PreConsumeUserSubscription.
LEMMA PreConsumeType ==
    ASSUME TypeOK, NEW r \in Requests, NEW a \in Quotas \ {0},
           PreConsumeUserSubscription(r, a)
    PROVE  TypeOK'
<1>1. PICK s \in SubIds : \E past : Admit(r, a, s, past)
  BY DEF PreConsumeUserSubscription, ValidSubs
<1>2. UNCHANGED <<now, subSeq>>
  BY DEF PreConsumeUserSubscription
<1> QED  BY <1>1, <1>2, AdmitType DEF TypeOK

-----------------------------------------------------------------------------
(* Purchase, upgrade and administration.                                    *)

\* The row of a first subscription is well formed.
LEMMA FreshSubType ==
    ASSUME NEW plan \in PlanRows, now \in Nat, NEW e \in Nat
    PROVE  FreshSub(plan, e) \in SubRows
<1> DEFINE n == NextReset(now, plan, e)
           half == [NoSub EXCEPT !.status = "active", !.plan = plan, !.start = now, !.end = e]
<1>2. n \in Nat
  BY NextResetType
<1>3. 0 \in 0 .. MaxWindow
  BY BoundsAssumption
<1>4. NoPlan \in PlanRows
  BY DEF NoPlan, PlanRows
<1>5. NoSub \in SubRows
  BY <1>3, <1>4 DEF NoSub, SubRows
<1> HIDE DEF n
<1>6. half \in SubRows
  BY <1>5 DEF SubRows
<1>7. [half EXCEPT !.next = n, !.last = IF n > 0 THEN now ELSE 0] \in SubRows
  <2> HIDE DEF half
  <2> QED  BY <1>2, <1>6 DEF SubRows
<1>8. FreshSub(plan, e) = [half EXCEPT !.next = n, !.last = IF n > 0 THEN now ELSE 0]
  BY DEF FreshSub, n, NoSub
<1> QED  BY <1>7, <1>8

\* The row of a replacement is well formed.
LEMMA ReplacementSubType ==
    ASSUME TypeOK, NEW plan \in PlanRows, NEW row \in SubRows, NEW w \in 0 .. MaxWindow,
           NEW used \in Nat, NEW end \in Nat
    PROVE  ReplacementSub(plan, row, w, used, end) \in SubRows
<1> DEFINE n == IF w = 0 THEN row.next ELSE win[w].end
           l == IF w = 0 THEN row.last ELSE win[w].start
           m == IF n > end THEN end ELSE n
           half == [NoSub EXCEPT !.status = "active", !.plan = plan, !.used = used,
                                 !.start = row.start]
<1>1. row.next \in Nat /\ row.last \in Nat /\ row.end \in Nat /\ row.start \in Nat
  BY DEF SubRows
<1>2. w # 0 => win[w].end \in Nat /\ win[w].start \in Nat
  BY BoundsAssumption, SMTT(20) DEF TypeOK, WinRows, WinIds
<1>3. n \in Nat /\ l \in Nat /\ m \in Nat
  BY <1>1, <1>2
<1>4. 0 \in 0 .. MaxWindow
  BY BoundsAssumption
<1>5. NoPlan \in PlanRows
  BY DEF NoPlan, PlanRows
<1>6. NoSub \in SubRows
  BY <1>4, <1>5 DEF NoSub, SubRows
<1> HIDE DEF n, l, m
<1>7. half \in SubRows
  BY <1>1, <1>6 DEF SubRows
<1>8. [half EXCEPT !.end = end, !.last = l, !.next = m] \in SubRows
  <2> HIDE DEF half
  <2> QED  BY <1>1, <1>3, <1>7 DEF SubRows
<1>9. ReplacementSub(plan, row, w, used, end) = [half EXCEPT !.end = end, !.last = l, !.next = m]
  BY DEF ReplacementSub, n, l, m, NoSub
<1> QED  BY <1>8, <1>9

\* Replacing the valid subscriptions by a new one.
LEMMA ReplaceType ==
    ASSUME TypeOK, NEW plan \in PlanRows, NEW V, NEW c \in 0 .. MaxSub, NEW src \in 0 .. MaxSub,
           NEW a \in 0 .. MaxWindow, NEW b \in 0 .. MaxWindow, a # 0 => b # 0,
           NEW used \in Nat, NEW usedF \in Nat, NEW end \in Nat,
           Replace(plan, V, c, src, a, b, used, usedF, end)
    PROVE  /\ win' \in [WinIds -> WinRows] /\ sub' \in [SubIds -> SubRows]
           /\ winSeq' \in 0 .. MaxWindow /\ subSeq' \in 0 .. MaxSub
<1> DEFINE id   == subSeq + 1
           cur  == IF src = 0 THEN 0 ELSE MaybeReset(sub[src], now).curP
           new  == IF c = 0 THEN FreshSub(plan, end)
                   ELSE ReplacementSub(plan, MaybeReset(sub[c], now), cur, used, end)
           newP == used > 0 \/ src # 0
           newF == a # 0
           p    == winSeq + 1
           last == winSeq + (IF newP THEN 1 ELSE 0) + (IF newF THEN 1 ELSE 0)
           W    == UNION {CurrentWindows(s) : s \in V}
           p1   == IF newP THEN p ELSE 0
           f1   == IF newF THEN last ELSE 0
           five == NewWindow("five_hour", id, plan.fiveHour,
                             IF usedF > plan.fiveHour THEN plan.fiveHour ELSE usedF,
                             win[a].start, win[b].end)
<1>0. now \in Nat /\ winSeq \in Nat /\ subSeq \in Nat /\ MaxWindow \in Nat /\ MaxSub \in Nat
  BY BoundsAssumption DEF TypeOK
<1>1. id <= MaxSub /\ last <= MaxWindow /\ winSeq' = last /\ subSeq' = id
  BY DEF Replace
<1>2. sub' = [s \in SubIds |->
                IF s = id THEN [new EXCEPT !.curP = p1, !.curF = f1]
                ELSE IF s \in V
                THEN [MaybeReset(sub[s], now) EXCEPT !.status = "cancelled", !.end = now]
                ELSE sub[s]]
  BY DEF Replace
<1>3. win' = [w \in WinIds |->
                IF newP /\ w = p THEN PeriodWindow(id, new)
                ELSE IF newF /\ w = last THEN five
                ELSE CloseAll(W, now)[w]]
  BY DEF Replace
<1>4. \A s \in SubIds : sub[s] \in SubRows /\ MaybeReset(sub[s], now) \in SubRows
  BY <1>0, MaybeResetType DEF TypeOK
<1>5. cur \in 0 .. MaxWindow
  <2>1. 0 \in 0 .. MaxWindow
    BY <1>0
  <2>2. src # 0 => src \in SubIds
    BY <1>0 DEF SubIds
  <2>3. \A s \in SubIds : MaybeReset(sub[s], now).curP \in 0 .. MaxWindow
    BY <1>4 DEF SubRows
  <2> QED  BY <2>1, <2>2, <2>3
<1>6. new \in SubRows
  <2> HIDE DEF cur
  <2>1. c # 0 => c \in SubIds
    BY <1>0 DEF SubIds
  <2> QED  BY <1>0, <1>4, <1>5, <2>1, FreshSubType, ReplacementSubType
<1>7. id \in 1 .. MaxSub /\ id \in 0 .. MaxSub /\ last \in 0 .. MaxWindow
  BY <1>0, <1>1
<1>8. p1 \in 0 .. MaxWindow /\ f1 \in 0 .. MaxWindow
  <2> HIDE DEF newF
  <2> QED  BY <1>0, <1>1
<1>9. newF => five \in WinRows
  <2>1. SUFFICES ASSUME newF
                 PROVE  five \in WinRows
    OBVIOUS
  <2>2. win[a].start \in Nat /\ win[b].end \in Nat
    <3>1. a \in WinIds /\ b \in WinIds
      BY <1>0, <2>1 DEF WinIds
    <3> QED  BY <3>1 DEF TypeOK, WinRows
  <2>3. plan.fiveHour \in Nat
    BY DEF PlanRows
  <2> DEFINE u == IF usedF > plan.fiveHour THEN plan.fiveHour ELSE usedF
  <2>4. u \in Nat /\ id \in SubIds
    BY <1>7, <2>3 DEF SubIds
  <2> HIDE DEF u, id
  <2>5. NewWindow("five_hour", id, plan.fiveHour, u, win[a].start, win[b].end) \in WinRows
    BY <1>0, <2>2, <2>3, <2>4, NewWindowType
  <2> QED  BY <2>5 DEF u
<1> HIDE DEF new, newP, newF, last, id, five, p1, f1, W, p
<1>10. PeriodWindow(id, new) \in WinRows
  BY <1>0, <1>6, <1>7, OpenedWindowTypes DEF SubIds
<1>11. CloseAll(W, now) \in [WinIds -> WinRows]
  BY <1>0, CloseAllType DEF TypeOK
<1>12. win' \in [WinIds -> WinRows]
  BY <1>3, <1>9, <1>10, <1>11
<1>13. sub' \in [SubIds -> SubRows]
  <2>1. [new EXCEPT !.curP = p1, !.curF = f1] \in SubRows
    BY <1>6, <1>8 DEF SubRows
  <2>2. \A s \in SubIds : [MaybeReset(sub[s], now) EXCEPT !.status = "cancelled", !.end = now] \in SubRows
    BY <1>0, <1>4 DEF SubRows
  <2> QED  BY <1>2, <1>4, <2>1, <2>2
<1> QED  BY <1>1, <1>7, <1>12, <1>13

\* The end of the new subscription.
LEMMA EndTimesType ==
    ASSUME TypeOK, NEW plan \in PlanRows, NEW c \in {0} \cup SubIds,
           NEW override \in {0} \cup Overrides, NEW end \in EndTimes(plan, c, override)
    PROVE  end \in Nat
<1>1. override \in Nat /\ now \in Nat /\ plan.lasts \in Nat
  BY PlansAssumption DEF TypeOK, PlanRows
<1>2. c # 0 => sub[c].end \in Nat
  BY DEF TypeOK, SubRows
<1> QED  BY <1>1, <1>2 DEF EndTimes

\* However a subscription begins, it is created by the same transaction.
LEMMA Created ==
    ASSUME TypeOK, PurchaseStep
    PROVE  \E plan \in Plans, seen \in Nat, override \in {0} \cup Overrides :
               CreateUserSubscriptionFromPlanTx(plan, seen, override)
<1>1. subSeq \in Nat /\ Len(Legacy) .. subSeq \subseteq Nat
  BY LegacyAssumption DEF TypeOK
<1> QED  BY <1>1 DEF PurchaseStep, AdminBindSubscription

\* CreateUserSubscriptionFromPlanTx.
LEMMA CreateType ==
    ASSUME TypeOK, NEW plan \in Plans, NEW seen,
           NEW override \in {0} \cup Overrides, CreateUserSubscriptionFromPlanTx(plan, seen, override)
    PROVE  TypeOK'
<1>0. plan \in PlanRows /\ MaxUsage \in Nat /\ MaxSub \in Nat /\ MaxWindow \in Nat
  BY PlansAssumption, BoundsAssumption
<1> DEFINE V == FoundSubs(seen)
           row(s)  == MaybeReset(sub[s], now)
           periods == {s \in V : row(s).curP # 0 /\ win[row(s).curP].end > now}
           fives   == {w \in WinIds : \E s \in V : sub[s].curF = w /\ win[w].end > now}
           newF    == plan.fiveHour > 0 /\ fives # {}
<1>1. PICK used \in 0 .. MaxUsage, usedF \in 0 .. MaxUsage,
           c \in (IF V = {} THEN {0} ELSE V), src \in (IF periods = {} THEN {0} ELSE periods),
           a \in (IF newF THEN fives ELSE {0}), b \in (IF newF THEN fives ELSE {0}) :
         \E end \in EndTimes(plan, c, override) : Replace(plan, V, c, src, a, b, used, usedF, end)
  BY SMTT(20) DEF CreateUserSubscriptionFromPlanTx
<1>w. PICK end \in EndTimes(plan, c, override) : Replace(plan, V, c, src, a, b, used, usedF, end)
  BY <1>1
<1>x. V \subseteq SubIds /\ periods \subseteq SubIds /\ fives \subseteq WinIds
  BY DEF FoundSubs, ValidSubs
<1> HIDE DEF V, periods, fives, newF
<1>y. c \in 0 .. MaxSub /\ src \in 0 .. MaxSub
  BY <1>0, <1>x DEF SubIds
<1>z. a \in 0 .. MaxWindow /\ b \in 0 .. MaxWindow /\ (a # 0 => b # 0)
  BY <1>0, <1>x DEF WinIds
<1>2. used \in Nat /\ usedF \in Nat
  BY <1>0
<1>e. end \in Nat
  BY <1>0, <1>x, EndTimesType DEF SubIds
<1>3. /\ win' \in [WinIds -> WinRows] /\ sub' \in [SubIds -> SubRows]
      /\ winSeq' \in 0 .. MaxWindow /\ subSeq' \in 0 .. MaxSub
  BY <1>0, <1>w, <1>y, <1>z, <1>2, <1>e, ReplaceType
<1>4. UNCHANGED <<now, rec>>
  BY DEF CreateUserSubscriptionFromPlanTx
<1> QED  BY <1>3, <1>4 DEF TypeOK

\* AdminInvalidateUserSubscription, AdminDeleteUserSubscription and the return
\* to the free tier.
LEMMA AdminEndType ==
    ASSUME TypeOK,
           \/ \E s \in SubIds : AdminInvalidateUserSubscription(s) \/ AdminDeleteUserSubscription(s)
           \/ ChangeAdminFree
    PROVE  TypeOK'
<1>0. now \in Nat /\ 0 \in 0 .. MaxWindow
  BY BoundsAssumption DEF TypeOK
<1>1. ASSUME NEW s \in SubIds, AdminInvalidateUserSubscription(s)
      PROVE  TypeOK'
  <2>1. [sub[s] EXCEPT !.status = "cancelled", !.end = now] \in SubRows
    BY <1>0, ZenonT(30) DEF TypeOK, SubRows
  <2>2. sub' = [sub EXCEPT ![s] = [sub[s] EXCEPT !.status = "cancelled", !.end = now]]
    BY <1>1 DEF AdminInvalidateUserSubscription
  <2>3. sub' \in [SubIds -> SubRows]
    BY <2>1, <2>2 DEF TypeOK
  <2> QED  BY <1>1, <2>3 DEF AdminInvalidateUserSubscription, TypeOK
<1>2. ASSUME NEW s \in SubIds, AdminDeleteUserSubscription(s)
      PROVE  TypeOK'
  <2>1. NoPlan \in PlanRows
    BY DEF NoPlan, PlanRows
  <2>2. NoSub \in SubRows
    BY <1>0, <2>1 DEF NoSub, SubRows
  <2>3. sub' \in [SubIds -> SubRows]
    BY <1>2, <2>2 DEF AdminDeleteUserSubscription, TypeOK
  <2> QED  BY <1>2, <2>3 DEF AdminDeleteUserSubscription, TypeOK
<1>3. CASE ChangeAdminFree
  <2>1. \A s \in SubIds : [sub[s] EXCEPT !.status = "cancelled", !.end = now] \in SubRows
    BY <1>0 DEF TypeOK, SubRows
  <2>2. sub' \in [SubIds -> SubRows]
    BY <1>3, <2>1 DEF ChangeAdminFree, TypeOK
  <2>3. win' \in [WinIds -> WinRows]
    BY <1>0, <1>3, CloseAllType DEF ChangeAdminFree, TypeOK
  <2> QED  BY <1>3, <2>2, <2>3 DEF ChangeAdminFree, TypeOK
<1> QED  BY <1>1, <1>2, <1>3

\* AdminResetUserSubscriptionsByPlan.
LEMMA AdminResetType ==
    ASSUME TypeOK, NEW plan \in Plans, NEW advance \in BOOLEAN, NEW period \in BOOLEAN,
           NEW fiveHour \in BOOLEAN,
           AdminResetUserSubscriptionsByPlan(plan, advance, period, fiveHour)
    PROVE  TypeOK'
<1> DEFINE S == {s \in ValidSubs(now) : sub[s].plan = plan}
           n(row) == NextReset(now, plan, row.end)
           x(row) == IF fiveHour THEN [row EXCEPT !.curF = 0] ELSE row
           y(row) == IF period THEN [x(row) EXCEPT !.used = 0, !.curP = 0] ELSE x(row)
           cleared(row) == IF period /\ advance
                           THEN [y(row) EXCEPT !.next = n(row), !.last = IF n(row) > 0 THEN now ELSE 0]
                           ELSE y(row)
<1>0. now \in Nat /\ 0 \in 0 .. MaxWindow /\ plan \in PlanRows
  BY BoundsAssumption, PlansAssumption DEF TypeOK
<1>1. ASSUME NEW row \in SubRows
      PROVE  cleared(row) \in SubRows
  <2>1. x(row) \in SubRows
    BY <1>0 DEF SubRows
  <2> HIDE DEF x
  <2>2. y(row) \in SubRows
    BY <1>0, <2>1 DEF SubRows
  <2>3. n(row) \in Nat
    BY <1>0, NextResetType DEF SubRows
  <2> HIDE DEF y, n
  <2> QED  BY <1>0, <2>2, <2>3 DEF SubRows
<1>2. sub' = [s \in SubIds |-> IF s \in S THEN cleared(sub[s]) ELSE sub[s]]
  BY DEF AdminResetUserSubscriptionsByPlan
<1> HIDE DEF cleared, S
<1>3. sub' \in [SubIds -> SubRows]
  BY <1>1, <1>2 DEF TypeOK
<1>4. win' \in [WinIds -> WinRows]
  BY <1>0, CloseAllType DEF AdminResetUserSubscriptionsByPlan, TypeOK
<1>5. UNCHANGED <<now, rec, subSeq, winSeq>>
  BY DEF AdminResetUserSubscriptionsByPlan
<1> QED  BY <1>3, <1>4, <1>5 DEF TypeOK

\* ChangeAdminUserSubscription: the balances.
LEMMA AdminBalanceType ==
    ASSUME TypeOK, NEW s \in SubIds, NEW remP \in {-1} \cup Balances,
           NEW remF \in {-1} \cup Balances, ChangeAdminBalance(s, remP, remF)
    PROVE  TypeOK'
<1> DEFINE doP  == remP >= 0
           doF  == remF >= 0
           row  == MaybeReset(sub[s], now)
           plan == row.plan
           newP == doP /\ row.curP = 0
           newF == doF /\ ~FiveHourLive(row) /\ remF < plan.fiveHour
           p    == IF newP THEN winSeq + 1 ELSE row.curP
           last == winSeq + (IF newP THEN 1 ELSE 0) + (IF newF THEN 1 ELSE 0)
           f    == IF newF THEN last ELSE row.curF
           setF == doF /\ (newF \/ FiveHourLive(row))
           retired == (IF ResetFires(sub[s], now) THEN {sub[s].curP} ELSE {}) \cup
                      (IF newF THEN {row.curF} ELSE {})
           put(w, u) == [w EXCEPT !.used = u, !.updated = now, !.manual = TRUE]
           uP   == plan.total - remP
           uF   == plan.fiveHour - remF
           u    == IF doP THEN uP ELSE row.used
           new  == [row EXCEPT !.used = u, !.curP = p, !.curF = f]
<1>0. /\ now \in Nat /\ winSeq \in Nat /\ MaxWindow \in Nat /\ remP \in Int /\ remF \in Int
      /\ 0 \in 0 .. MaxWindow
  BY BoundsAssumption, PlansAssumption DEF TypeOK, Quotas
<1>1. row \in SubRows
  BY <1>0, MaybeResetType DEF TypeOK
<1>2. /\ row.curP \in 0 .. MaxWindow /\ row.curF \in 0 .. MaxWindow /\ row.used \in Nat
      /\ plan.total \in Nat /\ plan.fiveHour \in Nat
  BY <1>1 DEF SubRows, PlanRows
<1>3. /\ last <= MaxWindow /\ winSeq' = last /\ sub' = [sub EXCEPT ![s] = new]
      /\ doP => remP <= plan.total
      /\ doF => remF <= plan.fiveHour
      /\ UNCHANGED <<now, rec, subSeq>>
  BY DEF ChangeAdminBalance
<1>4. win' = [w \in WinIds |->
                IF doP /\ w = p
                THEN put(IF newP THEN PeriodWindow(s, row) ELSE win[p], uP)
                ELSE IF setF /\ w = f
                THEN put(IF newF THEN FiveHourWindow(s, row) ELSE win[f], uF)
                ELSE IF w \in retired THEN Closed(win[w], now) ELSE win[w]]
  BY DEF ChangeAdminBalance
<1> HIDE DEF row
<1>5. (doP => uP \in Nat) /\ (doF => uF \in Nat)
  BY <1>0, <1>2, <1>3
<1>6. u \in Nat
  BY <1>2, <1>5
<1>7. last \in 0 .. MaxWindow /\ p \in 0 .. MaxWindow /\ f \in 0 .. MaxWindow
  <2> HIDE DEF newP, newF
  <2> QED  BY <1>0, <1>2, <1>3
<1>8. \A w \in WinRows, k \in Nat : put(w, k) \in WinRows
  BY <1>0 DEF WinRows
<1>9. PeriodWindow(s, row) \in WinRows /\ FiveHourWindow(s, row) \in WinRows
  BY <1>0, <1>1, OpenedWindowTypes
<1>10. \A w \in WinIds : win[w] \in WinRows /\ Closed(win[w], now) \in WinRows
  BY <1>0, ClosedType DEF TypeOK
<1>11. setF => doF
  OBVIOUS
<1> HIDE DEF put, uP, uF, p, f, newP, newF, setF, doP, doF, retired, u, last
<1>12. win' \in [WinIds -> WinRows]
  <2> SUFFICES ASSUME NEW w \in WinIds
               PROVE  win'[w] \in WinRows
    BY <1>4
  <2>1. CASE doP /\ w = p
    BY <1>4, <1>5, <1>8, <1>9, <1>10, <2>1
  <2>2. CASE ~(doP /\ w = p) /\ setF /\ w = f
    BY <1>4, <1>5, <1>8, <1>9, <1>10, <1>11, <2>2
  <2>3. CASE ~(doP /\ w = p) /\ ~(setF /\ w = f)
    BY <1>4, <1>10, <2>3
  <2> QED  BY <2>1, <2>2, <2>3
<1>13. new \in SubRows
  BY <1>1, <1>6, <1>7 DEF SubRows
<1>14. sub' \in [SubIds -> SubRows]
  <2> HIDE DEF new
  <2> QED  BY <1>3, <1>13 DEF TypeOK
<1> QED  BY <1>3, <1>7, <1>12, <1>14 DEF TypeOK

-----------------------------------------------------------------------------
(* Type correctness.                                                        *)

\* The program starts from well-formed tables.
LEMMA InitType ==
    ASSUME Init
    PROVE  TypeOK
<1>1. 0 \in 0 .. MaxWindow /\ 0 \in 0 .. MaxSub /\ 0 \in Quotas
  BY BoundsAssumption DEF Quotas
<1>2. NoPlan \in PlanRows
  BY DEF NoPlan, PlanRows
<1>3. NoSub \in SubRows
  BY <1>1, <1>2 DEF NoSub, SubRows
<1>4. NoWin \in WinRows /\ NoRec \in RecRows
  BY <1>1 DEF NoWin, WinRows, NoRec, RecRows
<1>5. \A n \in 1 .. Len(Legacy) : Legacy[n] \in SubRows
  BY LegacyAssumption
<1>6. Len(Legacy) \in 0 .. MaxSub
  BY LegacyAssumption, BoundsAssumption
<1>7. sub \in [SubIds -> SubRows]
  BY <1>3, <1>5, <1>6, BoundsAssumption DEF Init, SubIds
<1>8. win \in [WinIds -> WinRows] /\ rec \in [Requests -> RecRows]
  BY <1>4 DEF Init
<1>9. \A r \in Requests : rec[r].status = "none"
  BY DEF Init, NoRec
<1>10. now \in 1 .. MaxTime
  BY BoundsAssumption DEF Init
<1> QED  BY <1>1, <1>6, <1>7, <1>8, <1>9, <1>10 DEF Init, TypeOK

\* No step of any actor leaves an ill-formed row behind.
LEMMA NextType ==
    ASSUME TypeOK, [Next]_vars
    PROVE  TypeOK'
<1>0. 1 .. MaxVersion \subseteq Nat /\ 0 \in Quotas /\ \A r \in Requests : rec[r].final \in Quotas
  BY BoundsAssumption DEF TypeOK, RecRows, Quotas
<1>1. CASE RequestStep
  <2>1. ASSUME NEW s \in SubIds, NEW d \in Deltas, PostConsumeUserSubscriptionDelta(s, d)
        PROVE  TypeOK'
    BY <2>1, PostDeltaType, PlansAssumption
  <2>2. ASSUME NEW r \in Requests, NEW a \in Quotas \ {0}, PreConsumeUserSubscription(r, a)
        PROVE  TypeOK'
    BY <2>2, PreConsumeType
  <2>3. ASSUME NEW r \in Requests, NEW v \in 1 .. MaxVersion, NEW f \in Quotas,
               NEW st \in {"reserved", "settled"}, SetSubscriptionUsageFinal(r, v, f, st)
        PROVE  TypeOK'
    BY <1>0, <2>3, SetFinalType
  <2>4. ASSUME NEW r \in Requests, NEW v \in 1 .. MaxVersion, RefundSubscriptionUsage(r, v)
        PROVE  TypeOK'
    BY <1>0, <2>4, SetFinalType DEF RefundSubscriptionUsage
  <2>5. ASSUME NEW r \in Requests, NEW v \in 1 .. MaxVersion, NEW q \in Quotas,
               QueueSubscriptionSettlement(r, v, q, rec[r].final)
        PROVE  TypeOK'
    BY <1>0, <2>5, QueueType
  <2>6. ASSUME NEW r \in Requests, NEW k \in BOOLEAN, CompleteSubscriptionSettlement(r, k)
        PROVE  TypeOK'
    BY <2>6, CompleteType
  <2> QED  BY <1>1, <2>1, <2>2, <2>3, <2>4, <2>5, <2>6 DEF RequestStep
<1>2. CASE MaintenanceStep
  BY <1>2, ExpireType, ResetDueType, ResetFiveHourType, CleanupType DEF MaintenanceStep
<1>3. CASE PurchaseStep
  BY <1>3, Created, CreateType
<1>4. CASE AdminStep
  BY <1>4, AdminEndType, AdminResetType, AdminBalanceType DEF AdminStep
<1>5. CASE Tick
  BY <1>5, BoundsAssumption DEF Tick, TypeOK
<1>6. CASE UNCHANGED vars
  BY <1>6 DEF vars, TypeOK
<1> QED  BY <1>1, <1>2, <1>3, <1>4, <1>5, <1>6 DEF Next

\* Every behaviour of the ledger keeps its rows well formed, for every set of
\* requests and plans and every bound.
THEOREM TypeCorrect == Spec => []TypeOK
<1>1. Init => TypeOK
  BY InitType
<1>2. TypeOK /\ [Next]_vars => TypeOK'
  BY NextType
<1> QED  BY <1>1, <1>2, PTL DEF Spec

-----------------------------------------------------------------------------
(* The promise to the request.                                              *)

\* An id that was never admitted has no history.
Untouched == \A r \in Requests : rec[r].status = "none" => rec[r] = NoRec

\* The inductive invariant.
Inv == TypeOK /\ QueuedIsReserved /\ Untouched

\* Steps that leave the records alone keep the invariant.
LEMMA SameRecords ==
    ASSUME Inv, TypeOK', UNCHANGED rec
    PROVE  Inv'
BY DEF Inv, QueuedIsReserved, Untouched

\* A step that writes one record keeps the invariant if the row it writes is
\* admitted, and reserved when it is pending.
LEMMA OneRecord ==
    ASSUME Inv, TypeOK', NEW r \in Requests, rec' = [rec EXCEPT ![r] = rec'[r]],
           rec'[r].status # "none", rec'[r].pending => rec'[r].status = "reserved"
    PROVE  Inv'
<1>1. \A y \in Requests : y # r => rec'[y] = rec[y]
  BY DEF Inv, TypeOK
<1> QED  BY <1>1 DEF Inv, QueuedIsReserved, Untouched

\* Which records each step writes.
LEMMA RecordsOf ==
    ASSUME [Next]_vars
    PROVE  \/ UNCHANGED rec
           \/ \E r \in Requests, a \in Quotas \ {0} : PreConsumeUserSubscription(r, a)
           \/ \E r \in Requests, v \in 1 .. MaxVersion, f \in Quotas, st \in {"reserved", "settled"} :
                 SetSubscriptionUsageFinal(r, v, f, st)
           \/ \E r \in Requests, v \in 1 .. MaxVersion : RefundSubscriptionUsage(r, v)
           \/ \E r \in Requests, v \in 1 .. MaxVersion, q \in Quotas :
                 QueueSubscriptionSettlement(r, v, q, rec[r].final)
           \/ \E r \in Requests, k \in BOOLEAN : CompleteSubscriptionSettlement(r, k)
           \/ CleanupSubscriptionPreConsumeRecords
<1>1. CASE RequestStep
  BY <1>1 DEF RequestStep, PostConsumeUserSubscriptionDelta
<1>2. CASE MaintenanceStep
  BY <1>2 DEF MaintenanceStep, ExpireDueSubscriptions, ResetDueSubscriptions,
              ResetDueFiveHourSubscriptionWindows, CleanupSubscriptionQuotaWindows
<1>3. CASE PurchaseStep
  BY <1>3 DEF PurchaseStep, AdminBindSubscription, CreateUserSubscriptionFromPlanTx
<1>4. CASE AdminStep
  <2>1. ASSUME NEW s \in SubIds, AdminInvalidateUserSubscription(s)
        PROVE  UNCHANGED rec
    BY <2>1 DEF AdminInvalidateUserSubscription
  <2>2. ASSUME NEW s \in SubIds, AdminDeleteUserSubscription(s)
        PROVE  UNCHANGED rec
    BY <2>2 DEF AdminDeleteUserSubscription
  <2>3. ASSUME NEW s \in SubIds, NEW remP, NEW remF, ChangeAdminBalance(s, remP, remF)
        PROVE  UNCHANGED rec
    BY <2>3 DEF ChangeAdminBalance
  <2>4. ASSUME NEW plan \in Plans, NEW advance, NEW period, NEW fiveHour,
               AdminResetUserSubscriptionsByPlan(plan, advance, period, fiveHour)
        PROVE  UNCHANGED rec
    BY <2>4 DEF AdminResetUserSubscriptionsByPlan
  <2>5. CASE ChangeAdminFree
    BY <2>5 DEF ChangeAdminFree
  <2> QED  BY <1>4, <2>1, <2>2, <2>3, <2>4, <2>5 DEF AdminStep
<1>5. CASE Tick
  BY <1>5 DEF Tick
<1>6. CASE UNCHANGED vars
  BY <1>6 DEF vars
<1> QED  BY <1>1, <1>2, <1>3, <1>4, <1>5, <1>6 DEF Next

\* The row written by each of them, and what the row was before.
LEMMA Admitted ==
    ASSUME Inv, NEW r \in Requests, NEW a \in Quotas \ {0}, PreConsumeUserSubscription(r, a)
    PROVE  /\ rec[r] = NoRec /\ rec' = [rec EXCEPT ![r] = rec'[r]]
           /\ rec'[r].status = "reserved" /\ rec'[r].final = a /\ rec'[r].version = 1
           /\ ~rec'[r].pending /\ rec'[r].quota = 0 /\ rec'[r].tokenPre = 0
           /\ rec'[r].tokenNet = 0
<1>1. rec[r] = NoRec
  BY DEF PreConsumeUserSubscription, Inv, Untouched
<1>2. PICK s, past : Admit(r, a, s, past)
  BY DEF PreConsumeUserSubscription
<1>3. PICK p, f : rec' = [rec EXCEPT ![r] =
                [NoRec EXCEPT !.status = "reserved", !.sub = s, !.period = p, !.five = f,
                              !.pre = a, !.final = a, !.version = 1, !.updated = now]]
  BY <1>2 DEF Admit
<1> DEFINE x == [NoRec EXCEPT !.status = "reserved", !.sub = s, !.period = p, !.five = f,
                              !.pre = a, !.final = a, !.version = 1, !.updated = now]
<1>4. /\ x.status = "reserved" /\ x.final = a /\ x.version = 1
      /\ ~x.pending /\ x.quota = 0 /\ x.tokenPre = 0 /\ x.tokenNet = 0
  BY DEF NoRec
<1>5. rec' = [rec EXCEPT ![r] = x]
  BY <1>3
<1> HIDE DEF x
<1>6. rec'[r] = x
  BY <1>5 DEF Inv, TypeOK
<1> QED  BY <1>1, <1>4, <1>5, <1>6

\* SetSubscriptionUsageFinal.
LEMMA Changed ==
    ASSUME Inv, NEW r \in Requests, NEW v, NEW f, NEW st, SetSubscriptionUsageFinal(r, v, f, st)
    PROVE  /\ rec' = [rec EXCEPT ![r] = rec'[r]]
           /\ rec'[r].status = st /\ rec'[r].final = f /\ rec'[r].version = v + 1
           /\ ~rec'[r].pending /\ rec'[r].quota = rec[r].quota
           /\ rec'[r].tokenPre = rec[r].tokenPre /\ rec'[r].tokenNet = rec[r].tokenNet
<1> DEFINE x == Adjusted(r, f, st)
<1>1. rec' = [rec EXCEPT ![r] = x] /\ ~rec[r].pending /\ rec[r].version = v
  BY DEF SetSubscriptionUsageFinal, Changeable
<1>2. rec[r] \in RecRows
  BY DEF Inv, TypeOK
<1>3. /\ x.status = st /\ x.final = f /\ x.version = v + 1 /\ x.pending = rec[r].pending
      /\ x.quota = rec[r].quota /\ x.tokenPre = rec[r].tokenPre /\ x.tokenNet = rec[r].tokenNet
  BY <1>1, <1>2 DEF Adjusted, RecRows
<1> HIDE DEF x
<1>4. rec'[r] = x
  BY <1>1 DEF Inv, TypeOK
<1> QED  BY <1>1, <1>3, <1>4

\* QueueSubscriptionSettlement.
LEMMA QueuedRow ==
    ASSUME Inv, NEW r \in Requests, NEW v, NEW q, NEW p, QueueSubscriptionSettlement(r, v, q, p)
    PROVE  /\ rec' = [rec EXCEPT ![r] = rec'[r]]
           /\ rec'[r].status = "reserved" /\ rec'[r].final = rec[r].final
           /\ rec'[r].version = rec[r].version /\ rec'[r].pending /\ rec'[r].quota = q
           /\ rec'[r].tokenPre = p /\ rec'[r].tokenNet = rec[r].tokenNet
<1> DEFINE x == [rec[r] EXCEPT !.pending = TRUE, !.quota = q, !.tokenPre = p, !.updated = now]
<1>1. rec' = [rec EXCEPT ![r] = x]
  BY DEF QueueSubscriptionSettlement
<1>2. rec[r] \in RecRows /\ rec[r].status = "reserved"
  BY DEF Inv, TypeOK, QueueSubscriptionSettlement
<1>3. /\ x.status = "reserved" /\ x.final = rec[r].final
      /\ x.version = rec[r].version /\ x.pending /\ x.quota = q
      /\ x.tokenPre = p /\ x.tokenNet = rec[r].tokenNet
  BY <1>2 DEF RecRows
<1> HIDE DEF x
<1>4. rec'[r] = x
  BY <1>1 DEF Inv, TypeOK
<1> QED  BY <1>1, <1>3, <1>4

\* CompleteSubscriptionSettlement.
LEMMA CompletedRow ==
    ASSUME Inv, NEW r \in Requests, NEW k \in BOOLEAN, CompleteSubscriptionSettlement(r, k)
    PROVE  /\ rec' = [rec EXCEPT ![r] = rec'[r]]
           /\ rec'[r].status = "settled" /\ rec'[r].final = rec[r].quota
           /\ rec'[r].version = rec[r].version + 1 /\ ~rec'[r].pending
           /\ rec'[r].quota = rec[r].quota /\ rec'[r].tokenPre = rec[r].tokenPre
           /\ rec'[r].tokenNet = IF k THEN rec[r].quota - rec[r].tokenPre ELSE 0
<1> DEFINE q   == rec[r].quota
           net == IF k THEN q - rec[r].tokenPre ELSE 0
           x   == [Adjusted(r, q, "settled") EXCEPT !.pending = FALSE, !.tokenNet = net]
<1>1. rec' = [rec EXCEPT ![r] = x]
  BY DEF CompleteSubscriptionSettlement
<1>2. rec[r] \in RecRows
  BY DEF Inv, TypeOK
<1> HIDE DEF net
<1>3. /\ x.status = "settled" /\ x.final = q /\ x.version = rec[r].version + 1
      /\ ~x.pending /\ x.quota = q /\ x.tokenPre = rec[r].tokenPre /\ x.tokenNet = net
  BY <1>2 DEF Adjusted, RecRows
<1> HIDE DEF x
<1>4. rec'[r] = x
  BY <1>1 DEF Inv, TypeOK
<1> QED  BY <1>1, <1>3, <1>4 DEF net

\* Every step keeps the invariant.
LEMMA NextInv ==
    ASSUME Inv, [Next]_vars
    PROVE  Inv'
<1>0. TypeOK'
  BY NextType DEF Inv
<1>1. CASE UNCHANGED rec
  BY <1>0, <1>1, SameRecords
<1>2. ASSUME NEW r \in Requests, NEW a \in Quotas \ {0}, PreConsumeUserSubscription(r, a)
      PROVE  Inv'
  BY <1>0, <1>2, Admitted, OneRecord
<1>3. ASSUME NEW r \in Requests, NEW v, NEW f, NEW st \in {"reserved", "settled", "refunded"},
             SetSubscriptionUsageFinal(r, v, f, st)
      PROVE  Inv'
  BY <1>0, <1>3, Changed, OneRecord
<1>4. ASSUME NEW r \in Requests, NEW v, NEW q, NEW p, QueueSubscriptionSettlement(r, v, q, p)
      PROVE  Inv'
  BY <1>0, <1>4, QueuedRow, OneRecord
<1>5. ASSUME NEW r \in Requests, NEW k \in BOOLEAN, CompleteSubscriptionSettlement(r, k)
      PROVE  Inv'
  BY <1>0, <1>5, CompletedRow, OneRecord
<1>6. CASE CleanupSubscriptionPreConsumeRecords
  <2>1. \A y \in Requests : \/ rec'[y] = rec[y]
                            \/ ~rec[y].pending /\ rec'[y] = [rec[y] EXCEPT !.status = "forgotten"]
    BY <1>6 DEF CleanupSubscriptionPreConsumeRecords
  <2>2. \A y \in Requests : LET x == [rec[y] EXCEPT !.status = "forgotten"] IN
                            x.status # "none" /\ x.pending = rec[y].pending
    BY DEF Inv, TypeOK, RecRows
  <2> QED  BY <1>0, <2>1, <2>2 DEF Inv, QueuedIsReserved, Untouched
<1> QED  BY <1>1, <1>2, <1>3, <1>4, <1>5, <1>6, RecordsOf DEF RefundSubscriptionUsage

\* The invariant holds initially.
LEMMA InitInv ==
    ASSUME Init
    PROVE  Inv
<1>1. \A r \in Requests : rec[r] = NoRec /\ NoRec.status = "none" /\ NoRec.pending = FALSE
  BY DEF Init, NoRec
<1> QED  BY <1>1, InitType DEF Inv, QueuedIsReserved, Untouched

\* A queued settlement belongs to a reserved record in every reachable state:
\* nothing refunds or settles it behind the reconciler's back.
THEOREM QueuedStaysReserved == Spec => []QueuedIsReserved
<1>1. Init => Inv
  BY InitInv
<1>2. Inv /\ [Next]_vars => Inv'
  BY NextInv
<1>3. Inv => QueuedIsReserved
  BY DEF Inv
<1> QED  BY <1>1, <1>2, <1>3, PTL DEF Spec

-----------------------------------------------------------------------------
(* Refinement of UsageCharge.                                               *)

\* Writing one record changes one charge.
LEMMA OneCharge ==
    ASSUME Inv, NEW r \in Requests, rec' = [rec EXCEPT ![r] = rec'[r]]
    PROVE  /\ Charges' = [Charges EXCEPT ![r] = ChargeOf(rec'[r])]
           /\ Charges[r] = ChargeOf(rec[r])
           /\ Charges \in [Requests -> [phase : Charge!Phases, amount : Quotas, target : Quotas,
                                        tokenPre : Quotas, tokenNet : Int, version : Nat]]
<1>1. \A y \in Requests : y # r => rec'[y] = rec[y]
  BY DEF Inv, TypeOK
<1>2. Charges' = [y \in Requests |-> IF y = r THEN ChargeOf(rec'[r]) ELSE ChargeOf(rec[y])]
  BY <1>1 DEF Charges
<1>3. \A y \in RecRows : ChargeOf(y) \in [phase : Charge!Phases, amount : Quotas, target : Quotas,
                                          tokenPre : Quotas, tokenNet : Int, version : Nat]
  BY DEF ChargeOf, RecRows, Charge!Phases
<1> QED  BY <1>2, <1>3 DEF Charges, Inv, TypeOK

\* Admission is UsageCharge's Reserve.
LEMMA ReserveStep ==
    ASSUME Inv, NEW r \in Requests, NEW a \in Quotas \ {0}, PreConsumeUserSubscription(r, a)
    PROVE  Charge!Reserve(r, a)
<1>1. /\ rec[r] = NoRec /\ rec' = [rec EXCEPT ![r] = rec'[r]]
      /\ rec'[r].status = "reserved" /\ rec'[r].final = a /\ rec'[r].version = 1
      /\ ~rec'[r].pending /\ rec'[r].quota = 0 /\ rec'[r].tokenPre = 0
      /\ rec'[r].tokenNet = 0
  BY Admitted
<1>2. Charges' = [Charges EXCEPT ![r] = ChargeOf(rec'[r])] /\ Charges[r] = ChargeOf(NoRec)
  BY <1>1, OneCharge
<1>3. ChargeOf(rec'[r]) = [phase |-> "reserved", amount |-> a, target |-> 0, tokenPre |-> 0,
                           tokenNet |-> 0, version |-> 1]
  BY <1>1 DEF ChargeOf
<1>4. ChargeOf(NoRec) = [phase |-> "none", amount |-> 0, target |-> 0, tokenPre |-> 0,
                         tokenNet |-> 0, version |-> 0]
  BY DEF ChargeOf, NoRec
<1>5. ChargeOf(rec'[r]) = [Charges[r] EXCEPT !.phase = "reserved", !.amount = a, !.version = 1]
  <2>1. [[phase |-> "none", amount |-> 0, target |-> 0, tokenPre |-> 0, tokenNet |-> 0,
          version |-> 0] EXCEPT !.phase = "reserved", !.amount = a, !.version = 1]
        = [phase |-> "reserved", amount |-> a, target |-> 0, tokenPre |-> 0, tokenNet |-> 0,
           version |-> 1]
    <3> DEFINE c1 == [[phase |-> "none", amount |-> 0, target |-> 0, tokenPre |-> 0, tokenNet |-> 0, version |-> 0] EXCEPT !.phase = "reserved"]
               c2 == [c1 EXCEPT !.amount = a]
    <3>1. c1 = [phase |-> "reserved", amount |-> 0, target |-> 0,
               tokenPre |-> 0, tokenNet |-> 0, version |-> 0]
      OBVIOUS
    <3> HIDE DEF c1
    <3>2. c2 = [phase |-> "reserved", amount |-> a, target |-> 0,
               tokenPre |-> 0, tokenNet |-> 0, version |-> 0]
      BY <3>1
    <3> HIDE DEF c2
    <3>3. [c2 EXCEPT !.version = 1] = [phase |-> "reserved", amount |-> a, target |-> 0,
                                       tokenPre |-> 0, tokenNet |-> 0, version |-> 1]
      BY <3>2
    <3>4. [[phase |-> "none", amount |-> 0, target |-> 0, tokenPre |-> 0, tokenNet |-> 0, version |-> 0] EXCEPT !.phase = "reserved", !.amount = a, !.version = 1]
          = [c2 EXCEPT !.version = 1]
      BY DEF c1, c2
    <3> QED  BY <3>3, <3>4
  <2> QED  BY <1>2, <1>3, <1>4, <2>1
<1>6. Charges[r].phase = "none"
  BY <1>2, <1>4
<1> QED  BY <1>2, <1>5, <1>6 DEF Charge!Reserve

\* A change through the record is a Change of UsageCharge.
LEMMA ChangeStep ==
    ASSUME Inv, NEW r \in Requests, NEW v, NEW f, NEW st \in {"reserved", "settled", "refunded"},
           SetSubscriptionUsageFinal(r, v, f, st)
    PROVE  /\ Charge!Change(r, v, st, f) /\ Charges[r].version = v
           /\ Charges[r].phase \in {"reserved", "settled"}
           /\ st = "reserved" => Charges[r].phase = "reserved"
<1>1. /\ rec' = [rec EXCEPT ![r] = rec'[r]]
      /\ rec'[r].status = st /\ rec'[r].final = f /\ rec'[r].version = v + 1
      /\ ~rec'[r].pending /\ rec'[r].quota = rec[r].quota
      /\ rec'[r].tokenPre = rec[r].tokenPre /\ rec'[r].tokenNet = rec[r].tokenNet
  BY Changed
<1>2. /\ Charges' = [Charges EXCEPT ![r] = ChargeOf(rec'[r])] /\ Charges[r] = ChargeOf(rec[r])
  BY <1>1, OneCharge
<1>3. /\ ~rec[r].pending /\ rec[r].version = v /\ rec[r].status \in {"reserved", "settled"}
      /\ st = "reserved" => rec[r].status = "reserved"
  BY DEF SetSubscriptionUsageFinal, Changeable, Live
<1> DEFINE now0 == [phase |-> rec[r].status, amount |-> rec[r].final, target |-> rec[r].quota,
                    tokenPre |-> rec[r].tokenPre, tokenNet |-> rec[r].tokenNet, version |-> v]
           then == [phase |-> st, amount |-> f, target |-> rec[r].quota,
                    tokenPre |-> rec[r].tokenPre, tokenNet |-> rec[r].tokenNet,
                    version |-> v + 1]
<1>4. ChargeOf(rec[r]) = now0
  BY <1>3 DEF ChargeOf
<1>5. ChargeOf(rec'[r]) = then
  BY <1>1 DEF ChargeOf
<1>6. then = [now0 EXCEPT !.phase = st, !.amount = f, !.version = v + 1]
  <2> DEFINE c1 == [now0 EXCEPT !.phase = st]
             c2 == [c1 EXCEPT !.amount = f]
  <2>1. c1 = [phase |-> st, amount |-> rec[r].final, target |-> rec[r].quota,
             tokenPre |-> rec[r].tokenPre, tokenNet |-> rec[r].tokenNet, version |-> v]
    OBVIOUS
  <2> HIDE DEF c1
  <2>2. c2 = [phase |-> st, amount |-> f, target |-> rec[r].quota,
             tokenPre |-> rec[r].tokenPre, tokenNet |-> rec[r].tokenNet, version |-> v]
    BY <2>1
  <2> HIDE DEF c2
  <2>3. [c2 EXCEPT !.version = v + 1] = [phase |-> st, amount |-> f, target |-> rec[r].quota,
                                         tokenPre |-> rec[r].tokenPre, tokenNet |-> rec[r].tokenNet, version |-> v + 1]
    BY <2>2
  <2>4. [now0 EXCEPT !.phase = st, !.amount = f, !.version = v + 1]
        = [c2 EXCEPT !.version = v + 1]
    BY DEF c1, c2
  <2> QED  BY <2>3, <2>4
<1>7. now0.phase = rec[r].status /\ now0.version = v
  OBVIOUS
<1> HIDE DEF now0, then
<1>8. Charge!Change(r, v, st, f)
  BY <1>2, <1>4, <1>5, <1>6, <1>7 DEF Charge!Change
<1> QED  BY <1>2, <1>3, <1>4, <1>7, <1>8

\* Queueing is UsageCharge's Queue.
LEMMA QueueStep ==
    ASSUME Inv, NEW r \in Requests, NEW v, NEW q \in Quotas, NEW p \in Quotas,
           QueueSubscriptionSettlement(r, v, q, p)
    PROVE  Charge!Queue(r, v, q, p) /\ Charges[r].version = v
<1>1. /\ rec' = [rec EXCEPT ![r] = rec'[r]]
      /\ rec'[r].status = "reserved" /\ rec'[r].final = rec[r].final
      /\ rec'[r].version = rec[r].version /\ rec'[r].pending /\ rec'[r].quota = q
      /\ rec'[r].tokenPre = p /\ rec'[r].tokenNet = rec[r].tokenNet
  BY QueuedRow
<1>2. /\ Charges' = [Charges EXCEPT ![r] = ChargeOf(rec'[r])] /\ Charges[r] = ChargeOf(rec[r])
  BY <1>1, OneCharge
<1>3. ~rec[r].pending /\ rec[r].version = v /\ rec[r].status = "reserved"
  BY DEF QueueSubscriptionSettlement
<1> DEFINE now0 == [phase |-> "reserved", amount |-> rec[r].final, target |-> rec[r].quota,
                    tokenPre |-> rec[r].tokenPre, tokenNet |-> rec[r].tokenNet, version |-> v]
           then == [phase |-> "queued", amount |-> rec[r].final, target |-> q, tokenPre |-> p,
                    tokenNet |-> rec[r].tokenNet, version |-> v]
<1>4. ChargeOf(rec[r]) = now0
  BY <1>3 DEF ChargeOf
<1>5. ChargeOf(rec'[r]) = then
  BY <1>1, <1>3 DEF ChargeOf
<1>6. then = [now0 EXCEPT !.phase = "queued", !.target = q, !.tokenPre = p]
  <2> DEFINE c1 == [now0 EXCEPT !.phase = "queued"]
             c2 == [c1 EXCEPT !.target = q]
  <2>1. c1 = [phase |-> "queued", amount |-> rec[r].final, target |-> rec[r].quota,
             tokenPre |-> rec[r].tokenPre, tokenNet |-> rec[r].tokenNet, version |-> v]
    OBVIOUS
  <2> HIDE DEF c1
  <2>2. c2 = [phase |-> "queued", amount |-> rec[r].final, target |-> q,
             tokenPre |-> rec[r].tokenPre, tokenNet |-> rec[r].tokenNet, version |-> v]
    BY <2>1
  <2> HIDE DEF c2
  <2>3. [c2 EXCEPT !.tokenPre = p] = [phase |-> "queued", amount |-> rec[r].final, target |-> q,
                                      tokenPre |-> p, tokenNet |-> rec[r].tokenNet, version |-> v]
    BY <2>2
  <2>4. [now0 EXCEPT !.phase = "queued", !.target = q, !.tokenPre = p]
        = [c2 EXCEPT !.tokenPre = p]
    BY DEF c1, c2
  <2> QED  BY <2>3, <2>4
<1>7. now0.phase = "reserved" /\ now0.version = v
  OBVIOUS
<1> HIDE DEF now0, then
<1> QED  BY <1>2, <1>4, <1>5, <1>6, <1>7 DEF Charge!Queue

\* Completion is UsageCharge's Apply.
LEMMA ApplyStep ==
    ASSUME Inv, NEW r \in Requests, NEW k \in BOOLEAN, CompleteSubscriptionSettlement(r, k)
    PROVE  Charge!Apply(r, k)
<1> DEFINE q   == rec[r].quota
           v   == rec[r].version
           net == IF k THEN q - rec[r].tokenPre ELSE 0
           now0 == [phase |-> "queued", amount |-> rec[r].final, target |-> q,
                    tokenPre |-> rec[r].tokenPre, tokenNet |-> rec[r].tokenNet, version |-> v]
           then == [phase |-> "settled", amount |-> q, target |-> q,
                    tokenPre |-> rec[r].tokenPre, tokenNet |-> net, version |-> v + 1]
<1>1. /\ rec' = [rec EXCEPT ![r] = rec'[r]]
      /\ rec'[r].status = "settled" /\ rec'[r].final = q /\ rec'[r].version = v + 1
      /\ ~rec'[r].pending /\ rec'[r].quota = q /\ rec'[r].tokenPre = rec[r].tokenPre
      /\ rec'[r].tokenNet = net
  BY CompletedRow
<1>2. /\ Charges' = [Charges EXCEPT ![r] = ChargeOf(rec'[r])] /\ Charges[r] = ChargeOf(rec[r])
  BY <1>1, OneCharge
<1>3. rec[r].pending
  BY DEF CompleteSubscriptionSettlement
<1> HIDE DEF net
<1>4. ChargeOf(rec[r]) = now0
  BY <1>3 DEF ChargeOf
<1>5. ChargeOf(rec'[r]) = then
  BY <1>1 DEF ChargeOf
<1>6. then = [now0 EXCEPT !.phase = "settled", !.amount = q, !.version = v + 1, !.tokenNet = net]
  <2> DEFINE c1 == [now0 EXCEPT !.phase = "settled"]
             c2 == [c1 EXCEPT !.amount = q]
             c3 == [c2 EXCEPT !.version = v + 1]
  <2>1. c1 = [phase |-> "settled", amount |-> rec[r].final, target |-> q,
             tokenPre |-> rec[r].tokenPre, tokenNet |-> rec[r].tokenNet, version |-> v]
    OBVIOUS
  <2> HIDE DEF c1
  <2>2. c2 = [phase |-> "settled", amount |-> q, target |-> q,
             tokenPre |-> rec[r].tokenPre, tokenNet |-> rec[r].tokenNet, version |-> v]
    BY <2>1
  <2> HIDE DEF c2
  <2>3. c3 = [phase |-> "settled", amount |-> q, target |-> q,
             tokenPre |-> rec[r].tokenPre, tokenNet |-> rec[r].tokenNet, version |-> v + 1]
    BY <2>2
  <2> HIDE DEF c3
  <2>4. [c3 EXCEPT !.tokenNet = net] = [phase |-> "settled", amount |-> q, target |-> q,
                                        tokenPre |-> rec[r].tokenPre, tokenNet |-> net, version |-> v + 1]
    BY <2>3
  <2>5. [now0 EXCEPT !.phase = "settled", !.amount = q, !.version = v + 1, !.tokenNet = net]
        = [c3 EXCEPT !.tokenNet = net]
    BY DEF c1, c2, c3
  <2> QED  BY <2>4, <2>5
<1>7. /\ now0.phase = "queued" /\ now0.version = v /\ now0.target = q
      /\ now0.tokenPre = rec[r].tokenPre
  OBVIOUS
<1>8. net = IF k THEN now0.target - now0.tokenPre ELSE 0
  BY <1>7 DEF net
<1> HIDE DEF now0, then
<1> QED  BY <1>2, <1>4, <1>5, <1>6, <1>7, <1>8, ZenonT(30) DEF Charge!Apply

\* Retention is UsageCharge's ForgetMany.
LEMMA ForgetStep ==
    ASSUME Inv, CleanupSubscriptionPreConsumeRecords
    PROVE  Charge!ForgetMany
<1> DEFINE S == {r \in Requests : /\ rec[r].status \in {"settled", "refunded"} /\ ~rec[r].pending
                                  /\ rec[r].updated < now - Retention}
<1>1. rec' = [r \in Requests |-> IF r \in S THEN [rec[r] EXCEPT !.status = "forgotten"] ELSE rec[r]]
  BY DEF CleanupSubscriptionPreConsumeRecords
<1>2. ASSUME NEW r \in S
      PROVE  /\ Charges[r].phase \in {"settled", "refunded"}
             /\ Charges'[r] = [Charges[r] EXCEPT !.phase = "forgotten"]
  <2> DEFINE x == [rec[r] EXCEPT !.status = "forgotten"]
             now0 == [phase |-> rec[r].status, amount |-> rec[r].final, target |-> rec[r].quota,
                      tokenPre |-> rec[r].tokenPre, tokenNet |-> rec[r].tokenNet,
                      version |-> rec[r].version]
             then == [phase |-> "forgotten", amount |-> rec[r].final, target |-> rec[r].quota,
                      tokenPre |-> rec[r].tokenPre, tokenNet |-> rec[r].tokenNet,
                      version |-> rec[r].version]
  <2>1. r \in Requests /\ rec[r] \in RecRows /\ ~rec[r].pending /\ rec'[r] = x
        /\ rec[r].status \in {"settled", "refunded"}
    BY <1>1 DEF Inv, TypeOK
  <2>2. /\ x.status = "forgotten" /\ ~x.pending /\ x.final = rec[r].final
        /\ x.quota = rec[r].quota /\ x.tokenPre = rec[r].tokenPre
        /\ x.tokenNet = rec[r].tokenNet /\ x.version = rec[r].version
    BY <2>1 DEF RecRows
  <2> HIDE DEF x, S
  <2>3. Charges[r] = now0
    BY <2>1 DEF Charges, ChargeOf
  <2>4. Charges'[r] = then
    BY <2>1, <2>2 DEF Charges, ChargeOf
  <2>5. then = [now0 EXCEPT !.phase = "forgotten"] /\ now0.phase = rec[r].status
    OBVIOUS
  <2> HIDE DEF now0, then
  <2> QED  BY <2>1, <2>3, <2>4, <2>5
<1>3. \A r \in Requests \ S : Charges'[r] = Charges[r]
  BY <1>1 DEF Charges
<1>4. S \in SUBSET {r \in Requests : Charges[r].phase \in {"settled", "refunded"}}
  BY <1>2
<1>5. Charges' = [r \in Requests |-> Charges'[r]]
  BY DEF Charges
<1> HIDE DEF S
<1>6. Charges' = [r \in Requests |-> IF r \in S THEN [Charges[r] EXCEPT !.phase = "forgotten"]
                                                ELSE Charges[r]]
  BY <1>2, <1>3, <1>5
<1> QED  BY <1>4, <1>6 DEF Charge!ForgetMany

\* The ledger implements UsageCharge: whatever windows, resets, upgrades,
\* maintenance and administrators do, each request is charged as promised.
THEOREM LedgerImplementsUsageCharge == Spec => ImplementsUsageCharge
<1>1. Init => Charge!Init
  <2> SUFFICES ASSUME Init
               PROVE  Charge!Init
    OBVIOUS
  <2>1. ChargeOf(NoRec) = Charge!NoCharge
    BY DEF ChargeOf, NoRec, Charge!NoCharge
  <2> QED  BY <2>1 DEF Init, Charge!Init, Charges
<1>2. Inv /\ [Next]_vars => [Charge!Next]_Charges
  <2> SUFFICES ASSUME Inv, [Next]_vars
               PROVE  [Charge!Next]_Charges
    OBVIOUS
  <2>1. CASE UNCHANGED rec
    BY <2>1 DEF Charges
  <2>2. ASSUME NEW r \in Requests, NEW a \in Quotas \ {0}, PreConsumeUserSubscription(r, a)
        PROVE  Charge!Next
    BY <2>2, ReserveStep DEF Charge!Next, Charge!Quotas, Quotas
  <2>3. ASSUME NEW r \in Requests, NEW v, NEW f \in Quotas, NEW st \in {"reserved", "settled"},
               SetSubscriptionUsageFinal(r, v, f, st)
        PROVE  Charge!Next
    <3>1. /\ Charge!Change(r, v, st, f) /\ Charges[r].version = v
          /\ Charges[r].phase \in {"reserved", "settled"}
          /\ st = "reserved" => Charges[r].phase = "reserved"
      BY <2>3, ChangeStep
    <3>2. Charge!Rebook(r, v, f) \/ Charge!Settle(r, v, f)
      BY <3>1 DEF Charge!Rebook, Charge!Settle
    <3> QED  BY <3>1, <3>2 DEF Charge!Next, Charge!Quotas, Quotas
  <2>4. ASSUME NEW r \in Requests, NEW v, RefundSubscriptionUsage(r, v)
        PROVE  Charge!Next
    <3>1. Charge!Refund(r, v) /\ Charges[r].version = v
      BY <2>4, ChangeStep DEF RefundSubscriptionUsage, Charge!Refund
    <3> QED  BY <3>1 DEF Charge!Next
  <2>5. ASSUME NEW r \in Requests, NEW v, NEW q \in Quotas,
               QueueSubscriptionSettlement(r, v, q, rec[r].final)
        PROVE  Charge!Next
    <3>1. rec[r].final \in Quotas
      BY DEF Inv, TypeOK, RecRows
    <3>2. Charge!Queue(r, v, q, rec[r].final) /\ Charges[r].version = v
      BY <2>5, <3>1, QueueStep
    <3> QED  BY <3>1, <3>2 DEF Charge!Next, Charge!Quotas, Quotas
  <2>6. ASSUME NEW r \in Requests, NEW k \in BOOLEAN, CompleteSubscriptionSettlement(r, k)
        PROVE  Charge!Next
    BY <2>6, ApplyStep DEF Charge!Next
  <2>7. CASE CleanupSubscriptionPreConsumeRecords
    BY <2>7, ForgetStep DEF Charge!Next
  <2> QED  BY <2>1, <2>2, <2>3, <2>4, <2>5, <2>6, <2>7, RecordsOf
<1>3. Init => Inv
  BY InitInv
<1>4. Inv /\ [Next]_vars => Inv'
  BY NextInv
<1> QED  BY <1>1, <1>2, <1>3, <1>4, PTL DEF Spec, ImplementsUsageCharge, Charge!Spec

-----------------------------------------------------------------------------
(* Sums over the requests.                                                  *)

Amounts == [Requests -> Quotas]

UnitsOf(r, n) == {u \in Requests \X (1 .. MaxQuota) : u[1] = r /\ u[2] <= n}

\* Request r contributes n units to a sum.
LEMMA UnitsOfOne ==
    ASSUME NEW r \in Requests, NEW n \in Quotas
    PROVE  IsFiniteSet(UnitsOf(r, n)) /\ Cardinality(UnitsOf(r, n)) = n
<1> DEFINE f == [i \in 1 .. n |-> <<r, i>>]
<1>0. n \in Nat /\ n <= MaxQuota /\ MaxQuota \in Nat
  BY BoundsAssumption DEF Quotas
<1>1. IsFiniteSet(1 .. n) /\ Cardinality(1 .. n) = n
  BY <1>0, FS_Interval
<1>2. \A i \in 1 .. n : i \in 1 .. MaxQuota
  BY <1>0
<1>3. f \in Bijection(1 .. n, UnitsOf(r, n))
  <2>1. f \in [1 .. n -> UnitsOf(r, n)]
    BY <1>0, <1>2 DEF UnitsOf
  <2>2. \A i, j \in 1 .. n : f[i] = f[j] => i = j
    OBVIOUS
  <2>3. ASSUME NEW u \in UnitsOf(r, n)
        PROVE  \E i \in 1 .. n : f[i] = u
    <3>1. u = <<r, u[2]>> /\ u[2] \in 1 .. n
      BY <1>0 DEF UnitsOf
    <3> QED  BY <3>1
  <2> HIDE DEF f
  <2> QED  BY <2>1, <2>2, <2>3, Fun_IsBij
<1> HIDE DEF f
<1> QED  BY <1>1, <1>3, FS_Bijection DEF ExistsBijection

\* A sum is a natural number.
LEMMA SumFinite ==
    ASSUME NEW h
    PROVE  /\ IsFiniteSet({u \in Requests \X (1 .. MaxQuota) : u[2] <= h[u[1]]})
           /\ SumOver(h) \in Nat
<1>1. IsFiniteSet(1 .. MaxQuota)
  BY BoundsAssumption, FS_Interval
<1>2. IsFiniteSet(Requests \X (1 .. MaxQuota))
  BY <1>1, RequestsAssumption, FS_Product
<1>3. IsFiniteSet({u \in Requests \X (1 .. MaxQuota) : u[2] <= h[u[1]]})
  BY <1>2, FS_Subset
<1> QED  BY <1>3, FS_CardinalityType DEF SumOver

\* The sum of nothing.
LEMMA SumZero ==
    ASSUME NEW h, \A r \in Requests : h[r] = 0
    PROVE  SumOver(h) = 0
<1>1. {u \in Requests \X (1 .. MaxQuota) : u[2] <= h[u[1]]} = {}
  BY BoundsAssumption
<1> QED  BY <1>1, FS_EmptySet DEF SumOver

\* A sum grows with its terms.
LEMMA SumMonotone ==
    ASSUME NEW g \in Amounts, NEW h \in Amounts, \A r \in Requests : g[r] <= h[r]
    PROVE  SumOver(g) <= SumOver(h)
<1>1. {u \in Requests \X (1 .. MaxQuota) : u[2] <= g[u[1]]} \subseteq
      {u \in Requests \X (1 .. MaxQuota) : u[2] <= h[u[1]]}
  BY BoundsAssumption DEF Amounts, Quotas
<1> QED  BY <1>1, SumFinite, FS_Subset DEF SumOver

\* Changing one term changes the sum by the difference.
LEMMA SumChange ==
    ASSUME NEW g \in Amounts, NEW h \in Amounts, NEW r \in Requests,
           \A x \in Requests : x # r => h[x] = g[x]
    PROVE  SumOver(h) = SumOver(g) - g[r] + h[r]
<1> DEFINE U(k)    == {u \in Requests \X (1 .. MaxQuota) : u[2] <= k[u[1]]}
           Rest(k) == {u \in Requests \X (1 .. MaxQuota) : u[1] # r /\ u[2] <= k[u[1]]}
<1>1. Rest(g) = Rest(h)
  OBVIOUS
<1>2. ASSUME NEW k \in Amounts
      PROVE  Cardinality(U(k)) = Cardinality(Rest(k)) + k[r] /\ Cardinality(Rest(k)) \in Nat
  <2>1. U(k) = Rest(k) \cup UnitsOf(r, k[r]) /\ Rest(k) \cap UnitsOf(r, k[r]) = {}
    BY DEF UnitsOf
  <2>2. IsFiniteSet(U(k))
    BY SumFinite
  <2>3. IsFiniteSet(Rest(k))
    BY <2>1, <2>2, FS_Subset
  <2>4. k[r] \in Quotas
    BY DEF Amounts
  <2>5. IsFiniteSet(UnitsOf(r, k[r])) /\ Cardinality(UnitsOf(r, k[r])) = k[r]
    BY <2>4, UnitsOfOne
  <2>6. Cardinality(Rest(k)) \in Nat /\ Cardinality(Rest(k) \cap UnitsOf(r, k[r])) = 0
    BY <2>1, <2>3, FS_CardinalityType, FS_EmptySet
  <2>7. k[r] \in Nat
    BY <2>4, BoundsAssumption DEF Quotas
  <2> HIDE DEF U, Rest
  <2>8. Cardinality(Rest(k) \cup UnitsOf(r, k[r])) =
        Cardinality(Rest(k)) + Cardinality(UnitsOf(r, k[r])) -
        Cardinality(Rest(k) \cap UnitsOf(r, k[r]))
    BY <2>3, <2>5, FS_Union
  <2> QED  BY <2>1, <2>5, <2>6, <2>7, <2>8
<1>3. SumOver(g) = Cardinality(U(g)) /\ SumOver(h) = Cardinality(U(h))
  BY DEF SumOver
<1>4. g[r] \in Nat /\ h[r] \in Nat
  BY BoundsAssumption DEF Amounts, Quotas
<1> HIDE DEF U, Rest
<1> QED  BY <1>1, <1>2, <1>3, <1>4

\* No term exceeds the sum.
LEMMA SumAtLeast ==
    ASSUME NEW h \in Amounts, NEW r \in Requests
    PROVE  h[r] <= SumOver(h)
<1>1. UnitsOf(r, h[r]) \subseteq {u \in Requests \X (1 .. MaxQuota) : u[2] <= h[u[1]]}
  BY DEF UnitsOf
<1>2. h[r] \in Quotas
  BY DEF Amounts
<1> QED  BY <1>1, <1>2, UnitsOfOne, SumFinite, FS_Subset DEF SumOver

-----------------------------------------------------------------------------
(* The inductive invariant about windows.                                   *)

\* Ids are handed out in order and nothing refers to one that was not.
IdsInOrder ==
    /\ \A w \in WinIds : /\ w > winSeq => win[w].kind = "none"
                         /\ win[w].kind # "none" => win[w].sub \in 1 .. subSeq
    /\ \A s \in SubIds : /\ s > subSeq => sub[s].status = "none"
                         /\ sub[s].curP <= winSeq /\ sub[s].curF <= winSeq
    /\ \A r \in Requests : rec[r].period <= winSeq /\ rec[r].five <= winSeq

\* The current windows in W of a subscription s, with row row: its own, with the
\* limits of its plan and, for the period, with its usage.
PeriodFits(s, row, W) ==
    row.curP # 0 /\ W[row.curP].kind # "none" =>
        /\ W[row.curP].kind = "period" /\ W[row.curP].sub = s
        /\ W[row.curP].total = row.plan.total /\ W[row.curP].used = row.used

FiveHourFits(s, row, W) ==
    row.curF # 0 /\ W[row.curF].kind # "none" =>
        /\ W[row.curF].kind = "five_hour" /\ W[row.curF].sub = s
        /\ W[row.curF].total = row.plan.fiveHour

\* While it is in use they exist and are open.
InUse(row, W) ==
    row.status = "active" =>
        /\ row.curP # 0 => W[row.curP].kind # "none" /\ ~W[row.curP].closed
        /\ row.curF # 0 => W[row.curF].kind # "none" /\ ~W[row.curF].closed

RowFits(s, row, W) == PeriodFits(s, row, W) /\ FiveHourFits(s, row, W) /\ InUse(row, W)

RowsFit == \A s \in SubIds : RowFits(s, sub[s], win)

\* An open window of a subscription that still has its row is a current one.
CurrentOf(row, kind) == IF kind = "period" THEN row.curP ELSE row.curF

OpenIsCurrent ==
    \A w \in WinIds :
        win[w].kind # "none" /\ ~win[w].closed /\ sub[win[w].sub].status # "none"
        => w = CurrentOf(sub[win[w].sub], win[w].kind)

WindowInv == Inv /\ IdsInOrder /\ RowsFit /\ OpenIsCurrent /\ OneWindowInForce /\ RecordsFindWindows

\* The fields that a due reset leaves alone, and the ones it clears
\* (maybeResetUserSubscriptionWithPlanTx).
LEMMA MaybeResetFields ==
    ASSUME NEW row \in SubRows, NEW t
    PROVE  LET new == MaybeReset(row, t) IN
           /\ new.status = row.status /\ new.plan = row.plan /\ new.start = row.start
           /\ new.end = row.end /\ new.curF = row.curF
           /\ ResetFires(row, t) => new.curP = 0 /\ new.used = 0
           /\ ~ResetFires(row, t) => new.curP = row.curP /\ new.used = row.used
<1> DEFINE b == LastReset(ResetBase(row), row.plan, row.end, t)
           n(x) == NextReset(x, row.plan, row.end)
<1>1. CASE ResetFires(row, t)
  <2>1. MaybeReset(row, t) = [row EXCEPT !.used = 0, !.curP = 0, !.last = b, !.next = n(b)]
    BY <1>1 DEF MaybeReset, Turned
  <2> HIDE DEF b, n
  <2> QED  BY <1>1, <2>1 DEF SubRows
<1>2. CASE ~ResetFires(row, t)
  <2>1. \/ MaybeReset(row, t) = row
        \/ MaybeReset(row, t) = [row EXCEPT !.last = ResetBase(row), !.next = n(ResetBase(row))]
    BY <1>2 DEF MaybeReset
  <2> HIDE DEF n
  <2> QED  BY <1>2, <2>1 DEF SubRows
<1> QED  BY <1>1, <1>2

\* What closing changes (closeSubscriptionQuotaWindowTx).
LEMMA ClosedFields ==
    ASSUME NEW row \in WinRows, NEW t
    PROVE  LET new == Closed(row, t) IN
           /\ new.kind = row.kind /\ new.sub = row.sub /\ new.total = row.total
           /\ new.used = row.used /\ new.start = row.start /\ new.end = row.end
           /\ new.opening = row.opening /\ new.manual = row.manual /\ new.closed
BY DEF Closed, WinRows

\* The identity of a window: what never changes while it exists.
SameWindow(x, y) ==
    /\ x.kind = y.kind /\ x.sub = y.sub /\ x.total = y.total /\ x.end = y.end
    /\ x.opening = y.opening

\* The same usage, got in the same way.
SameUsage(x, y) == x.used = y.used /\ x.manual = y.manual

LEMMA CloseAllFields ==
    ASSUME win \in [WinIds -> WinRows], NEW W, NEW t, NEW w \in WinIds
    PROVE  LET new == CloseAll(W, t)[w] IN
           /\ SameWindow(new, win[w]) /\ SameUsage(new, win[w])
           /\ w \in W => new.closed
           /\ w \notin W => new = win[w]
<1>1. win[w] \in WinRows
  OBVIOUS
<1>2. CloseAll(W, t)[w] = IF w \in W THEN Closed(win[w], t) ELSE win[w]
  BY DEF CloseAll
<1> QED  BY <1>1, <1>2, ClosedFields DEF SameWindow, SameUsage

\* Rows and records refer to windows by id, or by 0 to none.
LEMMA References ==
    ASSUME TypeOK
    PROVE  /\ \A x \in SubIds : /\ sub[x].curP \in 0 .. MaxWindow /\ sub[x].curF \in 0 .. MaxWindow
                                /\ sub[x].curP # 0 => sub[x].curP \in WinIds
                                /\ sub[x].curF # 0 => sub[x].curF \in WinIds
           /\ \A r \in Requests : /\ rec[r].period # 0 => rec[r].period \in WinIds
                                  /\ rec[r].five # 0 => rec[r].five \in WinIds
           /\ 0 \notin WinIds
<1>1. MaxWindow \in Nat
  BY BoundsAssumption
<1>2. \A x \in SubIds : sub[x].curP \in 0 .. MaxWindow /\ sub[x].curF \in 0 .. MaxWindow
  BY DEF TypeOK, SubRows
<1>3. \A r \in Requests : rec[r].period \in 0 .. MaxWindow /\ rec[r].five \in 0 .. MaxWindow
  BY DEF TypeOK, RecRows
<1> QED  BY <1>1, <1>2, <1>3 DEF WinIds

-----------------------------------------------------------------------------
(* Steps that close windows and turn over rows.                             *)

\* What such a step does to row x, with W the windows it closes: the row keeps
\* its plan; a current window it gives up is closed; one that it keeps while in
\* use is not; and the row may be removed.
TurnedOver(x, W) ==
    \/ sub'[x] = NoSub
    \/ /\ sub'[x].plan = sub[x].plan
       /\ sub'[x].status = "none" <=> sub[x].status = "none"
       /\ sub'[x].status = "active" => sub[x].status = "active"
       /\ \/ sub'[x].curP = sub[x].curP /\ sub'[x].used = sub[x].used
             /\ (sub'[x].status = "active" => sub[x].curP \notin W \cap WinIds)
          \/ sub'[x].curP = 0 /\ (sub[x].curP \in WinIds => sub[x].curP \in W)
       /\ \/ sub'[x].curF = sub[x].curF /\ (sub'[x].status = "active" => sub[x].curF \notin W \cap WinIds)
          \/ sub'[x].curF = 0 /\ (sub[x].curF \in WinIds => sub[x].curF \in W)

\* It keeps the invariant.
LEMMA ClosingStep ==
    ASSUME WindowInv, Inv', NEW W, NEW t, win' = CloseAll(W, t),
           \A x \in SubIds : TurnedOver(x, W), UNCHANGED <<rec, subSeq, winSeq>>
    PROVE  WindowInv'
<1>0. \A w \in WinIds : /\ SameWindow(win'[w], win[w]) /\ SameUsage(win'[w], win[w])
                        /\ w \in W => win'[w].closed
                        /\ w \notin W => win'[w] = win[w]
  BY CloseAllFields DEF WindowInv, Inv, TypeOK
<1>1. \A x \in SubIds : /\ sub[x].curP \in 0 .. MaxWindow /\ sub[x].curF \in 0 .. MaxWindow
                        /\ sub[x].curP # 0 => sub[x].curP \in WinIds
                        /\ sub[x].curF # 0 => sub[x].curF \in WinIds
  BY References DEF WindowInv, Inv
<1>2. NoSub.status = "none" /\ NoSub.curP = 0 /\ NoSub.curF = 0
  BY DEF NoSub
<1>n. winSeq \in Nat /\ subSeq \in 0 .. MaxSub
  BY DEF WindowInv, Inv, TypeOK
<1>3. IdsInOrder'
  <2>1. \A w \in WinIds : /\ w > winSeq => win'[w].kind = "none"
                          /\ win'[w].kind # "none" => win'[w].sub \in 1 .. subSeq
    BY <1>0 DEF WindowInv, IdsInOrder, SameWindow
  <2>2. ASSUME NEW x \in SubIds
        PROVE  /\ x > subSeq => sub'[x].status = "none"
               /\ sub'[x].curP <= winSeq /\ sub'[x].curF <= winSeq
    BY <1>1, <1>2, <1>n DEF WindowInv, IdsInOrder, TurnedOver
  <2> QED  BY <2>1, <2>2 DEF WindowInv, IdsInOrder
<1>4. RowsFit'
  <2> SUFFICES ASSUME NEW x \in SubIds
               PROVE  RowFits(x, sub'[x], win')
    BY DEF RowsFit
  <2>1. CASE sub'[x] = NoSub
    BY <1>2, <2>1 DEF RowFits, PeriodFits, FiveHourFits, InUse
  <2>2. CASE sub'[x] # NoSub
    <3>0. RowFits(x, sub[x], win)
      BY DEF WindowInv, RowsFit
    <3>1. PeriodFits(x, sub'[x], win')
      BY <1>0, <1>1, <2>2, <3>0 DEF RowFits, PeriodFits, TurnedOver, SameWindow, SameUsage
    <3>2. FiveHourFits(x, sub'[x], win')
      BY <1>0, <1>1, <2>2, <3>0 DEF RowFits, FiveHourFits, TurnedOver, SameWindow, SameUsage
    <3>3. InUse(sub'[x], win')
      BY <1>0, <1>1, <2>2, <3>0 DEF RowFits, InUse, TurnedOver
    <3> QED  BY <3>1, <3>2, <3>3 DEF RowFits
  <2> QED  BY <2>1, <2>2
<1>5. OpenIsCurrent'
  <2> SUFFICES ASSUME NEW w \in WinIds, win'[w].kind # "none", ~win'[w].closed,
                      sub'[win'[w].sub].status # "none"
               PROVE  w = CurrentOf(sub'[win'[w].sub], win'[w].kind)
    BY DEF OpenIsCurrent
  <2>1. /\ w \notin W /\ win'[w] = win[w]
    BY <1>0
  <2> DEFINE x == win[w].sub
  <2>2. x \in SubIds
    BY <1>n, <2>1, BoundsAssumption DEF WindowInv, IdsInOrder, SubIds
  <2>3. sub[x].status # "none" /\ sub'[x] # NoSub
    BY <1>2, <2>1, <2>2 DEF TurnedOver
  <2>4. w = CurrentOf(sub[x], win[w].kind)
    BY <2>1, <2>3 DEF WindowInv, OpenIsCurrent
  <2>5. TurnedOver(x, W) /\ w \in WinIds
    BY <2>2
  <2> HIDE DEF x
  <2>6. CurrentOf(sub'[x], win[w].kind) = CurrentOf(sub[x], win[w].kind)
    BY <2>1, <2>3, <2>4, <2>5 DEF TurnedOver, CurrentOf
  <2> QED  BY <2>1, <2>4, <2>6 DEF x
<1>6. OneWindowInForce'
  BY <1>0 DEF WindowInv, OneWindowInForce, SameWindow
<1>7. RecordsFindWindows'
  <2>1. \A r \in Requests : rec[r].period \in 0 .. MaxWindow /\ rec[r].five \in 0 .. MaxWindow
    BY DEF WindowInv, Inv, TypeOK, RecRows
  <2>2. \A r \in Requests : /\ rec[r].period # 0 => rec[r].period \in WinIds
                            /\ rec[r].five # 0 => rec[r].five \in WinIds
    BY <2>1, BoundsAssumption DEF WinIds
  <2> QED  BY <1>0, <2>2 DEF WindowInv, RecordsFindWindows, Exists, Loadable, Live, SameWindow
<1> QED  BY <1>3, <1>4, <1>5, <1>6, <1>7 DEF WindowInv

\* A window of another subscription is not a current one of a subscription in use.
LEMMA OthersWindow ==
    ASSUME WindowInv, NEW s \in SubIds, sub[s].status = "active", NEW w \in WinIds,
           win[w].sub # s
    PROVE  w # sub[s].curP /\ w # sub[s].curF
<1>1. RowFits(s, sub[s], win)
  BY DEF WindowInv, RowsFit
<1>2. w # 0
  BY DEF WinIds
<1> QED  BY <1>1, <1>2 DEF RowFits, PeriodFits, FiveHourFits, InUse

\* ExpireDueSubscriptions.
LEMMA ExpireWindows ==
    ASSUME WindowInv, Inv', NEW t, ExpireDueSubscriptions(t)
    PROVE  WindowInv'
<1> DEFINE due == {s \in SubIds : sub[s].status = "active" /\ sub[s].end <= t}
           W   == UNION {CurrentWindows(s) : s \in due}
<1>1. /\ win' = CloseAll(W, t) /\ UNCHANGED <<rec, subSeq, winSeq>>
      /\ \A s \in due : CurrentLoadable(s)
      /\ sub' = [s \in SubIds |-> IF s \in due THEN [sub[s] EXCEPT !.status = "expired"]
                                               ELSE sub[s]]
  BY DEF ExpireDueSubscriptions
<1>2. ASSUME NEW x \in SubIds
      PROVE  TurnedOver(x, W)
  <2>0. sub[x] \in SubRows
    BY DEF WindowInv, Inv, TypeOK
  <2>1. CASE x \in due
    <3>1. /\ sub'[x].status = "expired" /\ sub'[x].plan = sub[x].plan
          /\ sub'[x].curP = sub[x].curP /\ sub'[x].curF = sub[x].curF
          /\ sub'[x].used = sub[x].used
      BY <1>1, <2>0, <2>1 DEF SubRows
    <3>2. sub[x].status = "active"
      BY <2>1
    <3> QED  BY <3>1, <3>2 DEF TurnedOver
  <2>2. CASE x \notin due
    <3>1. sub'[x] = sub[x]
      BY <1>1, <2>2
    <3>2. ASSUME NEW w \in W \cap WinIds, sub[x].status = "active"
          PROVE  w # sub[x].curP /\ w # sub[x].curF
      <4>1. PICK s \in due : w \in CurrentWindows(s)
        OBVIOUS
      <4>2. win[w].sub = s
        BY <1>1, <4>1 DEF CurrentLoadable, Loadable, CurrentWindows
      <4> QED  BY <2>2, <3>2, <4>1, <4>2, OthersWindow
    <3> QED  BY <3>1, <3>2 DEF TurnedOver
  <2> QED  BY <2>1, <2>2
<1> HIDE DEF due, W
<1> QED  BY <1>1, <1>2, ClosingStep

\* ResetDueSubscriptions.
LEMMA ResetDueWindows ==
    ASSUME WindowInv, Inv', NEW s \in SubIds, NEW t, ResetDueSubscriptions(s, t)
    PROVE  WindowInv'
<1> DEFINE W == IF ResetFires(sub[s], t) THEN {sub[s].curP} ELSE {}
<1>1. /\ sub' = [sub EXCEPT ![s] = MaybeReset(sub[s], t)] /\ Loadable(sub[s].curP, s, "period")
      /\ win' = IF ResetFires(sub[s], t) THEN CloseAll({sub[s].curP}, t) ELSE win
      /\ UNCHANGED <<rec, subSeq, winSeq>>
  BY DEF ResetDueSubscriptions
<1>2. win' = CloseAll(W, t)
  BY <1>1 DEF CloseAll, WindowInv, Inv, TypeOK
<1>3. ASSUME NEW x \in SubIds
      PROVE  TurnedOver(x, W)
  <2>0. sub[x] \in SubRows /\ sub[s] \in SubRows /\ sub \in [SubIds -> SubRows]
    BY DEF WindowInv, Inv, TypeOK
  <2>1. CASE x = s
    <3>1. sub'[x] = MaybeReset(sub[x], t)
      BY <1>1, <2>0, <2>1
    <3>2. /\ sub'[x].status = sub[x].status /\ sub'[x].plan = sub[x].plan
          /\ sub'[x].curF = sub[x].curF
          /\ ResetFires(sub[x], t) => sub'[x].curP = 0
          /\ ~ResetFires(sub[x], t) => sub'[x].curP = sub[x].curP /\ sub'[x].used = sub[x].used
      BY <2>0, <3>1, MaybeResetFields
    <3>3. sub[x].status = "active" => sub[x].curF \notin W \cap WinIds
      <4>1. RowFits(x, sub[x], win)
        BY DEF WindowInv, RowsFit
      <4> QED  BY <2>1, <4>1 DEF RowFits, PeriodFits, FiveHourFits, InUse, WinIds
    <3> QED  BY <2>1, <3>2, <3>3 DEF TurnedOver
  <2>2. CASE x # s
    <3>1. sub'[x] = sub[x]
      BY <1>1, <2>0, <2>2
    <3>2. ASSUME NEW w \in W \cap WinIds, sub[x].status = "active"
          PROVE  w # sub[x].curP /\ w # sub[x].curF
      <4>1. win[w].sub = s
        BY <1>1 DEF Loadable, WinIds
      <4> QED  BY <2>2, <3>2, <4>1, OthersWindow
    <3> QED  BY <3>1, <3>2 DEF TurnedOver
  <2> QED  BY <2>1, <2>2
<1> HIDE DEF W
<1> QED  BY <1>1, <1>2, <1>3, ClosingStep

\* ResetDueFiveHourSubscriptionWindows.
LEMMA ResetFiveHourWindows ==
    ASSUME WindowInv, Inv', NEW s \in SubIds, NEW t, ResetDueFiveHourSubscriptionWindows(s, t)
    PROVE  WindowInv'
<1> DEFINE W == {sub[s].curF}
<1>1. /\ sub' = [sub EXCEPT ![s].curF = 0] /\ sub[s].status = "active"
      /\ Loadable(sub[s].curF, s, "five_hour") /\ win' = CloseAll(W, t)
      /\ UNCHANGED <<rec, subSeq, winSeq>>
  BY DEF ResetDueFiveHourSubscriptionWindows, ValidSubs
<1>3. ASSUME NEW x \in SubIds
      PROVE  TurnedOver(x, W)
  <2>0. sub[x] \in SubRows /\ sub[s] \in SubRows /\ sub \in [SubIds -> SubRows]
    BY DEF WindowInv, Inv, TypeOK
  <2>1. CASE x = s
    <3>1. /\ sub'[x].status = sub[x].status /\ sub'[x].plan = sub[x].plan
          /\ sub'[x].curF = 0 /\ sub'[x].curP = sub[x].curP /\ sub'[x].used = sub[x].used
      BY <1>1, <2>0, <2>1 DEF SubRows
    <3>3. sub[x].curP \notin W \cap WinIds
      <4>1. RowFits(x, sub[x], win)
        BY DEF WindowInv, RowsFit
      <4> QED  BY <1>1, <2>1, <4>1 DEF RowFits, PeriodFits, FiveHourFits, InUse, WinIds
    <3> QED  BY <2>1, <3>1, <3>3 DEF TurnedOver
  <2>2. CASE x # s
    <3>1. sub'[x] = sub[x]
      BY <1>1, <2>0, <2>2
    <3>2. ASSUME NEW w \in W \cap WinIds, sub[x].status = "active"
          PROVE  w # sub[x].curP /\ w # sub[x].curF
      <4>1. win[w].sub = s
        BY <1>1 DEF Loadable, WinIds
      <4> QED  BY <2>2, <3>2, <4>1, OthersWindow
    <3> QED  BY <3>1, <3>2 DEF TurnedOver
  <2> QED  BY <2>1, <2>2
<1> HIDE DEF W
<1> QED  BY <1>1, <1>3, ClosingStep

\* AdminInvalidateUserSubscription, AdminDeleteUserSubscription.
LEMMA AdminEndWindows ==
    ASSUME WindowInv, Inv', NEW s \in SubIds,
           AdminInvalidateUserSubscription(s) \/ AdminDeleteUserSubscription(s)
    PROVE  WindowInv'
<1>1. win' = CloseAll({}, 0)
  BY DEF AdminInvalidateUserSubscription, AdminDeleteUserSubscription, CloseAll, WindowInv, Inv,
         TypeOK
<1>2. UNCHANGED <<rec, subSeq, winSeq>>
  BY DEF AdminInvalidateUserSubscription, AdminDeleteUserSubscription
<1>3. ASSUME NEW x \in SubIds
      PROVE  TurnedOver(x, {})
  <2>0. sub[x] \in SubRows /\ sub[s] \in SubRows /\ sub \in [SubIds -> SubRows]
    BY DEF WindowInv, Inv, TypeOK
  <2>1. CASE x # s
    <3>1. sub'[x] = sub[x]
      BY <2>0, <2>1 DEF AdminInvalidateUserSubscription, AdminDeleteUserSubscription
    <3> QED  BY <3>1 DEF TurnedOver
  <2>2. CASE x = s /\ AdminInvalidateUserSubscription(s)
    <3>1. /\ sub'[x].status = "cancelled" /\ sub'[x].plan = sub[x].plan
          /\ sub'[x].curP = sub[x].curP /\ sub'[x].curF = sub[x].curF
          /\ sub'[x].used = sub[x].used /\ sub[x].status # "none"
      BY <2>0, <2>2 DEF SubRows, AdminInvalidateUserSubscription
    <3> QED  BY <3>1 DEF TurnedOver
  <2>3. CASE x = s /\ AdminDeleteUserSubscription(s)
    BY <2>0, <2>3 DEF AdminDeleteUserSubscription, TurnedOver
  <2> QED  BY <2>1, <2>2, <2>3
<1> QED  BY <1>1, <1>2, <1>3, ClosingStep

\* ChangeAdminUserSubscription: return to the free tier.
LEMMA AdminFreeWindows ==
    ASSUME WindowInv, Inv', ChangeAdminFree
    PROVE  WindowInv'
<1> DEFINE V == ValidSubs(now)
           W == UNION {CurrentWindows(s) : s \in V}
<1>1. /\ win' = CloseAll(W, now) /\ UNCHANGED <<rec, subSeq, winSeq>>
      /\ \A s \in V : CurrentLoadable(s)
      /\ sub' = [s \in SubIds |-> IF s \in V
                                  THEN [sub[s] EXCEPT !.status = "cancelled", !.end = now]
                                  ELSE sub[s]]
  BY DEF ChangeAdminFree
<1>v. V \subseteq SubIds /\ \A s \in V : sub[s].status = "active"
  BY DEF ValidSubs
<1> HIDE DEF V
<1>2. ASSUME NEW x \in SubIds
      PROVE  TurnedOver(x, W)
  <2>0. sub[x] \in SubRows
    BY DEF WindowInv, Inv, TypeOK
  <2>1. CASE x \in V
    <3>1. /\ sub'[x].status = "cancelled" /\ sub'[x].plan = sub[x].plan
          /\ sub'[x].curP = sub[x].curP /\ sub'[x].curF = sub[x].curF
          /\ sub'[x].used = sub[x].used
      BY <1>1, <2>0, <2>1 DEF SubRows
    <3> QED  BY <1>v, <2>1, <3>1 DEF TurnedOver
  <2>2. CASE x \notin V
    <3>1. sub'[x] = sub[x]
      BY <1>1, <2>2
    <3>2. ASSUME NEW w \in W \cap WinIds, sub[x].status = "active"
          PROVE  w # sub[x].curP /\ w # sub[x].curF
      <4>1. PICK s \in V : w \in CurrentWindows(s)
        OBVIOUS
      <4>2. win[w].sub = s
        BY <1>1, <4>1 DEF CurrentLoadable, Loadable, CurrentWindows
      <4> QED  BY <2>2, <3>2, <4>1, <4>2, OthersWindow
    <3> QED  BY <3>1, <3>2 DEF TurnedOver
  <2> QED  BY <2>1, <2>2
<1> HIDE DEF W
<1> QED  BY <1>1, <1>2, ClosingStep

\* AdminResetUserSubscriptionsByPlan.
LEMMA AdminResetWindows ==
    ASSUME WindowInv, Inv', NEW plan \in Plans, NEW advance \in BOOLEAN, NEW period \in BOOLEAN,
           NEW fiveHour \in BOOLEAN,
           AdminResetUserSubscriptionsByPlan(plan, advance, period, fiveHour)
    PROVE  WindowInv'
<1> DEFINE S == {s \in ValidSubs(now) : sub[s].plan = plan}
           WP == IF period THEN {sub[s].curP : s \in S} ELSE {}
           WF == IF fiveHour THEN {sub[s].curF : s \in S} ELSE {}
           W  == WP \cup WF
           n(row) == NextReset(now, plan, row.end)
           x(row) == IF fiveHour THEN [row EXCEPT !.curF = 0] ELSE row
           y(row) == IF period THEN [x(row) EXCEPT !.used = 0, !.curP = 0] ELSE x(row)
           cleared(row) == IF period /\ advance
                           THEN [y(row) EXCEPT !.next = n(row), !.last = IF n(row) > 0 THEN now ELSE 0]
                           ELSE y(row)
<1>1. /\ win' = CloseAll(W, now) /\ UNCHANGED <<rec, subSeq, winSeq>>
      /\ \A s \in S : CurrentLoadable(s)
      /\ sub' = [s \in SubIds |-> IF s \in S THEN cleared(sub[s]) ELSE sub[s]]
  BY DEF AdminResetUserSubscriptionsByPlan
<1>v. S \subseteq SubIds /\ \A s \in S : sub[s].status = "active"
  BY DEF ValidSubs
<1>2. ASSUME NEW row \in SubRows
      PROVE  LET new == cleared(row) IN
             /\ new.status = row.status /\ new.plan = row.plan
             /\ new.curF = IF fiveHour THEN 0 ELSE row.curF
             /\ new.curP = IF period THEN 0 ELSE row.curP
             /\ ~period => new.used = row.used
  <2>0. 0 \in 0 .. MaxWindow
    BY BoundsAssumption
  <2>1. /\ x(row) \in SubRows /\ x(row).status = row.status /\ x(row).plan = row.plan
        /\ x(row).curF = IF fiveHour THEN 0 ELSE row.curF
        /\ x(row).curP = row.curP /\ x(row).used = row.used
    BY <2>0 DEF SubRows
  <2> HIDE DEF x
  <2>2. /\ y(row) \in SubRows /\ y(row).status = row.status /\ y(row).plan = row.plan
        /\ y(row).curF = IF fiveHour THEN 0 ELSE row.curF
        /\ y(row).curP = IF period THEN 0 ELSE row.curP
        /\ ~period => y(row).used = row.used
    BY <2>0, <2>1 DEF SubRows
  <2> HIDE DEF y, n
  <2> QED  BY <2>2 DEF SubRows
<1> HIDE DEF cleared, S
<1>3. ASSUME NEW z \in SubIds
      PROVE  TurnedOver(z, W)
  <2>0. sub[z] \in SubRows
    BY DEF WindowInv, Inv, TypeOK
  <2>1. CASE z \in S
    <3>1. /\ sub'[z].status = sub[z].status /\ sub'[z].plan = sub[z].plan
          /\ sub'[z].curF = IF fiveHour THEN 0 ELSE sub[z].curF
          /\ sub'[z].curP = IF period THEN 0 ELSE sub[z].curP
          /\ ~period => sub'[z].used = sub[z].used
      BY <1>1, <1>2, <2>0, <2>1
    <3>2. (period => sub[z].curP \in W) /\ (fiveHour => sub[z].curF \in W)
      BY <2>1
    <3>3. ASSUME NEW w \in WP \cap WinIds
          PROVE  w # sub[z].curF
      <4>1. win[w].kind = "period"
        BY <1>1 DEF CurrentLoadable, Loadable, WinIds
      <4> QED  BY <1>1, <2>1, <4>1 DEF CurrentLoadable, Loadable, WinIds
    <3>4. ASSUME NEW w \in WF \cap WinIds
          PROVE  w # sub[z].curP
      <4>1. win[w].kind = "five_hour"
        BY <1>1 DEF CurrentLoadable, Loadable, WinIds
      <4> QED  BY <1>1, <2>1, <4>1 DEF CurrentLoadable, Loadable, WinIds
    <3>5. ~period => sub[z].curP \notin W \cap WinIds
      BY <3>4
    <3>6. ~fiveHour => sub[z].curF \notin W \cap WinIds
      BY <3>3
    <3> HIDE DEF W
    <3> QED  BY <3>1, <3>2, <3>5, <3>6 DEF TurnedOver
  <2>2. CASE z \notin S
    <3>1. sub'[z] = sub[z]
      BY <1>1, <2>2
    <3>2. ASSUME NEW w \in W \cap WinIds, sub[z].status = "active"
          PROVE  w # sub[z].curP /\ w # sub[z].curF
      <4>1. PICK s \in S : w \in {sub[s].curP, sub[s].curF}
        OBVIOUS
      <4>2. win[w].sub = s
        BY <1>1, <4>1 DEF CurrentLoadable, Loadable, WinIds
      <4> QED  BY <1>v, <2>2, <3>2, <4>1, <4>2, OthersWindow
    <3> QED  BY <3>1, <3>2 DEF TurnedOver
  <2> QED  BY <2>1, <2>2
<1> HIDE DEF W
<1> QED  BY <1>1, <1>3, ClosingStep

\* Steps that leave subscriptions and windows alone.
LEMMA StillWindows ==
    ASSUME WindowInv, Inv', UNCHANGED <<sub, win, subSeq, winSeq>>,
           \A r \in Requests : /\ rec'[r].period = rec[r].period /\ rec'[r].five = rec[r].five
                               /\ rec'[r].sub = rec[r].sub
                               /\ rec'[r].status \in {"reserved", "settled", "refunded"}
                                  => rec[r].status \in {"reserved", "settled", "refunded"}
    PROVE  WindowInv'
<1>1. IdsInOrder'
  BY DEF WindowInv, IdsInOrder
<1>2. RowsFit' /\ OpenIsCurrent' /\ OneWindowInForce'
  BY DEF WindowInv, RowsFit, OpenIsCurrent, OneWindowInForce
<1>3. RecordsFindWindows'
  BY DEF WindowInv, RecordsFindWindows, Live, Exists, Loadable
<1> QED  BY <1>1, <1>2, <1>3 DEF WindowInv

-----------------------------------------------------------------------------
(* Steps that change usage.                                                 *)

\* A step that keeps what every window is and which windows are open, and the
\* current windows, plan and status of every row, keeps the invariant as long as
\* rows go on showing the usage of their period.
LEMMA UsageStep ==
    ASSUME WindowInv, Inv', UNCHANGED <<subSeq, winSeq>>,
           \A w \in WinIds : SameWindow(win'[w], win[w]) /\ win'[w].closed = win[w].closed,
           \A x \in SubIds : /\ sub'[x].curP = sub[x].curP /\ sub'[x].curF = sub[x].curF
                             /\ sub'[x].plan = sub[x].plan /\ sub'[x].status = sub[x].status
                             /\ sub[x].curP # 0 /\ win[sub[x].curP].kind # "none" =>
                                  win'[sub[x].curP].used = sub'[x].used,
           \A r \in Requests : /\ rec'[r].period = rec[r].period /\ rec'[r].five = rec[r].five
                               /\ rec'[r].sub = rec[r].sub
                               /\ rec'[r].status \in {"reserved", "settled", "refunded"}
                                  => rec[r].status \in {"reserved", "settled", "refunded"}
    PROVE  WindowInv'
<1>1. \A x \in SubIds : /\ sub[x].curP # 0 => sub[x].curP \in WinIds
                        /\ sub[x].curF # 0 => sub[x].curF \in WinIds
  BY BoundsAssumption DEF WindowInv, Inv, TypeOK, SubRows, WinIds
<1>2. \A r \in Requests : /\ rec[r].period # 0 => rec[r].period \in WinIds
                          /\ rec[r].five # 0 => rec[r].five \in WinIds
  BY BoundsAssumption DEF WindowInv, Inv, TypeOK, RecRows, WinIds
<1>3. IdsInOrder'
  BY DEF WindowInv, IdsInOrder, SameWindow
<1>4. RowsFit'
  <2> SUFFICES ASSUME NEW x \in SubIds
               PROVE  RowFits(x, sub'[x], win')
    BY DEF RowsFit
  <2>1. RowFits(x, sub[x], win)
    BY DEF WindowInv, RowsFit
  <2>2. PeriodFits(x, sub'[x], win')
    BY <1>1, <2>1 DEF RowFits, PeriodFits, SameWindow
  <2>3. FiveHourFits(x, sub'[x], win')
    BY <1>1, <2>1 DEF RowFits, FiveHourFits, SameWindow
  <2>4. InUse(sub'[x], win')
    BY <1>1, <2>1 DEF RowFits, InUse, SameWindow
  <2> QED  BY <2>2, <2>3, <2>4 DEF RowFits
<1>5. OpenIsCurrent'
  <2> SUFFICES ASSUME NEW w \in WinIds, win'[w].kind # "none", ~win'[w].closed,
                      sub'[win'[w].sub].status # "none"
               PROVE  w = CurrentOf(sub'[win'[w].sub], win'[w].kind)
    BY DEF OpenIsCurrent
  <2>1. /\ win'[w].sub = win[w].sub /\ win'[w].kind = win[w].kind /\ ~win[w].closed
    BY DEF SameWindow
  <2>2. win[w].sub \in SubIds
    BY <2>1, BoundsAssumption DEF WindowInv, IdsInOrder, SubIds, Inv, TypeOK
  <2> QED  BY <2>1, <2>2 DEF WindowInv, OpenIsCurrent, CurrentOf
<1>6. OneWindowInForce'
  BY DEF WindowInv, OneWindowInForce, SameWindow
<1>7. RecordsFindWindows'
  BY <1>2 DEF WindowInv, RecordsFindWindows, Exists, Loadable, Live, SameWindow
<1> QED  BY <1>3, <1>4, <1>5, <1>6, <1>7 DEF WindowInv

\* What changing the amount of request r does to each window
\* (adjustSubscriptionUsageTx).
LEMMA AdjustCountersFields ==
    ASSUME TypeOK, NEW r \in Requests, NEW f \in Quotas, AdjustCounters(r, f), NEW w \in WinIds
    PROVE  /\ SameWindow(win'[w], win[w]) /\ win'[w].closed = win[w].closed
           /\ win'[w].manual = win[w].manual
           /\ win'[w].used = IF f # rec[r].final /\ w \in {rec[r].period, rec[r].five}
                             THEN CheckedAdd(win[w].used, f - rec[r].final) ELSE win[w].used
<1>0. win[w] \in WinRows
  BY DEF TypeOK
<1> DEFINE d == f - rec[r].final
<1>n. f \in Int /\ rec[r].final \in Int
  BY BoundsAssumption DEF TypeOK, RecRows, Quotas
<1>1. CASE d = 0
  <2>1. f = rec[r].final
    BY <1>1, <1>n
  <2> QED  BY <1>1, <2>1 DEF AdjustCounters, SameWindow
<1>2. CASE d # 0
  <2>1. f # rec[r].final
    BY <1>2, <1>n
  <2>2. win'[w] = IF w \in {rec[r].period, rec[r].five}
                  THEN [win[w] EXCEPT !.used = CheckedAdd(@, d), !.updated = now] ELSE win[w]
    BY <1>2 DEF AdjustCounters
  <2> HIDE DEF d
  <2>3. /\ SameWindow(win'[w], win[w]) /\ win'[w].closed = win[w].closed
        /\ win'[w].manual = win[w].manual
        /\ win'[w].used = IF w \in {rec[r].period, rec[r].five}
                          THEN CheckedAdd(win[w].used, d) ELSE win[w].used
    BY <1>0, <2>2 DEF WinRows, SameWindow
  <2> QED  BY <2>1, <2>3 DEF d
<1> QED  BY <1>1, <1>2

\* SetSubscriptionUsageFinal, RefundSubscriptionUsage, CompleteSubscriptionSettlement.
LEMMA AdjustWindows ==
    ASSUME WindowInv, Inv', NEW r \in Requests, Live(r), NEW f \in Quotas, NEW st,
           Adjustable(r, f, st), AdjustCounters(r, f), UNCHANGED <<subSeq, winSeq>>,
           rec' = [rec EXCEPT ![r] = rec'[r]], rec'[r].period = rec[r].period,
           rec'[r].five = rec[r].five, rec'[r].sub = rec[r].sub
    PROVE  WindowInv'
<1> DEFINE d == f - rec[r].final
           s == rec[r].sub
           p == rec[r].period
           q == rec[r].five
<1>0. TypeOK /\ s \in SubIds /\ p \in WinIds /\ sub \in [SubIds -> SubRows]
  BY DEF WindowInv, Inv, TypeOK, Live
<1>1. \A w \in WinIds :
        /\ SameWindow(win'[w], win[w]) /\ win'[w].closed = win[w].closed
        /\ win'[w].used = IF f # rec[r].final /\ w \in {p, q}
                          THEN CheckedAdd(win[w].used, d) ELSE win[w].used
  BY <1>0, AdjustCountersFields
<1>n. f \in Int /\ rec[r].final \in Int
  BY <1>0, BoundsAssumption DEF TypeOK, RecRows, Quotas
<1>2. f # rec[r].final <=> d # 0
  BY <1>n
<1>3. ASSUME NEW x \in SubIds
      PROVE  /\ sub'[x].curP = sub[x].curP /\ sub'[x].curF = sub[x].curF
             /\ sub'[x].plan = sub[x].plan /\ sub'[x].status = sub[x].status
             /\ sub'[x].used = IF d # 0 /\ x = s /\ sub[s].curP = p
                               THEN CheckedAdd(win[p].used, d) ELSE sub[x].used
  <2>1. sub[x] \in SubRows
    BY <1>0
  <2>2. sub'[x] = IF d # 0 /\ x = s /\ sub[s].curP = p
                  THEN [sub[x] EXCEPT !.used = CheckedAdd(win[p].used, d)] ELSE sub[x]
    BY <1>0 DEF AdjustCounters, IsCurrent
  <2> HIDE DEF d, s, p
  <2> QED  BY <2>1, <2>2 DEF SubRows
<1>4. ASSUME NEW x \in SubIds, sub[x].curP # 0, win[sub[x].curP].kind # "none"
      PROVE  win'[sub[x].curP].used = sub'[x].used
  <2> DEFINE c == sub[x].curP
  <2>0. c \in WinIds
    BY <1>0, <1>4, BoundsAssumption DEF SubRows, WinIds
  <2>1. win[c].kind = "period" /\ win[c].sub = x /\ win[c].used = sub[x].used
    BY <1>4 DEF WindowInv, RowsFit, RowFits, PeriodFits
  <2>2. CASE d = 0
    BY <1>1, <1>2, <1>3, <2>0, <2>1, <2>2
  <2>3. CASE d # 0
    <3>1. win[p].sub = s /\ (q # 0 => win[q].kind = "five_hour")
      BY <2>3 DEF Adjustable, Loadable
    <3>2. c # 0
      BY <1>4
    <3>3. c # q
      BY <2>1, <3>1, <3>2
    <3>4. c = p => x = s
      BY <2>1, <3>1
    <3>5. x = s /\ sub[s].curP = p <=> c = p
      BY <3>4
    <3> HIDE DEF c, d, s, p, q
    <3> QED  BY <1>1, <1>2, <1>3, <2>0, <2>1, <2>3, <3>3, <3>5 DEF c
  <2> QED  BY <2>2, <2>3
<1>5. \A y \in Requests : y # r => rec'[y] = rec[y]
  BY <1>0 DEF TypeOK
<1>6. \A y \in Requests : /\ rec'[y].period = rec[y].period /\ rec'[y].five = rec[y].five
                          /\ rec'[y].sub = rec[y].sub
                          /\ rec'[y].status \in {"reserved", "settled", "refunded"}
                             => rec[y].status \in {"reserved", "settled", "refunded"}
  BY <1>5 DEF Live
<1> HIDE DEF d, s, p, q
<1> QED  BY <1>1, <1>3, <1>4, <1>6, UsageStep

LEMMA SetFinalWindows ==
    ASSUME WindowInv, Inv', NEW r \in Requests, NEW v, NEW f \in Quotas,
           NEW st \in {"reserved", "settled", "refunded"}, SetSubscriptionUsageFinal(r, v, f, st)
    PROVE  WindowInv'
<1>0. Inv /\ TypeOK
  BY DEF WindowInv, Inv
<1>1. rec' = [rec EXCEPT ![r] = Adjusted(r, f, st)] /\ rec[r] \in RecRows
  BY <1>0 DEF SetSubscriptionUsageFinal, TypeOK
<1>2. rec'[r] = Adjusted(r, f, st)
  BY <1>0, <1>1 DEF TypeOK
<1>3. rec'[r].period = rec[r].period /\ rec'[r].five = rec[r].five /\ rec'[r].sub = rec[r].sub
  BY <1>1, <1>2 DEF Adjusted, RecRows
<1> QED  BY <1>1, <1>2, <1>3, AdjustWindows DEF SetSubscriptionUsageFinal, Changeable

LEMMA CompleteWindows ==
    ASSUME WindowInv, Inv', NEW r \in Requests, NEW k \in BOOLEAN,
           CompleteSubscriptionSettlement(r, k)
    PROVE  WindowInv'
<1> DEFINE q   == rec[r].quota
           net == IF k THEN q - rec[r].tokenPre ELSE 0
           x   == [Adjusted(r, q, "settled") EXCEPT !.pending = FALSE, !.tokenNet = net]
<1>0. Inv /\ TypeOK
  BY DEF WindowInv, Inv
<1>1. rec' = [rec EXCEPT ![r] = x] /\ rec[r] \in RecRows /\ q \in Quotas
  BY <1>0 DEF CompleteSubscriptionSettlement, TypeOK, RecRows
<1>2. rec'[r] = x
  BY <1>0, <1>1 DEF TypeOK
<1> HIDE DEF net
<1>3. rec'[r].period = rec[r].period /\ rec'[r].five = rec[r].five /\ rec'[r].sub = rec[r].sub
  BY <1>1, <1>2 DEF Adjusted, RecRows
<1>4. Live(r)
  BY DEF CompleteSubscriptionSettlement, Live
<1> HIDE DEF x
<1> QED  BY <1>1, <1>2, <1>3, <1>4, AdjustWindows DEF CompleteSubscriptionSettlement

\* QueueSubscriptionSettlement, CleanupSubscriptionPreConsumeRecords.
LEMMA RecordOnlyWindows ==
    ASSUME WindowInv, Inv',
           \/ \E r \in Requests : \E v, q, p : QueueSubscriptionSettlement(r, v, q, p)
           \/ CleanupSubscriptionPreConsumeRecords
    PROVE  WindowInv'
<1>0. rec \in [Requests -> RecRows]
  BY DEF WindowInv, Inv, TypeOK
<1>1. UNCHANGED <<sub, win, subSeq, winSeq>>
  BY DEF QueueSubscriptionSettlement, CleanupSubscriptionPreConsumeRecords
<1>2. ASSUME NEW y \in Requests
      PROVE  /\ rec'[y].period = rec[y].period /\ rec'[y].five = rec[y].five
             /\ rec'[y].sub = rec[y].sub
             /\ rec'[y].status \in {"reserved", "settled", "refunded"} => rec'[y].status = rec[y].status
  <2>1. ASSUME NEW r \in Requests, NEW v, NEW q, NEW p, QueueSubscriptionSettlement(r, v, q, p)
        PROVE  \/ rec'[y] = rec[y]
               \/ rec'[y] = [rec[y] EXCEPT !.pending = TRUE, !.quota = q, !.tokenPre = p,
                                           !.updated = now]
    BY <1>0, <2>1 DEF QueueSubscriptionSettlement
  <2>2. ASSUME CleanupSubscriptionPreConsumeRecords
        PROVE  rec'[y] = rec[y] \/ rec'[y] = [rec[y] EXCEPT !.status = "forgotten"]
    BY <2>2 DEF CleanupSubscriptionPreConsumeRecords
  <2>3. rec[y] \in RecRows
    BY <1>0
  <2>4. CASE CleanupSubscriptionPreConsumeRecords
    BY <2>2, <2>3, <2>4 DEF RecRows
  <2>5. CASE \E r \in Requests : \E v, q, p : QueueSubscriptionSettlement(r, v, q, p)
    <3>1. PICK q, p : \/ rec'[y] = rec[y]
                      \/ rec'[y] = [rec[y] EXCEPT !.pending = TRUE, !.quota = q, !.tokenPre = p,
                                                  !.updated = now]
      BY <2>1, <2>5
    <3> QED  BY <2>3, <3>1 DEF RecRows
  <2> QED  BY <2>4, <2>5
<1> QED  BY <1>1, <1>2, StillWindows

\* PostConsumeUserSubscriptionDelta.
LEMMA PostDeltaWindows ==
    ASSUME WindowInv, Inv', NEW s \in SubIds, NEW d \in Int, PostConsumeUserSubscriptionDelta(s, d)
    PROVE  WindowInv'
<1> DEFINE p == sub[s].curP
           u == CheckedAdd(IF p = 0 THEN sub[s].used ELSE win[p].used, d)
           newS == [sub[s] EXCEPT !.used = u]
           newW == [win[p] EXCEPT !.used = CheckedAdd(@, d), !.updated = now, !.manual = TRUE]
<1>0. /\ sub \in [SubIds -> SubRows] /\ win \in [WinIds -> WinRows]
      /\ (p # 0 => p \in WinIds)
  <2>1. TypeOK
    BY DEF WindowInv, Inv
  <2> QED  BY <2>1, References DEF TypeOK
<1>a. /\ win' = IF p = 0 THEN win ELSE [win EXCEPT ![p] = newW]
      /\ sub' = [sub EXCEPT ![s] = newS]
  <2>1. TypeOK
    BY DEF WindowInv, Inv
  <2> QED  BY <2>1 DEF PostConsumeUserSubscriptionDelta, TypeOK
<1>1. Loadable(p, s, "period") /\ UNCHANGED <<rec, subSeq, winSeq>>
  BY DEF PostConsumeUserSubscriptionDelta
<1> HIDE DEF u
<1>2. ASSUME NEW w \in WinIds
      PROVE  /\ SameWindow(win'[w], win[w]) /\ win'[w].closed = win[w].closed
             /\ win'[w].used = IF w = p THEN CheckedAdd(win[p].used, d) ELSE win[w].used
  <2>1. win'[w] = IF p # 0 /\ w = p
                  THEN [win[w] EXCEPT !.used = CheckedAdd(@, d), !.updated = now, !.manual = TRUE]
                  ELSE win[w]
    BY <1>0, <1>a
  <2>2. win[w] \in WinRows /\ w # 0
    BY <1>0 DEF WinIds
  <2> HIDE DEF p
  <2> QED  BY <2>1, <2>2 DEF WinRows, SameWindow
<1>3. ASSUME NEW x \in SubIds
      PROVE  /\ sub'[x].curP = sub[x].curP /\ sub'[x].curF = sub[x].curF
             /\ sub'[x].plan = sub[x].plan /\ sub'[x].status = sub[x].status
             /\ sub'[x].used = IF x = s THEN u ELSE sub[x].used
  BY <1>0, <1>a DEF SubRows
<1>4. ASSUME NEW x \in SubIds, sub[x].curP # 0, win[sub[x].curP].kind # "none"
      PROVE  win'[sub[x].curP].used = sub'[x].used
  <2>0. sub[x].curP \in WinIds
    BY <1>4, References DEF WindowInv, Inv
  <2>1. win[sub[x].curP].sub = x /\ win[sub[x].curP].used = sub[x].used
    BY <1>4 DEF WindowInv, RowsFit, RowFits, PeriodFits
  <2>2. CASE x = s
    BY <1>2, <1>3, <1>4, <2>0, <2>2 DEF u
  <2>3. CASE x # s
    <3>1. sub[x].curP # p
      BY <1>1, <1>4, <2>1, <2>3 DEF Loadable
    <3> QED  BY <1>2, <1>3, <2>0, <2>1, <2>3, <3>1
  <2> QED  BY <2>2, <2>3
<1>5. \A y \in Requests : rec'[y] = rec[y]
  BY <1>1
<1> QED  BY <1>1, <1>2, <1>3, <1>4, <1>5, UsageStep

\* CleanupSubscriptionQuotaWindows.
LEMMA CleanupWindows ==
    ASSUME WindowInv, Inv', CleanupSubscriptionQuotaWindows
    PROVE  WindowInv'
<1>0. \A w \in WinIds : \/ win'[w] = win[w]
                        \/ win'[w] = NoWin /\ win[w].closed /\ w \notin Held
  BY DEF CleanupSubscriptionQuotaWindows
<1>1. UNCHANGED <<sub, rec, subSeq, winSeq>>
  BY DEF CleanupSubscriptionQuotaWindows
<1>2. NoWin.kind = "none"
  BY DEF NoWin
<1>3. \A x \in SubIds : /\ sub[x].curP # 0 => sub[x].curP \in WinIds
                        /\ sub[x].curF # 0 => sub[x].curF \in WinIds
  BY References DEF WindowInv, Inv
<1>4. IdsInOrder'
  BY <1>0, <1>1, <1>2 DEF WindowInv, IdsInOrder
<1>5. RowsFit'
  <2> SUFFICES ASSUME NEW x \in SubIds
               PROVE  RowFits(x, sub[x], win')
    BY <1>1 DEF RowsFit
  <2>1. RowFits(x, sub[x], win)
    BY DEF WindowInv, RowsFit
  <2> QED  BY <1>0, <1>2, <1>3, <2>1 DEF RowFits, PeriodFits, FiveHourFits, InUse
<1>6. OpenIsCurrent' /\ OneWindowInForce'
  BY <1>0, <1>1, <1>2 DEF WindowInv, OpenIsCurrent, OneWindowInForce
<1>7. RecordsFindWindows'
  <2> SUFFICES ASSUME NEW r \in Requests, Live(r)
               PROVE  /\ Exists(rec[r].period)' /\ Loadable(rec[r].period, rec[r].sub, "period")'
                      /\ Loadable(rec[r].five, rec[r].sub, "five_hour")'
    BY <1>1 DEF RecordsFindWindows, Live
  <2>1. rec[r].period \in Held /\ rec[r].five \in Held
    BY DEF Held
  <2>2. /\ rec[r].period # 0 => rec[r].period \in WinIds
        /\ rec[r].five # 0 => rec[r].five \in WinIds
    BY References DEF WindowInv, Inv
  <2>3. /\ Exists(rec[r].period) /\ Loadable(rec[r].period, rec[r].sub, "period")
        /\ Loadable(rec[r].five, rec[r].sub, "five_hour")
    BY DEF WindowInv, RecordsFindWindows
  <2> QED  BY <1>0, <1>1, <2>1, <2>2, <2>3 DEF Exists, Loadable
<1> QED  BY <1>4, <1>5, <1>6, <1>7 DEF WindowInv

-----------------------------------------------------------------------------
(* Steps that open windows.                                                 *)

\* A step that opens the windows after winSeq, each the current one of a row,
\* closes the windows W, and gives up a current window only by closing it.
LEMMA OpeningStep ==
    ASSUME WindowInv, Inv', NEW W, winSeq <= winSeq', subSeq <= subSeq',
           \A w \in WinIds : w <= winSeq =>
               SameWindow(win'[w], win[w]) /\ (~win'[w].closed => ~win[w].closed /\ w \notin W),
           \A w \in WinIds : w > winSeq' => win'[w].kind = "none",
           \A w \in WinIds : w > winSeq /\ w <= winSeq' =>
               /\ win'[w].sub \in SubIds /\ win'[w].sub <= subSeq'
               /\ sub'[win'[w].sub].status # "none"
               /\ w = CurrentOf(sub'[win'[w].sub], win'[w].kind),
           \A x \in SubIds : /\ RowFits(x, sub'[x], win') 
                             /\ x > subSeq' => sub'[x].status = "none"
                             /\ sub'[x].curP <= winSeq' /\ sub'[x].curF <= winSeq',
           \A x \in SubIds : sub'[x].status # "none" /\ x <= subSeq =>
               /\ sub[x].status # "none"
               /\ sub'[x].curP = sub[x].curP \/ sub[x].curP = 0 \/ sub[x].curP \in W
               /\ sub'[x].curF = sub[x].curF \/ sub[x].curF = 0 \/ sub[x].curF \in W,
           \A r \in Requests :
               \/ rec'[r] = rec[r]
               \/ /\ rec'[r].period <= winSeq' /\ rec'[r].five <= winSeq'
                  /\ Exists(rec[r].period)' /\ Loadable(rec[r].period, rec[r].sub, "period")'
                  /\ Loadable(rec[r].five, rec[r].sub, "five_hour")'
    PROVE  WindowInv'
<1>0. TypeOK /\ TypeOK'
  BY DEF WindowInv, Inv
<1>1. winSeq \in Nat /\ winSeq' \in Nat /\ subSeq \in Nat /\ subSeq' \in Nat
      /\ WinIds \subseteq Nat /\ SubIds \subseteq Nat
  BY <1>0 DEF TypeOK, WinIds, SubIds
<1>2. ASSUME NEW w \in WinIds, w <= winSeq, win'[w].kind # "none"
      PROVE  win[w].kind # "none" /\ win[w].sub \in SubIds /\ win[w].sub <= subSeq
             /\ win'[w].sub = win[w].sub /\ win'[w].kind = win[w].kind
  <2>1. SameWindow(win'[w], win[w])
    BY <1>2
  <2>2. win[w].kind # "none"
    BY <1>2, <2>1 DEF SameWindow
  <2>3. win[w].sub \in 1 .. subSeq /\ subSeq <= MaxSub /\ MaxSub \in Nat
    BY <1>0, <2>2, BoundsAssumption DEF WindowInv, IdsInOrder, TypeOK
  <2>4. win[w].sub \in SubIds /\ win[w].sub <= subSeq
    BY <1>1, <2>3 DEF SubIds
  <2> QED  BY <2>1, <2>2, <2>4 DEF SameWindow
<1>3. \A w \in WinIds : w <= winSeq \/ (w > winSeq /\ w <= winSeq') \/ w > winSeq'
  BY <1>1
<1>4. IdsInOrder'
  <2>1. ASSUME NEW w \in WinIds, win'[w].kind # "none"
        PROVE  win'[w].sub \in 1 .. subSeq'
    <3>0. w \in Nat
      BY <1>1
    <3>1. win'[w].sub \in SubIds /\ win'[w].sub <= subSeq'
      <4>1. CASE w <= winSeq
        <5>1. win'[w].sub \in SubIds /\ win'[w].sub <= subSeq
          BY <1>2, <2>1, <4>1
        <5>2. \A n \in Nat : n <= subSeq => n <= subSeq'
          BY <1>1
        <5>3. win'[w].sub \in Nat
          BY <1>1, <5>1
        <5> QED  BY <5>1, <5>2, <5>3
      <4>2. CASE w > winSeq
        <5>1. w <= winSeq'
          BY <1>1, <2>1, <3>0
        <5> QED  BY <4>2, <5>1
      <4> QED  BY <1>1, <3>0, <4>1, <4>2
    <3> QED  BY <1>1, <3>1 DEF SubIds
  <2>2. ASSUME NEW r \in Requests
        PROVE  rec'[r].period <= winSeq' /\ rec'[r].five <= winSeq'
    <3>1. rec[r].period <= winSeq /\ rec[r].five <= winSeq
      BY DEF WindowInv, IdsInOrder
    <3>2. rec[r].period \in 0 .. MaxWindow /\ rec[r].five \in 0 .. MaxWindow
      BY <1>0 DEF TypeOK, RecRows
    <3> QED  BY <1>1, <3>1, <3>2
  <2> QED  BY <2>1, <2>2 DEF IdsInOrder
<1>5. RowsFit'
  BY DEF RowsFit
<1>6. OpenIsCurrent'
  <2> SUFFICES ASSUME NEW w \in WinIds, win'[w].kind # "none", ~win'[w].closed,
                      sub'[win'[w].sub].status # "none"
               PROVE  w = CurrentOf(sub'[win'[w].sub], win'[w].kind)
    BY DEF OpenIsCurrent
  <2>1. CASE w > winSeq
    <3>1. w <= winSeq'
      BY <1>1, <2>1
    <3> QED  BY <2>1, <3>1
  <2>2. CASE w <= winSeq
    <3> DEFINE x == win[w].sub
    <3>1. x \in SubIds /\ x <= subSeq /\ win'[w].sub = x /\ win'[w].kind = win[w].kind
          /\ win[w].kind # "none"
      BY <1>2, <2>2
    <3>2. sub[x].status # "none" /\ w \notin W /\ ~win[w].closed
      BY <2>2, <3>1
    <3>3. w = CurrentOf(sub[x], win[w].kind)
      BY <3>1, <3>2 DEF WindowInv, OpenIsCurrent
    <3>4. w # 0
      BY DEF WinIds
    <3>5. /\ sub'[x].curP = sub[x].curP \/ sub[x].curP = 0 \/ sub[x].curP \in W
          /\ sub'[x].curF = sub[x].curF \/ sub[x].curF = 0 \/ sub[x].curF \in W
      BY <3>1
    <3> HIDE DEF x
    <3> QED  BY <3>1, <3>2, <3>3, <3>4, <3>5 DEF CurrentOf
  <2> QED  BY <1>1, <2>1, <2>2
<1>7. OneWindowInForce'
  <2> SUFFICES ASSUME NEW u \in WinIds, NEW w \in WinIds, win'[u].kind # "none",
                      win'[u].kind = win'[w].kind, win'[u].sub = win'[w].sub,
                      ~win'[u].closed, ~win'[w].closed
               PROVE  u = w
    BY DEF OneWindowInForce
  <2>1. CASE sub'[win'[u].sub].status # "none"
    BY <1>6, <2>1 DEF OpenIsCurrent
  <2>2. CASE sub'[win'[u].sub].status = "none"
    <3>1. u <= winSeq /\ w <= winSeq
      BY <1>3, <2>2
    <3>2. /\ win[u].kind # "none" /\ win[u].kind = win[w].kind /\ win[u].sub = win[w].sub
      BY <1>2, <3>1
    <3>3. ~win[u].closed /\ ~win[w].closed
      BY <3>1
    <3> QED  BY <3>2, <3>3 DEF WindowInv, OneWindowInForce
  <2> QED  BY <2>1, <2>2
<1>8. RecordsFindWindows'
  <2> SUFFICES ASSUME NEW r \in Requests, Live(r)'
               PROVE  /\ Exists(rec[r].period)' /\ Loadable(rec[r].period, rec[r].sub, "period")'
                      /\ Loadable(rec[r].five, rec[r].sub, "five_hour")'
    BY DEF RecordsFindWindows
  <2>1. CASE rec'[r] = rec[r]
    <3>1. /\ Exists(rec[r].period) /\ Loadable(rec[r].period, rec[r].sub, "period")
          /\ Loadable(rec[r].five, rec[r].sub, "five_hour")
      BY <2>1 DEF WindowInv, RecordsFindWindows, Live
    <3>2. /\ rec[r].period # 0 => rec[r].period \in WinIds
          /\ rec[r].five # 0 => rec[r].five \in WinIds
      BY <1>0, References
    <3>3. rec[r].period <= winSeq /\ rec[r].five <= winSeq
      BY DEF WindowInv, IdsInOrder
    <3> QED  BY <2>1, <3>1, <3>2, <3>3 DEF Exists, Loadable, SameWindow
  <2> QED  BY <2>1
<1> QED  BY <1>4, <1>5, <1>6, <1>7, <1>8 DEF WindowInv

\* Admission and an administrator's change of balance turn subscription s over,
\* and the candidates past that came before it, and open a period window for s if
\* newP and a five-hour window if newF.
Window1(s, newP) == IF newP THEN winSeq + 1 ELSE MaybeReset(sub[s], now).curP

LastWindow(newP, newF) == winSeq + (IF newP THEN 1 ELSE 0) + (IF newF THEN 1 ELSE 0)

Window2(s, newP, newF) == IF newF THEN LastWindow(newP, newF) ELSE MaybeReset(sub[s], now).curF

Retired(s, past, newF) ==
    {sub[x].curP : x \in {x \in past \cup {s} : ResetFires(sub[x], now)}}
      \cup (IF newF THEN {MaybeReset(sub[s], now).curF} ELSE {})

TurnsOver(s, past, newP, newF) ==
    /\ s \in SubIds /\ past \subseteq SubIds \ {s} /\ newP \in BOOLEAN /\ newF \in BOOLEAN
    /\ \A x \in past \cup {s} : sub[x].status = "active" /\ CurrentLoadable(x)
    /\ newP => MaybeReset(sub[s], now).curP = 0
    /\ LastWindow(newP, newF) <= MaxWindow

\* The windows it charges: old ones are current ones of s, new ones have new ids,
\* the two are different, and neither is retired.
LEMMA TurnsOverIds ==
    ASSUME WindowInv, NEW s, NEW past, NEW newP, NEW newF, TurnsOver(s, past, newP, newF)
    PROVE  LET p == Window1(s, newP)
               f == Window2(s, newP, newF)
               last == LastWindow(newP, newF)
               W == Retired(s, past, newF)
           IN  /\ last \in Nat /\ last >= winSeq
               /\ newP => p = winSeq + 1 /\ p <= last /\ p \in WinIds
               /\ newF => f = last /\ f > winSeq /\ f \in WinIds
               /\ ~newP => p = 0 \/ (p \in WinIds /\ p = sub[s].curP /\ p <= winSeq)
               /\ ~newF => f = 0 \/ (f \in WinIds /\ f = sub[s].curF /\ f <= winSeq)
               /\ p # 0 => p # f
               /\ p # 0 => p \notin W
               /\ f # 0 => f \notin W
               /\ \A w \in WinIds : w > winSeq /\ w <= last => (newP /\ w = p) \/ (newF /\ w = f)
               /\ \A w \in W \cap WinIds : w <= winSeq /\ win[w].sub \in past \cup {s}
<1> DEFINE p == Window1(s, newP)
           f == Window2(s, newP, newF)
           last == LastWindow(newP, newF)
           W == Retired(s, past, newF)
           row == MaybeReset(sub[s], now)
<1>0. TypeOK /\ winSeq \in Nat /\ MaxWindow \in Nat /\ newP \in BOOLEAN /\ newF \in BOOLEAN
      /\ s \in SubIds /\ last <= MaxWindow
  BY BoundsAssumption DEF WindowInv, Inv, TypeOK, TurnsOver
<1>1. \A x \in past \cup {s} : /\ x \in SubIds /\ sub[x] \in SubRows /\ CurrentLoadable(x)
                               /\ sub[x].status = "active"
                               /\ sub[x].curP <= winSeq /\ sub[x].curF <= winSeq
  BY <1>0 DEF TypeOK, TurnsOver, WindowInv, IdsInOrder
<1>2. /\ row.curF = sub[s].curF
      /\ row.curP = 0 \/ (row.curP = sub[s].curP /\ ~ResetFires(sub[s], now))
      /\ newP => row.curP = 0
  BY <1>1, MaybeResetFields DEF TurnsOver
<1>3. /\ sub[s].curP \in 0 .. MaxWindow /\ sub[s].curF \in 0 .. MaxWindow
      /\ sub[s].curP # 0 => sub[s].curP \in WinIds /\ win[sub[s].curP].kind = "period"
      /\ sub[s].curF # 0 => sub[s].curF \in WinIds /\ win[sub[s].curF].kind = "five_hour"
  BY <1>0, <1>1, References DEF CurrentLoadable, Loadable
<1> HIDE DEF row
<1>4. /\ p = IF newP THEN winSeq + 1 ELSE row.curP
      /\ f = IF newF THEN last ELSE row.curF
      /\ last = winSeq + (IF newP THEN 1 ELSE 0) + (IF newF THEN 1 ELSE 0)
      /\ W = {sub[x].curP : x \in {x \in past \cup {s} : ResetFires(sub[x], now)}}
               \cup (IF newF THEN {row.curF} ELSE {})
  BY DEF Window1, Window2, LastWindow, Retired, row
<1> HIDE DEF p, f, last, W
<1>5. last \in Nat /\ last >= winSeq
  BY <1>0, <1>4
<1>6. newP => p = winSeq + 1 /\ p <= last /\ p \in WinIds
  BY <1>0, <1>4 DEF WinIds
<1>7. newF => f = last /\ f > winSeq /\ f \in WinIds
  BY <1>0, <1>4 DEF WinIds
<1>8. ~newP => p = 0 \/ (p \in WinIds /\ p = sub[s].curP /\ p <= winSeq)
  BY <1>0, <1>1, <1>2, <1>3, <1>4
<1>9. ~newF => f = 0 \/ (f \in WinIds /\ f = sub[s].curF /\ f <= winSeq)
  BY <1>0, <1>1, <1>2, <1>3, <1>4
<1>10. p # 0 => p # f
  <2>1. CASE newP /\ newF
    BY <1>0, <1>4, <2>1
  <2>2. CASE newP /\ ~newF
    BY <1>0, <1>6, <1>9, <2>2
  <2>3. CASE ~newP /\ newF
    BY <1>0, <1>5, <1>7, <1>8, <2>3 DEF WinIds
  <2>4. CASE ~newP /\ ~newF
    BY <1>3, <1>8, <1>9, <2>4
  <2> QED  BY <2>1, <2>2, <2>3, <2>4
<1>11. ASSUME NEW w \in W \cap WinIds
       PROVE  /\ w <= winSeq /\ win[w].sub \in past \cup {s}
              /\ \/ \E x \in past \cup {s} : /\ ResetFires(sub[x], now) /\ w = sub[x].curP
                                             /\ win[w].kind = "period" /\ win[w].sub = x
                 \/ newF /\ w = sub[s].curF /\ win[w].kind = "five_hour" /\ win[w].sub = s
  <2>0. w # 0
    BY DEF WinIds
  <2>1. CASE newF /\ w = row.curF
    BY <1>1, <1>2, <2>0, <2>1 DEF CurrentLoadable, Loadable
  <2>2. CASE \E x \in past \cup {s} : ResetFires(sub[x], now) /\ w = sub[x].curP
    BY <1>1, <2>0, <2>2 DEF CurrentLoadable, Loadable
  <2> QED  BY <1>4, <2>1, <2>2
<1>12. p # 0 => p \notin W
  <2>1. SUFFICES ASSUME p # 0, p \in W
                 PROVE  FALSE
    OBVIOUS
  <2>2. p \in WinIds
    BY <1>6, <1>8, <2>1
  <2>3. p <= winSeq
    BY <1>11, <2>1, <2>2
  <2>4. ~newP
    BY <1>0, <1>6, <2>3
  <2>5. p = sub[s].curP /\ p = row.curP /\ ~ResetFires(sub[s], now) /\ win[p].kind = "period"
        /\ win[p].sub = s
    BY <1>1, <1>2, <1>3, <1>4, <1>8, <2>1, <2>4 DEF CurrentLoadable, Loadable
  <2> QED  BY <1>11, <2>1, <2>2, <2>5
<1>13. f # 0 => f \notin W
  <2>1. SUFFICES ASSUME f # 0, f \in W
                 PROVE  FALSE
    OBVIOUS
  <2>2. f \in WinIds
    BY <1>7, <1>9, <2>1
  <2>3. f <= winSeq
    BY <1>11, <2>1, <2>2
  <2>4. ~newF
    BY <1>0, <1>7, <2>3, <1>5
  <2>5. f = sub[s].curF /\ win[f].kind = "five_hour"
    BY <1>3, <1>9, <2>1, <2>4
  <2> QED  BY <1>11, <2>1, <2>2, <2>4, <2>5
<1>14. \A w \in WinIds : w > winSeq /\ w <= last => (newP /\ w = p) \/ (newF /\ w = f)
  BY <1>0, <1>4 DEF WinIds
<1> QED  BY <1>5, <1>6, <1>7, <1>8, <1>9, <1>10, <1>11, <1>12, <1>13, <1>14 DEF p, f, last, W

\* Such a step keeps the invariant.
LEMMA TurnsOverStep ==
    ASSUME WindowInv, Inv', NEW s, NEW past, NEW newP, NEW newF, TurnsOver(s, past, newP, newF),
           NEW p, p = Window1(s, newP), NEW f, f = Window2(s, newP, newF),
           winSeq' = LastWindow(newP, newF), UNCHANGED subSeq,
           \A w \in WinIds : ~(newP /\ w = p) /\ ~(newF /\ w = f) =>
               /\ SameWindow(win'[w], win[w])
               /\ win'[w].closed <=> (win[w].closed \/ w \in Retired(s, past, newF)),
           \A w \in WinIds : w # p /\ w # f => win'[w].used = win[w].used,
           newP => /\ win'[p].kind = "period" /\ win'[p].sub = s /\ ~win'[p].closed
                   /\ win'[p].total = sub[s].plan.total,
           newF => /\ win'[f].kind = "five_hour" /\ win'[f].sub = s /\ ~win'[f].closed
                   /\ win'[f].total = sub[s].plan.fiveHour,
           p # 0 => win'[p].used = sub'[s].used,
           /\ sub'[s].curP = p /\ sub'[s].curF = f /\ sub'[s].plan = sub[s].plan
           /\ sub'[s].status = sub[s].status,
           \A x \in SubIds \ {s} : IF x \in past THEN sub'[x] = MaybeReset(sub[x], now)
                                                 ELSE sub'[x] = sub[x],
           \A r \in Requests :
               \/ rec'[r] = rec[r]
               \/ /\ rec'[r].period <= winSeq' /\ rec'[r].five <= winSeq'
                  /\ Exists(rec[r].period)' /\ Loadable(rec[r].period, rec[r].sub, "period")'
                  /\ Loadable(rec[r].five, rec[r].sub, "five_hour")'
    PROVE  WindowInv'
<1> DEFINE W == Retired(s, past, newF)
           last == LastWindow(newP, newF)
<1>0. TypeOK /\ s \in SubIds /\ winSeq \in Nat /\ subSeq \in Nat /\ newP \in BOOLEAN
      /\ newF \in BOOLEAN /\ past \subseteq SubIds \ {s}
  BY DEF WindowInv, Inv, TypeOK, TurnsOver
<1>1. /\ last \in Nat /\ last >= winSeq
      /\ newP => p = winSeq + 1 /\ p <= last /\ p \in WinIds
      /\ newF => f = last /\ f > winSeq /\ f \in WinIds
      /\ ~newP => p = 0 \/ (p \in WinIds /\ p = sub[s].curP /\ p <= winSeq)
      /\ ~newF => f = 0 \/ (f \in WinIds /\ f = sub[s].curF /\ f <= winSeq)
      /\ p # 0 => p # f
      /\ p # 0 => p \notin W
      /\ f # 0 => f \notin W
      /\ \A w \in WinIds : w > winSeq /\ w <= last => (newP /\ w = p) \/ (newF /\ w = f)
      /\ \A w \in W \cap WinIds : w <= winSeq /\ win[w].sub \in past \cup {s}
  BY TurnsOverIds
<1>2. \A x \in past \cup {s} : /\ x \in SubIds /\ sub[x] \in SubRows /\ CurrentLoadable(x)
                               /\ sub[x].status = "active"
  BY <1>0 DEF TypeOK, TurnsOver
<1>3. \A x \in SubIds : /\ RowFits(x, sub[x], win)
                        /\ sub[x].curP # 0 => sub[x].curP \in WinIds
                        /\ sub[x].curF # 0 => sub[x].curF \in WinIds
                        /\ sub[x].curP <= winSeq /\ sub[x].curF <= winSeq
  BY <1>0, References DEF WindowInv, RowsFit, IdsInOrder
<1>i. WinIds \subseteq Nat /\ 0 \notin WinIds
  BY DEF WinIds
<1>e. /\ \A w \in WinIds : ~(newP /\ w = p) /\ ~(newF /\ w = f) =>
               /\ SameWindow(win'[w], win[w])
               /\ win'[w].closed <=> (win[w].closed \/ w \in W)
      /\ winSeq' = last
  OBVIOUS
<1> HIDE DEF W, last
<1>4. ASSUME NEW w \in WinIds, w <= winSeq, win[w].kind = "none" \/ win[w].sub # s
      PROVE  w # p /\ w # f
  <2>1. ~newP /\ p # 0 => win[p].kind = "period" /\ win[p].sub = s
    BY <1>1, <1>2 DEF CurrentLoadable, Loadable
  <2>2. ~newF /\ f # 0 => win[f].kind = "five_hour" /\ win[f].sub = s
    BY <1>1, <1>2 DEF CurrentLoadable, Loadable
  <2>3. w \in Nat /\ w # 0
    BY <1>i
  <2>4. w # p
    BY <1>0, <1>1, <1>4, <2>1, <2>3
  <2>5. w # f
    BY <1>0, <1>1, <1>4, <2>2, <2>3
  <2> QED  BY <2>4, <2>5
<1>5. ASSUME NEW w \in WinIds, w <= winSeq
      PROVE  ~(newP /\ w = p) /\ ~(newF /\ w = f)
  BY <1>0, <1>1, <1>5, <1>i
<1>6. RowFits(s, sub'[s], win')
  <2>1. PeriodFits(s, sub'[s], win')
    BY <1>1, <1>3, <1>5, <1>e, <1>0 DEF PeriodFits, RowFits, SameWindow
  <2>2. FiveHourFits(s, sub'[s], win')
    BY <1>1, <1>3, <1>5, <1>e, <1>0 DEF FiveHourFits, RowFits, SameWindow
  <2>3. InUse(sub'[s], win')
    <3>1. p # 0 => win'[p].kind # "none" /\ ~win'[p].closed
      BY <1>0, <1>1, <1>2, <1>3, <1>5, <1>e DEF RowFits, InUse, SameWindow
    <3>2. f # 0 => win'[f].kind # "none" /\ ~win'[f].closed
      BY <1>0, <1>1, <1>2, <1>3, <1>5, <1>e DEF RowFits, InUse, SameWindow
    <3> QED  BY <3>1, <3>2 DEF InUse
  <2> QED  BY <2>1, <2>2, <2>3 DEF RowFits
<1>7. ASSUME NEW x \in SubIds \ {s}, NEW w \in {sub[x].curP, sub[x].curF}, w # 0
      PROVE  w \in WinIds /\ SameWindow(win'[w], win[w]) /\ win'[w].used = win[w].used
             /\ (win'[w].closed <=> win[w].closed \/ w \in W) /\ (w \in W => win[w].sub \in past \cup {s})
  <2>1. w \in WinIds /\ w <= winSeq
    BY <1>3, <1>7
  <2>2. win[w].kind = "none" \/ win[w].sub = x
    BY <1>3, <1>7 DEF RowFits, PeriodFits, FiveHourFits
  <2>3. w # p /\ w # f
    BY <1>4, <2>1, <2>2
  <2> QED  BY <1>1, <1>e, <2>1, <2>3
<1>8. ASSUME NEW x \in SubIds \ {s}, x \notin past
      PROVE  RowFits(x, sub'[x], win')
  <2>1. sub'[x] = sub[x] /\ RowFits(x, sub[x], win)
    BY <1>3, <1>8
  <2>2. \A w \in {sub[x].curP, sub[x].curF} : w # 0 =>
           /\ SameWindow(win'[w], win[w]) /\ win'[w].used = win[w].used
           /\ win[w].kind # "none" /\ ~win[w].closed => ~win'[w].closed
    <3> SUFFICES ASSUME NEW w \in {sub[x].curP, sub[x].curF}, w # 0
                 PROVE  /\ SameWindow(win'[w], win[w]) /\ win'[w].used = win[w].used
                        /\ win[w].kind # "none" /\ ~win[w].closed => ~win'[w].closed
      OBVIOUS
    <3>1. win[w].kind = "none" \/ win[w].sub = x
      BY <2>1 DEF RowFits, PeriodFits, FiveHourFits
    <3> QED  BY <1>7, <1>8, <3>1
  <2>3. PeriodFits(x, sub[x], win') /\ FiveHourFits(x, sub[x], win')
    BY <2>1, <2>2 DEF RowFits, PeriodFits, FiveHourFits, SameWindow
  <2>4. InUse(sub[x], win')
    BY <2>1, <2>2 DEF RowFits, InUse, SameWindow
  <2> QED  BY <2>1, <2>3, <2>4 DEF RowFits
<1>9. ASSUME NEW x \in past
      PROVE  RowFits(x, sub'[x], win') /\ sub'[x].status = "active"
             /\ (sub'[x].curP = sub[x].curP \/ sub[x].curP \in W) /\ sub'[x].curF = sub[x].curF
             /\ (sub'[x].curP = sub[x].curP \/ sub'[x].curP = 0)
  <2>0. x \in SubIds /\ x # s /\ sub[x] \in SubRows /\ CurrentLoadable(x) /\ sub[x].status = "active"
    BY <1>0, <1>2
  <2>1. /\ sub'[x].status = "active" /\ sub'[x].plan = sub[x].plan /\ sub'[x].curF = sub[x].curF
        /\ ResetFires(sub[x], now) => sub'[x].curP = 0
        /\ ~ResetFires(sub[x], now) => sub'[x].curP = sub[x].curP /\ sub'[x].used = sub[x].used
    BY <2>0, MaybeResetFields
  <2>2. W = {sub[y].curP : y \in {y \in past \cup {s} : ResetFires(sub[y], now)}}
              \cup (IF newF THEN {sub[s].curF} ELSE {})
    <3>1. MaybeReset(sub[s], now).curF = sub[s].curF
      BY <1>2, MaybeResetFields
    <3> QED  BY <3>1 DEF W, Retired
  <2>3. sub[x].curF # 0 => sub[x].curF \notin W
    <3>1. SUFFICES ASSUME sub[x].curF # 0, sub[x].curF \in W
                   PROVE  FALSE
      OBVIOUS
    <3>2. win[sub[x].curF].kind = "five_hour" /\ win[sub[x].curF].sub = x
      BY <2>0, <3>1 DEF CurrentLoadable, Loadable
    <3>3. \A y \in past \cup {s} : sub[y].curP # 0 => win[sub[y].curP].kind = "period"
      BY <1>2 DEF CurrentLoadable, Loadable
    <3>4. sub[s].curF # 0 => win[sub[s].curF].sub = s
      BY <1>2 DEF CurrentLoadable, Loadable
    <3> QED  BY <2>0, <2>2, <3>1, <3>2, <3>3, <3>4
  <2>4. sub[x].curP # 0 /\ ~ResetFires(sub[x], now) => sub[x].curP \notin W
    <3>1. SUFFICES ASSUME sub[x].curP # 0, ~ResetFires(sub[x], now), sub[x].curP \in W
                   PROVE  FALSE
      OBVIOUS
    <3>2. win[sub[x].curP].kind = "period" /\ win[sub[x].curP].sub = x
      BY <2>0, <3>1 DEF CurrentLoadable, Loadable
    <3>3. \A y \in past \cup {s} : sub[y].curP # 0 => win[sub[y].curP].sub = y
      BY <1>2 DEF CurrentLoadable, Loadable
    <3>4. sub[s].curF # 0 => win[sub[s].curF].sub = s
      BY <1>2 DEF CurrentLoadable, Loadable
    <3> QED  BY <2>0, <2>2, <3>1, <3>2, <3>3, <3>4
  <2>5. sub[x].curF # 0 => /\ SameWindow(win'[sub[x].curF], win[sub[x].curF])
                           /\ win'[sub[x].curF].closed <=> win[sub[x].curF].closed
    BY <1>7, <2>0, <2>3
  <2>6. sub[x].curP # 0 /\ ~ResetFires(sub[x], now) =>
           /\ SameWindow(win'[sub[x].curP], win[sub[x].curP])
           /\ win'[sub[x].curP].closed <=> win[sub[x].curP].closed
           /\ win'[sub[x].curP].used = win[sub[x].curP].used
    BY <1>7, <2>0, <2>4
  <2>7. RowFits(x, sub[x], win)
    BY <1>3, <2>0
  <2>8. PeriodFits(x, sub'[x], win')
    BY <2>0, <2>1, <2>6, <2>7 DEF RowFits, PeriodFits, InUse, SameWindow
  <2>9. FiveHourFits(x, sub'[x], win')
    BY <2>0, <2>1, <2>5, <2>7 DEF RowFits, FiveHourFits, InUse, SameWindow
  <2>10. InUse(sub'[x], win')
    BY <2>0, <2>1, <2>5, <2>6, <2>7 DEF RowFits, InUse, SameWindow
  <2>11. sub'[x].curP = sub[x].curP \/ sub[x].curP \in W
    BY <1>9, <2>1, <2>2
  <2> QED  BY <2>1, <2>8, <2>9, <2>10, <2>11 DEF RowFits
<1>10. \A w \in WinIds : w <= winSeq =>
          SameWindow(win'[w], win[w]) /\ (~win'[w].closed => ~win[w].closed /\ w \notin W)
  BY <1>5, <1>e
<1>11. ASSUME NEW w \in WinIds, w > winSeq'
       PROVE  win'[w].kind = "none"
  <2>1. w > winSeq /\ w # p /\ w # f
    BY <1>0, <1>1, <1>11, <1>i, <1>e
  <2>2. win[w].kind = "none"
    BY <2>1 DEF WindowInv, IdsInOrder
  <2> QED  BY <1>e, <2>1, <2>2 DEF SameWindow
<1>s. s <= subSeq /\ sub[s].status = "active" /\ s \in Nat
  <2>1. sub[s].status = "active"
    BY <1>2
  <2>2. ~(s > subSeq)
    BY <1>0, <2>1 DEF WindowInv, IdsInOrder
  <2> QED  BY <1>0, <2>1, <2>2 DEF SubIds
<1>12. ASSUME NEW w \in WinIds, w > winSeq, w <= winSeq'
       PROVE  /\ win'[w].sub \in SubIds /\ win'[w].sub <= subSeq'
              /\ sub'[win'[w].sub].status # "none"
              /\ w = CurrentOf(sub'[win'[w].sub], win'[w].kind)
  <2>1. (newP /\ w = p) \/ (newF /\ w = f)
    BY <1>1, <1>12, <1>e
  <2> QED  BY <1>0, <1>s, <2>1 DEF CurrentOf
<1>13. ASSUME NEW x \in SubIds
       PROVE  /\ RowFits(x, sub'[x], win')
              /\ x > subSeq' => sub'[x].status = "none"
              /\ sub'[x].curP <= winSeq' /\ sub'[x].curF <= winSeq'
              /\ sub'[x].status # "none" => sub[x].status # "none"
              /\ sub'[x].curP = sub[x].curP \/ sub[x].curP = 0 \/ sub[x].curP \in W
              /\ sub'[x].curF = sub[x].curF \/ sub[x].curF = 0 \/ sub[x].curF \in W
  <2>0. /\ sub[x].curP \in Nat /\ sub[x].curF \in Nat
        /\ \A n \in Nat : n <= winSeq => n <= winSeq'
    BY <1>0, <1>1, <1>e, References
  <2>1. CASE x \notin past /\ x # s
    <3>1. RowFits(x, sub'[x], win') /\ sub'[x] = sub[x]
      BY <1>8, <2>1
    <3>2. x > subSeq => sub[x].status = "none"
      BY DEF WindowInv, IdsInOrder
    <3> QED  BY <1>3, <2>0, <3>1, <3>2
  <2>2. CASE x \in past
    <3>1. x > subSeq => sub[x].status = "none"
      BY DEF WindowInv, IdsInOrder
    <3>2. 0 <= winSeq' /\ sub[x].status = "active"
      BY <1>0, <1>1, <1>2, <1>e, <2>2
    <3> QED  BY <1>3, <1>9, <2>0, <2>2, <3>1, <3>2
  <2>3. CASE x = s
    <3>1. p <= winSeq' /\ f <= winSeq'
      <4>0. p \in WinIds \cup {0} /\ f \in WinIds \cup {0}
        BY <1>1
      <4>1. p \in Nat /\ f \in Nat
        BY <1>i, <4>0
      <4>2. p <= winSeq'
        BY <1>0, <1>1, <1>e, <4>1
      <4>3. f <= winSeq'
        BY <1>0, <1>1, <1>e, <4>1
      <4> QED  BY <4>2, <4>3
    <3>2. sub[s].curF = f \/ sub[s].curF = 0 \/ sub[s].curF \in W
      <4>1. MaybeReset(sub[s], now).curF = sub[s].curF
        BY <1>2, MaybeResetFields
      <4> QED  BY <4>1 DEF Window2, W, Retired
    <3>3. sub[s].curP = p \/ sub[s].curP = 0 \/ sub[s].curP \in W
      <4>1. /\ ResetFires(sub[s], now) => sub[s].curP \in W
        BY DEF W, Retired
      <4>2. ~ResetFires(sub[s], now) => MaybeReset(sub[s], now).curP = sub[s].curP
        BY <1>2, MaybeResetFields
      <4>3. newP => MaybeReset(sub[s], now).curP = 0
        BY DEF TurnsOver
      <4> QED  BY <4>1, <4>2, <4>3 DEF Window1
    <3>4. ~(s > subSeq)
      BY <1>0, <1>s
    <3> QED  BY <1>6, <1>s, <2>3, <3>1, <3>2, <3>3, <3>4
  <2> QED  BY <2>1, <2>2, <2>3
<1>14. winSeq <= winSeq' /\ subSeq <= subSeq'
  BY <1>0, <1>1, <1>e
<1> QED  BY <1>10, <1>11, <1>12, <1>13, <1>14, OpeningStep

\* What admission of request r to subscription s opens and charges.
OpensP(s) == MaybeReset(sub[s], now).curP = 0
HasF(s)   == sub[s].plan.fiveHour > 0
OpensF(s) == HasF(s) /\ ~FiveHourLive(MaybeReset(sub[s], now))
AdmitP(s) == Window1(s, OpensP(s))
AdmitF(s) == Window2(s, OpensP(s), OpensF(s))

\* The effect of Admit, field by field.
LEMMA AdmitFields ==
    ASSUME WindowInv, NEW r \in Requests, NEW a \in Quotas \ {0}, NEW s \in SubIds, NEW past,
           past \subseteq SubIds \ {s},
           \A x \in past \cup {s} : sub[x].status = "active" /\ CurrentLoadable(x),
           Admit(r, a, s, past)
    PROVE  /\ TurnsOver(s, past, OpensP(s), OpensF(s))
           /\ winSeq' = LastWindow(OpensP(s), OpensF(s))
           /\ HasF(s) /\ ~OpensF(s) => AdmitF(s) # 0
           /\ \A w \in WinIds : ~(OpensP(s) /\ w = AdmitP(s)) /\ ~(OpensF(s) /\ w = AdmitF(s)) =>
                  /\ SameWindow(win'[w], win[w]) /\ win'[w].manual = win[w].manual
                  /\ win'[w].closed <=> (win[w].closed \/ w \in Retired(s, past, OpensF(s)))
                  /\ win'[w].used = IF w = AdmitP(s) \/ (HasF(s) /\ w = AdmitF(s))
                                    THEN win[w].used + a ELSE win[w].used
           /\ OpensP(s) => LET v == win'[AdmitP(s)] IN
                  /\ v.kind = "period" /\ v.sub = s /\ ~v.closed /\ v.total = sub[s].plan.total
                  /\ v.opening = MaybeReset(sub[s], now).used /\ ~v.manual
                  /\ v.used = v.opening + a
           /\ OpensF(s) => LET v == win'[AdmitF(s)] IN
                  /\ v.kind = "five_hour" /\ v.sub = s /\ ~v.closed
                  /\ v.total = sub[s].plan.fiveHour /\ v.opening = 0 /\ ~v.manual /\ v.used = a
                  /\ v.end <= sub[s].end
           /\ AdmitP(s) \in WinIds
           /\ sub'[s].curP = AdmitP(s) /\ sub'[s].curF = AdmitF(s) /\ sub'[s].plan = sub[s].plan
           /\ sub'[s].status = sub[s].status /\ sub'[s].used = win'[AdmitP(s)].used
           /\ \A x \in SubIds \ {s} : IF x \in past THEN sub'[x] = MaybeReset(sub[x], now)
                                                    ELSE sub'[x] = sub[x]
           /\ \A x \in Requests \ {r} : rec'[x] = rec[x]
           /\ rec'[r].sub = s /\ rec'[r].period = AdmitP(s) /\ rec'[r].status = "reserved"
           /\ rec'[r].final = a /\ rec'[r].five = IF HasF(s) THEN AdmitF(s) ELSE 0
<1> DEFINE row   == MaybeReset(sub[s], now)
           newP  == OpensP(s)
           newF  == OpensF(s)
           p     == AdmitP(s)
           f     == AdmitF(s)
           last  == LastWindow(newP, newF)
           W     == Retired(s, past, newF)
           used  == PeriodUsed(row) + a
           charged(w) == [w EXCEPT !.used = @ + a, !.updated = now]
           five  == IF HasF(s) THEN f ELSE 0
           new   == [NoRec EXCEPT !.status = "reserved", !.sub = s, !.period = p,
                                  !.five = five, !.pre = a, !.final = a, !.version = 1,
                                  !.updated = now]
<1>0. TypeOK /\ now \in Nat /\ winSeq \in Nat /\ a \in Nat
  BY BoundsAssumption DEF WindowInv, Inv, TypeOK, Quotas
<1>1. sub[s] \in SubRows /\ row \in SubRows
  BY <1>0, MaybeResetType DEF TypeOK
<1>2. row.plan = sub[s].plan /\ row.status = sub[s].status /\ row.curF = sub[s].curF
      /\ row.end = sub[s].end
  BY <1>1, MaybeResetFields
<1>3. /\ newP <=> row.curP = 0
      /\ newF <=> row.plan.fiveHour > 0 /\ ~FiveHourLive(row)
      /\ HasF(s) <=> row.plan.fiveHour > 0
  BY <1>2 DEF OpensP, OpensF, HasF
<1>4. /\ p = IF newP THEN winSeq + 1 ELSE row.curP
      /\ last = winSeq + (IF newP THEN 1 ELSE 0) + (IF newF THEN 1 ELSE 0)
      /\ f = IF newF THEN last ELSE row.curF
      /\ W = {sub[x].curP : x \in {x \in past \cup {s} : ResetFires(sub[x], now)}}
               \cup (IF newF THEN {row.curF} ELSE {})
  BY DEF AdmitP, AdmitF, Window1, Window2, LastWindow, Retired
<1>5. last <= MaxWindow /\ winSeq' = last
  <2>1. \E z : /\ z = winSeq + (IF row.curP = 0 THEN 1 ELSE 0)
                    + (IF row.plan.fiveHour > 0 /\ ~FiveHourLive(row) THEN 1 ELSE 0)
               /\ z <= MaxWindow /\ winSeq' = z
    BY DEF Admit
  <2> HIDE DEF row, newP, newF, last
  <2> QED  BY <1>3, <1>4, <2>1
<1>6. TurnsOver(s, past, newP, newF)
  BY <1>5 DEF TurnsOver, OpensP, OpensF
<1>7. sub' = [x \in SubIds |->
                IF x = s THEN [row EXCEPT !.used = used, !.curP = p, !.curF = f]
                ELSE IF x \in past THEN MaybeReset(sub[x], now) ELSE sub[x]]
  <2> DEFINE P == IF row.curP = 0 THEN winSeq + 1 ELSE row.curP
             L == winSeq + (IF row.curP = 0 THEN 1 ELSE 0)
                    + (IF row.plan.fiveHour > 0 /\ ~FiveHourLive(row) THEN 1 ELSE 0)
             F == IF row.plan.fiveHour > 0 /\ ~FiveHourLive(row) THEN L ELSE row.curF
  <2>1. sub' = [x \in SubIds |->
                  IF x = s THEN [row EXCEPT !.used = used, !.curP = P, !.curF = F]
                  ELSE IF x \in past THEN MaybeReset(sub[x], now) ELSE sub[x]]
    BY DEF Admit
  <2> HIDE DEF row, newP, newF, p, f, last
  <2>2. P = p /\ L = last /\ F = f
    BY <1>3, <1>4
  <2> HIDE DEF P, L, F, used
  <2> QED  BY <2>1, <2>2
<1>8. \A w \in WinIds : win'[w] =
        IF w = p THEN charged(IF newP THEN PeriodWindow(s, row) ELSE win[p])
        ELSE IF w = f /\ HasF(s)
        THEN charged(IF newF THEN FiveHourWindow(s, row) ELSE win[f])
        ELSE IF w \in W THEN Closed(win[w], now) ELSE win[w]
  <2> DEFINE N == row.plan.fiveHour > 0 /\ ~FiveHourLive(row)
             P == IF row.curP = 0 THEN winSeq + 1 ELSE row.curP
             L == winSeq + (IF row.curP = 0 THEN 1 ELSE 0) + (IF N THEN 1 ELSE 0)
             F == IF N THEN L ELSE row.curF
  <2>1. \A w \in WinIds : win'[w] =
          IF w = P THEN charged(IF row.curP = 0 THEN PeriodWindow(s, row) ELSE win[P])
          ELSE IF w = F /\ row.plan.fiveHour > 0
          THEN charged(IF N THEN FiveHourWindow(s, row) ELSE win[F])
          ELSE IF w \in {sub[x].curP : x \in {x \in past \cup {s} : ResetFires(sub[x], now)}}
                          \cup (IF N THEN {row.curF} ELSE {})
          THEN Closed(win[w], now) ELSE win[w]
    BY DEF Admit
  <2> HIDE DEF row, newP, newF, p, f, last, charged, W
  <2>2. P = p /\ L = last /\ F = f /\ (N <=> newF)
    BY <1>3, <1>4
  <2> HIDE DEF P, L, F, N
  <2> QED  BY <1>3, <1>4, <2>1, <2>2
<1>9. rec' = [rec EXCEPT ![r] = new]
  <2> DEFINE N == row.plan.fiveHour > 0 /\ ~FiveHourLive(row)
             P == IF row.curP = 0 THEN winSeq + 1 ELSE row.curP
             L == winSeq + (IF row.curP = 0 THEN 1 ELSE 0) + (IF N THEN 1 ELSE 0)
             F == IF N THEN L ELSE row.curF
             G == IF row.plan.fiveHour > 0 THEN F ELSE 0
  <2>1. rec' = [rec EXCEPT ![r] =
                  [NoRec EXCEPT !.status = "reserved", !.sub = s, !.period = P, !.five = G,
                                !.pre = a, !.final = a, !.version = 1, !.updated = now]]
    BY DEF Admit
  <2> HIDE DEF row, newP, newF, p, f, last
  <2>2. P = p /\ L = last /\ F = f /\ (N <=> newF)
    BY <1>3, <1>4
  <2>3. G = five
    BY <1>3, <2>2
  <2> HIDE DEF P, L, F, N, G, five
  <2> QED  BY <2>1, <2>2, <2>3
<1>10. /\ newP => p = winSeq + 1 /\ p \in WinIds
       /\ newF => f \in WinIds
       /\ ~newP => p = 0 \/ p \in WinIds
       /\ ~newF => f = 0 \/ f \in WinIds
       /\ p # 0 => p # f /\ p \notin W
       /\ f # 0 => f \notin W
  BY <1>6, TurnsOverIds DEF AdmitP, AdmitF
<1>11. p \in WinIds
  BY <1>3, <1>4, <1>10
<1>12. HasF(s) /\ ~newF => f # 0
  BY <1>3, <1>4 DEF FiveHourLive
<1>13. \A w \in WinRows : LET v == charged(w) IN
          /\ v.kind = w.kind /\ v.sub = w.sub /\ v.total = w.total /\ v.end = w.end
          /\ v.opening = w.opening /\ v.manual = w.manual /\ v.closed = w.closed
          /\ v.used = w.used + a
  BY DEF WinRows
<1>14. \A w \in WinIds : win[w] \in WinRows
  BY <1>0 DEF TypeOK
<1>15. PeriodWindow(s, row) \in WinRows /\ FiveHourWindow(s, row) \in WinRows
  BY <1>0, <1>1, OpenedWindowTypes
<1> HIDE DEF row, newP, newF, p, f, last, charged, W, used, five, new
<1>16. 0 \notin WinIds
  BY DEF WinIds
<1>17. ASSUME NEW w \in WinIds, ~(newP /\ w = p), ~(newF /\ w = f)
       PROVE  /\ SameWindow(win'[w], win[w]) /\ win'[w].manual = win[w].manual
              /\ win'[w].closed <=> (win[w].closed \/ w \in W)
              /\ win'[w].used = IF w = p \/ (HasF(s) /\ w = f) THEN win[w].used + a
                                                               ELSE win[w].used
  <2>1. CASE w = p
    <3>1. win'[w] = charged(win[w]) /\ w \notin W
      BY <1>8, <1>10, <1>16, <1>17, <2>1
    <3> QED  BY <1>13, <1>14, <2>1, <3>1 DEF SameWindow
  <2>2. CASE w # p /\ w = f /\ HasF(s)
    <3>1. win'[w] = charged(win[w]) /\ w \notin W
      BY <1>8, <1>10, <1>16, <1>17, <2>2
    <3> QED  BY <1>13, <1>14, <2>2, <3>1 DEF SameWindow
  <2>3. CASE w # p /\ ~(w = f /\ HasF(s))
    <3>1. win'[w] = IF w \in W THEN Closed(win[w], now) ELSE win[w]
      BY <1>8, <2>3
    <3>2. win[w] \in WinRows
      BY <1>14
    <3>3. CASE w \in W
      <4>1. win'[w] = Closed(win[w], now)
        BY <3>1, <3>3
      <4> QED  BY <2>3, <3>2, <3>3, <4>1, ClosedFields DEF SameWindow
    <3>4. CASE w \notin W
      BY <2>3, <3>1, <3>4 DEF SameWindow
    <3> QED  BY <3>3, <3>4
  <2> QED  BY <2>1, <2>2, <2>3
<1>18. ASSUME newP
       PROVE  /\ win'[p].kind = "period" /\ win'[p].sub = s /\ ~win'[p].closed
              /\ win'[p].total = sub[s].plan.total
              /\ win'[p].opening = row.used /\ ~win'[p].manual
              /\ win'[p].used = win'[p].opening + a
  <2>1. win'[p] = charged(PeriodWindow(s, row))
    BY <1>8, <1>11, <1>18
  <2>2. LET v == PeriodWindow(s, row) IN
        /\ v.kind = "period" /\ v.sub = s /\ ~v.closed /\ v.total = row.plan.total
        /\ v.opening = row.used /\ ~v.manual /\ v.used = row.used
    BY DEF PeriodWindow, NewWindow
  <2> QED  BY <1>2, <1>13, <1>15, <2>1, <2>2
<1>19. ASSUME newF
       PROVE  /\ win'[f].kind = "five_hour" /\ win'[f].sub = s /\ ~win'[f].closed
              /\ win'[f].total = sub[s].plan.fiveHour /\ win'[f].opening = 0 /\ ~win'[f].manual
              /\ win'[f].used = a /\ win'[f].end <= sub[s].end
  <2>0. HasF(s) /\ f \in WinIds /\ f # p
    BY <1>3, <1>10, <1>11, <1>16, <1>19
  <2>1. win'[f] = charged(FiveHourWindow(s, row))
    BY <1>8, <1>19, <2>0
  <2>2. LET v == FiveHourWindow(s, row) IN
        /\ v.kind = "five_hour" /\ v.sub = s /\ ~v.closed /\ v.total = row.plan.fiveHour
        /\ v.opening = 0 /\ ~v.manual /\ v.used = 0
        /\ v.end = IF now + FiveHours > row.end THEN row.end ELSE now + FiveHours
    BY DEF FiveHourWindow, NewWindow
  <2>3. now + FiveHours \in Nat /\ row.end \in Nat
    BY <1>0, <1>1, BoundsAssumption DEF SubRows
  <2>4. FiveHourWindow(s, row).end <= row.end
    BY <2>2, <2>3
  <2>5. win'[f].used = 0 + a
    BY <1>13, <1>15, <2>1, <2>2
  <2> QED  BY <1>0, <1>2, <1>13, <1>15, <2>1, <2>2, <2>4, <2>5
<1>20. /\ sub'[s].curP = p /\ sub'[s].curF = f /\ sub'[s].plan = sub[s].plan
       /\ sub'[s].status = sub[s].status /\ sub'[s].used = used
  BY <1>1, <1>2, <1>7 DEF SubRows
<1>21. used = win'[p].used
  <2>1. used = PeriodUsed(row) + a
    BY DEF used
  <2>2. CASE newP
    <3>1. PeriodUsed(row) = row.used
      BY <1>3, <2>2 DEF PeriodUsed
    <3> QED  BY <1>18, <2>1, <2>2, <3>1
  <2>3. CASE ~newP
    <3>1. PeriodUsed(row) = win[p].used
      BY <1>3, <1>4, <2>3 DEF PeriodUsed
    <3>2. win'[p].used = win[p].used + a
      BY <1>8, <1>11, <1>13, <1>14, <2>3
    <3> QED  BY <2>1, <3>1, <3>2
  <2> QED  BY <2>2, <2>3
<1>22. \A x \in SubIds \ {s} : IF x \in past THEN sub'[x] = MaybeReset(sub[x], now)
                                             ELSE sub'[x] = sub[x]
  BY <1>7
<1>23. /\ \A x \in Requests \ {r} : rec'[x] = rec[x]
       /\ rec'[r] = new
  BY <1>0, <1>9 DEF TypeOK
<1>24. new.sub = s /\ new.period = p /\ new.status = "reserved" /\ new.final = a /\ new.five = five
  <2> DEFINE half == [NoRec EXCEPT !.status = "reserved", !.sub = s, !.period = p, !.five = five]
  <2>0. /\ s \in 0 .. MaxSub /\ p \in 0 .. MaxWindow /\ five \in 0 .. MaxWindow
        /\ 0 \in 0 .. MaxWindow /\ 0 \in Quotas /\ 0 \in 0 .. MaxSub
    BY <1>10, <1>11, <1>3, BoundsAssumption DEF SubIds, WinIds, Quotas, five
  <2>1. NoRec \in RecRows
    BY <2>0 DEF NoRec, RecRows
  <2>2. half \in RecRows /\ half.status = "reserved" /\ half.sub = s /\ half.period = p
        /\ half.five = five
    BY <2>0, <2>1 DEF RecRows
  <2>3. new = [half EXCEPT !.pre = a, !.final = a, !.version = 1, !.updated = now]
    BY DEF NoRec, new
  <2> HIDE DEF half
  <2> QED  BY <2>2, <2>3 DEF RecRows
<1>25. five = IF HasF(s) THEN f ELSE 0
  BY DEF five
<1>26. last = LastWindow(newP, newF) /\ W = Retired(s, past, newF)
  BY DEF last, W
<1> QED
  <2> USE DEF row, newP, newF, p, f
  <2>1. winSeq' = LastWindow(OpensP(s), OpensF(s)) /\ TurnsOver(s, past, OpensP(s), OpensF(s))
    BY <1>5, <1>6, <1>26
  <2> QED  BY <2>1, <1>11, <1>12, <1>17, <1>18, <1>19, <1>20, <1>21, <1>22, <1>23, <1>24, <1>25, <1>26

\* PreConsumeUserSubscription: the record of an admitted request names the open
\* windows of its subscription.
LEMMA PreConsumeWindows ==
    ASSUME WindowInv, Inv', NEW r \in Requests, NEW a \in Quotas \ {0},
           PreConsumeUserSubscription(r, a)
    PROVE  WindowInv'
<1>1. PICK c \in ValidSubs(now), s \in ValidSubs(now) :
         /\ \A x \in {x \in ValidSubs(now) : TriedBefore(c, x, s)} \cup {s} : CurrentLoadable(x)
         /\ Admit(r, a, s, {x \in ValidSubs(now) : TriedBefore(c, x, s)})
  BY DEF PreConsumeUserSubscription
<1> DEFINE past == {x \in ValidSubs(now) : TriedBefore(c, x, s)}
           newP == OpensP(s)
           newF == OpensF(s)
           p    == AdmitP(s)
           f    == AdmitF(s)
<1>2. /\ s \in SubIds /\ past \subseteq SubIds \ {s}
      /\ \A x \in past \cup {s} : sub[x].status = "active" /\ CurrentLoadable(x)
      /\ Admit(r, a, s, past)
  BY <1>1 DEF ValidSubs, TriedBefore
<1>3. UNCHANGED subSeq
  BY DEF PreConsumeUserSubscription
<1> HIDE DEF past
<1>4. /\ TurnsOver(s, past, newP, newF)
      /\ winSeq' = LastWindow(newP, newF)
      /\ HasF(s) /\ ~newF => f # 0
      /\ \A w \in WinIds : ~(newP /\ w = p) /\ ~(newF /\ w = f) =>
             /\ SameWindow(win'[w], win[w])
             /\ win'[w].closed <=> (win[w].closed \/ w \in Retired(s, past, newF))
             /\ win'[w].used = IF w = p \/ (HasF(s) /\ w = f) THEN win[w].used + a ELSE win[w].used
      /\ newP => /\ win'[p].kind = "period" /\ win'[p].sub = s /\ ~win'[p].closed
                 /\ win'[p].total = sub[s].plan.total
      /\ newF => /\ win'[f].kind = "five_hour" /\ win'[f].sub = s /\ ~win'[f].closed
                 /\ win'[f].total = sub[s].plan.fiveHour
      /\ p \in WinIds
      /\ sub'[s].curP = p /\ sub'[s].curF = f /\ sub'[s].plan = sub[s].plan
      /\ sub'[s].status = sub[s].status /\ sub'[s].used = win'[p].used
      /\ \A x \in SubIds \ {s} : IF x \in past THEN sub'[x] = MaybeReset(sub[x], now)
                                               ELSE sub'[x] = sub[x]
      /\ \A x \in Requests \ {r} : rec'[x] = rec[x]
      /\ rec'[r].sub = s /\ rec'[r].period = p
      /\ rec'[r].five = IF HasF(s) THEN f ELSE 0
  BY <1>2, AdmitFields
<1>5. /\ newP => p <= LastWindow(newP, newF)
      /\ newF => f = LastWindow(newP, newF)
      /\ ~newP => p = 0 \/ (p = sub[s].curP /\ p <= winSeq)
      /\ ~newF => f = 0 \/ (f \in WinIds /\ f = sub[s].curF /\ f <= winSeq)
      /\ LastWindow(newP, newF) \in Nat /\ LastWindow(newP, newF) >= winSeq
      /\ p # f
  <2>1. 0 \notin WinIds
    BY DEF WinIds
  <2> QED  BY <1>4, <2>1, TurnsOverIds DEF AdmitP, AdmitF
<1>6. newF \in BOOLEAN /\ newP \in BOOLEAN /\ winSeq \in Nat
  BY DEF OpensP, OpensF, WindowInv, Inv, TypeOK
<1>7. p = Window1(s, newP) /\ f = Window2(s, newP, newF)
  BY DEF AdmitP, AdmitF
<1> HIDE DEF newP, newF, p, f
<1>8. p \in Nat /\ p # 0 /\ (~newF => f \in Nat)
  BY <1>4, <1>5 DEF WinIds
<1>9. p <= winSeq' /\ (IF HasF(s) THEN f ELSE 0) <= winSeq'
  <2>1. p <= winSeq'
    BY <1>4, <1>5, <1>6, <1>8
  <2>2. f <= winSeq'
    BY <1>4, <1>5, <1>6, <1>8
  <2> QED  BY <1>4, <1>5, <2>1, <2>2
<1>10. win'[p].kind = "period" /\ win'[p].sub = s
  <2>1. ~newP => win[p].kind = "period" /\ win[p].sub = s
    BY <1>2, <1>5, <1>8 DEF CurrentLoadable, Loadable
  <2>2. ~newP => SameWindow(win'[p], win[p])
    BY <1>4, <1>5
  <2> QED  BY <1>4, <2>1, <2>2 DEF SameWindow
<1>11. f # 0 => win'[f].kind = "five_hour" /\ win'[f].sub = s
  <2>1. ~newF /\ f # 0 => win[f].kind = "five_hour" /\ win[f].sub = s /\ f \in WinIds
    BY <1>2, <1>5 DEF CurrentLoadable, Loadable
  <2>2. ~newF /\ f # 0 => SameWindow(win'[f], win[f])
    BY <1>4, <1>5, <2>1
  <2> QED  BY <1>4, <2>1, <2>2 DEF SameWindow
<1>12. \A x \in Requests :
          \/ rec'[x] = rec[x]
          \/ /\ rec'[x].period <= winSeq' /\ rec'[x].five <= winSeq'
             /\ Exists(rec[x].period)' /\ Loadable(rec[x].period, rec[x].sub, "period")'
             /\ Loadable(rec[x].five, rec[x].sub, "five_hour")'
  <2> SUFFICES ASSUME NEW x \in Requests, x = r
               PROVE  /\ rec'[x].period <= winSeq' /\ rec'[x].five <= winSeq'
                      /\ Exists(rec[x].period)' /\ Loadable(rec[x].period, rec[x].sub, "period")'
                      /\ Loadable(rec[x].five, rec[x].sub, "five_hour")'
    BY <1>4
  <2>1. rec'[x].period <= winSeq' /\ rec'[x].five <= winSeq'
    BY <1>4, <1>9
  <2> QED  BY <1>4, <1>8, <1>10, <1>11, <2>1 DEF Exists, Loadable
<1>13. \A w \in WinIds : ~(newP /\ w = p) /\ ~(newF /\ w = f) =>
          /\ SameWindow(win'[w], win[w])
          /\ win'[w].closed <=> (win[w].closed \/ w \in Retired(s, past, newF))
  BY <1>4
<1>14. \A w \in WinIds : w # p /\ w # f => win'[w].used = win[w].used
  BY <1>4
<1> QED  BY <1>3, <1>4, <1>7, <1>12, <1>13, <1>14, TurnsOverStep

\* The windows that an administrator's change of balance opens.
BalanceP(s, remP) == remP >= 0 /\ OpensP(s)
BalanceF(s, remF) ==
    /\ remF >= 0 /\ ~FiveHourLive(MaybeReset(sub[s], now))
    /\ remF < MaybeReset(sub[s], now).plan.fiveHour

\* The effect of ChangeAdminBalance, field by field: a window whose usage it sets
\* is marked as set by hand.
LEMMA AdminBalanceFields ==
    ASSUME WindowInv, NEW s \in SubIds, NEW remP \in {-1} \cup Balances,
           NEW remF \in {-1} \cup Balances, ChangeAdminBalance(s, remP, remF),
           NEW newP, newP = BalanceP(s, remP), NEW newF, newF = BalanceF(s, remF),
           NEW p, p = Window1(s, newP), NEW f, f = Window2(s, newP, newF)
    PROVE  /\ TurnsOver(s, {}, newP, newF)
           /\ winSeq' = LastWindow(newP, newF)
           /\ \A w \in WinIds : ~(newP /\ w = p) /\ ~(newF /\ w = f) =>
                  /\ SameWindow(win'[w], win[w])
                  /\ win'[w].closed <=> (win[w].closed \/ w \in Retired(s, {}, newF))
                  /\ SameUsage(win'[w], win[w]) \/ (win'[w].manual /\ w \in {p, f})
           /\ newP => /\ win'[p].kind = "period" /\ win'[p].sub = s /\ ~win'[p].closed
                      /\ win'[p].total = sub[s].plan.total /\ win'[p].manual
           /\ newF => /\ win'[f].kind = "five_hour" /\ win'[f].sub = s /\ ~win'[f].closed
                      /\ win'[f].total = sub[s].plan.fiveHour /\ win'[f].manual
                      /\ win'[f].end <= sub[s].end
           /\ p # 0 => win'[p].used = sub'[s].used
           /\ sub'[s].curP = p /\ sub'[s].curF = f /\ sub'[s].plan = sub[s].plan
           /\ sub'[s].status = sub[s].status /\ sub'[s].end = sub[s].end
           /\ \A x \in SubIds \ {s} : sub'[x] = sub[x]
<1> DEFINE doP  == remP >= 0
           doF  == remF >= 0
           row  == MaybeReset(sub[s], now)
           plan == row.plan
           live == FiveHourLive(row)
           last == LastWindow(newP, newF)
           setF == doF /\ (newF \/ live)
           W    == Retired(s, {}, newF)
           put(w, u) == [w EXCEPT !.used = u, !.updated = now, !.manual = TRUE]
           uP   == plan.total - remP
           uF   == plan.fiveHour - remF
           u    == IF doP THEN uP ELSE row.used
<1>0. TypeOK /\ now \in Nat /\ winSeq \in Nat
  BY BoundsAssumption DEF WindowInv, Inv, TypeOK
<1>1. sub[s] \in SubRows /\ row \in SubRows
  BY <1>0, MaybeResetType DEF TypeOK
<1>2. /\ plan = sub[s].plan /\ row.status = sub[s].status /\ row.curF = sub[s].curF
      /\ row.end = sub[s].end
      /\ ResetFires(sub[s], now) => row.curP = 0
      /\ ~ResetFires(sub[s], now) => row.curP = sub[s].curP /\ row.used = sub[s].used
  BY <1>1, MaybeResetFields
<1>3. /\ newP <=> doP /\ row.curP = 0
      /\ newF <=> doF /\ ~live /\ remF < plan.fiveHour
      /\ newP \in BOOLEAN /\ newF \in BOOLEAN
  BY DEF BalanceP, BalanceF, OpensP
<1>4. /\ p = IF newP THEN winSeq + 1 ELSE row.curP
      /\ last = winSeq + (IF newP THEN 1 ELSE 0) + (IF newF THEN 1 ELSE 0)
      /\ f = IF newF THEN last ELSE row.curF
      /\ W = (IF ResetFires(sub[s], now) THEN {sub[s].curP} ELSE {}) \cup
             (IF newF THEN {row.curF} ELSE {})
  BY DEF Window1, Window2, LastWindow, Retired
<1>5. s \in ValidSubs(now) /\ CurrentLoadable(s)
  BY DEF ChangeAdminBalance
<1>6. /\ last <= MaxWindow /\ winSeq' = last
      /\ sub' = [sub EXCEPT ![s] = [row EXCEPT !.used = u, !.curP = p, !.curF = f]]
      /\ win' = [w \in WinIds |->
                   IF doP /\ w = p
                   THEN put(IF newP THEN PeriodWindow(s, row) ELSE win[p], uP)
                   ELSE IF setF /\ w = f
                   THEN put(IF newF THEN FiveHourWindow(s, row) ELSE win[f], uF)
                   ELSE IF w \in W THEN Closed(win[w], now) ELSE win[w]]
  <2> DEFINE nP == doP /\ row.curP = 0
             nF == doF /\ ~live /\ remF < plan.fiveHour
             pp == IF nP THEN winSeq + 1 ELSE row.curP
             ll == winSeq + (IF nP THEN 1 ELSE 0) + (IF nF THEN 1 ELSE 0)
             ff == IF nF THEN ll ELSE row.curF
             sF == doF /\ (nF \/ live)
             rr == (IF ResetFires(sub[s], now) THEN {sub[s].curP} ELSE {}) \cup
                   (IF nF THEN {row.curF} ELSE {})
  <2>1. /\ ll <= MaxWindow /\ winSeq' = ll
        /\ sub' = [sub EXCEPT ![s] = [row EXCEPT !.used = u, !.curP = pp, !.curF = ff]]
        /\ win' = [w \in WinIds |->
                     IF doP /\ w = pp
                     THEN put(IF nP THEN PeriodWindow(s, row) ELSE win[pp], uP)
                     ELSE IF sF /\ w = ff
                     THEN put(IF nF THEN FiveHourWindow(s, row) ELSE win[ff], uF)
                     ELSE IF w \in rr THEN Closed(win[w], now) ELSE win[w]]
    BY DEF ChangeAdminBalance
  <2> HIDE DEF row, last, live, put, uP, uF, u, doP, doF, plan, W
  <2>2. (nP <=> newP) /\ (nF <=> newF)
    BY <1>3
  <2>3. nP = newP /\ nF = newF
    BY <1>3, <2>2
  <2>4. pp = p /\ ll = last /\ ff = f /\ sF = setF /\ rr = W
    BY <1>3, <1>4, <2>2
  <2> HIDE DEF pp, ll, ff, sF, rr, nP, nF, setF
  <2> QED  BY <2>1, <2>3, <2>4
<1>7. TurnsOver(s, {}, newP, newF)
  BY <1>3, <1>5, <1>6 DEF TurnsOver, ValidSubs
<1>8. /\ newP => p = winSeq + 1 /\ p \in WinIds
      /\ newF => f \in WinIds
      /\ ~newP => p = 0 \/ (p \in WinIds /\ p = sub[s].curP)
      /\ ~newF => f = 0 \/ f \in WinIds
      /\ p # 0 => p # f /\ p \notin W
      /\ f # 0 => f \notin W
  BY <1>7, TurnsOverIds
<1>9. \A w \in WinRows : \A k : LET v == put(w, k) IN
          /\ v.kind = w.kind /\ v.sub = w.sub /\ v.total = w.total /\ v.end = w.end
          /\ v.opening = w.opening /\ v.manual /\ v.closed = w.closed /\ v.used = k
  BY DEF WinRows
<1>10. \A w \in WinIds : win[w] \in WinRows
  BY <1>0 DEF TypeOK
<1>11. PeriodWindow(s, row) \in WinRows /\ FiveHourWindow(s, row) \in WinRows
  BY <1>0, <1>1, OpenedWindowTypes
<1>12. (newF => setF /\ doF) /\ (newP => doP)
  BY <1>3
<1> HIDE DEF row, live, last, put, W, u, uP, uF, setF, doP, doF, plan
<1>13. 0 \notin WinIds
  BY DEF WinIds
<1>14. ASSUME NEW w \in WinIds, ~(newP /\ w = p), ~(newF /\ w = f)
       PROVE  /\ SameWindow(win'[w], win[w])
              /\ win'[w].closed <=> (win[w].closed \/ w \in W)
              /\ SameUsage(win'[w], win[w]) \/ (win'[w].manual /\ w \in {p, f})
  <2>0. win[w] \in WinRows
    BY <1>10
  <2>1. CASE doP /\ w = p
    <3>1. win'[w] = put(win[w], uP) /\ w \notin W
      BY <1>6, <1>8, <1>13, <1>14, <2>1
    <3> QED  BY <1>9, <2>0, <2>1, <3>1 DEF SameWindow
  <2>2. CASE ~(doP /\ w = p) /\ setF /\ w = f
    <3>1. win'[w] = put(win[w], uF) /\ w \notin W
      BY <1>6, <1>8, <1>13, <1>14, <2>2
    <3> QED  BY <1>9, <2>0, <2>2, <3>1 DEF SameWindow
  <2>3. CASE ~(doP /\ w = p) /\ ~(setF /\ w = f)
    <3>1. win'[w] = IF w \in W THEN Closed(win[w], now) ELSE win[w]
      BY <1>6, <2>3
    <3> QED  BY <2>0, <3>1, ClosedFields DEF SameWindow, SameUsage
  <2> QED  BY <2>1, <2>2, <2>3
<1>15. ASSUME newP
       PROVE  /\ win'[p].kind = "period" /\ win'[p].sub = s /\ ~win'[p].closed
              /\ win'[p].total = sub[s].plan.total /\ win'[p].manual
  <2>1. win'[p] = put(PeriodWindow(s, row), uP)
    BY <1>6, <1>8, <1>12, <1>15
  <2>2. LET v == PeriodWindow(s, row) IN
        v.kind = "period" /\ v.sub = s /\ ~v.closed /\ v.total = plan.total
    BY DEF PeriodWindow, NewWindow, plan
  <2> QED  BY <1>2, <1>9, <1>11, <2>1, <2>2
<1>16. ASSUME newF
       PROVE  /\ win'[f].kind = "five_hour" /\ win'[f].sub = s /\ ~win'[f].closed
              /\ win'[f].total = sub[s].plan.fiveHour /\ win'[f].manual
              /\ win'[f].end <= sub[s].end
  <2>0. f \in WinIds /\ f # p
    BY <1>8, <1>13, <1>16
  <2>1. win'[f] = put(FiveHourWindow(s, row), uF)
    BY <1>6, <1>12, <1>16, <2>0
  <2>2. LET v == FiveHourWindow(s, row) IN
        /\ v.kind = "five_hour" /\ v.sub = s /\ ~v.closed /\ v.total = plan.fiveHour
        /\ v.end = IF now + FiveHours > row.end THEN row.end ELSE now + FiveHours
    BY DEF FiveHourWindow, NewWindow, plan
  <2>3. now + FiveHours \in Nat /\ row.end \in Nat
    BY <1>0, <1>1, BoundsAssumption DEF SubRows
  <2>4. FiveHourWindow(s, row).end <= row.end
    BY <2>2, <2>3
  <2> QED  BY <1>2, <1>9, <1>11, <2>1, <2>2, <2>4
<1>17. /\ sub'[s].curP = p /\ sub'[s].curF = f /\ sub'[s].plan = sub[s].plan
       /\ sub'[s].status = sub[s].status /\ sub'[s].used = u /\ sub'[s].end = sub[s].end
  <2>1. sub'[s] = [row EXCEPT !.used = u, !.curP = p, !.curF = f]
    BY <1>0, <1>6 DEF TypeOK
  <2> QED  BY <1>1, <1>2, <2>1 DEF SubRows, plan
<1>18. p # 0 => win'[p].used = u
  <2>0. SUFFICES ASSUME p # 0
                 PROVE  win'[p].used = u
    OBVIOUS
  <2>1. p \in WinIds /\ p # f /\ p \notin W
    BY <1>3, <1>8, <2>0
  <2>2. CASE doP
    <3>1. win'[p] = put(IF newP THEN PeriodWindow(s, row) ELSE win[p], uP)
      BY <1>6, <2>1, <2>2
    <3> QED  BY <1>9, <1>10, <1>11, <2>1, <2>2, <3>1 DEF u
  <2>3. CASE ~doP
    <3>0. ~newP
      BY <1>12, <2>3
    <3>1. win'[p] = win[p] /\ row.curP = p
      BY <1>4, <1>6, <2>1, <2>3, <3>0
    <3>2. u = sub[s].used /\ p = sub[s].curP
      BY <1>2, <2>0, <2>3, <3>1 DEF u
    <3>3. RowFits(s, sub[s], win) /\ sub[s].status = "active"
      BY <1>5 DEF WindowInv, RowsFit, ValidSubs
    <3> QED  BY <2>0, <3>1, <3>2, <3>3 DEF RowFits, PeriodFits, InUse
  <2> QED  BY <2>2, <2>3
<1>19. \A x \in SubIds \ {s} : sub'[x] = sub[x]
  BY <1>0, <1>6 DEF TypeOK
<1> QED
  <2>1. last = LastWindow(newP, newF) /\ W = Retired(s, {}, newF)
    BY DEF last, W
  <2> QED  BY <1>6, <1>7, <1>14, <1>15, <1>16, <1>17, <1>18, <1>19, <2>1

\* ChangeAdminBalance.
LEMMA AdminBalanceWindows ==
    ASSUME WindowInv, Inv', NEW s \in SubIds, NEW remP \in {-1} \cup Balances,
           NEW remF \in {-1} \cup Balances, ChangeAdminBalance(s, remP, remF)
    PROVE  WindowInv'
<1> DEFINE newP == BalanceP(s, remP)
           newF == BalanceF(s, remF)
           p    == Window1(s, newP)
           f    == Window2(s, newP, newF)
<1> HIDE DEF newP, newF, p, f
<1>0. newP = BalanceP(s, remP) /\ newF = BalanceF(s, remF) /\ p = Window1(s, newP)
      /\ f = Window2(s, newP, newF)
  BY DEF newP, newF, p, f
<1>1. UNCHANGED <<rec, subSeq>>
  BY DEF ChangeAdminBalance
<1>2. \A w \in WinIds : ~(newP /\ w = p) /\ ~(newF /\ w = f) =>
          /\ SameWindow(win'[w], win[w])
          /\ win'[w].closed <=> (win[w].closed \/ w \in Retired(s, {}, newF))
          /\ SameUsage(win'[w], win[w]) \/ (win'[w].manual /\ w \in {p, f})
  BY <1>0, AdminBalanceFields
<1>3. \A w \in WinIds : w # p /\ w # f => win'[w].used = win[w].used
  BY <1>2 DEF SameUsage
<1>4. /\ TurnsOver(s, {}, newP, newF)
      /\ winSeq' = LastWindow(newP, newF)
      /\ newP => /\ win'[p].kind = "period" /\ win'[p].sub = s /\ ~win'[p].closed
                 /\ win'[p].total = sub[s].plan.total
      /\ newF => /\ win'[f].kind = "five_hour" /\ win'[f].sub = s /\ ~win'[f].closed
                 /\ win'[f].total = sub[s].plan.fiveHour
      /\ p # 0 => win'[p].used = sub'[s].used
      /\ sub'[s].curP = p /\ sub'[s].curF = f /\ sub'[s].plan = sub[s].plan
      /\ sub'[s].status = sub[s].status
      /\ \A x \in SubIds \ {s} : sub'[x] = sub[x]
  BY <1>0, AdminBalanceFields
<1>5. \A x \in SubIds \ {s} : IF x \in {} THEN sub'[x] = MaybeReset(sub[x], now)
                                          ELSE sub'[x] = sub[x]
  BY <1>4
<1>6. \A r \in Requests : rec'[r] = rec[r]
  BY <1>1
<1> QED  BY <1>0, <1>1, <1>2, <1>3, <1>4, <1>5, <1>6, TurnsOverStep

\* The rows that Replace writes for the new subscription.
LEMMA NewSubFields ==
    ASSUME TypeOK, NEW plan \in PlanRows, NEW end \in Nat
    PROVE  /\ FreshSub(plan, end).status = "active" /\ FreshSub(plan, end).plan = plan
           /\ \A row \in SubRows, w \in 0 .. MaxWindow, used \in Nat :
                 /\ ReplacementSub(plan, row, w, used, end).status = "active"
                 /\ ReplacementSub(plan, row, w, used, end).plan = plan
<1>1. FreshSub(plan, end).status = "active" /\ FreshSub(plan, end).plan = plan
  <2> DEFINE n == NextReset(now, plan, end)
             half == [NoSub EXCEPT !.status = "active", !.plan = plan]
  <2>1. half.status = "active" /\ half.plan = plan
    BY DEF NoSub
  <2>2. FreshSub(plan, end) = [half EXCEPT !.start = now, !.end = end, !.next = n,
                                           !.last = IF n > 0 THEN now ELSE 0]
    BY DEF FreshSub, NoSub
  <2>3. "status" \in DOMAIN half /\ "plan" \in DOMAIN half
    BY DEF NoSub
  <2> HIDE DEF half, n
  <2> QED  BY <2>1, <2>2, <2>3
<1>2. ASSUME NEW row \in SubRows, NEW w \in 0 .. MaxWindow, NEW used \in Nat
      PROVE  /\ ReplacementSub(plan, row, w, used, end).status = "active"
             /\ ReplacementSub(plan, row, w, used, end).plan = plan
  <2> DEFINE n == IF w = 0 THEN row.next ELSE win[w].end
             l == IF w = 0 THEN row.last ELSE win[w].start
             m == IF n > end THEN end ELSE n
             half == [NoSub EXCEPT !.status = "active", !.plan = plan, !.end = end]
  <2>1. half.status = "active" /\ half.plan = plan
    BY DEF NoSub
  <2>2. ReplacementSub(plan, row, w, used, end) =
          [half EXCEPT !.used = used, !.start = row.start, !.last = l, !.next = m]
    BY ZenonT(30) DEF ReplacementSub, NoSub
  <2>3. "status" \in DOMAIN half /\ "plan" \in DOMAIN half
    BY DEF NoSub
  <2> HIDE DEF half, n, l, m
  <2> QED  BY <2>1, <2>2, <2>3
<1> QED  BY <1>1, <1>2

\* The windows that a purchase closes.
WindowsOf(V) == UNION {CurrentWindows(s) : s \in V}

\* The effect of Replace on the rows: subscription id takes the place of those in V,
\* whose windows are W, with a period window p if newP and a five-hour window last
\* if newF.
Replaced(plan, V, id, newP, newF, p, last, W) ==
    /\ id \in SubIds /\ subSeq' = id /\ winSeq' = last /\ last \in 0 .. MaxWindow
    /\ sub'[id].status = "active" /\ sub'[id].plan = plan
    /\ sub'[id].curP = IF newP THEN p ELSE 0
    /\ sub'[id].curF = IF newF THEN last ELSE 0
    /\ \A s \in SubIds \ {id} :
          IF s \in V
          THEN /\ sub'[s].status = "cancelled" /\ sub'[s].plan = sub[s].plan
               /\ sub'[s].curF = sub[s].curF
               /\ \/ sub'[s].curP = 0
                  \/ sub'[s].curP = sub[s].curP /\ sub'[s].used = sub[s].used
          ELSE sub'[s] = sub[s]
    /\ \A w \in WinIds : ~(newP /\ w = p) /\ ~(newF /\ w = last) =>
          /\ SameWindow(win'[w], win[w]) /\ SameUsage(win'[w], win[w])
          /\ w \in W => win'[w].closed
          /\ w \notin W => win'[w] = win[w]
    /\ newP => /\ p \in WinIds /\ win'[p].kind = "period" /\ win'[p].sub = id
               /\ ~win'[p].closed /\ win'[p].total = plan.total
               /\ win'[p].used = sub'[id].used /\ win'[p].opening = win'[p].used
               /\ ~win'[p].manual
    /\ newF => /\ last \in WinIds /\ last > winSeq /\ (newP => last # p)
               /\ win'[last].kind = "five_hour" /\ win'[last].sub = id
               /\ ~win'[last].closed /\ win'[last].total = plan.fiveHour
               /\ win'[last].opening = win'[last].used /\ ~win'[last].manual

\* The effect of Replace, field by field.
LEMMA ReplaceFields ==
    ASSUME TypeOK, NEW plan \in PlanRows, NEW V, V \subseteq SubIds,
           NEW c \in 0 .. MaxSub, NEW src \in 0 .. MaxSub,
           NEW a \in 0 .. MaxWindow, NEW b \in 0 .. MaxWindow, a # 0 => b # 0,
           NEW used \in Nat, NEW usedF \in Nat, NEW end \in Nat,
           Replace(plan, V, c, src, a, b, used, usedF, end),
           NEW id, id = subSeq + 1, NEW newP, newP = (used > 0 \/ src # 0),
           NEW newF, newF = (a # 0), NEW p, p = winSeq + 1,
           NEW last, last = LastWindow(newP, newF), NEW W, W = WindowsOf(V)
    PROVE  Replaced(plan, V, id, newP, newF, p, last, W)
<1> DEFINE cur  == IF src = 0 THEN 0 ELSE MaybeReset(sub[src], now).curP
           new  == IF c = 0 THEN FreshSub(plan, end)
                   ELSE ReplacementSub(plan, MaybeReset(sub[c], now), cur, used, end)
           p1   == IF newP THEN p ELSE 0
           f1   == IF newF THEN last ELSE 0
           cap  == IF usedF > plan.fiveHour THEN plan.fiveHour ELSE usedF
           five == NewWindow("five_hour", id, plan.fiveHour, cap, win[a].start, win[b].end)
<1>0. now \in Nat /\ winSeq \in Nat /\ subSeq \in Nat /\ MaxWindow \in Nat /\ MaxSub \in Nat
  BY BoundsAssumption DEF TypeOK
<1>1. id <= MaxSub /\ last <= MaxWindow /\ winSeq' = last /\ subSeq' = id
  BY DEF Replace, LastWindow
<1>2. sub' = [s \in SubIds |->
                IF s = id THEN [new EXCEPT !.curP = p1, !.curF = f1]
                ELSE IF s \in V
                THEN [MaybeReset(sub[s], now) EXCEPT !.status = "cancelled", !.end = now]
                ELSE sub[s]]
  BY DEF Replace, LastWindow
<1>3. win' = [w \in WinIds |->
                IF newP /\ w = p THEN PeriodWindow(id, new)
                ELSE IF newF /\ w = last THEN five
                ELSE CloseAll(W, now)[w]]
  BY DEF Replace, LastWindow, WindowsOf
<1>4. \A s \in SubIds : sub[s] \in SubRows /\ MaybeReset(sub[s], now) \in SubRows
  BY <1>0, MaybeResetType DEF TypeOK
<1>5. cur \in 0 .. MaxWindow
  <2>1. 0 \in 0 .. MaxWindow
    BY <1>0
  <2>2. src # 0 => src \in SubIds
    BY <1>0 DEF SubIds
  <2>3. \A s \in SubIds : MaybeReset(sub[s], now).curP \in 0 .. MaxWindow
    BY <1>4 DEF SubRows
  <2> QED  BY <2>1, <2>2, <2>3
<1>6. new \in SubRows /\ new.status = "active" /\ new.plan = plan
  <2> HIDE DEF cur
  <2>1. c # 0 => c \in SubIds
    BY <1>0 DEF SubIds
  <2>2. CASE c = 0
    BY <1>0, <2>2, FreshSubType, NewSubFields
  <2>3. CASE c # 0
    <3>1. sub[c] \in SubRows /\ MaybeReset(sub[c], now) \in SubRows
      BY <1>4, <2>1, <2>3
    <3>2. PICK row \in SubRows : row = MaybeReset(sub[c], now)
      BY <3>1
    <3>3. new = ReplacementSub(plan, row, cur, used, end)
      BY <2>3, <3>2
    <3> HIDE DEF new
    <3>4. new \in SubRows
      BY <1>5, <3>3, ReplacementSubType
    <3>5. /\ ReplacementSub(plan, row, cur, used, end).status = "active"
          /\ ReplacementSub(plan, row, cur, used, end).plan = plan
      BY <1>5, NewSubFields
    <3> QED  BY <3>3, <3>4, <3>5
  <2> QED  BY <2>2, <2>3
<1>7. /\ newP \in BOOLEAN /\ newF \in BOOLEAN
      /\ last = winSeq + (IF newP THEN 1 ELSE 0) + (IF newF THEN 1 ELSE 0)
  BY DEF LastWindow
<1> HIDE DEF new, five, p1, f1, cap
<1>8. /\ id \in SubIds /\ last \in 0 .. MaxWindow
      /\ newP => p \in WinIds
      /\ newF => last \in WinIds /\ last > winSeq /\ (newP => last # p)
  BY <1>0, <1>1, <1>7 DEF SubIds, WinIds
<1>9. /\ sub'[id].status = "active" /\ sub'[id].plan = plan
      /\ sub'[id].curP = p1 /\ sub'[id].curF = f1 /\ sub'[id].used = new.used
  <2>1. sub'[id] = [new EXCEPT !.curP = p1, !.curF = f1]
    BY <1>2, <1>8
  <2> QED  BY <1>6, <2>1 DEF SubRows
<1>10. ASSUME NEW s \in SubIds \ {id}
       PROVE  IF s \in V
              THEN /\ sub'[s].status = "cancelled" /\ sub'[s].plan = sub[s].plan
                   /\ sub'[s].curF = sub[s].curF
                   /\ \/ sub'[s].curP = 0
                      \/ sub'[s].curP = sub[s].curP /\ sub'[s].used = sub[s].used
              ELSE sub'[s] = sub[s]
  <2>1. CASE s \in V
    <3> DEFINE row == MaybeReset(sub[s], now)
    <3>1. row \in SubRows /\ sub[s] \in SubRows
      BY <1>4
    <3>2. sub'[s] = [row EXCEPT !.status = "cancelled", !.end = now]
      BY <1>2, <2>1
    <3>3. /\ row.plan = sub[s].plan /\ row.curF = sub[s].curF
          /\ row.curP = 0 \/ (row.curP = sub[s].curP /\ row.used = sub[s].used)
      BY <3>1, MaybeResetFields
    <3> HIDE DEF row
    <3> QED  BY <2>1, <3>1, <3>2, <3>3 DEF SubRows
  <2>2. CASE s \notin V
    BY <1>2, <2>2
  <2> QED  BY <2>1, <2>2
<1>11. ASSUME NEW w \in WinIds, ~(newP /\ w = p), ~(newF /\ w = last)
       PROVE  /\ SameWindow(win'[w], win[w]) /\ SameUsage(win'[w], win[w])
              /\ w \in W => win'[w].closed
              /\ w \notin W => win'[w] = win[w]
  <2>1. win'[w] = CloseAll(W, now)[w]
    BY <1>3, <1>11
  <2>2. win \in [WinIds -> WinRows]
    BY DEF TypeOK
  <2> QED  BY <2>1, <2>2, CloseAllFields
<1>12. ASSUME newP
       PROVE  /\ win'[p].kind = "period" /\ win'[p].sub = id
              /\ ~win'[p].closed /\ win'[p].total = plan.total
              /\ win'[p].used = sub'[id].used /\ win'[p].opening = win'[p].used
              /\ ~win'[p].manual
  <2>1. win'[p] = PeriodWindow(id, new)
    BY <1>3, <1>8, <1>12
  <2> QED  BY <1>6, <1>9, <2>1 DEF PeriodWindow, NewWindow
<1>13. ASSUME newF
       PROVE  /\ win'[last].kind = "five_hour" /\ win'[last].sub = id
              /\ ~win'[last].closed /\ win'[last].total = plan.fiveHour
              /\ win'[last].opening = win'[last].used /\ ~win'[last].manual
  <2>1. win'[last] = five
    BY <1>3, <1>8, <1>13
  <2> QED  BY <2>1 DEF five, NewWindow
<1> QED
  <2>1. p1 = (IF newP THEN p ELSE 0) /\ f1 = (IF newF THEN last ELSE 0)
    BY DEF p1, f1
  <2> QED  BY <1>1, <1>8, <1>9, <1>10, <1>11, <1>12, <1>13, <2>1 DEF Replaced

\* A purchase replaces the valid subscriptions, whose current windows are their own.
LEMMA CreateReplaces ==
    ASSUME TypeOK, NEW plan \in Plans, NEW seen,
           NEW override \in {0} \cup Overrides, CreateUserSubscriptionFromPlanTx(plan, seen, override)
    PROVE  /\ plan \in PlanRows
           /\ \A s \in FoundSubs(seen) : s \in SubIds /\ sub[s].status = "active" /\ CurrentLoadable(s)
           /\ UNCHANGED <<now, rec>>
           /\ \E used \in Nat, usedF \in Nat, c \in 0 .. MaxSub, src \in 0 .. MaxSub,
                 a \in 0 .. MaxWindow, b \in 0 .. MaxWindow, end \in Nat :
                 /\ a # 0 => b # 0
                 /\ Replace(plan, FoundSubs(seen), c, src, a, b, used, usedF, end)
<1>0. plan \in PlanRows /\ MaxUsage \in Nat /\ MaxSub \in Nat /\ MaxWindow \in Nat
  BY PlansAssumption, BoundsAssumption
<1> DEFINE V == FoundSubs(seen)
           row(s)  == MaybeReset(sub[s], now)
           periods == {s \in V : row(s).curP # 0 /\ win[row(s).curP].end > now}
           fives   == {w \in WinIds : \E s \in V : sub[s].curF = w /\ win[w].end > now}
           newF    == plan.fiveHour > 0 /\ fives # {}
<1>1. PICK used \in 0 .. MaxUsage, usedF \in 0 .. MaxUsage,
           c \in (IF V = {} THEN {0} ELSE V), src \in (IF periods = {} THEN {0} ELSE periods),
           a \in (IF newF THEN fives ELSE {0}), b \in (IF newF THEN fives ELSE {0}) :
         \E end \in EndTimes(plan, c, override) : Replace(plan, V, c, src, a, b, used, usedF, end)
  BY SMTT(20) DEF CreateUserSubscriptionFromPlanTx
<1>w. PICK end \in EndTimes(plan, c, override) : Replace(plan, V, c, src, a, b, used, usedF, end)
  BY <1>1
<1>2. /\ \A s \in V : s \in SubIds /\ sub[s].status = "active" /\ CurrentLoadable(s)
      /\ UNCHANGED <<now, rec>>
  BY DEF CreateUserSubscriptionFromPlanTx, FoundSubs, ValidSubs
<1>3. V \subseteq SubIds /\ periods \subseteq SubIds /\ fives \subseteq WinIds
  BY DEF FoundSubs, ValidSubs
<1> HIDE DEF V, periods, fives, newF
<1>4. c \in 0 .. MaxSub /\ src \in 0 .. MaxSub
  BY <1>0, <1>3 DEF SubIds
<1>5. a \in 0 .. MaxWindow /\ b \in 0 .. MaxWindow /\ (a # 0 => b # 0)
  BY <1>0, <1>3 DEF WinIds
<1>6. used \in Nat /\ usedF \in Nat
  BY <1>0
<1>7. end \in Nat
  BY <1>0, <1>3, EndTimesType DEF SubIds
<1> QED  BY <1>0, <1>w, <1>2, <1>4, <1>5, <1>6, <1>7 DEF V

\* CreateUserSubscriptionFromPlanTx: the replaced subscriptions give up their
\* windows, the new one starts with its own.
LEMMA CreateWindows ==
    ASSUME WindowInv, Inv', NEW plan \in Plans, NEW seen,
           NEW override \in {0} \cup Overrides, CreateUserSubscriptionFromPlanTx(plan, seen, override)
    PROVE  WindowInv'
<1> DEFINE V == FoundSubs(seen)
           W == WindowsOf(V)
<1>0. TypeOK /\ winSeq \in Nat /\ subSeq \in Nat
  BY DEF WindowInv, Inv, TypeOK
<1>1. /\ plan \in PlanRows
      /\ \A s \in V : s \in SubIds /\ sub[s].status = "active" /\ CurrentLoadable(s)
      /\ UNCHANGED <<now, rec>>
      /\ \E used \in Nat, usedF \in Nat, c \in 0 .. MaxSub, src \in 0 .. MaxSub,
            a \in 0 .. MaxWindow, b \in 0 .. MaxWindow, end \in Nat :
            (a # 0 => b # 0) /\ Replace(plan, V, c, src, a, b, used, usedF, end)
  BY <1>0, CreateReplaces
<1>2. PICK used \in Nat, usedF \in Nat, c \in 0 .. MaxSub, src \in 0 .. MaxSub,
           a \in 0 .. MaxWindow, b \in 0 .. MaxWindow, end \in Nat :
           (a # 0 => b # 0) /\ Replace(plan, V, c, src, a, b, used, usedF, end)
  BY <1>1
<1> DEFINE id   == subSeq + 1
           newP == used > 0 \/ src # 0
           newF == a # 0
           p    == winSeq + 1
           last == LastWindow(newP, newF)
<1>3. newP \in BOOLEAN /\ newF \in BOOLEAN /\ V \subseteq SubIds
  BY <1>1
<1>4. last = winSeq + (IF newP THEN 1 ELSE 0) + (IF newF THEN 1 ELSE 0)
  BY DEF LastWindow
<1>r. /\ newP = (used > 0 \/ src # 0) /\ newF = (a # 0) /\ last = LastWindow(newP, newF)
      /\ id = subSeq + 1 /\ p = winSeq + 1
  OBVIOUS
<1>s. W = WindowsOf(V)
  OBVIOUS
<1>p. Replace(plan, V, c, src, a, b, used, usedF, end) /\ (a # 0 => b # 0)
  BY <1>2
<1> HIDE DEF V, newP, newF, last, id, p, W
<1>d. /\ used \in Nat /\ usedF \in Nat /\ c \in 0 .. MaxSub /\ src \in 0 .. MaxSub
      /\ a \in 0 .. MaxWindow /\ b \in 0 .. MaxWindow /\ end \in Nat
      /\ TypeOK /\ plan \in PlanRows /\ V \subseteq SubIds
  BY <1>0, <1>1, <1>3
<1>f. Replaced(plan, V, id, newP, newF, p, last, W)
  BY <1>d, <1>p, <1>r, <1>s, ReplaceFields, SMTT(20)
<1>5. /\ id \in SubIds /\ subSeq' = id /\ winSeq' = last /\ last \in 0 .. MaxWindow
      /\ sub'[id].status = "active" /\ sub'[id].plan = plan
      /\ sub'[id].curP = IF newP THEN p ELSE 0
      /\ sub'[id].curF = IF newF THEN last ELSE 0
      /\ \A s \in SubIds \ {id} :
            IF s \in V
            THEN /\ sub'[s].status = "cancelled" /\ sub'[s].plan = sub[s].plan
                 /\ sub'[s].curF = sub[s].curF
                 /\ \/ sub'[s].curP = 0
                    \/ sub'[s].curP = sub[s].curP /\ sub'[s].used = sub[s].used
            ELSE sub'[s] = sub[s]
      /\ \A w \in WinIds : ~(newP /\ w = p) /\ ~(newF /\ w = last) =>
            /\ SameWindow(win'[w], win[w]) /\ SameUsage(win'[w], win[w])
            /\ w \in W => win'[w].closed
            /\ w \notin W => win'[w] = win[w]
      /\ newP => /\ p \in WinIds /\ win'[p].kind = "period" /\ win'[p].sub = id
                 /\ ~win'[p].closed /\ win'[p].total = plan.total
                 /\ win'[p].used = sub'[id].used
      /\ newF => /\ last \in WinIds /\ last > winSeq /\ (newP => last # p)
                 /\ win'[last].kind = "five_hour" /\ win'[last].sub = id
                 /\ ~win'[last].closed /\ win'[last].total = plan.fiveHour
  BY <1>f DEF Replaced
<1>6. /\ id \in Nat /\ id > subSeq /\ p \in Nat /\ p > winSeq
  BY <1>0, <1>r
<1>i. WinIds \subseteq Nat /\ 0 \notin WinIds /\ SubIds \subseteq Nat
  BY DEF WinIds, SubIds
<1>7. ASSUME NEW w \in WinIds, w <= winSeq
      PROVE  ~(newP /\ w = p) /\ ~(newF /\ w = last)
  BY <1>0, <1>5, <1>6, <1>7, <1>i
<1>8. \A w \in WinIds : w <= winSeq =>
         SameWindow(win'[w], win[w]) /\ (~win'[w].closed => ~win[w].closed /\ w \notin W)
  BY <1>5, <1>7
<1>9. ASSUME NEW w \in WinIds, w > winSeq'
      PROVE  win'[w].kind = "none"
  <2>1. w \in Nat /\ last \in Nat /\ last >= winSeq /\ (newP => p <= last)
    BY <1>0, <1>3, <1>4, <1>i DEF p
  <2>2. w > winSeq /\ w # last /\ (newP => w # p)
    BY <1>0, <1>5, <1>6, <1>9, <2>1
  <2>3. win[w].kind = "none"
    BY <2>2 DEF WindowInv, IdsInOrder
  <2>4. SameWindow(win'[w], win[w])
    BY <1>5, <2>2
  <2> QED  BY <2>3, <2>4 DEF SameWindow
<1>10. ASSUME NEW w \in WinIds, w > winSeq, w <= winSeq'
       PROVE  /\ win'[w].sub \in SubIds /\ win'[w].sub <= subSeq'
              /\ sub'[win'[w].sub].status # "none"
              /\ w = CurrentOf(sub'[win'[w].sub], win'[w].kind)
  <2>1. (newP /\ w = p) \/ (newF /\ w = last)
    <3>1. w \in Nat
      BY <1>i
    <3> QED  BY <1>0, <1>3, <1>4, <1>5, <1>10, <3>1 DEF p
  <2>2. id <= subSeq'
    BY <1>5, <1>6
  <2> QED  BY <1>5, <2>1, <2>2 DEF CurrentOf
<1>11. \A x \in SubIds : /\ RowFits(x, sub[x], win)
                         /\ sub[x].curP # 0 => sub[x].curP \in WinIds
                         /\ sub[x].curF # 0 => sub[x].curF \in WinIds
                         /\ sub[x].curP <= winSeq /\ sub[x].curF <= winSeq
                         /\ sub[x].curP \in Nat /\ sub[x].curF \in Nat
  BY <1>0, References DEF WindowInv, RowsFit, IdsInOrder
<1>12. \A x \in SubIds : x > subSeq => sub[x].status = "none"
  BY DEF WindowInv, IdsInOrder
<1>13. id \notin V /\ winSeq' >= winSeq /\ winSeq' \in Nat
  BY <1>0, <1>1, <1>3, <1>4, <1>5, <1>6, <1>12 DEF V
<1>14. RowFits(id, sub'[id], win')
  <2>1. PeriodFits(id, sub'[id], win')
    BY <1>5, <1>3 DEF PeriodFits
  <2>2. FiveHourFits(id, sub'[id], win')
    BY <1>5, <1>3 DEF FiveHourFits
  <2>3. InUse(sub'[id], win')
    BY <1>5, <1>3 DEF InUse
  <2> QED  BY <2>1, <2>2, <2>3 DEF RowFits
<1>15. ASSUME NEW x \in SubIds, x \in V
       PROVE  RowFits(x, sub'[x], win')
  <2>1. /\ sub'[x].status = "cancelled" /\ sub'[x].plan = sub[x].plan
        /\ sub'[x].curF = sub[x].curF
        /\ \/ sub'[x].curP = 0
           \/ sub'[x].curP = sub[x].curP /\ sub'[x].used = sub[x].used
    BY <1>5, <1>13, <1>15
  <2>2. \A w \in {sub[x].curP, sub[x].curF} : w # 0 =>
           SameWindow(win'[w], win[w]) /\ SameUsage(win'[w], win[w])
    BY <1>5, <1>7, <1>11
  <2>3. RowFits(x, sub[x], win)
    BY <1>11
  <2>4. PeriodFits(x, sub'[x], win')
    BY <2>1, <2>2, <2>3 DEF RowFits, PeriodFits, SameWindow, SameUsage
  <2>5. FiveHourFits(x, sub'[x], win')
    BY <2>1, <2>2, <2>3 DEF RowFits, FiveHourFits, SameWindow
  <2>6. InUse(sub'[x], win')
    BY <2>1 DEF InUse
  <2> QED  BY <2>4, <2>5, <2>6 DEF RowFits
<1>16. ASSUME NEW x \in SubIds, x \notin V, x # id
       PROVE  RowFits(x, sub'[x], win') /\ sub'[x] = sub[x]
  <2>1. sub'[x] = sub[x]
    BY <1>5, <1>16
  <2>2. \A w \in {sub[x].curP, sub[x].curF} : w # 0 =>
           SameWindow(win'[w], win[w]) /\ SameUsage(win'[w], win[w])
    BY <1>5, <1>7, <1>11
  <2>3. RowFits(x, sub[x], win)
    BY <1>11
  <2>4. PeriodFits(x, sub[x], win')
    BY <2>2, <2>3 DEF RowFits, PeriodFits, SameWindow, SameUsage
  <2>5. FiveHourFits(x, sub[x], win')
    BY <2>2, <2>3 DEF RowFits, FiveHourFits, SameWindow
  <2>6. ASSUME sub[x].status = "active", NEW w \in {sub[x].curP, sub[x].curF}, w # 0
        PROVE  win'[w].kind # "none" /\ ~win'[w].closed
    <3>1. win[w].kind # "none" /\ ~win[w].closed /\ win[w].sub = x /\ w \in WinIds
      BY <1>11, <2>3, <2>6 DEF RowFits, InUse, PeriodFits, FiveHourFits
    <3>2. w \notin W
      <4>1. \A s \in V : \A v \in CurrentWindows(s) : win[v].sub = s
        BY <1>1 DEF CurrentWindows, CurrentLoadable, Loadable, V
      <4> QED  BY <1>s, <1>16, <3>1, <4>1 DEF WindowsOf
    <3>3. win'[w] = win[w]
      BY <1>5, <1>7, <1>11, <3>1, <3>2
    <3> QED  BY <3>1, <3>3
  <2>7. InUse(sub[x], win')
    BY <2>6 DEF InUse
  <2> QED  BY <2>1, <2>4, <2>5, <2>7 DEF RowFits
<1>17. ASSUME NEW x \in SubIds
       PROVE  /\ RowFits(x, sub'[x], win')
              /\ x > subSeq' => sub'[x].status = "none"
              /\ sub'[x].curP <= winSeq' /\ sub'[x].curF <= winSeq'
  <2>1. CASE x = id
    <3>1. p <= last \/ ~newP
      BY <1>0, <1>3, <1>4 DEF p
    <3>2. 0 <= winSeq' /\ last <= winSeq' /\ ~(id > subSeq')
      BY <1>0, <1>5, <1>6, <1>13
    <3> QED  BY <1>3, <1>5, <1>14, <2>1, <3>1, <3>2
  <2>2. CASE x # id /\ x \in V
    <3>1. x <= subSeq /\ x \in Nat
      BY <1>0, <1>1, <1>12, <1>i, <2>2 DEF V
    <3>2. ~(x > subSeq')
      BY <1>0, <1>5, <1>6, <3>1
    <3>3. sub[x].curP <= winSeq' /\ sub[x].curF <= winSeq' /\ 0 <= winSeq'
      BY <1>0, <1>11, <1>13
    <3> QED  BY <1>5, <1>15, <2>2, <3>2, <3>3
  <2>3. CASE x # id /\ x \notin V
    <3>1. x > subSeq' => x > subSeq
      BY <1>0, <1>5, <1>6, <1>i
    <3>2. sub[x].curP <= winSeq' /\ sub[x].curF <= winSeq'
      BY <1>0, <1>11, <1>13
    <3> QED  BY <1>12, <1>16, <2>3, <3>1, <3>2
  <2> QED  BY <2>1, <2>2, <2>3
<1>18. ASSUME NEW x \in SubIds, sub'[x].status # "none", x <= subSeq
       PROVE  /\ sub[x].status # "none"
              /\ sub'[x].curP = sub[x].curP \/ sub[x].curP = 0 \/ sub[x].curP \in W
              /\ sub'[x].curF = sub[x].curF \/ sub[x].curF = 0 \/ sub[x].curF \in W
  <2>0. x # id
    BY <1>0, <1>6, <1>18, <1>i
  <2>1. CASE x \in V
    <3>1. sub[x].curP # 0 => sub[x].curP \in W
      BY <1>s, <2>1 DEF CurrentWindows, WindowsOf
    <3>2. sub[x].status = "active" /\ sub'[x].curF = sub[x].curF
      BY <1>1, <1>5, <2>0, <2>1 DEF V
    <3> QED  BY <3>1, <3>2
  <2>2. CASE x \notin V
    BY <1>16, <1>18, <2>0, <2>2
  <2> QED  BY <2>1, <2>2
<1>19. winSeq <= winSeq' /\ subSeq <= subSeq'
  BY <1>0, <1>5, <1>6, <1>13
<1>20. \A r \in Requests : rec'[r] = rec[r]
  BY <1>1
<1> QED  BY <1>8, <1>9, <1>10, <1>17, <1>18, <1>19, <1>20, OpeningStep

-----------------------------------------------------------------------------
(* The invariant holds.                                                     *)

\* Rows that predate the ledger have no windows.
LEMMA InitWindows ==
    ASSUME Init
    PROVE  WindowInv
<1>1. Inv
  BY InitInv
<1>2. /\ \A w \in WinIds : win[w].kind = "none"
      /\ winSeq = 0 /\ subSeq = Len(Legacy)
      /\ \A r \in Requests : rec[r].status = "none" /\ rec[r].period = 0 /\ rec[r].five = 0
  BY DEF Init, NoWin, NoRec
<1>3. ASSUME NEW s \in SubIds
      PROVE  /\ sub[s].curP = 0 /\ sub[s].curF = 0
             /\ s > Len(Legacy) => sub[s].status = "none"
  <2>0. s \in Nat /\ s >= 1 /\ Len(Legacy) \in Nat
    BY LegacyAssumption DEF SubIds
  <2>1. CASE s <= Len(Legacy)
    <3>1. s \in 1 .. Len(Legacy) /\ sub[s] = Legacy[s]
      BY <2>0, <2>1 DEF Init
    <3> QED  BY <2>0, <2>1, <3>1, LegacyAssumption
  <2>2. CASE ~(s <= Len(Legacy))
    <3>1. sub[s] = NoSub
      BY <2>2 DEF Init
    <3> QED  BY <3>1 DEF NoSub
  <2> QED  BY <2>1, <2>2
<1>4. IdsInOrder
  BY <1>2, <1>3 DEF IdsInOrder
<1>5. RowsFit
  BY <1>3 DEF RowsFit, RowFits, PeriodFits, FiveHourFits, InUse
<1>6. OpenIsCurrent /\ OneWindowInForce
  BY <1>2 DEF OpenIsCurrent, OneWindowInForce
<1>7. RecordsFindWindows
  BY <1>2 DEF RecordsFindWindows, Live
<1> QED  BY <1>1, <1>4, <1>5, <1>6, <1>7 DEF WindowInv

\* Every step of every actor keeps it.
LEMMA NextWindows ==
    ASSUME WindowInv, [Next]_vars
    PROVE  WindowInv'
<1>0. Inv' /\ 0 \in Quotas /\ Deltas \subseteq Int
  BY NextInv, BoundsAssumption, PlansAssumption DEF WindowInv, Quotas
<1>1. CASE RequestStep
  <2>1. ASSUME NEW s \in SubIds, NEW d \in Deltas, PostConsumeUserSubscriptionDelta(s, d)
        PROVE  WindowInv'
    BY <1>0, <2>1, PostDeltaWindows
  <2>2. ASSUME NEW r \in Requests, NEW a \in Quotas \ {0}, PreConsumeUserSubscription(r, a)
        PROVE  WindowInv'
    BY <1>0, <2>2, PreConsumeWindows
  <2>3. ASSUME NEW r \in Requests, NEW v \in 1 .. MaxVersion, NEW f \in Quotas,
               NEW st \in {"reserved", "settled"}, SetSubscriptionUsageFinal(r, v, f, st)
        PROVE  WindowInv'
    BY <1>0, <2>3, SetFinalWindows
  <2>4. ASSUME NEW r \in Requests, NEW v \in 1 .. MaxVersion, RefundSubscriptionUsage(r, v)
        PROVE  WindowInv'
    BY <1>0, <2>4, SetFinalWindows DEF RefundSubscriptionUsage
  <2>5. ASSUME NEW r \in Requests, NEW v \in 1 .. MaxVersion, NEW q \in Quotas,
               QueueSubscriptionSettlement(r, v, q, rec[r].final)
        PROVE  WindowInv'
    BY <1>0, <2>5, RecordOnlyWindows
  <2>6. ASSUME NEW r \in Requests, NEW k \in BOOLEAN, CompleteSubscriptionSettlement(r, k)
        PROVE  WindowInv'
    BY <1>0, <2>6, CompleteWindows
  <2> QED  BY <1>1, <2>1, <2>2, <2>3, <2>4, <2>5, <2>6 DEF RequestStep
<1>2. CASE MaintenanceStep
  BY <1>0, <1>2, ExpireWindows, ResetDueWindows, ResetFiveHourWindows, RecordOnlyWindows,
     CleanupWindows DEF MaintenanceStep
<1>3. CASE PurchaseStep
  <2>1. TypeOK
    BY DEF WindowInv, Inv
  <2> QED  BY <1>0, <1>3, <2>1, Created, CreateWindows
<1>4. CASE AdminStep
  BY <1>0, <1>4, AdminEndWindows, AdminBalanceWindows, AdminResetWindows, AdminFreeWindows
     DEF AdminStep
<1>5. CASE Tick
  BY <1>0, <1>5, StillWindows DEF Tick
<1>6. CASE UNCHANGED vars
  BY <1>0, <1>6, StillWindows DEF vars
<1> QED  BY <1>1, <1>2, <1>3, <1>4, <1>5, <1>6 DEF Next

\* So it holds in every reachable state.
LEMMA WindowsInvariant == Spec => []WindowInv
<1>1. Init => WindowInv
  BY InitWindows
<1>2. WindowInv /\ [Next]_vars => WindowInv'
  BY NextWindows
<1> QED  BY <1>1, <1>2, PTL DEF Spec

\* A retained record always finds its windows, so that a settlement or a refund of
\* it can be carried out however late it comes (CleanupSubscriptionQuotaWindows).
THEOREM RecordsKeepWindows == Spec => []RecordsFindWindows
<1>1. WindowInv => RecordsFindWindows
  BY DEF WindowInv
<1> QED  BY <1>1, WindowsInvariant, PTL

\* A subscription never has two windows of a kind in force at once.
THEOREM OneWindowAtATime == Spec => []OneWindowInForce
<1>1. WindowInv => OneWindowInForce
  BY DEF WindowInv
<1> QED  BY <1>1, WindowsInvariant, PTL

\* What a subscription shows is the usage of its current period window, and the
\* windows it charges are open and its own.
THEOREM CurrentWindowsCorrect == Spec => []CurrentWindowsAgree
<1>1. ASSUME WindowInv
      PROVE  CurrentWindowsAgree
  <2>0. TypeOK /\ \A s \in SubIds : RowFits(s, sub[s], win)
    BY <1>1 DEF WindowInv, Inv, RowsFit
  <2>1. SubscriptionMirrorsWindow
    BY <2>0 DEF SubscriptionMirrorsWindow, Exists, RowFits, PeriodFits
  <2>2. CurrentWindowsOpen
    <3> SUFFICES ASSUME NEW s \in SubIds, sub[s].status = "active"
                 PROVE  CurrentLoadable(s) /\ \A w \in CurrentWindows(s) : ~win[w].closed
      BY DEF CurrentWindowsOpen
    <3>1. RowFits(s, sub[s], win)
      BY <2>0
    <3> QED  BY <3>1 DEF CurrentLoadable, Loadable, CurrentWindows, RowFits, PeriodFits,
                         FiveHourFits, InUse
  <2> QED  BY <2>1, <2>2 DEF CurrentWindowsAgree
<1> QED  BY <1>1, WindowsInvariant, PTL

-----------------------------------------------------------------------------
(* What a step does to a window.                                            *)

\* It is still the same window.
Kept(w) == SameWindow(win'[w], win[w]) /\ (win[w].closed => win'[w].closed)

\* Its usage was set other than through a record: by an administrator, who waits
\* for the reservations, or by the difference of a task that predates the ledger.
SetByHand(w) ==
    /\ win'[w].manual
    /\ \/ NoneReserved
       \/ Kept(w) /\ (Deltas \subseteq Nat => win'[w].used >= win[w].used)

\* What may happen to window w in a step that touches no record.
Carried(w) ==
    \/ win'[w].kind = "none"
    \/ Kept(w) /\ SameUsage(win'[w], win[w])
    \/ Kept(w) /\ SetByHand(w)
    \/ w > winSeq /\ SetByHand(w)
    \/ w > winSeq /\ win'[w].used = win'[w].opening

\* The change of the amount of request r to f, in state st.
Adjusts(r, f, st) ==
    /\ Live(r) /\ f \in Quotas /\ st \in {"reserved", "settled", "refunded"}
    /\ st = "reserved" => rec[r].status = "reserved"
    /\ st = "refunded" => f = 0
    /\ Adjustable(r, f, st) /\ AdjustCounters(r, f)
    /\ \A y \in Requests \ {r} : rec'[y] = rec[y]
    /\ rec'[r].period = rec[r].period /\ rec'[r].five = rec[r].five
    /\ rec'[r].final = f /\ rec'[r].status = st

\* Closing windows carries them.
LEMMA ClosingCarries ==
    ASSUME TypeOK, NEW W, NEW t, win' = CloseAll(W, t), NEW w \in WinIds
    PROVE  Carried(w)
<1>1. /\ SameWindow(win'[w], win[w]) /\ SameUsage(win'[w], win[w])
      /\ w \in W => win'[w].closed
      /\ w \notin W => win'[w] = win[w]
  BY CloseAllFields DEF TypeOK
<1> QED  BY <1>1 DEF Carried, Kept

\* So does leaving them alone.
LEMMA StillCarries ==
    ASSUME UNCHANGED win, NEW w \in WinIds
    PROVE  Carried(w)
BY DEF Carried, Kept, SameWindow, SameUsage

\* PostConsumeUserSubscriptionDelta.
LEMMA PostDeltaCarries ==
    ASSUME WindowInv, NEW s \in SubIds, NEW d \in Deltas, PostConsumeUserSubscriptionDelta(s, d),
           NEW w \in WinIds
    PROVE  Carried(w)
<1> DEFINE p == sub[s].curP
<1>0. TypeOK /\ win \in [WinIds -> WinRows] /\ win[w] \in WinRows /\ (p # 0 => p \in WinIds)
  <2>1. TypeOK
    BY DEF WindowInv, Inv
  <2> QED  BY <2>1, References DEF TypeOK
<1>1. CASE w # p
  <2>1. win'[w] = win[w]
    BY <1>0, <1>1 DEF PostConsumeUserSubscriptionDelta
  <2> QED  BY <2>1 DEF Carried, Kept, SameWindow, SameUsage
<1>2. CASE w = p
  <2>0. w # 0
    BY DEF WinIds
  <2> DEFINE u == CheckedAdd(win[w].used, d)
  <2>1. win'[w] = [win[w] EXCEPT !.used = u, !.updated = now, !.manual = TRUE]
    BY <1>0, <1>2, <2>0 DEF PostConsumeUserSubscriptionDelta
  <2> HIDE DEF p, u
  <2>2. Kept(w) /\ win'[w].manual /\ win'[w].used = u
    BY <1>0, <2>1 DEF Kept, SameWindow, WinRows
  <2>3. Deltas \subseteq Nat => u >= win[w].used
    <3>1. win[w].used \in Nat
      BY <1>0 DEF WinRows
    <3> QED  BY <3>1 DEF u, CheckedAdd
  <2> QED  BY <2>2, <2>3 DEF Carried, SetByHand
<1> QED  BY <1>1, <1>2

\* CleanupSubscriptionQuotaWindows.
LEMMA CleanupCarries ==
    ASSUME CleanupSubscriptionQuotaWindows, NEW w \in WinIds
    PROVE  Carried(w)
<1>1. win'[w] = NoWin \/ win'[w] = win[w]
  BY DEF CleanupSubscriptionQuotaWindows
<1>2. NoWin.kind = "none"
  BY DEF NoWin
<1> QED  BY <1>1, <1>2 DEF Carried, Kept, SameWindow, SameUsage

\* CreateUserSubscriptionFromPlanTx.
LEMMA CreateCarries ==
    ASSUME WindowInv, NEW plan \in Plans, NEW seen,
           NEW override \in {0} \cup Overrides, CreateUserSubscriptionFromPlanTx(plan, seen, override), NEW w \in WinIds
    PROVE  Carried(w)
<1>0. TypeOK /\ winSeq \in Nat
  BY DEF WindowInv, Inv, TypeOK
<1> DEFINE V == FoundSubs(seen)
<1>1. /\ plan \in PlanRows /\ V \subseteq SubIds
      /\ \E used \in Nat, usedF \in Nat, c \in 0 .. MaxSub, src \in 0 .. MaxSub,
            a \in 0 .. MaxWindow, b \in 0 .. MaxWindow, end \in Nat :
            (a # 0 => b # 0) /\ Replace(plan, V, c, src, a, b, used, usedF, end)
  BY <1>0, CreateReplaces
<1> HIDE DEF V
<1>2. PICK used \in Nat, usedF \in Nat, c \in 0 .. MaxSub, src \in 0 .. MaxSub,
           a \in 0 .. MaxWindow, b \in 0 .. MaxWindow, end \in Nat :
           (a # 0 => b # 0) /\ Replace(plan, V, c, src, a, b, used, usedF, end)
  BY <1>1
<1> DEFINE id   == subSeq + 1
           newP == used > 0 \/ src # 0
           newF == a # 0
           p    == winSeq + 1
           last == LastWindow(newP, newF)
           W    == WindowsOf(V)
<1>3. newP \in BOOLEAN /\ newF \in BOOLEAN
  OBVIOUS
<1>r. newP = (used > 0 \/ src # 0) /\ newF = (a # 0) /\ p = winSeq + 1
      /\ id = subSeq + 1 /\ last = LastWindow(newP, newF) /\ W = WindowsOf(V)
  OBVIOUS
<1>p. Replace(plan, V, c, src, a, b, used, usedF, end) /\ (a # 0 => b # 0)
  BY <1>2
<1> HIDE DEF id, newP, newF, p, last, W
<1>d. /\ used \in Nat /\ usedF \in Nat /\ c \in 0 .. MaxSub /\ src \in 0 .. MaxSub
      /\ a \in 0 .. MaxWindow /\ b \in 0 .. MaxWindow /\ end \in Nat
      /\ TypeOK /\ plan \in PlanRows /\ V \subseteq SubIds
  BY <1>0, <1>1
<1>f. Replaced(plan, V, id, newP, newF, p, last, W)
  BY <1>d, <1>p, <1>r, ReplaceFields, SMTT(20)
<1>4. /\ \A v \in WinIds : ~(newP /\ v = p) /\ ~(newF /\ v = last) =>
            /\ SameWindow(win'[v], win[v]) /\ SameUsage(win'[v], win[v])
            /\ v \in W => win'[v].closed
            /\ v \notin W => win'[v] = win[v]
      /\ newP => win'[p].opening = win'[p].used
      /\ newF => last > winSeq /\ win'[last].opening = win'[last].used
  BY <1>f DEF Replaced
<1>5. CASE (newP /\ w = p) \/ (newF /\ w = last)
  <2>1. w > winSeq
    BY <1>0, <1>4, <1>5, <1>r
  <2> QED  BY <1>4, <1>5, <2>1 DEF Carried
<1>6. CASE ~(newP /\ w = p) /\ ~(newF /\ w = last)
  BY <1>4, <1>6 DEF Carried, Kept
<1> QED  BY <1>5, <1>6

\* ChangeAdminBalance.
LEMMA AdminBalanceCarries ==
    ASSUME WindowInv, NEW s \in SubIds, NEW remP \in {-1} \cup Balances,
           NEW remF \in {-1} \cup Balances, ChangeAdminBalance(s, remP, remF), NEW w \in WinIds
    PROVE  Carried(w)
<1> DEFINE newP == BalanceP(s, remP)
           newF == BalanceF(s, remF)
           p    == Window1(s, newP)
           f    == Window2(s, newP, newF)
<1> HIDE DEF newP, newF, p, f
<1>0. newP = BalanceP(s, remP) /\ newF = BalanceF(s, remF) /\ p = Window1(s, newP)
      /\ f = Window2(s, newP, newF)
  BY DEF newP, newF, p, f
<1>1. /\ TurnsOver(s, {}, newP, newF)
      /\ \A v \in WinIds : ~(newP /\ v = p) /\ ~(newF /\ v = f) =>
            /\ SameWindow(win'[v], win[v])
            /\ win'[v].closed <=> (win[v].closed \/ v \in Retired(s, {}, newF))
            /\ SameUsage(win'[v], win[v]) \/ (win'[v].manual /\ v \in {p, f})
      /\ newP => win'[p].manual
      /\ newF => win'[f].manual
  BY <1>0, AdminBalanceFields
<1>2. /\ newP => p = winSeq + 1
      /\ newF => f > winSeq
  BY <1>0, <1>1, TurnsOverIds
<1>3. NoneReserved /\ winSeq \in Nat
  BY DEF ChangeAdminBalance, WindowInv, Inv, TypeOK
<1>4. CASE (newP /\ w = p) \/ (newF /\ w = f)
  <2>1. w > winSeq
    BY <1>2, <1>3, <1>4
  <2> QED  BY <1>1, <1>3, <1>4, <2>1 DEF Carried, SetByHand
<1>5. CASE ~(newP /\ w = p) /\ ~(newF /\ w = f)
  BY <1>1, <1>3, <1>5 DEF Carried, Kept, SetByHand
<1> QED  BY <1>4, <1>5

\* SetSubscriptionUsageFinal and RefundSubscriptionUsage.
LEMMA SetFinalAdjusts ==
    ASSUME TypeOK, NEW r \in Requests, NEW v, NEW f \in Quotas,
           NEW st \in {"reserved", "settled", "refunded"}, st = "refunded" => f = 0,
           SetSubscriptionUsageFinal(r, v, f, st)
    PROVE  Adjusts(r, f, st)
<1>1. rec' = [rec EXCEPT ![r] = Adjusted(r, f, st)] /\ rec[r] \in RecRows /\ rec \in [Requests -> RecRows]
  BY DEF SetSubscriptionUsageFinal, TypeOK
<1>2. rec'[r] = Adjusted(r, f, st) /\ \A y \in Requests \ {r} : rec'[y] = rec[y]
  BY <1>1
<1>3. /\ rec'[r].period = rec[r].period /\ rec'[r].five = rec[r].five
      /\ rec'[r].final = f /\ rec'[r].status = st
  BY <1>1, <1>2 DEF Adjusted, RecRows
<1> QED  BY <1>2, <1>3 DEF SetSubscriptionUsageFinal, Changeable, Adjusts

\* CompleteSubscriptionSettlement.
LEMMA CompleteAdjusts ==
    ASSUME TypeOK, NEW r \in Requests, NEW k \in BOOLEAN, CompleteSubscriptionSettlement(r, k)
    PROVE  Adjusts(r, rec[r].quota, "settled")
<1> DEFINE q   == rec[r].quota
           net == IF k THEN q - rec[r].tokenPre ELSE 0
           x   == Adjusted(r, q, "settled")
<1>1. /\ rec' = [rec EXCEPT ![r] = [x EXCEPT !.pending = FALSE, !.tokenNet = net]]
      /\ rec[r] \in RecRows /\ rec \in [Requests -> RecRows]
      /\ q \in Quotas
  BY DEF CompleteSubscriptionSettlement, TypeOK, RecRows
<1>2. /\ rec'[r] = [x EXCEPT !.pending = FALSE, !.tokenNet = net]
      /\ \A y \in Requests \ {r} : rec'[y] = rec[y]
  <2> HIDE DEF x, net
  <2> QED  BY <1>1
<1> HIDE DEF net
<1>3. /\ x.period = rec[r].period /\ x.five = rec[r].five /\ x.final = q /\ x.status = "settled"
      /\ {"period", "five", "final", "status"} \subseteq DOMAIN x
  BY <1>1 DEF Adjusted, RecRows
<1> HIDE DEF x
<1>4. /\ rec'[r].period = rec[r].period /\ rec'[r].five = rec[r].five
      /\ rec'[r].final = q /\ rec'[r].status = "settled"
  BY <1>2, <1>3
<1>5. Live(r) /\ Adjustable(r, q, "settled") /\ AdjustCounters(r, q)
  BY DEF CompleteSubscriptionSettlement, Live
<1> QED  BY <1>1, <1>2, <1>4, <1>5 DEF Adjusts

\* What records and windows can go through in a step.
LEMMA StepCarries ==
    ASSUME WindowInv, [Next]_vars
    PROVE  \/ UNCHANGED rec /\ \A w \in WinIds : Carried(w)
           \/ \E r \in Requests, a \in Quotas \ {0} : PreConsumeUserSubscription(r, a)
           \/ \E r \in Requests, f \in Quotas, st \in {"reserved", "settled", "refunded"} :
                 Adjusts(r, f, st)
           \/ /\ UNCHANGED win
              /\ \/ \E r \in Requests : \E v, q, t : QueueSubscriptionSettlement(r, v, q, t)
                 \/ CleanupSubscriptionPreConsumeRecords
<1>0. TypeOK /\ 0 \in Quotas
  BY BoundsAssumption DEF WindowInv, Inv, Quotas
<1> DEFINE Quiet == UNCHANGED rec /\ \A w \in WinIds : Carried(w)
           Adjusting == \E r \in Requests, f \in Quotas, st \in {"reserved", "settled", "refunded"} :
                           Adjusts(r, f, st)
<1>1. CASE RequestStep
  <2>1. ASSUME NEW s \in SubIds, NEW d \in Deltas, PostConsumeUserSubscriptionDelta(s, d)
        PROVE  Quiet
    <3>1. UNCHANGED rec
      BY <2>1 DEF PostConsumeUserSubscriptionDelta
    <3> QED  BY <2>1, <3>1, PostDeltaCarries
  <2>2. ASSUME NEW r \in Requests, NEW v \in 1 .. MaxVersion, NEW f \in Quotas,
               NEW st \in {"reserved", "settled"}, SetSubscriptionUsageFinal(r, v, f, st)
        PROVE  Adjusting
    <3>1. Adjusts(r, f, st)
      BY <1>0, <2>2, SetFinalAdjusts
    <3> QED  BY <3>1
  <2>3. ASSUME NEW r \in Requests, NEW v \in 1 .. MaxVersion, RefundSubscriptionUsage(r, v)
        PROVE  Adjusting
    <3>1. Adjusts(r, 0, "refunded")
      BY <1>0, <2>3, SetFinalAdjusts DEF RefundSubscriptionUsage
    <3> QED  BY <1>0, <3>1
  <2>4. ASSUME NEW r \in Requests, NEW k \in BOOLEAN, CompleteSubscriptionSettlement(r, k)
        PROVE  Adjusting
    <3>1. rec[r].quota \in Quotas
      BY <1>0 DEF TypeOK, RecRows
    <3>2. Adjusts(r, rec[r].quota, "settled")
      BY <1>0, <2>4, CompleteAdjusts
    <3> QED  BY <3>1, <3>2
  <2>5. ASSUME NEW r \in Requests, NEW v, NEW q, NEW t, QueueSubscriptionSettlement(r, v, q, t)
        PROVE  UNCHANGED win
    BY <2>5 DEF QueueSubscriptionSettlement
  <2> HIDE DEF Quiet, Adjusting
  <2> QED  BY <1>1, <2>1, <2>2, <2>3, <2>4, <2>5 DEF RequestStep, Quiet, Adjusting
<1>2. CASE MaintenanceStep
  <2>1. ASSUME NEW t, ExpireDueSubscriptions(t)
        PROVE  Quiet
    <3>1. UNCHANGED rec /\ \E W : win' = CloseAll(W, t)
      BY <2>1 DEF ExpireDueSubscriptions
    <3> QED  BY <1>0, <3>1, ClosingCarries
  <2>2. ASSUME NEW s \in SubIds, NEW t, ResetDueSubscriptions(s, t)
        PROVE  Quiet
    <3>1. UNCHANGED rec /\ (win' = CloseAll({sub[s].curP}, t) \/ UNCHANGED win)
      BY <2>2 DEF ResetDueSubscriptions
    <3> QED  BY <1>0, <3>1, ClosingCarries, StillCarries
  <2>3. ASSUME NEW s \in SubIds, NEW t, ResetDueFiveHourSubscriptionWindows(s, t)
        PROVE  Quiet
    <3>1. UNCHANGED rec /\ win' = CloseAll({sub[s].curF}, t)
      BY <2>3 DEF ResetDueFiveHourSubscriptionWindows
    <3> QED  BY <1>0, <3>1, ClosingCarries
  <2>4. CASE CleanupSubscriptionQuotaWindows
    <3>1. UNCHANGED rec
      BY <2>4 DEF CleanupSubscriptionQuotaWindows
    <3> QED  BY <2>4, <3>1, CleanupCarries
  <2>5. CASE CleanupSubscriptionPreConsumeRecords
    <3>1. UNCHANGED win
      BY <2>5 DEF CleanupSubscriptionPreConsumeRecords
    <3> QED  BY <2>5, <3>1
  <2> HIDE DEF Quiet
  <2> QED  BY <1>2, <2>1, <2>2, <2>3, <2>4, <2>5 DEF MaintenanceStep, Quiet
<1>3. CASE PurchaseStep
  <2>1. PICK plan \in Plans, seen \in Nat, override \in {0} \cup Overrides :
                CreateUserSubscriptionFromPlanTx(plan, seen, override)
    BY <1>0, <1>3, Created DEF WindowInv, Inv
  <2>2. UNCHANGED rec
    BY <2>1 DEF CreateUserSubscriptionFromPlanTx
  <2> QED  BY <2>1, <2>2, CreateCarries
<1>4. CASE AdminStep
  <2>1. ASSUME NEW s \in SubIds, AdminInvalidateUserSubscription(s) \/ AdminDeleteUserSubscription(s)
        PROVE  Quiet
    <3>1. UNCHANGED <<rec, win>>
      BY <2>1 DEF AdminInvalidateUserSubscription, AdminDeleteUserSubscription
    <3> QED  BY <3>1, StillCarries
  <2>2. ASSUME NEW s \in SubIds, NEW remP \in {-1} \cup Balances, NEW remF \in {-1} \cup Balances,
               ChangeAdminBalance(s, remP, remF)
        PROVE  Quiet
    <3>1. UNCHANGED rec
      BY <2>2 DEF ChangeAdminBalance
    <3> QED  BY <2>2, <3>1, AdminBalanceCarries
  <2>3. ASSUME NEW plan, NEW advance, NEW period, NEW fiveHour,
               AdminResetUserSubscriptionsByPlan(plan, advance, period, fiveHour)
        PROVE  Quiet
    <3>1. UNCHANGED rec /\ \E W : win' = CloseAll(W, now)
      BY <2>3 DEF AdminResetUserSubscriptionsByPlan
    <3> QED  BY <1>0, <3>1, ClosingCarries
  <2>4. CASE ChangeAdminFree
    <3>1. UNCHANGED rec /\ \E W : win' = CloseAll(W, now)
      BY <2>4 DEF ChangeAdminFree
    <3> QED  BY <1>0, <3>1, ClosingCarries
  <2> HIDE DEF Quiet
  <2> QED  BY <1>4, <2>1, <2>2, <2>3, <2>4 DEF AdminStep, Quiet
<1>5. CASE Tick
  BY <1>5, StillCarries DEF Tick
<1>6. CASE UNCHANGED vars
  BY <1>6, StillCarries DEF vars
<1> QED  BY <1>1, <1>2, <1>3, <1>4, <1>5, <1>6 DEF Next

\* Admission keeps every window that exists.
LEMMA AdmissionKeeps ==
    ASSUME WindowInv, NEW r \in Requests, NEW a \in Quotas \ {0},
           PreConsumeUserSubscription(r, a), NEW w \in WinIds, win[w].kind # "none"
    PROVE  Kept(w)
<1>1. PICK c \in ValidSubs(now), s \in ValidSubs(now) :
         /\ \A x \in {x \in ValidSubs(now) : TriedBefore(c, x, s)} \cup {s} : CurrentLoadable(x)
         /\ Admit(r, a, s, {x \in ValidSubs(now) : TriedBefore(c, x, s)})
  BY DEF PreConsumeUserSubscription
<1> DEFINE past == {x \in ValidSubs(now) : TriedBefore(c, x, s)}
<1>2. /\ s \in SubIds /\ past \subseteq SubIds \ {s}
      /\ \A x \in past \cup {s} : sub[x].status = "active" /\ CurrentLoadable(x)
      /\ Admit(r, a, s, past)
  BY <1>1 DEF ValidSubs, TriedBefore
<1> HIDE DEF past
<1>3. /\ TurnsOver(s, past, OpensP(s), OpensF(s))
      /\ \A v \in WinIds : ~(OpensP(s) /\ v = AdmitP(s)) /\ ~(OpensF(s) /\ v = AdmitF(s)) =>
             /\ SameWindow(win'[v], win[v])
             /\ win'[v].closed <=> (win[v].closed \/ v \in Retired(s, past, OpensF(s)))
  BY <1>2, AdmitFields
<1>4. ~(w > winSeq) /\ winSeq \in Nat /\ w \in Nat
  BY DEF WindowInv, IdsInOrder, Inv, TypeOK, WinIds
<1>5. /\ OpensP(s) => AdmitP(s) = winSeq + 1
      /\ OpensF(s) => AdmitF(s) > winSeq
  BY <1>3, TurnsOverIds DEF AdmitP, AdmitF
<1>6. ~(OpensP(s) /\ w = AdmitP(s)) /\ ~(OpensF(s) /\ w = AdmitF(s))
  BY <1>4, <1>5
<1> QED  BY <1>3, <1>6 DEF Kept

\* A window that exists and is not deleted keeps its deadline and its limit, and
\* stays closed once it is.
LEMMA WindowsKept ==
    ASSUME WindowInv, [Next]_vars, NEW w \in WinIds, win[w].kind # "none", win'[w].kind # "none"
    PROVE  /\ win'[w].end = win[w].end /\ win'[w].total = win[w].total
           /\ win[w].closed => win'[w].closed
<1>0. TypeOK /\ ~(w > winSeq)
  BY DEF WindowInv, IdsInOrder, Inv
<1>1. CASE UNCHANGED rec /\ Carried(w)
  BY <1>0, <1>1 DEF Carried, Kept, SameWindow
<1>2. ASSUME NEW r \in Requests, NEW a \in Quotas \ {0}, PreConsumeUserSubscription(r, a)
      PROVE  Kept(w)
  BY <1>2, AdmissionKeeps
<1>3. ASSUME NEW r \in Requests, NEW f \in Quotas, NEW st, Adjusts(r, f, st)
      PROVE  Kept(w)
  <2>1. SameWindow(win'[w], win[w]) /\ win'[w].closed = win[w].closed
    BY <1>0, <1>3, AdjustCountersFields DEF Adjusts
  <2> QED  BY <2>1 DEF Kept
<1>4. CASE UNCHANGED win
  BY <1>4
<1> QED  BY <1>1, <1>2, <1>3, <1>4, StepCarries DEF Kept, SameWindow

\* A window's deadline and limit are fixed when it is opened, and a closed window
\* never reopens, whoever acts on it.
THEOREM DeadlinesFixed == Spec => DeadlineFixed
<1>1. WindowInv /\ [Next]_vars =>
        [\A w \in WinIds :
            win[w].kind # "none" /\ win'[w].kind # "none" =>
               /\ win'[w].end = win[w].end /\ win'[w].total = win[w].total
               /\ win[w].closed => win'[w].closed]_vars
  BY WindowsKept
<1> QED  BY <1>1, WindowsInvariant, PTL DEF Spec, DeadlineFixed

-----------------------------------------------------------------------------
(* What the records R hold on a window.                                     *)

HeldIn(R, r, w) ==
    IF R[r].status # "none" /\ w \in {R[r].period, R[r].five} THEN R[r].final ELSE 0

HoldsIn(R, w) == [r \in Requests |-> HeldIn(R, r, w)]

ReservesIn(R, w) ==
    [r \in Requests |-> IF R[r].status = "reserved" THEN HeldIn(R, r, w) ELSE 0]

\* The amounts are quotas, and reservations are part of what is held.
LEMMA HeldAmounts ==
    ASSUME NEW R \in [Requests -> RecRows], NEW w
    PROVE  /\ HoldsIn(R, w) \in Amounts /\ ReservesIn(R, w) \in Amounts
           /\ \A r \in Requests : HoldsIn(R, w)[r] = HeldIn(R, r, w)
           /\ \A r \in Requests :
                 ReservesIn(R, w)[r] = IF R[r].status = "reserved" THEN HeldIn(R, r, w) ELSE 0
           /\ SumOver(HoldsIn(R, w)) \in Nat /\ SumOver(ReservesIn(R, w)) \in Nat
           /\ SumOver(ReservesIn(R, w)) <= SumOver(HoldsIn(R, w))
<1>0. 0 \in Quotas /\ Quotas \subseteq Nat
  BY BoundsAssumption DEF Quotas
<1>1. \A r \in Requests : R[r].final \in Quotas
  BY DEF RecRows
<1>2. \A r \in Requests : HeldIn(R, r, w) \in Quotas
  BY <1>0, <1>1 DEF HeldIn
<1>3. HoldsIn(R, w) \in Amounts /\ ReservesIn(R, w) \in Amounts
  BY <1>0, <1>2 DEF HoldsIn, ReservesIn, Amounts
<1>4. /\ \A r \in Requests : HoldsIn(R, w)[r] = HeldIn(R, r, w)
      /\ \A r \in Requests :
            ReservesIn(R, w)[r] = IF R[r].status = "reserved" THEN HeldIn(R, r, w) ELSE 0
  BY DEF HoldsIn, ReservesIn
<1>5. SumOver(HoldsIn(R, w)) \in Nat /\ SumOver(ReservesIn(R, w)) \in Nat
  BY SumFinite, FS_CardinalityType DEF SumOver
<1>6. \A r \in Requests : ReservesIn(R, w)[r] <= HoldsIn(R, w)[r]
  <2>1. \A r \in Requests : HeldIn(R, r, w) \in Nat
    BY <1>0, <1>2
  <2>2. \A n \in Nat : n <= n /\ 0 <= n
    OBVIOUS
  <2> QED  BY <1>4, <2>1, <2>2
<1>7. SumOver(ReservesIn(R, w)) <= SumOver(HoldsIn(R, w))
  BY <1>3, <1>6, SumMonotone
<1> QED  BY <1>3, <1>4, <1>5, <1>7

\* Changing one record changes the sums by what it holds.
LEMMA HeldChange ==
    ASSUME NEW R \in [Requests -> RecRows], NEW S \in [Requests -> RecRows], NEW r \in Requests,
           \A y \in Requests \ {r} : S[y] = R[y], NEW w
    PROVE  /\ SumOver(HoldsIn(S, w)) = SumOver(HoldsIn(R, w)) - HeldIn(R, r, w) + HeldIn(S, r, w)
           /\ SumOver(ReservesIn(S, w)) =
                SumOver(ReservesIn(R, w))
                  - (IF R[r].status = "reserved" THEN HeldIn(R, r, w) ELSE 0)
                  + (IF S[r].status = "reserved" THEN HeldIn(S, r, w) ELSE 0)
           /\ HeldIn(R, r, w) <= SumOver(HoldsIn(R, w))
<1>1. \A y \in Requests \ {r} : HeldIn(S, y, w) = HeldIn(R, y, w) /\ S[y].status = R[y].status
  BY DEF HeldIn
<1>2. /\ HoldsIn(R, w) \in Amounts /\ ReservesIn(R, w) \in Amounts
      /\ \A y \in Requests : HoldsIn(R, w)[y] = HeldIn(R, y, w)
      /\ \A y \in Requests :
            ReservesIn(R, w)[y] = IF R[y].status = "reserved" THEN HeldIn(R, y, w) ELSE 0
  BY HeldAmounts
<1>3. /\ HoldsIn(S, w) \in Amounts /\ ReservesIn(S, w) \in Amounts
      /\ \A y \in Requests : HoldsIn(S, w)[y] = HeldIn(S, y, w)
      /\ \A y \in Requests :
            ReservesIn(S, w)[y] = IF S[y].status = "reserved" THEN HeldIn(S, y, w) ELSE 0
  BY HeldAmounts
<1>4. SumOver(HoldsIn(S, w)) = SumOver(HoldsIn(R, w)) - HoldsIn(R, w)[r] + HoldsIn(S, w)[r]
  BY <1>1, <1>2, <1>3, SumChange
<1>5. SumOver(ReservesIn(S, w)) = SumOver(ReservesIn(R, w)) - ReservesIn(R, w)[r] + ReservesIn(S, w)[r]
  BY <1>1, <1>2, <1>3, SumChange
<1>6. HoldsIn(R, w)[r] <= SumOver(HoldsIn(R, w))
  BY <1>2, SumAtLeast
<1> QED  BY <1>2, <1>3, <1>4, <1>5, <1>6

-----------------------------------------------------------------------------
(* The inductive invariant about usage.                                     *)

\* For a window with row x whose records hold h, of which v in reservations:
\* its usage is accounted for, and reservations alone stay within its limit.
Conserved(x, h) == x.kind # "none" /\ ~x.manual => x.used = x.opening + h

WithinLimit(x, v) ==
    x.kind # "none" /\ ~x.manual /\ x.total > 0 /\ x.opening <= x.total
    => x.opening + v <= x.total

Accounted(W, R, w) ==
    /\ Conserved(W[w], SumOver(HoldsIn(R, w)))
    /\ WithinLimit(W[w], SumOver(ReservesIn(R, w)))

\* A refund gives back everything.
RefundsWhole(R) == \A r \in Requests : R[r].status = "refunded" => R[r].final = 0

UsageInv == WindowInv /\ (\A w \in WinIds : Accounted(win, rec, w)) /\ RefundsWhole(rec)

\* Nothing is held on a window that does not exist yet.
LEMMA NothingHeld ==
    ASSUME WindowInv, NEW w \in WinIds, w > winSeq
    PROVE  SumOver(HoldsIn(rec, w)) = 0 /\ SumOver(ReservesIn(rec, w)) = 0
<1>0. rec \in [Requests -> RecRows] /\ w \in Nat /\ winSeq \in Nat
  BY DEF WindowInv, Inv, TypeOK, WinIds
<1>1. \A r \in Requests : rec[r].period \in Nat /\ rec[r].five \in Nat
  BY <1>0, BoundsAssumption DEF RecRows
<1>2. \A r \in Requests : rec[r].period <= winSeq /\ rec[r].five <= winSeq
  BY DEF WindowInv, IdsInOrder
<1>3. \A r \in Requests : HeldIn(rec, r, w) = 0
  BY <1>0, <1>1, <1>2 DEF HeldIn
<1>4. \A r \in Requests : HoldsIn(rec, w)[r] = 0 /\ ReservesIn(rec, w)[r] = 0
  BY <1>0, <1>3, HeldAmounts
<1> QED  BY <1>4, SumZero

\* A step that touches no record.
LEMMA QuietAccounted ==
    ASSUME UsageInv, Inv', UNCHANGED rec, NEW w \in WinIds, Carried(w)
    PROVE  Accounted(win', rec', w)
<1>1. Accounted(win, rec, w) /\ WindowInv
  BY DEF UsageInv
<1>2. CASE win'[w].kind = "none"
  BY <1>2 DEF Accounted, Conserved, WithinLimit
<1>3. CASE SameWindow(win'[w], win[w]) /\ SameUsage(win'[w], win[w])
  BY <1>1, <1>3 DEF Accounted, Conserved, WithinLimit, SameWindow, SameUsage
<1>4. CASE win'[w].manual
  BY <1>4 DEF Accounted, Conserved, WithinLimit
<1>5. CASE w > winSeq /\ win'[w].used = win'[w].opening
  <2>1. SumOver(HoldsIn(rec', w)) = 0 /\ SumOver(ReservesIn(rec', w)) = 0
    BY <1>1, <1>5, NothingHeld
  <2>2. win'[w].opening \in Nat /\ win'[w].total \in Nat
    BY DEF Inv, TypeOK, WinRows
  <2> HIDE DEF Inv
  <2> QED  BY <1>5, <2>1, <2>2 DEF Accounted, Conserved, WithinLimit
<1> QED  BY <1>2, <1>3, <1>4, <1>5 DEF Carried, Kept, SetByHand

\* QueueSubscriptionSettlement and CleanupSubscriptionPreConsumeRecords: nothing
\* that is held or reserved changes.
LEMMA RecordOnlyHolds ==
    ASSUME TypeOK, TypeOK',
           \/ \E r \in Requests : \E v, q, t : QueueSubscriptionSettlement(r, v, q, t)
           \/ CleanupSubscriptionPreConsumeRecords
    PROVE  /\ \A r \in Requests :
                 /\ rec'[r].period = rec[r].period /\ rec'[r].five = rec[r].five
                 /\ rec'[r].final = rec[r].final
                 /\ \/ rec'[r].status = rec[r].status
                    \/ rec[r].status \in {"settled", "refunded"} /\ rec'[r].status = "forgotten"
           /\ \A w : HoldsIn(rec', w) = HoldsIn(rec, w) /\ ReservesIn(rec', w) = ReservesIn(rec, w)
<1>0. rec \in [Requests -> RecRows]
  BY DEF TypeOK
<1>1. \A r \in Requests :
         /\ rec'[r].period = rec[r].period /\ rec'[r].five = rec[r].five
         /\ rec'[r].final = rec[r].final
         /\ \/ rec'[r].status = rec[r].status
            \/ rec[r].status \in {"settled", "refunded"} /\ rec'[r].status = "forgotten"
  <2>1. ASSUME NEW r \in Requests, NEW v, NEW q, NEW t, QueueSubscriptionSettlement(r, v, q, t),
               NEW y \in Requests
        PROVE  /\ rec'[y].period = rec[y].period /\ rec'[y].five = rec[y].five
               /\ rec'[y].final = rec[y].final /\ rec'[y].status = rec[y].status
    <3>1. rec[r] \in RecRows
      BY <1>0
    <3>2. rec' = [rec EXCEPT ![r].pending = TRUE, ![r].quota = q, ![r].tokenPre = t,
                             ![r].updated = now]
      BY <2>1 DEF QueueSubscriptionSettlement
    <3>3. rec'[y] = IF y = r THEN [rec[r] EXCEPT !.pending = TRUE, !.quota = q, !.tokenPre = t,
                                                 !.updated = now] ELSE rec[y]
      BY <1>0, <3>2
    <3> QED  BY <3>1, <3>3 DEF RecRows
  <2>2. ASSUME CleanupSubscriptionPreConsumeRecords, NEW y \in Requests
        PROVE  /\ rec'[y].period = rec[y].period /\ rec'[y].five = rec[y].five
               /\ rec'[y].final = rec[y].final
               /\ \/ rec'[y].status = rec[y].status
                  \/ rec[y].status \in {"settled", "refunded"} /\ rec'[y].status = "forgotten"
    <3>1. rec[y] \in RecRows
      BY <1>0
    <3>2. \/ rec'[y] = rec[y]
          \/ /\ rec[y].status \in {"settled", "refunded"}
             /\ rec'[y] = [rec[y] EXCEPT !.status = "forgotten"]
      BY <2>2 DEF CleanupSubscriptionPreConsumeRecords
    <3> QED  BY <3>1, <3>2 DEF RecRows
  <2> QED  BY <2>1, <2>2
<1>2. \A w : \A r \in Requests : HeldIn(rec', r, w) = HeldIn(rec, r, w)
  BY <1>1 DEF HeldIn
<1>3. \A w : HoldsIn(rec', w) = HoldsIn(rec, w) /\ ReservesIn(rec', w) = ReservesIn(rec, w)
  BY <1>1, <1>2 DEF HoldsIn, ReservesIn
<1> QED  BY <1>1, <1>3

\* What a change of amount by d = f - rec[r].final does to window w: what is held
\* on it, and its counter, move by d; the counter never meets its floor while the
\* window is accounted for.
LEMMA AdjustSums ==
    ASSUME TypeOK, TypeOK', NEW r \in Requests, NEW f \in Quotas, NEW st, Adjusts(r, f, st),
           NEW w \in WinIds
    PROVE  LET on == w \in {rec[r].period, rec[r].five}
               d  == f - rec[r].final
               H  == SumOver(HoldsIn(rec, w))
               V  == SumOver(ReservesIn(rec, w))
               was == rec[r].status = "reserved"
           IN  /\ H \in Nat /\ V \in Nat /\ V <= H /\ d \in Int /\ rec[r].final \in Nat
               /\ on => rec[r].final <= H
               /\ SumOver(HoldsIn(rec', w)) = H + (IF on THEN d ELSE 0)
               /\ SumOver(ReservesIn(rec', w)) =
                    V + (IF ~on THEN 0
                         ELSE IF st = "reserved" THEN d
                         ELSE IF was THEN -rec[r].final ELSE 0)
<1>0. rec \in [Requests -> RecRows] /\ rec' \in [Requests -> RecRows]
  BY DEF TypeOK
<1>1. rec[r].final \in Nat /\ f \in Nat
  BY <1>0, BoundsAssumption DEF RecRows, Quotas
<1>2. /\ rec[r].status # "none" /\ rec'[r].status # "none" /\ rec'[r].status = st
      /\ rec'[r].final = f /\ rec'[r].period = rec[r].period /\ rec'[r].five = rec[r].five
      /\ \A y \in Requests \ {r} : rec'[y] = rec[y]
      /\ st = "reserved" => rec[r].status = "reserved"
  BY DEF Adjusts, Live
<1> DEFINE on == w \in {rec[r].period, rec[r].five}
           H  == SumOver(HoldsIn(rec, w))
           V  == SumOver(ReservesIn(rec, w))
<1>3. /\ HeldIn(rec, r, w) = (IF on THEN rec[r].final ELSE 0)
      /\ HeldIn(rec', r, w) = (IF on THEN f ELSE 0)
  BY <1>2 DEF HeldIn
<1>4. H \in Nat /\ V \in Nat /\ V <= H
  BY <1>0, HeldAmounts
<1>5. /\ SumOver(HoldsIn(rec', w)) = H - HeldIn(rec, r, w) + HeldIn(rec', r, w)
      /\ SumOver(ReservesIn(rec', w)) =
           V - (IF rec[r].status = "reserved" THEN HeldIn(rec, r, w) ELSE 0)
             + (IF rec'[r].status = "reserved" THEN HeldIn(rec', r, w) ELSE 0)
      /\ HeldIn(rec, r, w) <= H
  BY <1>0, <1>2, HeldChange
<1> HIDE DEF H, V, on
<1>6. SumOver(HoldsIn(rec', w)) = H + (IF on THEN f - rec[r].final ELSE 0)
  BY <1>1, <1>3, <1>4, <1>5
<1>7. SumOver(ReservesIn(rec', w)) =
        V + (IF ~on THEN 0
             ELSE IF st = "reserved" THEN f - rec[r].final
             ELSE IF rec[r].status = "reserved" THEN -rec[r].final ELSE 0)
  BY <1>1, <1>2, <1>3, <1>4, <1>5
<1>8. on => rec[r].final <= H
  BY <1>3, <1>5
<1> QED  BY <1>1, <1>4, <1>6, <1>7, <1>8 DEF on, H, V

\* SetSubscriptionUsageFinal, RefundSubscriptionUsage, CompleteSubscriptionSettlement.
LEMMA AdjustAccounted ==
    ASSUME UsageInv, Inv', NEW r \in Requests, NEW f \in Quotas, NEW st, Adjusts(r, f, st),
           NEW w \in WinIds
    PROVE  Accounted(win', rec', w)
<1> DEFINE on == w \in {rec[r].period, rec[r].five}
           d  == f - rec[r].final
           H  == SumOver(HoldsIn(rec, w))
           V  == SumOver(ReservesIn(rec, w))
           H1 == SumOver(HoldsIn(rec', w))
           V1 == SumOver(ReservesIn(rec', w))
<1>0. TypeOK /\ TypeOK' /\ Accounted(win, rec, w)
  BY DEF UsageInv, WindowInv, Inv
<1>1. /\ H \in Nat /\ V \in Nat /\ V <= H /\ d \in Int /\ rec[r].final \in Nat
      /\ on => rec[r].final <= H
      /\ H1 = H + (IF on THEN d ELSE 0)
      /\ V1 = V + (IF ~on THEN 0
                   ELSE IF st = "reserved" THEN d
                   ELSE IF rec[r].status = "reserved" THEN -rec[r].final ELSE 0)
  BY <1>0, AdjustSums
<1>2. /\ SameWindow(win'[w], win[w]) /\ win'[w].manual = win[w].manual
      /\ win'[w].used = IF f # rec[r].final /\ on THEN CheckedAdd(win[w].used, d) ELSE win[w].used
  BY <1>0, AdjustCountersFields DEF Adjusts
<1>3. /\ win[w].used \in Nat /\ win[w].opening \in Nat /\ win[w].total \in Nat
      /\ f \in Nat /\ rec[r].final \in Nat
  BY <1>0, <1>1, BoundsAssumption DEF TypeOK, WinRows, Quotas
<1>4. st = "reserved" /\ on /\ d # 0 /\ win[w].total > 0 => CheckedAdd(win[w].used, d) <= win[w].total
  <2>1. w # 0
    BY DEF WinIds
  <2> QED  BY <2>1 DEF Adjusts, Adjustable
<1>5. d = 0 <=> f = rec[r].final
  BY <1>3
<1>f. d = f - rec[r].final
  OBVIOUS
<1> HIDE DEF on, d, H, V, H1, V1
<1>6. SUFFICES ASSUME win[w].kind # "none", ~win[w].manual
               PROVE  /\ win'[w].used = win[w].opening + H1
                      /\ win[w].total > 0 /\ win[w].opening <= win[w].total
                         => win[w].opening + V1 <= win[w].total
  BY <1>2 DEF Accounted, Conserved, WithinLimit, SameWindow, H1, V1
<1>7. /\ win[w].used = win[w].opening + H
      /\ win[w].total > 0 /\ win[w].opening <= win[w].total
         => win[w].opening + V <= win[w].total
  BY <1>0, <1>6 DEF Accounted, Conserved, WithinLimit, H, V
<1>8. on => CheckedAdd(win[w].used, d) = win[w].used + d
  <2>1. on => win[w].used + d >= 0
    BY <1>1, <1>3, <1>7, <1>f
  <2> QED  BY <1>1, <1>3, <2>1 DEF CheckedAdd
<1>9. win'[w].used = win[w].opening + H1
  <2>1. CASE on /\ d # 0
    BY <1>1, <1>2, <1>3, <1>5, <1>7, <1>8, <2>1
  <2>2. CASE ~on \/ d = 0
    BY <1>1, <1>2, <1>3, <1>5, <1>7, <2>2
  <2> QED  BY <2>1, <2>2
<1>10. ASSUME win[w].total > 0, win[w].opening <= win[w].total
       PROVE  win[w].opening + V1 <= win[w].total
  <2>1. CASE on /\ d # 0 /\ st = "reserved"
    <3>1. win[w].used + d <= win[w].total
      BY <1>4, <1>8, <1>10, <2>1
    <3> QED  BY <1>1, <1>3, <1>7, <2>1, <3>1
  <2>2. CASE ~on \/ d = 0 \/ st # "reserved"
    <3>1. V1 <= V /\ V1 \in Int
      BY <1>1, <2>2
    <3> QED  BY <1>1, <1>3, <1>7, <1>10, <3>1
  <2> QED  BY <2>1, <2>2
<1> QED  BY <1>9, <1>10

\* What admission of request r with amount a does to window w: either a is added to
\* an existing counter, or the window is opened with it, or nothing happens to its
\* usage; and a limited window has room for it.
AddsTo(w, a) ==
    /\ SameWindow(win'[w], win[w]) /\ win'[w].manual = win[w].manual
    /\ win'[w].used = win[w].used + a
    /\ win[w].kind # "none" /\ win[w].total > 0 => win[w].used + a <= win[w].total

OpensWith(w, a) ==
    /\ w > winSeq /\ ~win'[w].manual /\ win'[w].used = win'[w].opening + a
    /\ win'[w].total > 0 => win'[w].used <= win'[w].total

LEMMA AdmissionEffect ==
    ASSUME WindowInv, NEW r \in Requests, NEW a \in Quotas \ {0},
           PreConsumeUserSubscription(r, a), NEW w \in WinIds
    PROVE  /\ rec[r].status = "none"
           /\ \A y \in Requests \ {r} : rec'[y] = rec[y]
           /\ rec'[r].status = "reserved" /\ rec'[r].final = a
           /\ IF w \in {rec'[r].period, rec'[r].five} THEN AddsTo(w, a) \/ OpensWith(w, a)
              ELSE SameWindow(win'[w], win[w]) /\ SameUsage(win'[w], win[w])
<1>1. PICK c \in ValidSubs(now), s \in ValidSubs(now) :
         /\ \A x \in {x \in ValidSubs(now) : TriedBefore(c, x, s)} \cup {s} : CurrentLoadable(x)
         /\ Admits(MaybeReset(sub[s], now), a)
         /\ Admit(r, a, s, {x \in ValidSubs(now) : TriedBefore(c, x, s)})
  BY DEF PreConsumeUserSubscription
<1> DEFINE past == {x \in ValidSubs(now) : TriedBefore(c, x, s)}
           row  == MaybeReset(sub[s], now)
           newP == OpensP(s)
           newF == OpensF(s)
           p    == AdmitP(s)
           f    == AdmitF(s)
<1>2. /\ s \in SubIds /\ past \subseteq SubIds \ {s}
      /\ \A x \in past \cup {s} : sub[x].status = "active" /\ CurrentLoadable(x)
      /\ Admit(r, a, s, past) /\ Admits(row, a)
  BY <1>1 DEF ValidSubs, TriedBefore
<1>3. TypeOK /\ winSeq \in Nat /\ sub[s] \in SubRows /\ RowFits(s, sub[s], win)
      /\ rec[r].status = "none"
  BY <1>2 DEF WindowInv, Inv, TypeOK, RowsFit, PreConsumeUserSubscription
<1> HIDE DEF past
<1>4. /\ TurnsOver(s, past, newP, newF)
      /\ HasF(s) /\ ~newF => f # 0
      /\ \A v \in WinIds : ~(newP /\ v = p) /\ ~(newF /\ v = f) =>
             /\ SameWindow(win'[v], win[v]) /\ win'[v].manual = win[v].manual
             /\ win'[v].used = IF v = p \/ (HasF(s) /\ v = f) THEN win[v].used + a ELSE win[v].used
      /\ newP => /\ win'[p].total = sub[s].plan.total /\ win'[p].opening = row.used
                 /\ ~win'[p].manual /\ win'[p].used = win'[p].opening + a
      /\ newF => /\ win'[f].total = sub[s].plan.fiveHour /\ win'[f].opening = 0
                 /\ ~win'[f].manual /\ win'[f].used = a
      /\ p \in WinIds
      /\ \A y \in Requests \ {r} : rec'[y] = rec[y]
      /\ rec'[r].period = p /\ rec'[r].status = "reserved" /\ rec'[r].final = a
      /\ rec'[r].five = IF HasF(s) THEN f ELSE 0
  BY <1>2, AdmitFields
<1>5. /\ newP => p = winSeq + 1
      /\ newF => f > winSeq
      /\ p # 0 => p # f
  BY <1>4, TurnsOverIds DEF AdmitP, AdmitF
<1>6. /\ newP <=> row.curP = 0
      /\ newF <=> row.plan.fiveHour > 0 /\ ~FiveHourLive(row)
      /\ ~newP => p = row.curP
      /\ ~newF => f = row.curF
      /\ HasF(s) <=> row.plan.fiveHour > 0
      /\ row.plan = sub[s].plan /\ row.curF = sub[s].curF
      /\ row.curP # 0 => row.curP = sub[s].curP
  <2>1. row.plan = sub[s].plan /\ row.curF = sub[s].curF /\ (row.curP # 0 => row.curP = sub[s].curP)
    BY <1>3, MaybeResetFields
  <2> QED  BY <2>1 DEF OpensP, OpensF, HasF, AdmitP, AdmitF, Window1, Window2
<1>7. a \in Nat /\ w # 0 /\ newP \in BOOLEAN /\ newF \in BOOLEAN
  BY BoundsAssumption DEF Quotas, WinIds, OpensP, OpensF
<1>8. /\ row.plan.total > 0 => PeriodUsed(row) + a <= row.plan.total
      /\ row.plan.fiveHour > 0 => FiveHourUsed(row) + a <= row.plan.fiveHour
  BY <1>2 DEF Admits
<1> HIDE DEF row, newP, newF, p, f
<1>9. CASE w = p
  <2>1. CASE newP
    <3>1. PeriodUsed(row) = row.used
      BY <1>6, <2>1 DEF PeriodUsed
    <3>2. w > winSeq
      BY <1>3, <1>5, <1>9, <2>1
    <3>3. OpensWith(w, a)
      BY <1>4, <1>6, <1>8, <1>9, <2>1, <3>1, <3>2 DEF OpensWith
    <3> QED  BY <1>3, <1>4, <1>9, <3>3
  <2>2. CASE ~newP
    <3>1. PeriodUsed(row) = win[w].used /\ w = sub[s].curP
      BY <1>6, <1>9, <2>2 DEF PeriodUsed
    <3>2. win[w].kind # "none" => win[w].total = sub[s].plan.total
      BY <1>3, <1>7, <3>1 DEF RowFits, PeriodFits
    <3>3. ~(newF /\ w = f)
      BY <1>5, <1>7, <1>9
    <3>4. AddsTo(w, a)
      BY <1>4, <1>6, <1>8, <1>9, <2>2, <3>1, <3>2, <3>3 DEF AddsTo
    <3> QED  BY <1>3, <1>4, <1>9, <3>4
  <2> QED  BY <2>1, <2>2
<1>10. CASE w # p /\ HasF(s) /\ w = f
  <2>1. CASE newF
    <3>1. FiveHourUsed(row) = 0
      BY <1>6, <2>1 DEF FiveHourUsed
    <3>2. w > winSeq
      BY <1>5, <1>10, <2>1
    <3>3. 0 + a = a
      BY <1>7
    <3>4. OpensWith(w, a)
      BY <1>4, <1>6, <1>8, <1>10, <2>1, <3>1, <3>2, <3>3 DEF OpensWith
    <3> QED  BY <1>3, <1>4, <1>10, <3>4
  <2>2. CASE ~newF
    <3>1. FiveHourUsed(row) = win[w].used /\ w = sub[s].curF
      BY <1>6, <1>10, <2>2 DEF FiveHourUsed
    <3>2. win[w].kind # "none" => win[w].total = sub[s].plan.fiveHour
      BY <1>3, <1>7, <3>1 DEF RowFits, FiveHourFits
    <3>4. AddsTo(w, a)
      BY <1>4, <1>6, <1>8, <1>10, <2>2, <3>1, <3>2 DEF AddsTo
    <3> QED  BY <1>3, <1>4, <1>10, <3>4
  <2> QED  BY <2>1, <2>2
<1>11. CASE w # p /\ ~(HasF(s) /\ w = f)
  <2>1. ~(newF /\ w = f)
    BY <1>6, <1>11
  <2>2. SameWindow(win'[w], win[w]) /\ SameUsage(win'[w], win[w])
    BY <1>4, <1>11, <2>1 DEF SameUsage
  <2>3. w \notin {rec'[r].period, rec'[r].five}
    BY <1>4, <1>7, <1>11
  <2> QED  BY <1>3, <1>4, <2>2, <2>3
<1> QED  BY <1>9, <1>10, <1>11

\* What is held and reserved on w grows by a.
LEMMA AdmissionSums ==
    ASSUME TypeOK, TypeOK', NEW r \in Requests, NEW a \in Quotas, rec[r].status = "none",
           \A y \in Requests \ {r} : rec'[y] = rec[y], rec'[r].status = "reserved",
           rec'[r].final = a, NEW w
    PROVE  LET H == SumOver(HoldsIn(rec, w))
               V == SumOver(ReservesIn(rec, w))
               n == IF w \in {rec'[r].period, rec'[r].five} THEN a ELSE 0
           IN  /\ H \in Nat /\ V \in Nat /\ V <= H /\ a \in Nat
               /\ SumOver(HoldsIn(rec', w)) = H + n /\ SumOver(ReservesIn(rec', w)) = V + n
<1>0. rec \in [Requests -> RecRows] /\ rec' \in [Requests -> RecRows] /\ a \in Nat
  BY BoundsAssumption DEF TypeOK, Quotas
<1> DEFINE n == IF w \in {rec'[r].period, rec'[r].five} THEN a ELSE 0
           H == SumOver(HoldsIn(rec, w))
           V == SumOver(ReservesIn(rec, w))
<1>1. HeldIn(rec, r, w) = 0 /\ HeldIn(rec', r, w) = n
  BY DEF HeldIn
<1>2. H \in Nat /\ V \in Nat /\ V <= H
  BY <1>0, HeldAmounts
<1>3. /\ SumOver(HoldsIn(rec', w)) = H - HeldIn(rec, r, w) + HeldIn(rec', r, w)
      /\ SumOver(ReservesIn(rec', w)) =
           V - (IF rec[r].status = "reserved" THEN HeldIn(rec, r, w) ELSE 0)
             + (IF rec'[r].status = "reserved" THEN HeldIn(rec', r, w) ELSE 0)
  BY <1>0, HeldChange
<1>4. n \in Nat
  BY <1>0
<1> HIDE DEF n, H, V
<1>5. SumOver(HoldsIn(rec', w)) = H + n /\ SumOver(ReservesIn(rec', w)) = V + n
  BY <1>1, <1>2, <1>3, <1>4
<1> QED  BY <1>0, <1>2, <1>5 DEF n, H, V

\* PreConsumeUserSubscription.
LEMMA AdmissionAccounted ==
    ASSUME UsageInv, Inv', NEW r \in Requests, NEW a \in Quotas \ {0},
           PreConsumeUserSubscription(r, a), NEW w \in WinIds
    PROVE  Accounted(win', rec', w)
<1> DEFINE on == w \in {rec'[r].period, rec'[r].five}
           H  == SumOver(HoldsIn(rec, w))
           V  == SumOver(ReservesIn(rec, w))
           H1 == SumOver(HoldsIn(rec', w))
           V1 == SumOver(ReservesIn(rec', w))
<1>0. TypeOK /\ TypeOK' /\ WindowInv /\ Accounted(win, rec, w)
  BY DEF UsageInv, WindowInv, Inv
<1>1. /\ rec[r].status = "none"
      /\ \A y \in Requests \ {r} : rec'[y] = rec[y]
      /\ rec'[r].status = "reserved" /\ rec'[r].final = a
      /\ IF on THEN AddsTo(w, a) \/ OpensWith(w, a)
         ELSE SameWindow(win'[w], win[w]) /\ SameUsage(win'[w], win[w])
  BY <1>0, AdmissionEffect
<1>2. /\ H \in Nat /\ V \in Nat /\ V <= H /\ a \in Nat
      /\ H1 = H + (IF on THEN a ELSE 0) /\ V1 = V + (IF on THEN a ELSE 0)
  BY <1>0, <1>1, AdmissionSums
<1>3. /\ win[w].used \in Nat /\ win[w].opening \in Nat /\ win[w].total \in Nat
      /\ win'[w].used \in Nat /\ win'[w].opening \in Nat /\ win'[w].total \in Nat
  BY <1>0 DEF TypeOK, WinRows
<1>4. Conserved(win[w], H) /\ WithinLimit(win[w], V)
  BY <1>0 DEF Accounted
<1>5. w > winSeq => H = 0 /\ V = 0
  BY <1>0, NothingHeld
<1> HIDE DEF on, H, V, H1, V1
<1>6. CASE ~on
  <2>1. H1 = H /\ V1 = V
    BY <1>2, <1>6
  <2>2. Conserved(win'[w], H1) /\ WithinLimit(win'[w], V1)
    BY <1>1, <1>4, <1>6, <2>1 DEF Conserved, WithinLimit, SameWindow, SameUsage
  <2> QED  BY <2>2 DEF Accounted, H1, V1
<1>7. CASE on /\ AddsTo(w, a)
  <2>1. H1 = H + a /\ V1 = V + a
    BY <1>2, <1>7
  <2>2. Conserved(win'[w], H1)
    BY <1>2, <1>3, <1>4, <1>7, <2>1 DEF Conserved, AddsTo, SameWindow
  <2>3. WithinLimit(win'[w], V1)
    BY <1>2, <1>3, <1>4, <1>7, <2>1 DEF Conserved, WithinLimit, AddsTo, SameWindow
  <2> QED  BY <2>2, <2>3 DEF Accounted, H1, V1
<1>8. CASE on /\ OpensWith(w, a)
  <2>1. H1 = a /\ V1 = a
    BY <1>2, <1>5, <1>8 DEF OpensWith
  <2>2. Conserved(win'[w], H1) /\ WithinLimit(win'[w], V1)
    BY <1>8, <2>1 DEF Conserved, WithinLimit, OpensWith
  <2> QED  BY <2>2 DEF Accounted, H1, V1
<1> QED  BY <1>1, <1>6, <1>7, <1>8

-----------------------------------------------------------------------------
(* Usage is accounted for in every reachable state.                         *)

\* There are no windows and no records to start with.
LEMMA InitUsage ==
    ASSUME Init
    PROVE  UsageInv
<1>1. \A w \in WinIds : win[w].kind = "none"
  BY DEF Init, NoWin
<1>2. \A r \in Requests : rec[r].status = "none"
  BY DEF Init, NoRec
<1> QED  BY <1>1, <1>2, InitWindows DEF UsageInv, Accounted, Conserved, WithinLimit, RefundsWhole

\* Every step of every actor keeps the account.
LEMMA NextUsage ==
    ASSUME UsageInv, [Next]_vars
    PROVE  UsageInv'
<1>0. WindowInv /\ WindowInv' /\ TypeOK /\ TypeOK' /\ Inv'
  BY NextWindows DEF UsageInv, WindowInv, Inv
<1>1. RefundsWhole(rec)
  BY DEF UsageInv
<1>2. SUFFICES (\A w \in WinIds : Accounted(win', rec', w)) /\ RefundsWhole(rec')
  BY <1>0 DEF UsageInv
<1>3. CASE UNCHANGED rec /\ \A w \in WinIds : Carried(w)
  <2>1. \A w \in WinIds : Accounted(win', rec', w)
    BY <1>0, <1>3, QuietAccounted
  <2> QED  BY <1>1, <1>3, <2>1
<1>4. ASSUME NEW r \in Requests, NEW a \in Quotas \ {0}, PreConsumeUserSubscription(r, a)
      PROVE  (\A w \in WinIds : Accounted(win', rec', w)) /\ RefundsWhole(rec')
  <2>1. \A w \in WinIds : Accounted(win', rec', w)
    BY <1>0, <1>4, AdmissionAccounted
  <2>2. rec' = [rec EXCEPT ![r] = rec'[r]] /\ rec'[r].status = "reserved"
    BY <1>0, <1>4, Admitted DEF WindowInv
  <2>3. \A y \in Requests \ {r} : rec'[y] = rec[y]
    BY <1>0, <2>2 DEF TypeOK
  <2> QED  BY <1>1, <2>1, <2>2, <2>3 DEF RefundsWhole
<1>5. ASSUME NEW r \in Requests, NEW f \in Quotas, NEW st \in {"reserved", "settled", "refunded"},
             Adjusts(r, f, st)
      PROVE  (\A w \in WinIds : Accounted(win', rec', w)) /\ RefundsWhole(rec')
  <2>1. \A w \in WinIds : Accounted(win', rec', w)
    BY <1>0, <1>5, AdjustAccounted
  <2>2. RefundsWhole(rec')
    BY <1>1, <1>5 DEF RefundsWhole, Adjusts
  <2> QED  BY <2>1, <2>2
<1>6. CASE /\ UNCHANGED win
           /\ \/ \E r \in Requests : \E v, q, t : QueueSubscriptionSettlement(r, v, q, t)
              \/ CleanupSubscriptionPreConsumeRecords
  <2>1. /\ \A r \in Requests : /\ rec'[r].final = rec[r].final
                               /\ rec'[r].status = rec[r].status \/ rec'[r].status = "forgotten"
        /\ \A w : HoldsIn(rec', w) = HoldsIn(rec, w) /\ ReservesIn(rec', w) = ReservesIn(rec, w)
    BY <1>0, <1>6, RecordOnlyHolds
  <2>2. \A w \in WinIds : Accounted(win, rec, w)
    BY DEF UsageInv
  <2>3. \A w \in WinIds : Accounted(win', rec', w)
    BY <1>6, <2>1, <2>2 DEF Accounted
  <2> QED  BY <1>1, <2>1, <2>3 DEF RefundsWhole
<1> QED  BY <1>0, <1>3, <1>4, <1>5, <1>6, StepCarries

\* So it holds in every reachable state.
LEMMA UsageInvariant == Spec => []UsageInv
<1>1. Init => UsageInv
  BY InitUsage
<1>2. UsageInv /\ [Next]_vars => UsageInv'
  BY NextUsage
<1> QED  BY <1>1, <1>2, PTL DEF Spec

\* What is held by the records of the ledger.
LEMMA LedgerHolds ==
    ASSUME NEW w
    PROVE  Holds(w) = HoldsIn(rec, w) /\ Reserves(w) = ReservesIn(rec, w)
BY DEF Holds, HoldsIn, Reserves, ReservesIn, HeldOn, HeldIn

\* The usage of a window is exactly what it was opened with plus what the requests
\* admitted to it hold, for any number of requests, plans, resets and upgrades.
THEOREM UsageIsConserved == Spec => []UsageConserved
<1>1. ASSUME UsageInv
      PROVE  UsageConserved
  <2>1. \A w \in WinIds : Conserved(win[w], SumOver(HoldsIn(rec, w)))
    BY <1>1 DEF UsageInv, Accounted
  <2> QED  BY <2>1, LedgerHolds DEF UsageConserved, Conserved
<1> QED  BY <1>1, UsageInvariant, PTL

\* A window is over its limit only if usage was settled above its reservation, or
\* carried or set from outside: admissions and raised reservations never get there.
THEOREM OverrunsAreSettled == Spec => []OverrunOnlyBySettlement
<1>1. ASSUME UsageInv
      PROVE  OverrunOnlyBySettlement
  <2>0. TypeOK /\ rec \in [Requests -> RecRows]
    BY <1>1 DEF UsageInv, WindowInv, Inv, TypeOK
  <2> SUFFICES ASSUME NEW w \in WinIds, win[w].kind # "none", ~win[w].manual,
                      win[w].total > 0, win[w].used > win[w].total,
                      win[w].opening <= win[w].total,
                      \A r \in Requests : w \in {rec[r].period, rec[r].five}
                                          => rec[r].status \notin {"settled", "forgotten"}
               PROVE  FALSE
    <3>1. \A w \in WinIds : win[w].opening \in Nat /\ win[w].total \in Nat
      BY <2>0 DEF TypeOK, WinRows
    <3>2. \A w \in WinIds : win[w].opening > win[w].total \/ win[w].opening <= win[w].total
      BY <3>1
    <3> QED  BY <3>2 DEF OverrunOnlyBySettlement
  <2>1. Accounted(win, rec, w)
    BY <1>1 DEF UsageInv
  <2>2. \A r \in Requests : HeldIn(rec, r, w) = IF rec[r].status = "reserved"
                                                THEN HeldIn(rec, r, w) ELSE 0
    <3>1. \A r \in Requests : rec[r].status \in {"none", "reserved", "settled", "refunded", "forgotten"}
      BY <2>0 DEF RecRows
    <3>2. \A r \in Requests : rec[r].status = "refunded" => rec[r].final = 0
      BY <1>1 DEF UsageInv, RefundsWhole
    <3> QED  BY <3>1, <3>2 DEF HeldIn
  <2>3. HoldsIn(rec, w) = ReservesIn(rec, w)
    BY <2>2 DEF HoldsIn, ReservesIn
  <2>4. win[w].used <= win[w].total
    BY <2>1, <2>3 DEF Accounted, Conserved, WithinLimit
  <2>5. win[w].used \in Nat /\ win[w].total \in Nat
    BY <2>0 DEF TypeOK, WinRows
  <2> QED  BY <2>4, <2>5
<1> QED  BY <1>1, UsageInvariant, PTL

-----------------------------------------------------------------------------
(* Reservations stay booked.                                                *)

\* The records R are done with window w, and window w of W covers what they reserve.
FinishedIn(R, w) ==
    \E r \in Requests : /\ w \in {R[r].period, R[r].five}
                        /\ R[r].status \in {"settled", "refunded", "forgotten"}

Covered(W, R, w) ==
    W[w].kind # "none" /\ W[w].manual /\ ~FinishedIn(R, w)
    => W[w].used >= SumOver(ReservesIn(R, w))

CoverInv == UsageInv /\ \A w \in WinIds : Covered(win, rec, w)

\* A window that is accounted for, or covered, holds its reservations.
LEMMA CoversReserves ==
    ASSUME CoverInv, NEW w \in WinIds, win[w].kind # "none",
           win[w].manual => ~FinishedIn(rec, w)
    PROVE  win[w].used >= SumOver(ReservesIn(rec, w))
<1>0. TypeOK /\ rec \in [Requests -> RecRows] /\ Accounted(win, rec, w) /\ Covered(win, rec, w)
  BY DEF CoverInv, UsageInv, WindowInv, Inv, TypeOK
<1>1. /\ SumOver(HoldsIn(rec, w)) \in Nat /\ SumOver(ReservesIn(rec, w)) \in Nat
      /\ SumOver(ReservesIn(rec, w)) <= SumOver(HoldsIn(rec, w))
  BY <1>0, HeldAmounts
<1>2. win[w].opening \in Nat /\ win[w].used \in Nat
  BY <1>0 DEF TypeOK, WinRows
<1>3. CASE win[w].manual
  BY <1>0, <1>3 DEF Covered
<1>4. CASE ~win[w].manual
  <2>1. win[w].used = win[w].opening + SumOver(HoldsIn(rec, w))
    BY <1>0, <1>4 DEF Accounted, Conserved
  <2> QED  BY <1>1, <1>2, <2>1
<1> QED  BY <1>3, <1>4

\* A step that touches no record, when legacy tasks give nothing back.
LEMMA QuietCovered ==
    ASSUME CoverInv, Inv', Deltas \subseteq Nat, UNCHANGED rec, NEW w \in WinIds, Carried(w)
    PROVE  Covered(win', rec', w)
<1> DEFINE V == SumOver(ReservesIn(rec, w))
<1>0. WindowInv /\ TypeOK /\ TypeOK' /\ rec \in [Requests -> RecRows]
  BY DEF CoverInv, UsageInv, WindowInv, Inv, TypeOK
<1>1. V \in Nat /\ win'[w].used \in Nat /\ win[w].used \in Nat
  <2>1. V \in Nat
    BY <1>0, HeldAmounts
  <2>2. win'[w] \in WinRows /\ win[w] \in WinRows
    BY <1>0 DEF TypeOK
  <2> QED  BY <2>1, <2>2 DEF WinRows
<1>2. SUFFICES ASSUME win'[w].kind # "none", win'[w].manual, ~FinishedIn(rec, w)
               PROVE  win'[w].used >= V
  BY DEF Covered
<1>3. w > winSeq => V = 0
  BY <1>0, NothingHeld
<1>4. NoneReserved => V = 0
  <2>1. ASSUME NoneReserved
        PROVE  \A r \in Requests : ReservesIn(rec, w)[r] = 0
    BY <2>1 DEF NoneReserved, ReservesIn
  <2> QED  BY <2>1, SumZero
<1>5. Kept(w) => win[w].used >= V
  BY <1>2, CoversReserves DEF Kept, SameWindow
<1> HIDE DEF V
<1>6. CASE Kept(w) /\ SameUsage(win'[w], win[w])
  BY <1>5, <1>6 DEF SameUsage
<1>7. CASE V = 0
  BY <1>1, <1>7
<1>8. CASE Kept(w) /\ win'[w].used >= win[w].used
  BY <1>1, <1>5, <1>8
<1> QED  BY <1>2, <1>3, <1>4, <1>6, <1>7, <1>8 DEF Carried, SetByHand

\* PreConsumeUserSubscription.
LEMMA AdmissionCovered ==
    ASSUME CoverInv, Inv', NEW r \in Requests, NEW a \in Quotas \ {0},
           PreConsumeUserSubscription(r, a), NEW w \in WinIds
    PROVE  Covered(win', rec', w)
<1> DEFINE on == w \in {rec'[r].period, rec'[r].five}
           V  == SumOver(ReservesIn(rec, w))
           V1 == SumOver(ReservesIn(rec', w))
<1>0. TypeOK /\ TypeOK' /\ WindowInv
  BY DEF CoverInv, UsageInv, WindowInv, Inv
<1>1. /\ rec[r].status = "none"
      /\ \A y \in Requests \ {r} : rec'[y] = rec[y]
      /\ rec'[r].status = "reserved" /\ rec'[r].final = a
      /\ IF on THEN AddsTo(w, a) \/ OpensWith(w, a)
         ELSE SameWindow(win'[w], win[w]) /\ SameUsage(win'[w], win[w])
  BY <1>0, AdmissionEffect
<1>2. V \in Nat /\ a \in Nat /\ V1 = V + (IF on THEN a ELSE 0)
  BY <1>0, <1>1, AdmissionSums
<1>3. win[w].used \in Nat
  BY <1>0 DEF TypeOK, WinRows
<1>4. SUFFICES ASSUME win'[w].kind # "none", win'[w].manual, ~FinishedIn(rec', w)
               PROVE  win'[w].used >= V1
  BY DEF Covered
<1>5. ~FinishedIn(rec, w)
  BY <1>1, <1>4 DEF FinishedIn
<1>6. win[w].kind # "none" => win[w].used >= V
  BY <1>5, CoversReserves
<1> HIDE DEF on, V, V1
<1>7. CASE ~on
  BY <1>1, <1>2, <1>4, <1>6, <1>7 DEF SameWindow, SameUsage
<1>8. CASE on
  <2>1. AddsTo(w, a)
    BY <1>1, <1>4, <1>8 DEF OpensWith
  <2> QED  BY <1>2, <1>3, <1>4, <1>6, <1>8, <2>1 DEF AddsTo, SameWindow
<1> QED  BY <1>7, <1>8

\* SetSubscriptionUsageFinal, RefundSubscriptionUsage, CompleteSubscriptionSettlement.
LEMMA AdjustCovered ==
    ASSUME CoverInv, Inv', NEW r \in Requests, NEW f \in Quotas, NEW st, Adjusts(r, f, st),
           NEW w \in WinIds
    PROVE  Covered(win', rec', w)
<1> DEFINE on == w \in {rec[r].period, rec[r].five}
           d  == f - rec[r].final
           V  == SumOver(ReservesIn(rec, w))
           V1 == SumOver(ReservesIn(rec', w))
<1>0. TypeOK /\ TypeOK'
  BY DEF CoverInv, UsageInv, WindowInv, Inv
<1>1. /\ V \in Nat /\ d \in Int /\ rec[r].final \in Nat
      /\ V1 = V + (IF ~on THEN 0
                   ELSE IF st = "reserved" THEN d
                   ELSE IF rec[r].status = "reserved" THEN -rec[r].final ELSE 0)
  BY <1>0, AdjustSums
<1>2. /\ SameWindow(win'[w], win[w]) /\ win'[w].manual = win[w].manual
      /\ win'[w].used = IF f # rec[r].final /\ on THEN CheckedAdd(win[w].used, d) ELSE win[w].used
  BY <1>0, AdjustCountersFields DEF Adjusts
<1>3. win[w].used \in Nat /\ f \in Nat
  BY <1>0, BoundsAssumption DEF TypeOK, WinRows, Quotas
<1>4. SUFFICES ASSUME win'[w].kind # "none", win'[w].manual, ~FinishedIn(rec', w)
               PROVE  win'[w].used >= V1
  BY DEF Covered
<1>5. /\ \A y \in Requests \ {r} : rec'[y] = rec[y]
      /\ rec'[r].period = rec[r].period /\ rec'[r].five = rec[r].five /\ rec'[r].status = st
      /\ st \in {"reserved", "settled", "refunded"}
      /\ st = "reserved" => rec[r].status = "reserved"
  BY DEF Adjusts
<1>6. on => st = "reserved"
  BY <1>4, <1>5 DEF FinishedIn
<1>7. ~FinishedIn(rec, w)
  BY <1>4, <1>5, <1>6 DEF FinishedIn
<1>8. win[w].used >= V
  BY <1>2, <1>4, <1>7, CoversReserves DEF SameWindow
<1>9. d = 0 <=> f = rec[r].final
  BY <1>1, <1>3
<1> HIDE DEF on, d, V, V1
<1>10. CASE ~on
  BY <1>1, <1>2, <1>8, <1>10
<1>11. CASE on /\ d = 0
  BY <1>1, <1>2, <1>6, <1>8, <1>9, <1>11
<1>12. CASE on /\ d # 0
  <2>1. CheckedAdd(win[w].used, d) >= win[w].used + d
    BY <1>1, <1>3 DEF CheckedAdd
  <2>2. V1 = V + d /\ win'[w].used = CheckedAdd(win[w].used, d)
    BY <1>1, <1>2, <1>6, <1>9, <1>12
  <2>3. CheckedAdd(win[w].used, d) \in Int
    BY <1>1, <1>3 DEF CheckedAdd
  <2> QED  BY <1>1, <1>3, <1>8, <2>1, <2>2, <2>3
<1> QED  BY <1>10, <1>11, <1>12

\* Every step keeps the reservations covered.
LEMMA NextCovered ==
    ASSUME Deltas \subseteq Nat, CoverInv, [Next]_vars
    PROVE  CoverInv'
<1>0. UsageInv /\ UsageInv' /\ WindowInv /\ Inv' /\ TypeOK /\ TypeOK'
  BY NextUsage, NextWindows DEF CoverInv, UsageInv, WindowInv, Inv
<1>1. SUFFICES \A w \in WinIds : Covered(win', rec', w)
  BY <1>0 DEF CoverInv
<1>2. CASE UNCHANGED rec /\ \A w \in WinIds : Carried(w)
  BY <1>0, <1>2, QuietCovered
<1>3. ASSUME NEW r \in Requests, NEW a \in Quotas \ {0}, PreConsumeUserSubscription(r, a)
      PROVE  \A w \in WinIds : Covered(win', rec', w)
  BY <1>0, <1>3, AdmissionCovered
<1>4. ASSUME NEW r \in Requests, NEW f \in Quotas, NEW st, Adjusts(r, f, st)
      PROVE  \A w \in WinIds : Covered(win', rec', w)
  BY <1>0, <1>4, AdjustCovered
<1>5. CASE /\ UNCHANGED win
           /\ \/ \E r \in Requests : \E v, q, t : QueueSubscriptionSettlement(r, v, q, t)
              \/ CleanupSubscriptionPreConsumeRecords
  <2>1. /\ \A r \in Requests :
              /\ rec'[r].period = rec[r].period /\ rec'[r].five = rec[r].five
              /\ rec'[r].status = rec[r].status \/ rec'[r].status = "forgotten"
        /\ \A w : ReservesIn(rec', w) = ReservesIn(rec, w)
    BY <1>0, <1>5, RecordOnlyHolds
  <2>2. \A w \in WinIds : FinishedIn(rec, w) => FinishedIn(rec', w)
    BY <2>1 DEF FinishedIn
  <2>3. \A w \in WinIds : Covered(win, rec, w)
    BY DEF CoverInv
  <2> QED  BY <1>5, <2>1, <2>2, <2>3 DEF Covered
<1> QED  BY <1>0, <1>2, <1>3, <1>4, <1>5, StepCarries

\* What requests in flight may still consume stays booked on their windows, whatever
\* an administrator sets, resets or cancels, as long as the tasks that predate the
\* ledger give nothing back.
THEOREM ReservationsStayBooked ==
    ASSUME Deltas \subseteq Nat
    PROVE  Spec => []ReservationsCovered
<1>1. ASSUME Init
      PROVE  CoverInv
  <2>1. \A w \in WinIds : win[w].kind = "none"
    BY <1>1 DEF Init, NoWin
  <2> QED  BY <1>1, <2>1, InitUsage DEF CoverInv, Covered
<1>2. CoverInv /\ [Next]_vars => CoverInv'
  BY NextCovered
<1>3. ASSUME CoverInv
      PROVE  ReservationsCovered
  <2> SUFFICES ASSUME NEW w \in WinIds, win[w].kind # "none",
                      win[w].manual => \A r \in Requests : ~FinishedOn(r, w)
               PROVE  win[w].used >= SumOver(Reserves(w))
    BY DEF ReservationsCovered
  <2>1. win[w].manual => ~FinishedIn(rec, w)
    BY DEF FinishedOn, FinishedIn
  <2> QED  BY <1>3, <2>1, CoversReserves, LedgerHolds
<1> QED  BY <1>1, <1>2, <1>3, PTL DEF Spec

-----------------------------------------------------------------------------
(* The periodic task over the ledger (SubscriptionMaintenance): what it      *)
(* settles has been proved by a log, although it works with copies of rows  *)
(* that sessions go on changing.                                            *)

Logs == [n : Nat, quota : Quotas, consumed : Quotas]
Copies == [r : Requests, pending : BOOLEAN, final : Quotas, version : Nat]

\* A copy of a record is not ahead of it, and with the same version says the
\* same of its charge.
CopyKept(row) ==
    /\ row \in Copies
    /\ row.version <= rec[row.r].version
    /\ row.version = rec[row.r].version => row.final = rec[row.r].final

\* What the task holds between its query and its transactions.
BatchKept ==
    /\ pc = "reconcile" => \A row \in batch : CopyKept(row)
    /\ pc \in {"resetRows", "fiveRows"} => batch \subseteq SubIds

\* Versions count from the admission, and a reservation has not been changed since.
ReservedOnce ==
    \A r \in Requests : /\ rec[r].status # "none" => rec[r].version >= 1
                        /\ rec[r].status = "reserved" => rec[r].version = 1

\* Where the task holds nothing.
Between == {"idle", "expire", "reset", "five", "clean"}

TaskInv ==
    /\ Inv /\ ReservedOnce
    /\ logs \in [Requests -> Logs] /\ took \in Nat
    /\ BatchKept
    /\ pc \in {"expireRows", "resetRows", "fiveRows"} => took \in 1 .. now

\* A change of record r raises its version, or leaves its charge alone.
Forward(r) ==
    /\ \/ rec'[r].version = rec[r].version /\ rec'[r].final = rec[r].final
       \/ rec'[r].version = rec[r].version + 1
    /\ rec[r].status = "none" /\ rec'[r].status # "none" => rec'[r].version = 1
    /\ rec'[r].status = "reserved" =>
         rec'[r].version = 1 \/ (rec[r].status = "reserved" /\ rec'[r].version = rec[r].version)

\* The row to be handled is one of the batch.
LEMMA NextRowIn ==
    ASSUME batch # {}, \A row \in batch : CopyKept(row)
    PROVE  NextRow \in batch
<1>1. \A row \in batch : row.r \in Nat
  <2>1. Cardinality(Requests) \in Nat
    BY RequestsAssumption, FS_CardinalityType
  <2> QED  BY <2>1, RequestsNumbered DEF CopyKept, Copies
<1> DEFINE S == {row.r : row \in batch}
<1>2. S \subseteq Nat /\ S # {}
  BY <1>1
<1> HIDE DEF S
<1>3. PICK m \in S : \A k \in S : ~ (<<k, m>> \in OpToRel(<, Nat))
  BY <1>2, WFMin, NatLessThanWellFounded
<1>4. \A k \in S : m <= k
  <2>1. \A k \in S : k < m => <<k, m>> \in OpToRel(<, Nat)
    BY <1>2 DEF OpToRel
  <2>2. \A k \in S : ~ (k < m)
    BY <1>3, <2>1
  <2> QED  BY <1>2, <2>2
<1>5. \E row \in batch : \A x \in batch : row.r <= x.r
  BY <1>4 DEF S
<1> QED  BY <1>5 DEF NextRow

\* Copies stay behind the records they were made of.
LEMMA CopiesStay ==
    ASSUME TaskInv, \A r \in Requests : Forward(r), NEW row, CopyKept(row)
    PROVE  CopyKept(row)'
<1>1. row \in Copies /\ row.r \in Requests /\ row.version \in Nat
  BY DEF CopyKept, Copies
<1>2. rec[row.r].version \in Nat /\ Forward(row.r)
  BY <1>1 DEF TaskInv, Inv, TypeOK, RecRows
<1> QED  BY <1>1, <1>2 DEF CopyKept, Forward

\* Versions keep counting.
LEMMA VersionsForward ==
    ASSUME TaskInv, \A r \in Requests : Forward(r)
    PROVE  ReservedOnce'
<1> SUFFICES ASSUME NEW r \in Requests
             PROVE  /\ rec'[r].status # "none" => rec'[r].version >= 1
                    /\ rec'[r].status = "reserved" => rec'[r].version = 1
  BY DEF ReservedOnce
<1>1. /\ rec[r].version \in Nat /\ Forward(r)
      /\ rec[r].status # "none" => rec[r].version >= 1
      /\ rec[r].status = "reserved" => rec[r].version = 1
  BY DEF TaskInv, Inv, TypeOK, RecRows, ReservedOnce
<1> QED  BY <1>1 DEF Forward

\* A step of the ledger that the task has no part in.
LEMMA TaskWaits ==
    ASSUME TaskInv, Inv', \A r \in Requests : Forward(r), UNCHANGED task,
           logs' \in [Requests -> Logs], now' = now \/ now' = now + 1
    PROVE  TaskInv'
<1>1. pc' = pc /\ batch' = batch /\ took' = took
  BY DEF task
<1>2. \A row : CopyKept(row) => CopyKept(row)'
  BY CopiesStay
<1>3. BatchKept'
  BY <1>1, <1>2 DEF TaskInv, BatchKept
<1>4. ReservedOnce'
  BY VersionsForward
<1>5. now \in Nat
  BY BoundsAssumption DEF TaskInv, Inv, TypeOK
<1> QED  BY <1>1, <1>3, <1>4, <1>5 DEF TaskInv

\* What each step of the ledger does to the records.
LEMMA RecordsForward ==
    ASSUME Inv,
           \/ UNCHANGED rec
           \/ \E r \in Requests, a \in Quotas \ {0} : PreConsumeUserSubscription(r, a)
           \/ \E r \in Requests, v \in Nat : RefundSubscriptionUsage(r, v)
           \/ \E r \in Requests, v \in Nat, q \in Quotas, p \in Quotas :
                 QueueSubscriptionSettlement(r, v, q, p)
           \/ \E r \in Requests, k \in BOOLEAN : CompleteSubscriptionSettlement(r, k)
           \/ CleanupSubscriptionPreConsumeRecords,
           TypeOK'
    PROVE  Inv' /\ \A r \in Requests : Forward(r)
<1>t. rec \in [Requests -> RecRows]
  BY DEF Inv, TypeOK
<1>o. ASSUME NEW r \in Requests, rec' = [rec EXCEPT ![r] = rec'[r]]
      PROVE  \A x \in Requests : x # r => Forward(x)
  BY <1>t, <1>o DEF Forward
<1>1. CASE UNCHANGED rec
  BY <1>1, SameRecords DEF Forward
<1>2. ASSUME NEW r \in Requests, NEW a \in Quotas \ {0}, PreConsumeUserSubscription(r, a)
      PROVE  Inv' /\ \A x \in Requests : Forward(x)
  <2>1. /\ rec[r] = NoRec /\ rec' = [rec EXCEPT ![r] = rec'[r]]
        /\ rec'[r].status = "reserved" /\ rec'[r].version = 1 /\ ~rec'[r].pending
    BY <1>2, Admitted
  <2>2. Forward(r)
    BY <2>1 DEF Forward, NoRec
  <2> QED  BY <1>o, <2>1, <2>2, OneRecord
<1>3. ASSUME NEW r \in Requests, NEW v \in Nat, RefundSubscriptionUsage(r, v)
      PROVE  Inv' /\ \A x \in Requests : Forward(x)
  <2>1. SetSubscriptionUsageFinal(r, v, 0, "refunded") /\ rec[r].version = v /\ rec[r].status # "none"
    BY <1>3 DEF RefundSubscriptionUsage, SetSubscriptionUsageFinal, Changeable, Live
  <2>2. /\ rec' = [rec EXCEPT ![r] = rec'[r]]
        /\ rec'[r].status = "refunded" /\ rec'[r].version = v + 1 /\ ~rec'[r].pending
    BY <2>1, Changed
  <2>3. Forward(r)
    BY <2>1, <2>2 DEF Forward
  <2> QED  BY <1>o, <2>2, <2>3, OneRecord
<1>4. ASSUME NEW r \in Requests, NEW v \in Nat, NEW q \in Quotas, NEW p \in Quotas,
             QueueSubscriptionSettlement(r, v, q, p)
      PROVE  Inv' /\ \A x \in Requests : Forward(x)
  <2>1. /\ rec' = [rec EXCEPT ![r] = rec'[r]]
        /\ rec'[r].status = "reserved" /\ rec'[r].final = rec[r].final
        /\ rec'[r].version = rec[r].version /\ rec[r].status = "reserved"
    BY <1>4, QueuedRow DEF QueueSubscriptionSettlement
  <2>2. Forward(r)
    BY <2>1 DEF Forward
  <2> QED  BY <1>o, <2>1, <2>2, OneRecord
<1>5. ASSUME NEW r \in Requests, NEW k \in BOOLEAN, CompleteSubscriptionSettlement(r, k)
      PROVE  Inv' /\ \A x \in Requests : Forward(x)
  <2>1. /\ rec' = [rec EXCEPT ![r] = rec'[r]]
        /\ rec'[r].status = "settled" /\ rec'[r].version = rec[r].version + 1 /\ ~rec'[r].pending
        /\ rec[r].status = "reserved"
    BY <1>5, CompletedRow DEF CompleteSubscriptionSettlement
  <2>2. Forward(r)
    BY <2>1 DEF Forward
  <2> QED  BY <1>o, <2>1, <2>2, OneRecord
<1>6. CASE CleanupSubscriptionPreConsumeRecords
  <2>1. \A y \in Requests : \/ rec'[y] = rec[y]
                            \/ /\ ~rec[y].pending /\ rec[y].status # "none"
                               /\ rec'[y] = [rec[y] EXCEPT !.status = "forgotten"]
    BY <1>6 DEF CleanupSubscriptionPreConsumeRecords
  <2>2. \A y \in Requests : LET x == [rec[y] EXCEPT !.status = "forgotten"] IN
                            /\ x.status = "forgotten" /\ x.pending = rec[y].pending
                            /\ x.version = rec[y].version /\ x.final = rec[y].final
    BY <1>t DEF RecRows
  <2>3. Inv'
    BY <2>1, <2>2 DEF Inv, QueuedIsReserved, Untouched
  <2> QED  BY <2>1, <2>2, <2>3 DEF Forward
<1> QED  BY <1>1, <1>2, <1>3, <1>4, <1>5, <1>6

\* The query: the copies are fresh.
LEMMA SelectsCopies ==
    ASSUME TaskInv, SelectSettlements
    PROVE  TaskInv'
<1>t. rec \in [Requests -> RecRows]
  BY DEF TaskInv, Inv, TypeOK
<1>1. /\ pc' = "reconcile" /\ UNCHANGED <<vars, took, logs>>
      /\ \A row \in batch' : \E r \in Requests :
           row = [r |-> r, pending |-> rec[r].pending, final |-> rec[r].final,
                  version |-> rec[r].version]
  BY DEF SelectSettlements, FirstOf
<1>2. rec' = rec /\ Inv'
  <2>1. UNCHANGED vars
    BY <1>1
  <2>2. Inv'
    BY <2>1, NextInv DEF TaskInv
  <2> QED  BY <2>1, <2>2 DEF vars
<1>3. ASSUME NEW row \in batch' PROVE CopyKept(row)'
  <2>1. PICK r \in Requests : row = [r |-> r, pending |-> rec[r].pending, final |-> rec[r].final,
                                     version |-> rec[r].version]
    BY <1>1, <1>3
  <2>2. row.r = r /\ row.version = rec[r].version /\ row.final = rec[r].final
    BY <2>1
  <2>3. rec[r].pending \in BOOLEAN /\ rec[r].final \in Quotas /\ rec[r].version \in Nat
    BY <1>t DEF RecRows
  <2>4. row \in Copies
    BY <2>1, <2>3 DEF Copies
  <2> QED  BY <1>2, <2>2, <2>3, <2>4 DEF CopyKept
<1>4. BatchKept'
  BY <1>1, <1>3 DEF BatchKept
<1>5. ReservedOnce'
  BY <1>2 DEF TaskInv, ReservedOnce
<1> QED  BY <1>1, <1>2, <1>4, <1>5 DEF TaskInv

\* What a transaction of the task leaves in the batch.
LEMMA RowHandled ==
    ASSUME TaskInv, Inv', \A r \in Requests : Forward(r),
           pc' = pc, took' = took, logs' = logs, now' = now,
           \A row \in batch' : row \in batch \/ (pc = "reconcile" /\ CopyKept(row))
    PROVE  TaskInv'
<1>1. \A row : CopyKept(row) => CopyKept(row)'
  BY CopiesStay
<1>2. BatchKept'
  BY <1>1 DEF TaskInv, BatchKept
<1>3. ReservedOnce'
  BY VersionsForward
<1> QED  BY <1>2, <1>3 DEF TaskInv

\* A step that leaves the ledger alone, and of the batch no more than there was.
LEMMA LedgerRests ==
    ASSUME TaskInv, UNCHANGED vars, took' \in Nat, logs' = logs,
           (pc' = pc /\ took' = took /\ batch' \subseteq batch) \/ pc' \in Between
    PROVE  TaskInv'
<1>1. rec' = rec /\ now' = now /\ Inv'
  <2>1. rec' = rec /\ now' = now
    BY DEF vars
  <2>2. Inv'
    BY NextInv DEF TaskInv
  <2> QED  BY <2>1, <2>2
<1>2. \A row : CopyKept(row) => CopyKept(row)'
  BY <1>1 DEF CopyKept
<1>3. BatchKept'
  BY <1>2 DEF TaskInv, BatchKept, Between
<1>4. ReservedOnce'
  BY <1>1 DEF TaskInv, ReservedOnce
<1> QED  BY <1>1, <1>3, <1>4 DEF TaskInv, Between

\* The two transactions of ReconcileSubscriptionSettlements.
LEMMA RecoverKeeps ==
    ASSUME TaskInv, RecoverFromLog
    PROVE  /\ TaskInv'
           /\ \A r \in Requests : rec'[r].pending /\ ~rec[r].pending =>
                OneLog(r) /\ rec'[r].quota = logs[r].quota
<1>1. PICK row : row = NextRow
  OBVIOUS
<1>2. /\ pc = "reconcile" /\ batch # {} /\ Proved(row) /\ CanQueue(row)
      /\ QueueSubscriptionSettlement(row.r, row.version, logs[row.r].quota, row.final)
      /\ batch' = (batch \ {row}) \cup {[row EXCEPT !.pending = TRUE]}
      /\ UNCHANGED <<pc, took, logs>>
  BY <1>1 DEF RecoverFromLog
<1>3. row \in batch /\ CopyKept(row)
  <2>1. \A x \in batch : CopyKept(x)
    BY <1>2 DEF TaskInv, BatchKept
  <2> QED  BY <1>1, <1>2, <2>1, NextRowIn
<1>4. /\ row \in Copies /\ row.r \in Requests /\ row.version \in Nat /\ row.final \in Quotas
      /\ logs[row.r].quota \in Quotas /\ Inv
  BY <1>3 DEF CopyKept, Copies, TaskInv, Logs
<1>5. rec[row.r].final = row.final
  BY <1>2, <1>3 DEF CanQueue, CopyKept
<1>6. PICK r \in Requests, q \in Quotas : r = row.r /\ q = logs[row.r].quota
  BY <1>4
<1>7. TypeOK'
  BY <1>2, <1>4, <1>6, QueueType DEF Inv
<1>8. Inv' /\ \A x \in Requests : Forward(x)
  BY <1>2, <1>4, <1>6, <1>7, RecordsForward
<1>9. [row EXCEPT !.pending = TRUE] \in Copies /\ CopyKept([row EXCEPT !.pending = TRUE])
  BY <1>3, <1>4 DEF CopyKept, Copies
<1>10. TaskInv'
  BY <1>2, <1>8, <1>9, RowHandled DEF QueueSubscriptionSettlement
<1>11. rec' = [rec EXCEPT ![r] = rec'[r]] /\ rec'[r].quota = q
  BY <1>2, <1>4, <1>6, QueuedRow
<1>12. \A x \in Requests : x # r => rec'[x] = rec[x]
  BY <1>4, <1>11 DEF Inv, TypeOK
<1>13. OneLog(r)
  BY <1>2, <1>5, <1>6 DEF OneLog, Proved
<1> QED  BY <1>6, <1>10, <1>11, <1>12, <1>13

LEMMA CompleteKeeps ==
    ASSUME TaskInv, CompleteRow
    PROVE  TaskInv' /\ \A r \in Requests : rec'[r].pending => rec[r].pending
<1>1. PICK row : row = NextRow
  OBVIOUS
<1>2. /\ pc = "reconcile" /\ batch # {}
      /\ \E k \in BOOLEAN : CompleteSubscriptionSettlement(row.r, k)
      /\ batch' = batch \ {row}
      /\ UNCHANGED <<pc, took, logs>>
  BY <1>1 DEF CompleteRow
<1>3. row.r \in Requests /\ Inv
  <2>1. \A x \in batch : CopyKept(x)
    BY <1>2 DEF TaskInv, BatchKept
  <2>2. row \in batch
    BY <1>1, <1>2, <2>1, NextRowIn
  <2> QED  BY <2>1, <2>2 DEF CopyKept, Copies, TaskInv
<1>4. PICK r \in Requests, k \in BOOLEAN : CompleteSubscriptionSettlement(r, k)
  BY <1>2, <1>3
<1>5. TypeOK'
  BY <1>3, <1>4, CompleteType DEF Inv
<1>6. Inv' /\ \A x \in Requests : Forward(x)
  BY <1>3, <1>4, <1>5, RecordsForward
<1>7. TaskInv'
  BY <1>2, <1>4, <1>6, RowHandled DEF CompleteSubscriptionSettlement
<1>8. rec' = [rec EXCEPT ![r] = rec'[r]] /\ ~rec'[r].pending
  BY <1>3, <1>4, CompletedRow
<1>9. \A x \in Requests : x # r => rec'[x] = rec[x]
  BY <1>3, <1>8 DEF Inv, TypeOK
<1> QED  BY <1>7, <1>8, <1>9

\* The batch loops and the cleanup change no charge.
LEMMA LoopsKeep ==
    ASSUME TaskInv, ExpireRows \/ ResetRow \/ FiveHourRow \/ CleanRecords \/ CleanWindows
    PROVE  TaskInv' /\ \A r \in Requests : rec'[r].pending => rec[r].pending
<1>t. Inv /\ TypeOK /\ took \in Nat /\ rec \in [Requests -> RecRows]
  BY DEF TaskInv, Inv, TypeOK
<1>v. UNCHANGED vars => TypeOK' /\ UNCHANGED rec /\ now' = now
  BY <1>t, NextType DEF vars
<1>a. ASSUME UNCHANGED rec, TypeOK', now' = now, pc' = pc, took' = took, logs' = logs, batch' \subseteq batch
      PROVE  TaskInv' /\ \A r \in Requests : rec'[r].pending => rec[r].pending
  <2>1. Inv' /\ \A x \in Requests : Forward(x)
    BY <1>a, <1>t, RecordsForward
  <2> QED  BY <1>a, <2>1, RowHandled
<1>1. CASE ExpireRows
  <2>1. /\ batch' = {} /\ UNCHANGED <<pc, took, logs>>
        /\ ExpireDueSubscriptions(took) \/ UNCHANGED vars
    BY <1>1 DEF ExpireRows
  <2>2. TypeOK' /\ now' = now /\ UNCHANGED rec
    BY <1>t, <1>v, <2>1, ExpireType DEF ExpireDueSubscriptions
  <2> QED  BY <1>a, <2>1, <2>2
<1>2. CASE ResetRow
  <2>1. PICK s \in batch : /\ batch' = batch \ {s}
                           /\ ResetDueSubscriptions(s, took) \/ UNCHANGED vars
    BY <1>2 DEF ResetRow
  <2>2. UNCHANGED <<pc, took, logs>> /\ s \in SubIds
    BY <1>2, <2>1 DEF ResetRow, TaskInv, BatchKept
  <2>3. TypeOK' /\ now' = now /\ UNCHANGED rec
    BY <1>t, <1>v, <2>1, <2>2, ResetDueType DEF ResetDueSubscriptions
  <2> QED  BY <1>a, <2>1, <2>2, <2>3
<1>3. CASE FiveHourRow
  <2>1. PICK s \in batch : /\ batch' = batch \ {s}
                           /\ ResetDueFiveHourSubscriptionWindows(s, took) \/ UNCHANGED vars
    BY <1>3 DEF FiveHourRow
  <2>2. UNCHANGED <<pc, took, logs>> /\ s \in SubIds
    BY <1>3, <2>1 DEF FiveHourRow, TaskInv, BatchKept
  <2>3. TypeOK' /\ now' = now /\ UNCHANGED rec
    BY <1>t, <1>v, <2>1, <2>2, ResetFiveHourType DEF ResetDueFiveHourSubscriptionWindows
  <2> QED  BY <1>a, <2>1, <2>2, <2>3
<1>4. CASE CleanRecords
  <2>1. CleanupSubscriptionPreConsumeRecords /\ UNCHANGED task /\ logs' = logs
    BY <1>4 DEF CleanRecords
  <2>2. TypeOK'
    BY <1>t, <2>1, CleanupType
  <2>3. Inv' /\ \A x \in Requests : Forward(x)
    BY <1>t, <2>1, <2>2, RecordsForward
  <2>4. TaskInv'
    BY <2>1, <2>3, TaskWaits DEF TaskInv, CleanupSubscriptionPreConsumeRecords
  <2>5. \A y \in Requests : rec'[y] = rec[y] \/ rec'[y] = [rec[y] EXCEPT !.status = "forgotten"]
    BY <2>1 DEF CleanupSubscriptionPreConsumeRecords
  <2>6. \A y \in Requests : [rec[y] EXCEPT !.status = "forgotten"].pending = rec[y].pending
    BY <1>t DEF RecRows
  <2> QED  BY <2>4, <2>5, <2>6
<1>5. CASE CleanWindows
  <2>1. /\ CleanupSubscriptionQuotaWindows /\ UNCHANGED <<batch, took, logs>>
        /\ pc = "clean" /\ pc' = "idle"
    BY <1>5 DEF CleanWindows
  <2>2. TypeOK' /\ now' = now /\ UNCHANGED rec
    BY <1>t, <2>1, CleanupType DEF CleanupSubscriptionQuotaWindows
  <2>3. Inv'
    BY <1>t, <2>2, SameRecords
  <2>4. BatchKept'
    BY <2>1 DEF BatchKept
  <2>5. TaskInv'
    BY <2>1, <2>2, <2>3, <2>4 DEF TaskInv, ReservedOnce
  <2> QED  BY <2>2, <2>5
<1> QED  BY <1>1, <1>2, <1>3, <1>4, <1>5

\* The other steps of the task: queries, rows passed over, the end of a call.
LEMMA OtherMaintenanceKeeps ==
    ASSUME TaskInv,
           PassRow \/ EndReconcile \/ SelectDue \/ EndCall \/ EndTick \/ FailRow \/ FailCall \/ Crash
    PROVE  TaskInv' /\ rec' = rec
<1>t. took \in Nat /\ now \in Nat
  BY BoundsAssumption DEF TaskInv, Inv, TypeOK
<1>n. now \in Nat \ {0}
  BY BoundsAssumption DEF TaskInv, Inv, TypeOK
<1>v. UNCHANGED vars
  BY DEF PassRow, EndReconcile, SelectDue, EndCall, EndTick, FailRow, FailCall, Crash
<1>r. rec' = rec
  BY <1>v DEF vars
<1>1. CASE PassRow
  BY <1>1, <1>t, <1>v, <1>r, LedgerRests DEF PassRow
<1>2. CASE EndReconcile
  BY <1>2, <1>t, <1>v, <1>r, LedgerRests DEF EndReconcile, Between
<1>3. CASE SelectDue
  <2>1. /\ pc \in {"expire", "reset", "five"} /\ logs' = logs
        /\ batch' \subseteq DueAt(pc, now)
        /\ (pc' = After(pc) /\ took' = 0) \/ (pc' = RowsOf(pc) /\ took' = now)
    BY <1>3 DEF SelectDue, FirstOf
  <2>2. DueAt(pc, now) \subseteq SubIds
    BY <2>1 DEF DueAt, ValidSubs
  <2>3. CASE pc' = After(pc) /\ took' = 0
    <3>1. pc' \in Between
      BY <2>1, <2>3 DEF After, Between
    <3> QED  BY <1>r, <1>v, <2>1, <2>3, <3>1, LedgerRests
  <2>4. CASE pc' = RowsOf(pc) /\ took' = now
    <3>1. pc' # "reconcile"
      BY <2>1, <2>4 DEF RowsOf
    <3>2. BatchKept'
      BY <2>1, <2>2, <3>1 DEF BatchKept, SubIds
    <3>3. Inv'
      BY <1>v, NextInv DEF TaskInv
    <3>4. ReservedOnce'
      BY <1>r DEF TaskInv, ReservedOnce
    <3>5. now' = now /\ now \in 1 .. now
      BY <1>v, <1>n DEF vars
    <3> QED  BY <1>r, <1>t, <2>1, <2>4, <3>2, <3>3, <3>4, <3>5 DEF TaskInv
  <2> QED  BY <2>1, <2>3, <2>4
<1>4. CASE EndCall
  <2>1. pc' \in Between /\ took' = 0 /\ logs' = logs
    BY <1>4 DEF EndCall, After, Between
  <2> QED  BY <1>v, <1>r, <2>1, LedgerRests
<1>5. CASE EndTick
  BY <1>5, <1>t, <1>v, <1>r, LedgerRests DEF EndTick, Between
<1>6. CASE FailRow
  BY <1>6, <1>t, <1>v, <1>r, LedgerRests DEF FailRow
<1>7. CASE FailCall
  BY <1>7, <1>v, <1>r, LedgerRests DEF FailCall, Between
<1>8. CASE Crash
  BY <1>8, <1>v, <1>r, LedgerRests DEF Crash, Between
<1> QED  BY <1>1, <1>2, <1>3, <1>4, <1>5, <1>6, <1>7, <1>8

\* Sessions, buyers, administrators and the clock between two steps of the task.
LEMMA SystemKeeps ==
    ASSUME TaskInv, Session \/ Others
    PROVE  TaskInv'
<1>t. /\ Inv /\ TypeOK /\ logs \in [Requests -> Logs] /\ rec \in [Requests -> RecRows]
      /\ \A r \in Requests : rec[r].final \in Quotas /\ rec[r].version \in Nat
  BY DEF TaskInv, Inv, TypeOK, RecRows
<1>z. 0 \in Quotas
  BY BoundsAssumption DEF Quotas
<1>1. ASSUME NEW r \in Requests, NEW q \in Quotas, RecordConsumeLog(r, q) PROVE TaskInv'
  <2>1. /\ UNCHANGED <<vars, task>>
        /\ logs' = [logs EXCEPT ![r] = [n |-> logs[r].n + 1, quota |-> q, consumed |-> rec[r].final]]
    BY <1>1 DEF RecordConsumeLog
  <2>2. [n |-> logs[r].n + 1, quota |-> q, consumed |-> rec[r].final] \in Logs
    BY <1>t DEF Logs
  <2>3. logs' \in [Requests -> Logs]
    BY <1>t, <2>1, <2>2
  <2>4. TypeOK' /\ UNCHANGED <<rec, now>>
    BY <1>t, <2>1, NextType DEF vars
  <2>5. Inv' /\ \A x \in Requests : Forward(x)
    BY <1>t, <2>4, RecordsForward
  <2> QED  BY <2>1, <2>3, <2>4, <2>5, TaskWaits
<1>2. ASSUME UNCHANGED task, logs' = logs, TypeOK', now' = now \/ now' = now + 1,
             \/ UNCHANGED rec
             \/ \E r \in Requests, a \in Quotas \ {0} : PreConsumeUserSubscription(r, a)
             \/ \E r \in Requests, v \in Nat : RefundSubscriptionUsage(r, v)
             \/ \E r \in Requests, v \in Nat, q \in Quotas, p \in Quotas :
                   QueueSubscriptionSettlement(r, v, q, p)
             \/ \E r \in Requests, k \in BOOLEAN : CompleteSubscriptionSettlement(r, k)
      PROVE  TaskInv'
  <2>1. Inv' /\ \A x \in Requests : Forward(x)
    BY <1>2, <1>t, RecordsForward
  <2> QED  BY <1>2, <1>t, <2>1, TaskWaits
<1>3. ASSUME UNCHANGED <<task, logs>>, NEW r \in Requests, NEW a \in Quotas \ {0},
             PreConsumeUserSubscription(r, a)
      PROVE  TaskInv'
  <2>1. TypeOK'
    BY <1>3, <1>t, PreConsumeType
  <2>2. now' = now
    BY <1>3 DEF PreConsumeUserSubscription
  <2> QED  BY <1>2, <1>3, <2>1, <2>2
<1>4. ASSUME UNCHANGED <<task, logs>>, NEW r \in Requests, NEW q \in Quotas,
             QueueSubscriptionSettlement(r, rec[r].version, q, rec[r].final)
      PROVE  TaskInv'
  <2>1. PICK v \in Nat, p \in Quotas : v = rec[r].version /\ p = rec[r].final
    BY <1>t
  <2>2. TypeOK'
    BY <1>4, <1>t, <2>1, QueueType
  <2>3. now' = now
    BY <1>4 DEF QueueSubscriptionSettlement
  <2> QED  BY <1>2, <1>4, <2>1, <2>2, <2>3
<1>5. ASSUME UNCHANGED <<task, logs>>, NEW r \in Requests, CompleteSubscriptionSettlement(r, TRUE)
      PROVE  TaskInv'
  <2>1. TypeOK'
    BY <1>5, <1>t, CompleteType
  <2>2. now' = now
    BY <1>5 DEF CompleteSubscriptionSettlement
  <2> QED  BY <1>2, <1>5, <2>1, <2>2
<1>6. ASSUME UNCHANGED <<task, logs>>, NEW r \in Requests, RefundSubscriptionUsage(r, rec[r].version)
      PROVE  TaskInv'
  <2>1. PICK v \in Nat : v = rec[r].version
    BY <1>t
  <2>2. TypeOK'
    BY <1>6, <1>t, <1>z, <2>1, SetFinalType DEF RefundSubscriptionUsage
  <2>3. now' = now
    BY <1>6 DEF RefundSubscriptionUsage, SetSubscriptionUsageFinal
  <2> QED  BY <1>2, <1>6, <2>1, <2>2, <2>3
<1>7. CASE Session
  BY <1>1, <1>3, <1>4, <1>5, <1>6, <1>7 DEF Session
<1>8. CASE Others
  <2>1. /\ UNCHANGED <<task, logs>>
        /\ PurchaseStep \/ (\E s \in SubIds : AdminDeleteUserSubscription(s)) \/ Tick
    BY <1>8 DEF Others
  <2>2. TypeOK'
    BY <1>t, <2>1, NextType DEF Next, AdminStep
  <2>3. UNCHANGED rec /\ (now' = now \/ now' = now + 1)
    BY <1>t, <2>1, Created
       DEF CreateUserSubscriptionFromPlanTx, AdminDeleteUserSubscription, Tick
  <2> QED  BY <1>2, <2>1, <2>2, <2>3
<1> QED  BY <1>7, <1>8

\* Every step of the whole keeps the invariant.
LEMMA TaskInvStep == TaskInv /\ [MNext]_mvars => TaskInv'
<1> SUFFICES ASSUME TaskInv, [MNext]_mvars PROVE TaskInv'
  OBVIOUS
<1>1. CASE Maintain
  BY <1>1, SelectsCopies, RecoverKeeps, CompleteKeeps, LoopsKeep, OtherMaintenanceKeeps DEF Maintain
<1>2. CASE FailRow \/ FailCall \/ Crash
  BY <1>2, OtherMaintenanceKeeps
<1>3. CASE Session \/ Others
  BY <1>3, SystemKeeps
<1>4. CASE UNCHANGED mvars
  <2>1. UNCHANGED <<vars, pc, batch, took, logs>> /\ took' \in Nat
    BY <1>4 DEF mvars, task, TaskInv
  <2> QED  BY <2>1, LedgerRests
<1> QED  BY <1>1, <1>2, <1>3, <1>4 DEF MNext

\* The task starts idle, and nothing is logged.
LEMMA TaskStarts == MInit => TaskInv
<1> SUFFICES ASSUME MInit PROVE TaskInv
  OBVIOUS
<1>1. Inv /\ pc = "idle" /\ took = 0
  BY InitInv DEF MInit
<1>2. 0 \in Quotas
  BY BoundsAssumption DEF Quotas
<1>3. logs \in [Requests -> Logs]
  BY <1>2 DEF MInit, Logs
<1>4. ReservedOnce
  BY DEF MInit, Init, NoRec, ReservedOnce
<1> QED  BY <1>1, <1>3, <1>4 DEF TaskInv, BatchKept

\* What a step of the task makes pending has been proved by a log.
LEMMA MaintainProves ==
    ASSUME TaskInv, Maintain
    PROVE  \A r \in Requests : rec'[r].pending /\ ~rec[r].pending =>
              OneLog(r) /\ rec'[r].quota = logs[r].quota
<1>1. CASE RecoverFromLog
  BY <1>1, RecoverKeeps
<1>2. CASE CompleteRow
  BY <1>2, CompleteKeeps
<1>3. CASE ExpireRows \/ ResetRow \/ FiveHourRow \/ CleanRecords \/ CleanWindows
  BY <1>3, LoopsKeep
<1>4. CASE PassRow \/ EndReconcile \/ SelectDue \/ EndCall \/ EndTick
  BY <1>4, OtherMaintenanceKeeps
<1>5. CASE SelectSettlements
  BY <1>5 DEF SelectSettlements, vars
<1> QED  BY <1>1, <1>2, <1>3, <1>4, <1>5 DEF Maintain

\* ReconcileSubscriptionSettlements never guesses: what it queues for a silent
\* reservation is what exactly one consume log says, of a request whose charge is
\* still the one the log was written for, however stale its copy of the record and
\* whatever sessions, crashes and failures come in between.
THEOREM SettledAsLogged == MSpec => NeverGuessed
<1>1. MInit => TaskInv
  BY TaskStarts
<1>2. TaskInv /\ [MNext]_mvars => TaskInv'
  BY TaskInvStep
<1>3. TaskInv /\ [MNext]_mvars =>
        [Maintain => \A r \in Requests :
          rec'[r].pending /\ ~rec[r].pending => OneLog(r) /\ rec'[r].quota = logs[r].quota]_mvars
  BY MaintainProves
<1> QED  BY <1>1, <1>2, <1>3, PTL DEF MSpec, NeverGuessed

\* The rows stay well formed and queued settlements reserved under the task too,
\* whose calls may use a time read long before.
THEOREM MaintenanceKeepsLedger == MSpec => [](TypeOK /\ QueuedIsReserved)
<1>1. MInit => TaskInv
  BY TaskStarts
<1>2. TaskInv /\ [MNext]_mvars => TaskInv'
  BY TaskInvStep
<1>3. TaskInv => TypeOK /\ QueuedIsReserved
  BY DEF TaskInv, Inv
<1> QED  BY <1>1, <1>2, <1>3, PTL DEF MSpec

\* A time the task has read is one the ledger's maintenance may use.
LEMMA ReadTime ==
    ASSUME TaskInv, MaxLag >= MaxTime, pc \in {"expireRows", "resetRows", "fiveRows"}
    PROVE  took \in {t \in 1 .. now : t >= now - MaxLag}
<1>1. took \in 1 .. now /\ now \in 1 .. MaxTime
  BY DEF TaskInv, Inv, TypeOK
<1> QED  BY <1>1, BoundsAssumption

\* Every step of the task and of those around it is one of the ledger, or none.
LEMMA TaskStepsLedger ==
    ASSUME MaxLag >= MaxTime, MaxVersion >= 1, TaskInv, [MNext]_mvars
    PROVE  [Next]_vars
<1>t. /\ MaxVersion \in Nat
      /\ \A r \in Requests :
           /\ rec[r].version \in Nat
           /\ (rec[r].status # "none" => rec[r].version >= 1)
           /\ (rec[r].status = "reserved" => rec[r].version = 1)
  BY BoundsAssumption DEF TaskInv, Inv, TypeOK, RecRows, ReservedOnce
<1>q. ASSUME NEW r \in Requests, NEW q \in Quotas,
             QueueSubscriptionSettlement(r, rec[r].version, q, rec[r].final)
      PROVE  RequestStep
  <2>1. rec[r].version \in 1 .. MaxVersion
    BY <1>q, <1>t DEF QueueSubscriptionSettlement
  <2> QED  BY <1>q, <2>1 DEF RequestStep
<1>1. CASE RecoverFromLog
  <2>1. PICK row : row = NextRow
    OBVIOUS
  <2>2. /\ pc = "reconcile" /\ batch # {} /\ CanQueue(row)
        /\ QueueSubscriptionSettlement(row.r, row.version, logs[row.r].quota, row.final)
    BY <1>1, <2>1 DEF RecoverFromLog
  <2>3. CopyKept(row)
    <3>1. \A x \in batch : CopyKept(x)
      BY <2>2 DEF TaskInv, BatchKept
    <3> QED  BY <2>1, <2>2, <3>1, NextRowIn
  <2>4. /\ row.r \in Requests /\ logs[row.r].quota \in Quotas
        /\ row.version = rec[row.r].version /\ row.final = rec[row.r].final
    BY <2>2, <2>3 DEF CopyKept, Copies, CanQueue, TaskInv, Logs
  <2>5. PICK r \in Requests, q \in Quotas : r = row.r /\ q = logs[row.r].quota
    BY <2>4
  <2> QED  BY <1>q, <2>2, <2>4, <2>5 DEF Next
<1>2. CASE CompleteRow
  <2>1. PICK row : row = NextRow
    OBVIOUS
  <2>2. /\ pc = "reconcile" /\ batch # {}
        /\ \E k \in BOOLEAN : CompleteSubscriptionSettlement(row.r, k)
    BY <1>2, <2>1 DEF CompleteRow
  <2>3. row.r \in Requests
    <3>1. \A x \in batch : CopyKept(x)
      BY <2>2 DEF TaskInv, BatchKept
    <3>2. row \in batch
      BY <2>1, <2>2, <3>1, NextRowIn
    <3> QED  BY <3>1, <3>2 DEF CopyKept, Copies
  <2> QED  BY <2>2, <2>3 DEF Next, RequestStep
<1>3. CASE ExpireRows
  <2>1. pc = "expireRows" /\ (ExpireDueSubscriptions(took) \/ UNCHANGED vars)
    BY <1>3 DEF ExpireRows
  <2>2. took \in {t \in 1 .. now : t >= now - MaxLag}
    BY <2>1, ReadTime
  <2> QED  BY <2>1, <2>2 DEF Next, MaintenanceStep
<1>4. CASE ResetRow
  <2>1. pc = "resetRows" /\ \E s \in batch : ResetDueSubscriptions(s, took) \/ UNCHANGED vars
    BY <1>4 DEF ResetRow
  <2>2. batch \subseteq SubIds /\ took \in {t \in 1 .. now : t >= now - MaxLag}
    BY <2>1, ReadTime DEF TaskInv, BatchKept
  <2> QED  BY <2>1, <2>2 DEF Next, MaintenanceStep
<1>5. CASE FiveHourRow
  <2>1. pc = "fiveRows" /\ \E s \in batch : ResetDueFiveHourSubscriptionWindows(s, took) \/ UNCHANGED vars
    BY <1>5 DEF FiveHourRow
  <2>2. batch \subseteq SubIds /\ took \in {t \in 1 .. now : t >= now - MaxLag}
    BY <2>1, ReadTime DEF TaskInv, BatchKept
  <2> QED  BY <2>1, <2>2 DEF Next, MaintenanceStep
<1>6. CASE CleanRecords \/ CleanWindows
  BY <1>6 DEF CleanRecords, CleanWindows, Next, MaintenanceStep
<1>7. CASE \/ SelectSettlements \/ PassRow \/ EndReconcile \/ SelectDue \/ EndCall \/ EndTick
           \/ FailRow \/ FailCall \/ Crash \/ UNCHANGED mvars
  BY <1>7 DEF SelectSettlements, PassRow, EndReconcile, SelectDue, EndCall, EndTick,
              FailRow, FailCall, Crash, mvars
<1>8. CASE Session
  <2>1. ASSUME NEW r \in Requests, NEW q \in Quotas, RecordConsumeLog(r, q)
        PROVE  UNCHANGED vars
    BY <2>1 DEF RecordConsumeLog
  <2>2. ASSUME NEW r \in Requests, NEW a \in Quotas \ {0}, PreConsumeUserSubscription(r, a)
        PROVE  Next
    BY <2>2 DEF Next, RequestStep
  <2>3. ASSUME NEW r \in Requests, CompleteSubscriptionSettlement(r, TRUE)
        PROVE  Next
    BY <2>3 DEF Next, RequestStep
  <2>4. ASSUME NEW r \in Requests, RefundSubscriptionUsage(r, rec[r].version)
        PROVE  Next
    <3>1. rec[r].version < MaxVersion /\ Live(r)
      BY <2>4 DEF RefundSubscriptionUsage, SetSubscriptionUsageFinal, Changeable
    <3>2. rec[r].version \in 1 .. MaxVersion
      BY <1>t, <3>1 DEF Live
    <3> QED  BY <2>4, <3>2 DEF Next, RequestStep
  <2> QED  BY <1>8, <1>q, <2>1, <2>2, <2>3, <2>4 DEF Session, Next
<1>9. CASE Others
  BY <1>9 DEF Others, Next, AdminStep
<1> QED  BY <1>1, <1>2, <1>3, <1>4, <1>5, <1>6, <1>7, <1>8, <1>9 DEF MNext, Maintain

\* The periodic task, call by call and with whatever happens in between, does to the
\* tables only what SubscriptionLedger says: what is proved of the ledger holds
\* under it.  MaxLag bounds how old a time the ledger's maintenance uses; the task may
\* be as slow as it likes.
THEOREM MaintenanceImplementsLedger ==
    ASSUME MaxLag >= MaxTime, MaxVersion >= 1
    PROVE  MSpec => Spec
<1>1. MInit => TaskInv /\ Init
  BY TaskStarts DEF MInit
<1>2. TaskInv /\ [MNext]_mvars => TaskInv'
  BY TaskInvStep
<1>3. TaskInv /\ [MNext]_mvars => [Next]_vars
  BY TaskStepsLedger
<1> QED  BY <1>1, <1>2, <1>3, PTL DEF MSpec, Spec
=============================================================================
