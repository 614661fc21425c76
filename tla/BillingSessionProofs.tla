------------------------ MODULE BillingSessionProofs ------------------------
(***************************************************************************)
(* A request that is over has cost what its outcome says, for any number   *)
(* of requests, amounts, raised reservations, turns and failures.          *)
(*                                                                         *)
(* Sessions meet only in the balances they read, which no amount charged   *)
(* depends on, so the invariant speaks of one session and its charge: what *)
(* it has taken so far, on either counter, in each place it may be at.     *)
(***************************************************************************)
EXTENDS BillingSession, TLAPS

(* Where a session may be: being prepared, its reservation being raised, over. *)
Preparing == {"new", "wallet", "checkKey", "takeKey", "fund", "unwind", "rejected"}
Raising == {"reserveKey", "reserveTake", "rollback"}
Closing == {"fee", "feeKey", "done"}
Places == Preparing \cup Raising \cup Closing \cup {"serving", "turn", "turnKey", "settleKey", "complete"}

\* The fields of a session and of a charge.
Fields ==
    {"pc", "refund", "source", "fallback", "asked", "preConsumedQuota", "tokenConsumed",
     "consumed", "preConsumed", "finalConsumed", "delta", "insufficient", "trusted",
     "fundingSettled", "settled", "refunded", "ref", "infoRef", "postDelta", "turn",
     "turns", "reserves", "actual", "fee", "netWallet", "netKey", "failed"}

ChargeFields == {"phase", "amount", "target", "tokenPre", "tokenNet", "version"}

\* x is a record with the given fields.
Record(x, fields) == x = [f \in fields |-> x[f]]

\* The amounts are numbers; the flags need no type.
SessionTyped(s) ==
    /\ Record(s, Fields)
    /\ s.pc \in Places /\ s.refund \in {"no", "funding", "key", "done"}
    /\ s.source \in {"none", "wallet", "subscription"}
    /\ s.fallback \in {"none", "wallet", "subscription"}
    /\ s.asked \in Quotas /\ s.preConsumedQuota \in Quotas
    /\ s.tokenConsumed \in Int /\ s.consumed \in Int /\ s.preConsumed \in Int
    /\ s.finalConsumed \in Int /\ s.delta \in Int /\ s.postDelta \in Int /\ s.actual \in Int
    /\ s.ref \in Nat /\ s.infoRef \in Nat /\ s.turns \in 0 .. MaxTurns /\ s.fee \in Nat
    /\ s.netWallet \in Int /\ s.netKey \in Int

ChargeTyped(c) ==
    /\ Record(c, ChargeFields)
    /\ c.phase \in Sub!Phases
    /\ c.amount \in Int /\ c.target \in Int /\ c.tokenPre \in Int /\ c.version \in Nat

-----------------------------------------------------------------------------
(* What holds of session s with charge c, for a realtime connection if rt. *)

Uncharged(s, c) ==
    c.phase = "none" /\ c.amount = 0 /\ c.version = 0 /\ s.ref = 0 /\ s.infoRef = 0

\* Before the request is served only the key may have given something.
PreparedWell(s, c) ==
    s.pc \in Preparing =>
        /\ Uncharged(s, c)
        /\ s.refund = "no" /\ ~s.settled /\ ~s.fundingSettled
        /\ s.actual = 0 /\ s.fee = 0 /\ s.turns = 0 /\ s.delta = 0 /\ s.postDelta = 0
        /\ s.preConsumedQuota = 0 /\ s.consumed = 0 /\ s.preConsumed = 0 /\ s.finalConsumed = 0
        /\ s.netWallet = 0
        /\ s.tokenConsumed = IF s.pc \in {"fund", "unwind"} THEN Amount(s) ELSE 0
        /\ ~s.failed => s.netKey = s.tokenConsumed

\* What a raise that is under way has added to the funding source.
Raised(s) == IF s.pc \in Raising THEN s.delta ELSE 0

\* While it is served.
Served(s, rt) ==
    s.pc \in Raising \cup {"serving", "turn", "turnKey"} =>
        /\ s.source \in {"wallet", "subscription"}
        /\ s.refund = "no" /\ ~s.settled /\ ~s.fundingSettled /\ s.fee = 0
        /\ s.tokenConsumed = s.preConsumedQuota
        /\ s.turns = 0 => s.actual = 0
        /\ s.turns > 0 => s.actual > 0 /\ rt
        /\ s.pc \in Raising => ~rt /\ s.preConsumedQuota + s.delta \in Quotas
        /\ s.pc = "turnKey" => s.turns > 0
        /\ s.pc \in {"serving", "turn"} => s.delta = 0
        /\ s.pc = "turn" => rt /\ s.turn \in Quotas \ {0} /\ s.turns < MaxTurns

\* ... from the wallet, ...
ServedFromWallet(s, c) ==
    s.pc \in Raising \cup {"serving", "turn", "turnKey"} /\ s.source = "wallet" =>
        /\ Uncharged(s, c) /\ s.preConsumed = 0
        /\ ~s.failed => /\ s.consumed = s.preConsumedQuota + Raised(s)
                        /\ s.netWallet = s.netKey + s.delta
                        /\ s.turns = 0 => s.netWallet = s.consumed

\* ... and from a subscription: turns of a realtime connection move the version on.
ServedFromSubscription(s, c, rt) ==
    s.pc \in Raising \cup {"serving", "turn", "turnKey"} /\ s.source = "subscription" =>
        /\ s.netWallet = 0 /\ s.preConsumed > 0
        /\ ~rt => /\ c.phase = "reserved" /\ c.version = s.ref /\ s.infoRef <= s.ref
                  /\ s.postDelta = 0 /\ c.amount = s.finalConsumed
                  /\ ~s.failed => c.amount = s.preConsumedQuota + Raised(s)
        /\ rt => /\ c.version = s.infoRef /\ c.amount = s.preConsumedQuota + s.postDelta
                 /\ c.phase \in {"reserved", "settled"}
                 /\ c.phase = "reserved" => c.version = s.ref /\ s.postDelta = 0
                 /\ c.phase = "settled" => s.ref < c.version /\ s.turns > 0
        /\ ~s.failed => s.netKey = s.preConsumedQuota + s.postDelta - (s.delta - Raised(s))

\* After the service, from the wallet: settled, or refunded with a fee.
ClosedOnWallet(s, c, rt) ==
    s.pc \in Closing \cup {"settleKey"} /\ s.source = "wallet" =>
        /\ Uncharged(s, c)
        /\ s.pc = "settleKey" =>
              /\ s.refund = "no" /\ s.fee = 0
              /\ ~s.failed => /\ s.netWallet = s.netKey + s.actual - s.preConsumedQuota
                              /\ ~rt => s.netWallet = s.actual
        /\ s.settled => /\ s.pc = "done" /\ s.refund = "no" /\ s.fee = 0
                        /\ ~s.failed => /\ s.netWallet = s.netKey
                                        /\ ~rt => s.netWallet = s.actual
        /\ s.pc \in Closing /\ ~s.settled /\ ~s.failed =>
              /\ s.netWallet = (IF s.refund = "funding" THEN s.consumed ELSE 0)
                               + (IF s.pc = "fee" THEN 0 ELSE s.fee)
              /\ s.netKey = (IF s.refund \in {"funding", "key"} THEN s.tokenConsumed ELSE 0)
                            + (IF s.pc = "done" THEN s.fee ELSE 0)

\* After the service, from a subscription: a settlement that was queued, ...
SettledOnSubscription(s, c) ==
    s.pc \in Closing \cup {"complete"} /\ s.source = "subscription" /\ s.fundingSettled =>
        /\ s.pc \in {"complete", "done"} /\ s.refund = "no" /\ s.fee = 0
        /\ c.phase \in {"queued", "settled"}
        /\ c.phase = "queued" => /\ c.target = s.actual /\ c.tokenPre = s.preConsumedQuota
                                 /\ ~s.failed => s.netKey = s.preConsumedQuota
        /\ c.phase = "settled" => /\ c.amount = s.actual
                                  /\ ~s.failed => s.netKey = s.actual

\* ... or a refund and a fee, of which the version lets one through, or a realtime
\* connection whose settlement was refused.
RefundedOnSubscription(s, c) ==
    s.pc \in Closing /\ s.source = "subscription" /\ ~s.fundingSettled =>
        /\ ~s.settled
        /\ s.refund = "no" =>
              /\ s.pc = "done" /\ s.fee = 0 /\ c.phase # "queued"
              /\ ~s.failed => s.turns > 0 /\ s.actual > 0
        /\ s.refund # "no" =>
              /\ c.phase \in {"reserved", "settled", "refunded"}
              /\ c.phase = "reserved" => /\ c.version = s.ref /\ s.pc # "feeKey"
                                         /\ ~s.failed => s.refund = "funding"
              /\ c.phase = "settled" => /\ c.amount = s.preConsumedQuota + s.fee /\ s.fee > 0
                                        /\ c.version > s.ref /\ s.pc # "fee"
              /\ c.phase = "refunded" => /\ c.amount = 0 /\ c.version > s.ref
                                         /\ s.refund # "funding"
              /\ s.pc = "fee" => s.fee > 0 /\ s.infoRef <= s.ref /\ s.postDelta = 0
              /\ s.fee = 0 =>
                    /\ s.pc = "done"
                    /\ ~s.failed =>
                         s.netKey = IF s.refund \in {"funding", "key"} THEN s.tokenConsumed ELSE 0

ClosedOnSubscription(s, c) ==
    s.pc \in Closing \cup {"complete"} /\ s.source = "subscription" =>
        /\ s.netWallet = 0 /\ s.ref <= c.version /\ s.infoRef <= c.version
        /\ s.pc = "complete" => s.fundingSettled

\* Where the funding source of a session is known.
SourceKnown(s) ==
    /\ s.pc \in Closing => s.source \in {"wallet", "subscription"}
    /\ s.pc = "wallet" => s.source = "wallet"
    /\ s.pc = "settleKey" => s.source = "wallet" /\ ~s.settled
    /\ s.pc = "complete" => s.source = "subscription"

SessionInv(s, c, rt) ==
    /\ SessionTyped(s) /\ ChargeTyped(c)
    /\ PreparedWell(s, c) /\ Served(s, rt)
    /\ ServedFromWallet(s, c) /\ ServedFromSubscription(s, c, rt)
    /\ ClosedOnWallet(s, c, rt) /\ ClosedOnSubscription(s, c)
    /\ SettledOnSubscription(s, c) /\ RefundedOnSubscription(s, c)
    /\ SourceKnown(s)

BillingInv ==
    /\ wallet \in Int /\ key \in Int /\ failures \in Nat
    /\ Record(ses, Requests) /\ Record(charge, Requests)
    /\ \A r \in Requests : SessionInv(ses[r], charge[r], r \in Realtime)

-----------------------------------------------------------------------------
(* Steps of one session. *)

\* Session s after it has paid w from the wallet and k from the key.
Paid(s, w, k) == [s EXCEPT !.netWallet = @ + w, !.netKey = @ + k]

\* Session t has the fields of session s but for the given ones.
Kept(t, s, but) ==
    /\ "pc" \in but \/ t.pc = s.pc
    /\ "refund" \in but \/ t.refund = s.refund
    /\ "source" \in but \/ t.source = s.source
    /\ "fallback" \in but \/ t.fallback = s.fallback
    /\ "asked" \in but \/ t.asked = s.asked
    /\ "preConsumedQuota" \in but \/ t.preConsumedQuota = s.preConsumedQuota
    /\ "tokenConsumed" \in but \/ t.tokenConsumed = s.tokenConsumed
    /\ "consumed" \in but \/ t.consumed = s.consumed
    /\ "preConsumed" \in but \/ t.preConsumed = s.preConsumed
    /\ "finalConsumed" \in but \/ t.finalConsumed = s.finalConsumed
    /\ "delta" \in but \/ t.delta = s.delta
    /\ "fundingSettled" \in but \/ t.fundingSettled = s.fundingSettled
    /\ "settled" \in but \/ t.settled = s.settled
    /\ "ref" \in but \/ t.ref = s.ref
    /\ "infoRef" \in but \/ t.infoRef = s.infoRef
    /\ "postDelta" \in but \/ t.postDelta = s.postDelta
    /\ "turn" \in but \/ t.turn = s.turn
    /\ "turns" \in but \/ t.turns = s.turns
    /\ "actual" \in but \/ t.actual = s.actual
    /\ "fee" \in but \/ t.fee = s.fee
    /\ "netWallet" \in but \/ t.netWallet = s.netWallet
    /\ "netKey" \in but \/ t.netKey = s.netKey
    /\ "failed" \in but \/ t.failed = s.failed

\* Trying the next funding source.
LEMMA TryFields ==
    ASSUME NEW s, Record(s, Fields), NEW src \in {"none", "wallet", "subscription"},
           NEW n, n = Try(s, src)
    PROVE  /\ Record(n, Fields) /\ Kept(n, s, {"pc", "source"})
           /\ n.pc \in {"wallet", "checkKey", "rejected"}
           /\ n.pc = "wallet" => n.source = "wallet"
           /\ n.source \in {s.source, "wallet", "subscription"}
<1>1. CASE src = "wallet"
  <2>1. n = [s EXCEPT !.pc = "wallet", !.source = "wallet"]
    BY <1>1 DEF Try
  <2>2. Record(n, Fields)
    BY <2>1 DEF Record
  <2>3. n.pc = "wallet" /\ n.source = "wallet"
    BY <2>1 DEF Record, Fields
  <2>4. Kept(n, s, {"pc", "source"})
    BY <2>1, ZenonT(60) DEF Record, Fields, Kept
  <2> QED
    BY <2>2, <2>3, <2>4
<1>2. CASE src = "subscription"
  <2>1. n = [s EXCEPT !.pc = "checkKey", !.source = "subscription"]
    BY <1>2 DEF Try
  <2>2. Record(n, Fields)
    BY <2>1 DEF Record
  <2>3. n.pc = "checkKey" /\ n.source = "subscription"
    BY <2>1 DEF Record, Fields
  <2>4. Kept(n, s, {"pc", "source"})
    BY <2>1, ZenonT(60) DEF Record, Fields, Kept
  <2> QED
    BY <2>2, <2>3, <2>4
<1>3. CASE src = "none"
  <2>1. n = [s EXCEPT !.pc = "rejected"]
    BY <1>3 DEF Try
  <2>2. Record(n, Fields)
    BY <2>1 DEF Record
  <2> QED
    BY <2>1, <2>2 DEF Record, Fields, Kept
<1> QED
  BY <1>1, <1>2, <1>3

\* A session that goes on to a source, or is rejected, owes nothing.
LEMMA StillPreparing ==
    ASSUME NEW s, NEW c, NEW rt \in BOOLEAN, SessionInv(s, c, rt), s.pc \in Preparing, NEW t,
           Record(t, Fields),
           Kept(t, s, {"pc", "source", "fallback", "asked", "tokenConsumed", "netKey", "failed"}),
           t.pc \in {"wallet", "checkKey", "rejected"}, t.pc = "wallet" => t.source = "wallet",
           t.source \in {"none", "wallet", "subscription"},
           t.fallback \in {"none", "wallet", "subscription"},
           t.asked \in Quotas, t.tokenConsumed = 0, t.netKey \in Int, ~t.failed => t.netKey = 0
    PROVE  SessionInv(t, c, rt)
<1>1. SessionTyped(t)
  BY DEF SessionInv, Kept, SessionTyped, Places, Preparing
<1>2. PreparedWell(t, c)
  BY DEF SessionInv, Kept, PreparedWell, Uncharged, Preparing
<1> QED
  BY <1>1, <1>2
     DEF SessionInv, Served, ServedFromWallet, ServedFromSubscription, ClosedOnWallet,
         ClosedOnSubscription, SettledOnSubscription, RefundedOnSubscription, SourceKnown,
         Preparing, Raising, Closing

\* The first source is tried.
Opened(s, t) ==
    \E src, next \in {"none", "wallet", "subscription"}, a \in Quotas :
        t = Paid([Try(s, src) EXCEPT !.fallback = next, !.asked = a], 0, 0)

\* A request gets its session and tries its first source.
LEMMA SessionOpened ==
    ASSUME NEW s, NEW c, NEW rt \in BOOLEAN, SessionInv(s, c, rt), s.pc = "new",
           NEW t, Opened(s, t)
    PROVE  SessionInv(t, c, rt)
<1>0. PICK src \in {"none", "wallet", "subscription"}, next \in {"none", "wallet", "subscription"},
           a \in Quotas :
              t = Paid([Try(s, src) EXCEPT !.fallback = next, !.asked = a], 0, 0)
  BY DEF Opened
<1>1. PICK n : n = Try(s, src)
  OBVIOUS
<1>2. Record(s, Fields) /\ s.netKey \in Int /\ s.netWallet \in Int
  BY DEF SessionInv, SessionTyped
<1>3. /\ Record(n, Fields) /\ Kept(n, s, {"pc", "source"})
      /\ n.pc \in {"wallet", "checkKey", "rejected"}
      /\ n.pc = "wallet" => n.source = "wallet"
      /\ n.source \in {s.source, "wallet", "subscription"}
  BY <1>1, <1>2, TryFields
<1>4. t = Paid([n EXCEPT !.fallback = next, !.asked = a], 0, 0)
  BY <1>0, <1>1
<1>5. Record(t, Fields)
  BY <1>3, <1>4 DEF Record, Paid
<1>6. n.netKey = s.netKey /\ n.netWallet = s.netWallet
  BY <1>3 DEF Kept
<1>7. /\ t.fallback = next /\ t.asked = a /\ t.netKey = n.netKey
      /\ Kept(t, n, {"fallback", "asked"})
  <2>1. /\ t.fallback = next /\ t.asked = a /\ t.netKey = n.netKey
        /\ t.netWallet = n.netWallet
    <3>1. /\ t.fallback = next /\ t.asked = a
          /\ t.netKey = n.netKey + 0 /\ t.netWallet = n.netWallet + 0
      BY <1>3, <1>4 DEF Record, Paid, Fields
    <3> QED
      BY <1>2, <1>6, <3>1
  <2>2. Kept(t, n, {"fallback", "asked", "netWallet", "netKey"})
    BY <1>3, <1>4 DEF Record, Paid, Fields, Kept
  <2> QED
    BY <2>1, <2>2 DEF Kept
<1>8. Kept(t, s, {"pc", "source", "fallback", "asked", "tokenConsumed", "netKey", "failed"})
  BY <1>3, <1>7 DEF Kept
<1>9. t.tokenConsumed = 0 /\ (~t.failed => t.netKey = 0) /\ s.pc \in Preparing
  BY <1>3, <1>6, <1>7 DEF SessionInv, PreparedWell, Preparing, Kept
<1> QED
  BY <1>2, <1>3, <1>5, <1>6, <1>7, <1>8, <1>9, StillPreparing DEF Kept, SessionInv, SessionTyped

\* The fields of a session that goes on to its second source.
LEMMA FallbackFields ==
    ASSUME NEW s, Record(s, Fields), s.fallback \in {"none", "wallet", "subscription"},
           NEW n, n = Fallback(s)
    PROVE  /\ Record(n, Fields) /\ Kept(n, s, {"pc", "source", "fallback"})
           /\ n.pc \in {"wallet", "checkKey", "rejected"}
           /\ n.pc = "wallet" => n.source = "wallet"
           /\ n.source \in {s.source, "wallet", "subscription"}
           /\ n.fallback = "none"
<1>1. PICK m : m = Try(s, s.fallback)
  OBVIOUS
<1>2. /\ Record(m, Fields) /\ Kept(m, s, {"pc", "source"})
      /\ m.pc \in {"wallet", "checkKey", "rejected"}
      /\ m.pc = "wallet" => m.source = "wallet"
      /\ m.source \in {s.source, "wallet", "subscription"}
  BY <1>1, TryFields
<1>3. n = [m EXCEPT !.fallback = "none"]
  BY <1>1 DEF Fallback
<1>4. Record(n, Fields)
  BY <1>2, <1>3 DEF Record
<1>5. Kept(n, m, {"fallback"}) /\ n.fallback = "none"
  BY <1>2, <1>3 DEF Record, Fields, Kept
<1> QED
  BY <1>2, <1>4, <1>5 DEF Kept

\* The wallet has too little.
LEMMA WalletShort ==
    ASSUME NEW s, NEW c, NEW rt \in BOOLEAN, SessionInv(s, c, rt), s.pc = "wallet",
           NEW t, t = Paid(Fallback(s), 0, 0)
    PROVE  SessionInv(t, c, rt)
<1>1. PICK n : n = Fallback(s)
  OBVIOUS
<1>2. /\ Record(s, Fields) /\ s.netKey \in Int /\ s.netWallet \in Int
      /\ s.fallback \in {"none", "wallet", "subscription"} /\ s.asked \in Quotas
      /\ s.source \in {"none", "wallet", "subscription"}
  BY DEF SessionInv, SessionTyped
<1>3. /\ Record(n, Fields) /\ Kept(n, s, {"pc", "source", "fallback"})
      /\ n.pc \in {"wallet", "checkKey", "rejected"}
      /\ n.pc = "wallet" => n.source = "wallet"
      /\ n.source \in {s.source, "wallet", "subscription"} /\ n.fallback = "none"
  BY <1>1, <1>2, FallbackFields
<1>4. t = Paid(n, 0, 0)
  BY <1>1
<1>5. Record(t, Fields)
  BY <1>3, <1>4 DEF Record, Paid
<1>6. n.netKey \in Int /\ n.netWallet \in Int
  BY <1>2, <1>3 DEF Kept
<1>7. Kept(t, n, {})
  <2>1. t.netKey = n.netKey /\ t.netWallet = n.netWallet
    <3>1. t.netKey = n.netKey + 0 /\ t.netWallet = n.netWallet + 0
      BY <1>3, <1>4 DEF Record, Paid, Fields
    <3> QED
      BY <1>6, <3>1
  <2>2. Kept(t, n, {"netWallet", "netKey"})
    BY <1>3, <1>4, ZenonT(60) DEF Record, Paid, Fields, Kept
  <2> QED
    BY <2>1, <2>2 DEF Kept
<1>8. Kept(t, s, {"pc", "source", "fallback", "asked", "tokenConsumed", "netKey", "failed"})
  BY <1>3, <1>7 DEF Kept
<1>9. t.tokenConsumed = 0 /\ (~t.failed => t.netKey = 0) /\ s.pc \in Preparing
  BY <1>3, <1>7 DEF SessionInv, PreparedWell, Preparing, Kept
<1>10. /\ t.pc = n.pc /\ t.source = n.source /\ t.fallback = n.fallback
       /\ t.asked = s.asked /\ t.netKey = n.netKey
  BY <1>3, <1>7 DEF Kept
<1> QED
  BY <1>2, <1>3, <1>5, <1>6, <1>8, <1>9, <1>10, StillPreparing

\* The key gets back what it gave, unless that fails.
GivenBack(s, t) ==
    \E u, n : /\ u = [s EXCEPT !.tokenConsumed = 0, !.insufficient = FALSE]
              /\ n = Fallback(u) \/ n = [u EXCEPT !.pc = "rejected"]
              /\ \/ t = Paid(n, 0, -s.tokenConsumed)
                 \/ t = Paid([n EXCEPT !.failed = TRUE], 0, 0)

\* GivenBack keeps the invariant of the session.
LEMMA Unwound ==
    ASSUME NEW s, NEW c, NEW rt \in BOOLEAN, SessionInv(s, c, rt), s.pc = "unwind",
           NEW t, GivenBack(s, t)
    PROVE  SessionInv(t, c, rt)
<1>0. PICK u, n : /\ u = [s EXCEPT !.tokenConsumed = 0, !.insufficient = FALSE]
                  /\ n = Fallback(u) \/ n = [u EXCEPT !.pc = "rejected"]
                  /\ \/ t = Paid(n, 0, -s.tokenConsumed)
                     \/ t = Paid([n EXCEPT !.failed = TRUE], 0, 0)
  BY DEF GivenBack
<1>1. /\ Record(s, Fields) /\ s.netKey \in Int /\ s.netWallet \in Int
      /\ s.fallback \in {"none", "wallet", "subscription"} /\ s.asked \in Quotas
      /\ s.source \in {"none", "wallet", "subscription"} /\ s.tokenConsumed \in Int
  BY DEF SessionInv, SessionTyped
<1>2. Record(u, Fields)
  BY <1>0, <1>1 DEF Record
<1>3. u.tokenConsumed = 0 /\ Kept(u, s, {"tokenConsumed"})
  BY <1>0, <1>1 DEF Record, Fields, Kept
<1>4. /\ Record(n, Fields) /\ Kept(n, u, {"pc", "source", "fallback"})
      /\ n.pc \in {"wallet", "checkKey", "rejected"}
      /\ n.pc = "wallet" => n.source = "wallet"
      /\ n.source \in {"none", "wallet", "subscription"}
      /\ n.fallback \in {"none", "wallet", "subscription"}
  <2>1. CASE n = Fallback(u)
    <3>1. u.fallback = s.fallback /\ u.source = s.source
      BY <1>3 DEF Kept
    <3>2. /\ Record(n, Fields) /\ Kept(n, u, {"pc", "source", "fallback"})
          /\ n.pc \in {"wallet", "checkKey", "rejected"}
          /\ n.pc = "wallet" => n.source = "wallet"
          /\ n.source \in {u.source, "wallet", "subscription"} /\ n.fallback = "none"
      BY <1>1, <1>2, <2>1, <3>1, FallbackFields
    <3> QED
      BY <1>1, <3>1, <3>2
  <2>2. CASE n = [u EXCEPT !.pc = "rejected"]
    <3>1. Record(n, Fields)
      BY <1>2, <2>2 DEF Record
    <3>2. n.pc = "rejected" /\ Kept(n, u, {"pc"})
      BY <1>2, <2>2 DEF Record, Fields, Kept
    <3> QED
      BY <1>1, <1>3, <3>1, <3>2 DEF Kept
  <2> QED
    BY <1>0, <2>1, <2>2
<1>5. /\ n.netKey = s.netKey /\ n.netWallet = s.netWallet /\ n.tokenConsumed = 0
      /\ n.failed = s.failed
      /\ Kept(n, s, {"pc", "source", "fallback", "tokenConsumed"})
  BY <1>3, <1>4 DEF Kept
<1>6. ~s.failed => s.netKey = s.tokenConsumed
  BY DEF SessionInv, PreparedWell, Preparing
<1>7. /\ Record(t, Fields) /\ Kept(t, n, {"netKey", "failed"})
      /\ t.netKey \in Int /\ (~t.failed => t.netKey = 0)
  <2>1. CASE t = Paid(n, 0, -s.tokenConsumed)
    <3>1. Record(t, Fields)
      BY <1>4, <2>1 DEF Record, Paid
    <3>2. t.netKey = n.netKey + (-s.tokenConsumed) /\ Kept(t, n, {"netKey"})
      BY <1>1, <1>4, <1>5, <2>1 DEF Record, Paid, Fields, Kept
    <3>3. t.failed = s.failed
      BY <3>2, <1>5 DEF Kept
    <3> QED
      BY <1>1, <1>5, <1>6, <3>1, <3>2, <3>3 DEF Kept
  <2>2. CASE t = Paid([n EXCEPT !.failed = TRUE], 0, 0)
    <3>1. Record(t, Fields)
      BY <1>4, <2>2 DEF Record, Paid
    <3>2. t.netKey = n.netKey /\ t.failed /\ Kept(t, n, {"failed"})
      BY <1>1, <1>4, <1>5, <2>2 DEF Record, Paid, Fields, Kept
    <3> QED
      BY <1>1, <1>5, <3>1, <3>2 DEF Kept
  <2> QED
    BY <1>0, <2>1, <2>2
<1>8. Kept(t, s, {"pc", "source", "fallback", "asked", "tokenConsumed", "netKey", "failed"})
  BY <1>5, <1>7 DEF Kept
<1>9. /\ t.pc = n.pc /\ t.source = n.source /\ t.fallback = n.fallback /\ t.tokenConsumed = 0
      /\ t.asked = s.asked
  BY <1>5, <1>7 DEF Kept
<1>10. s.pc \in Preparing
  BY DEF Preparing
<1> QED
  BY <1>1, <1>4, <1>7, <1>8, <1>9, <1>10, StillPreparing

\* PreConsumeTokenQuota reads the key.
LEMMA KeyChecked ==
    ASSUME NEW s, NEW c, NEW rt \in BOOLEAN, SessionInv(s, c, rt), s.pc = "checkKey",
           NEW p \in {"fund", "rejected", "takeKey"}, p = "fund" => Amount(s) = 0, NEW t,
           t = Paid([s EXCEPT !.pc = p], 0, 0)
    PROVE  SessionInv(t, c, rt)
<1>1. Record(t, Fields)
  BY DEF SessionInv, SessionTyped, Record, Paid
<1>2. /\ t.pc = p /\ t.netWallet = s.netWallet /\ t.netKey = s.netKey
  BY DEF SessionInv, SessionTyped, Record, Fields, Paid
<1>3. Kept(t, s, {"pc", "netWallet", "netKey"})
  BY SMTT(30) DEF SessionInv, SessionTyped, Record, Fields, Kept, Paid
<1> QED
  BY <1>1, <1>2, <1>3
     DEF SessionInv, Kept, SessionTyped, PreparedWell, Served, ServedFromWallet,
         ServedFromSubscription, ClosedOnWallet, ClosedOnSubscription, SettledOnSubscription,
         RefundedOnSubscription, SourceKnown, Uncharged, Places, Preparing, Raising, Closing,
         Amount, Raised, Quotas

\* The key gives.
LEMMA KeyTaken ==
    ASSUME NEW s, NEW c, NEW rt \in BOOLEAN, SessionInv(s, c, rt), s.pc = "takeKey", NEW t,
           t = Paid([s EXCEPT !.pc = "fund", !.tokenConsumed = Amount(s)], 0, Amount(s))
    PROVE  SessionInv(t, c, rt)
<1>1. Record(t, Fields)
  BY DEF SessionInv, SessionTyped, Record, Paid
<1>2. /\ t.pc = "fund" /\ t.tokenConsumed = Amount(s) /\ t.netWallet = s.netWallet
      /\ t.netKey = s.netKey + (Amount(s))
  BY DEF SessionInv, SessionTyped, Record, Fields, Paid
<1>3. Kept(t, s, {"pc", "tokenConsumed", "netWallet", "netKey"})
  BY DEF SessionInv, SessionTyped, Record, Fields, Kept, Paid
<1> QED
  BY <1>1, <1>2, <1>3
     DEF SessionInv, Kept, SessionTyped, PreparedWell, Served, ServedFromWallet,
         ServedFromSubscription, ClosedOnWallet, ClosedOnSubscription, SettledOnSubscription,
         RefundedOnSubscription, SourceKnown, Uncharged, Places, Preparing, Raising, Closing,
         Amount, Raised, Quotas

\* The key cannot be updated.
LEMMA KeyNotTaken ==
    ASSUME NEW s, NEW c, NEW rt \in BOOLEAN, SessionInv(s, c, rt), s.pc = "takeKey", NEW t,
           t = Paid([s EXCEPT !.pc = "rejected"], 0, 0)
    PROVE  SessionInv(t, c, rt)
<1>1. Record(t, Fields)
  BY DEF SessionInv, SessionTyped, Record, Paid
<1>2. /\ t.pc = "rejected" /\ t.netWallet = s.netWallet /\ t.netKey = s.netKey
  BY DEF SessionInv, SessionTyped, Record, Fields, Paid
<1>3. Kept(t, s, {"pc", "netWallet", "netKey"})
  BY DEF SessionInv, SessionTyped, Record, Fields, Kept, Paid
<1> QED
  BY <1>1, <1>2, <1>3
     DEF SessionInv, Kept, SessionTyped, PreparedWell, Served, ServedFromWallet,
         ServedFromSubscription, ClosedOnWallet, ClosedOnSubscription, SettledOnSubscription,
         RefundedOnSubscription, SourceKnown, Uncharged, Places, Preparing, Raising, Closing,
         Amount, Raised, Quotas

\* Plenty in the wallet: nothing is reserved.
LEMMA WalletTrusted ==
    ASSUME NEW s, NEW c, NEW rt \in BOOLEAN, SessionInv(s, c, rt), s.pc = "wallet", NEW t,
           t = Paid([s EXCEPT !.trusted = TRUE, !.pc = "serving"], 0, 0)
    PROVE  SessionInv(t, c, rt)
<1>1. Record(t, Fields)
  BY DEF SessionInv, SessionTyped, Record, Paid
<1>2. /\ t.pc = "serving" /\ t.netWallet = s.netWallet /\ t.netKey = s.netKey
  BY DEF SessionInv, SessionTyped, Record, Fields, Paid
<1>3. Kept(t, s, {"pc", "trusted", "netWallet", "netKey"})
  BY DEF SessionInv, SessionTyped, Record, Fields, Kept, Paid
<1> QED
  BY <1>1, <1>2, <1>3
     DEF SessionInv, Kept, SessionTyped, PreparedWell, Served, ServedFromWallet,
         ServedFromSubscription, ClosedOnWallet, ClosedOnSubscription, SettledOnSubscription,
         RefundedOnSubscription, SourceKnown, Uncharged, Places, Preparing, Raising, Closing,
         Amount, Raised, Quotas

\* Enough in the wallet.
LEMMA WalletChosen ==
    ASSUME NEW s, NEW c, NEW rt \in BOOLEAN, SessionInv(s, c, rt), s.pc = "wallet", NEW t,
           t = Paid([s EXCEPT !.trusted = FALSE, !.pc = "checkKey"], 0, 0)
    PROVE  SessionInv(t, c, rt)
<1>1. Record(t, Fields)
  BY DEF SessionInv, SessionTyped, Record, Paid
<1>2. /\ t.pc = "checkKey" /\ t.netWallet = s.netWallet /\ t.netKey = s.netKey
  BY DEF SessionInv, SessionTyped, Record, Fields, Paid
<1>3. Kept(t, s, {"pc", "trusted", "netWallet", "netKey"})
  BY DEF SessionInv, SessionTyped, Record, Fields, Kept, Paid
<1> QED
  BY <1>1, <1>2, <1>3
     DEF SessionInv, Kept, SessionTyped, PreparedWell, Served, ServedFromWallet,
         ServedFromSubscription, ClosedOnWallet, ClosedOnSubscription, SettledOnSubscription,
         RefundedOnSubscription, SourceKnown, Uncharged, Places, Preparing, Raising, Closing,
         Amount, Raised, Quotas

\* The wallet gives.
LEMMA WalletReserved ==
    ASSUME NEW s, NEW c, NEW rt \in BOOLEAN, SessionInv(s, c, rt), s.pc = "fund",
           s.source = "wallet", NEW a, a = Amount(s), NEW t,
           t = Paid([[s EXCEPT !.pc = "serving", !.preConsumedQuota = a]
                      EXCEPT !.consumed = a], a, 0)
    PROVE  SessionInv(t, c, rt)
<1>1. Record(t, Fields)
  BY DEF SessionInv, SessionTyped, Record, Paid
<1>2. /\ t.pc = "serving" /\ t.preConsumedQuota = a /\ t.consumed = a
      /\ t.netWallet = s.netWallet + a /\ t.netKey = s.netKey
  BY DEF SessionInv, SessionTyped, Record, Fields, Paid
<1>3. Kept(t, s, {"pc", "preConsumedQuota", "consumed", "netWallet", "netKey"})
  BY DEF SessionInv, SessionTyped, Record, Fields, Kept, Paid
<1> QED
  BY <1>1, <1>2, <1>3
     DEF SessionInv, Kept, SessionTyped, PreparedWell, Served, ServedFromWallet,
         ServedFromSubscription, ClosedOnWallet, ClosedOnSubscription, SettledOnSubscription,
         RefundedOnSubscription, SourceKnown, Uncharged, Places, Preparing, Raising, Closing,
         Amount, Raised, Quotas

\* The subscription gives.
ReservedTo(s, c, t, d) ==
    /\ t = Paid([[s EXCEPT !.pc = "serving", !.preConsumedQuota = Amount(s)]
                  EXCEPT !.preConsumed = Amount(s), !.finalConsumed = Amount(s),
                         !.ref = 1, !.infoRef = 1], 0, 0)
    /\ d = [c EXCEPT !.phase = "reserved", !.amount = Amount(s), !.version = 1]

\* ReservedTo keeps the invariant of the session.
LEMMA SubscriptionReserved ==
    ASSUME NEW s, NEW c, NEW rt \in BOOLEAN, SessionInv(s, c, rt), s.pc = "fund",
           s.source = "subscription", NEW t, NEW d, ReservedTo(s, c, t, d)
    PROVE  SessionInv(t, d, rt)
<1>1. Record(t, Fields)
  BY DEF SessionInv, SessionTyped, Record, Paid, ReservedTo
<1>2. /\ t.pc = "serving" /\ t.preConsumedQuota = Amount(s) /\ t.preConsumed = Amount(s)
      /\ t.finalConsumed = Amount(s) /\ t.ref = 1 /\ t.infoRef = 1
      /\ t.netWallet = s.netWallet /\ t.netKey = s.netKey
  BY DEF SessionInv, SessionTyped, Record, Fields, Paid, ReservedTo
<1>3. Kept(t, s, {"pc", "preConsumedQuota", "preConsumed", "finalConsumed", "ref",
                  "infoRef", "netWallet", "netKey"})
  BY DEF SessionInv, SessionTyped, Record, Fields, Kept, Paid, ReservedTo
<1>4. /\ d.phase = "reserved" /\ d.amount = Amount(s) /\ d.version = 1
      /\ d.target = c.target /\ d.tokenPre = c.tokenPre
      /\ Record(d, ChargeFields)
  BY DEF SessionInv, ChargeTyped, Record, ChargeFields, ReservedTo
<1> QED
  BY <1>1, <1>2, <1>3, <1>4, SessionAssumption
     DEF SessionInv, Kept, SessionTyped, PreparedWell, Served, ServedFromWallet,
         ServedFromSubscription, ClosedOnWallet, ClosedOnSubscription, SettledOnSubscription,
         RefundedOnSubscription, SourceKnown, Uncharged, Places, Preparing, Raising, Closing,
         Amount, Raised, Quotas, ChargeTyped, Sub!Phases

\* The subscription has no room.
LEMMA FundingRefused ==
    ASSUME NEW s, NEW c, NEW rt \in BOOLEAN, SessionInv(s, c, rt), s.pc = "fund", NEW t,
           t = Paid([[s EXCEPT !.pc = "unwind"] EXCEPT !.insufficient = TRUE], 0, 0)
    PROVE  SessionInv(t, c, rt)
<1>1. Record(t, Fields)
  BY DEF SessionInv, SessionTyped, Record, Paid
<1>2. /\ t.pc = "unwind" /\ t.netWallet = s.netWallet /\ t.netKey = s.netKey
  BY DEF SessionInv, SessionTyped, Record, Fields, Paid
<1>3. Kept(t, s, {"pc", "insufficient", "netWallet", "netKey"})
  BY DEF SessionInv, SessionTyped, Record, Fields, Kept, Paid
<1> QED
  BY <1>1, <1>2, <1>3
     DEF SessionInv, Kept, SessionTyped, PreparedWell, Served, ServedFromWallet,
         ServedFromSubscription, ClosedOnWallet, ClosedOnSubscription, SettledOnSubscription,
         RefundedOnSubscription, SourceKnown, Uncharged, Places, Preparing, Raising, Closing,
         Amount, Raised, Quotas

\* The funding source cannot be updated.
LEMMA FundingFailed ==
    ASSUME NEW s, NEW c, NEW rt \in BOOLEAN, SessionInv(s, c, rt), s.pc = "fund", NEW t,
           t = Paid([s EXCEPT !.pc = "unwind"], 0, 0)
    PROVE  SessionInv(t, c, rt)
<1>1. Record(t, Fields)
  BY DEF SessionInv, SessionTyped, Record, Paid
<1>2. /\ t.pc = "unwind" /\ t.netWallet = s.netWallet /\ t.netKey = s.netKey
  BY DEF SessionInv, SessionTyped, Record, Fields, Paid
<1>3. Kept(t, s, {"pc", "netWallet", "netKey"})
  BY DEF SessionInv, SessionTyped, Record, Fields, Kept, Paid
<1> QED
  BY <1>1, <1>2, <1>3
     DEF SessionInv, Kept, SessionTyped, PreparedWell, Served, ServedFromWallet,
         ServedFromSubscription, ClosedOnWallet, ClosedOnSubscription, SettledOnSubscription,
         RefundedOnSubscription, SourceKnown, Uncharged, Places, Preparing, Raising, Closing,
         Amount, Raised, Quotas

\* A reservation is raised on the wallet.
LEMMA WalletRaised ==
    ASSUME NEW s, NEW c, NEW rt \in BOOLEAN, SessionInv(s, c, rt), s.pc = "serving",
           s.source = "wallet", ~rt, NEW m \in Int, m > 0,
           s.preConsumedQuota + m \in Quotas, NEW t,
           t = Paid([[s EXCEPT !.pc = "reserveKey", !.delta = m, !.reserves = @ + 1]
                      EXCEPT !.consumed = @ + m], m, 0)
    PROVE  SessionInv(t, c, rt)
<1>1. Record(t, Fields)
  BY DEF SessionInv, SessionTyped, Record, Paid
<1>2. /\ t.pc = "reserveKey" /\ t.delta = m /\ t.consumed = s.consumed + m
      /\ t.netWallet = s.netWallet + m /\ t.netKey = s.netKey
  BY DEF SessionInv, SessionTyped, Record, Fields, Paid
<1>3. Kept(t, s, {"pc", "delta", "reserves", "consumed", "netWallet", "netKey"})
  BY DEF SessionInv, SessionTyped, Record, Fields, Kept, Paid
<1> QED
  BY <1>1, <1>2, <1>3
     DEF SessionInv, Kept, SessionTyped, PreparedWell, Served, ServedFromWallet,
         ServedFromSubscription, ClosedOnWallet, ClosedOnSubscription, SettledOnSubscription,
         RefundedOnSubscription, SourceKnown, Uncharged, Places, Preparing, Raising, Closing,
         Amount, Raised, Quotas

\* A reservation is raised on the subscription.
RaisedTo(s, c, t, d, m) ==
    /\ t = Paid([[s EXCEPT !.pc = "reserveKey", !.delta = m, !.reserves = @ + 1]
                  EXCEPT !.finalConsumed = @ + m, !.ref = @ + 1], 0, 0)
    /\ d = [c EXCEPT !.phase = "reserved", !.amount = s.finalConsumed + m,
            !.version = s.ref + 1]

\* RaisedTo keeps the invariant of the session.
LEMMA SubscriptionRaised ==
    ASSUME NEW s, NEW c, NEW rt \in BOOLEAN, SessionInv(s, c, rt), s.pc = "serving",
           s.source = "subscription", ~rt, NEW m \in Int, m > 0,
           s.preConsumedQuota + m \in Quotas, c.version = s.ref, NEW t, NEW d,
           RaisedTo(s, c, t, d, m)
    PROVE  SessionInv(t, d, rt)
<1>1. Record(t, Fields)
  BY DEF SessionInv, SessionTyped, Record, Paid, RaisedTo
<1>2. /\ t.pc = "reserveKey" /\ t.delta = m /\ t.finalConsumed = s.finalConsumed + m
      /\ t.ref = s.ref + 1 /\ t.netWallet = s.netWallet /\ t.netKey = s.netKey
  BY DEF SessionInv, SessionTyped, Record, Fields, Paid, RaisedTo
<1>3. Kept(t, s, {"pc", "delta", "reserves", "finalConsumed", "ref", "netWallet", "netKey"})
  BY DEF SessionInv, SessionTyped, Record, Fields, Kept, Paid, RaisedTo
<1>4. /\ d.phase = "reserved" /\ d.amount = s.finalConsumed + m /\ d.version = s.ref + 1
      /\ d.target = c.target /\ d.tokenPre = c.tokenPre
      /\ Record(d, ChargeFields)
  BY DEF SessionInv, ChargeTyped, Record, ChargeFields, RaisedTo
<1> QED
  BY <1>1, <1>2, <1>3, <1>4
     DEF SessionInv, Kept, SessionTyped, PreparedWell, Served, ServedFromWallet,
         ServedFromSubscription, ClosedOnWallet, ClosedOnSubscription, SettledOnSubscription,
         RefundedOnSubscription, SourceKnown, Uncharged, Places, Preparing, Raising, Closing,
         Amount, Raised, Quotas, ChargeTyped, Sub!Phases

\* reserveToken reads the key.
LEMMA RaiseChecked ==
    ASSUME NEW s, NEW c, NEW rt \in BOOLEAN, SessionInv(s, c, rt), s.pc = "reserveKey",
           NEW p \in {"reserveTake", "rollback"}, NEW t,
           t = Paid([s EXCEPT !.pc = p], 0, 0)
    PROVE  SessionInv(t, c, rt)
<1>1. Record(t, Fields)
  BY DEF SessionInv, SessionTyped, Record, Paid
<1>2. /\ t.pc = p /\ t.netWallet = s.netWallet /\ t.netKey = s.netKey
  BY DEF SessionInv, SessionTyped, Record, Fields, Paid
<1>3. Kept(t, s, {"pc", "netWallet", "netKey"})
  BY DEF SessionInv, SessionTyped, Record, Fields, Kept, Paid
<1> QED
  BY <1>1, <1>2, <1>3
     DEF SessionInv, Kept, SessionTyped, PreparedWell, Served, ServedFromWallet,
         ServedFromSubscription, ClosedOnWallet, ClosedOnSubscription, SettledOnSubscription,
         RefundedOnSubscription, SourceKnown, Uncharged, Places, Preparing, Raising, Closing,
         Amount, Raised, Quotas

\* The key gives the difference.
LEMMA RaiseTaken ==
    ASSUME NEW s, NEW c, NEW rt \in BOOLEAN, SessionInv(s, c, rt), s.pc = "reserveTake",
           NEW t,
           t = Paid([s EXCEPT !.pc = "serving", !.preConsumedQuota = @ + s.delta,
                     !.delta = 0, !.tokenConsumed = @ + s.delta, !.infoRef = s.ref], 0, s.delta)
    PROVE  SessionInv(t, c, rt)
<1>1. Record(t, Fields)
  BY DEF SessionInv, SessionTyped, Record, Paid
<1>2. /\ t.pc = "serving" /\ t.preConsumedQuota = s.preConsumedQuota + s.delta
      /\ t.delta = 0 /\ t.tokenConsumed = s.tokenConsumed + s.delta /\ t.infoRef = s.ref
      /\ t.netWallet = s.netWallet /\ t.netKey = s.netKey + (s.delta)
  BY DEF SessionInv, SessionTyped, Record, Fields, Paid
<1>3. Kept(t, s, {"pc", "preConsumedQuota", "delta", "tokenConsumed", "infoRef",
                  "netWallet", "netKey"})
  BY DEF SessionInv, SessionTyped, Record, Fields, Kept, Paid
<1>4. SessionTyped(t)
  BY <1>1, <1>2, <1>3
     DEF SessionInv, Kept, SessionTyped, Served, Raising, Closing, Quotas, Places,
         Preparing
<1>5. PreparedWell(t, c) /\ SourceKnown(t)
  BY <1>1, <1>2, <1>3
     DEF SessionInv, Kept, SessionTyped, Served, Raising, Closing, Quotas, PreparedWell,
         SourceKnown, Preparing
<1>6. Served(t, rt)
  BY <1>1, <1>2, <1>3
     DEF SessionInv, Kept, SessionTyped, Served, Raising, Closing, Quotas, SourceKnown
<1>7. ServedFromWallet(t, c)
  BY <1>1, <1>2, <1>3
     DEF SessionInv, Kept, SessionTyped, Served, Raising, Closing, Quotas,
         ServedFromWallet, Uncharged, Raised
<1>8. ServedFromSubscription(t, c, rt)
  BY <1>1, <1>2, <1>3
     DEF SessionInv, Kept, SessionTyped, Served, Raising, Closing, Quotas,
         ServedFromSubscription, Raised
<1>9. ClosedOnWallet(t, c, rt)
  BY <1>1, <1>2, <1>3
     DEF SessionInv, Kept, SessionTyped, Served, Raising, Closing, Quotas,
         ServedFromWallet, ClosedOnWallet, Uncharged, PreparedWell, Preparing, SourceKnown,
         Raised
<1>10. ClosedOnSubscription(t, c) /\ SettledOnSubscription(t, c)
  BY <1>1, <1>2, <1>3
     DEF SessionInv, Kept, SessionTyped, Served, Raising, Closing, Quotas,
         ServedFromSubscription, ClosedOnSubscription, SettledOnSubscription, PreparedWell,
         Preparing, SourceKnown, Raised
<1>11. RefundedOnSubscription(t, c)
  BY <1>1, <1>2, <1>3
     DEF SessionInv, Kept, SessionTyped, Served, Raising, Closing, Quotas,
         ServedFromSubscription, ClosedOnSubscription, RefundedOnSubscription,
         PreparedWell, Preparing, SourceKnown, Raised
<1> QED
  BY <1>4, <1>5, <1>6, <1>7, <1>8, <1>9, <1>10, <1>11 DEF SessionInv

\* The key cannot be updated.
LEMMA RaiseNotTaken ==
    ASSUME NEW s, NEW c, NEW rt \in BOOLEAN, SessionInv(s, c, rt), s.pc = "reserveTake",
           NEW t, t = Paid([s EXCEPT !.pc = "rollback"], 0, 0)
    PROVE  SessionInv(t, c, rt)
<1>1. Record(t, Fields)
  BY DEF SessionInv, SessionTyped, Record, Paid
<1>2. /\ t.pc = "rollback" /\ t.netWallet = s.netWallet /\ t.netKey = s.netKey
  BY DEF SessionInv, SessionTyped, Record, Fields, Paid
<1>3. Kept(t, s, {"pc", "netWallet", "netKey"})
  BY DEF SessionInv, SessionTyped, Record, Fields, Kept, Paid
<1>4. SessionTyped(t)
  BY <1>1, <1>2, <1>3
     DEF SessionInv, Kept, SessionTyped, Served, Raising, Closing, Quotas, Places,
         Preparing
<1>5. PreparedWell(t, c) /\ SourceKnown(t)
  BY <1>1, <1>2, <1>3
     DEF SessionInv, Kept, SessionTyped, Served, Raising, Closing, Quotas, PreparedWell,
         SourceKnown, Preparing
<1>6. Served(t, rt)
  BY <1>1, <1>2, <1>3
     DEF SessionInv, Kept, SessionTyped, Served, Raising, Closing, Quotas, SourceKnown
<1>7. ServedFromWallet(t, c)
  BY <1>1, <1>2, <1>3
     DEF SessionInv, Kept, SessionTyped, Served, Raising, Closing, Quotas,
         ServedFromWallet, Uncharged, Raised
<1>8. ServedFromSubscription(t, c, rt)
  BY <1>1, <1>2, <1>3
     DEF SessionInv, Kept, SessionTyped, Served, Raising, Closing, Quotas,
         ServedFromSubscription, Raised
<1>9. ClosedOnWallet(t, c, rt)
  BY <1>1, <1>2, <1>3
     DEF SessionInv, Kept, SessionTyped, Served, Raising, Closing, Quotas,
         ServedFromWallet, ClosedOnWallet, Uncharged, PreparedWell, Preparing, SourceKnown,
         Raised
<1>10. ClosedOnSubscription(t, c) /\ SettledOnSubscription(t, c)
  BY <1>1, <1>2, <1>3
     DEF SessionInv, Kept, SessionTyped, Served, Raising, Closing, Quotas,
         ServedFromSubscription, ClosedOnSubscription, SettledOnSubscription, PreparedWell,
         Preparing, SourceKnown, Raised
<1>11. RefundedOnSubscription(t, c)
  BY <1>1, <1>2, <1>3
     DEF SessionInv, Kept, SessionTyped, Served, Raising, Closing, Quotas,
         ServedFromSubscription, ClosedOnSubscription, RefundedOnSubscription,
         PreparedWell, Preparing, SourceKnown, Raised
<1> QED
  BY <1>4, <1>5, <1>6, <1>7, <1>8, <1>9, <1>10, <1>11 DEF SessionInv

\* The raise is taken back from the wallet.
LEMMA WalletLowered ==
    ASSUME NEW s, NEW c, NEW rt \in BOOLEAN, SessionInv(s, c, rt), s.pc = "rollback",
           s.source = "wallet", NEW t,
           t = Paid([[s EXCEPT !.pc = "serving", !.delta = 0]
                      EXCEPT !.consumed = @ + (-s.delta)], -s.delta, 0)
    PROVE  SessionInv(t, c, rt)
<1>1. Record(t, Fields)
  BY DEF SessionInv, SessionTyped, Record, Paid
<1>2. /\ t.pc = "serving" /\ t.delta = 0 /\ t.consumed = s.consumed - s.delta
      /\ t.netWallet = s.netWallet + (-s.delta) /\ t.netKey = s.netKey
  BY DEF SessionInv, SessionTyped, Record, Fields, Paid
<1>3. Kept(t, s, {"pc", "delta", "consumed", "netWallet", "netKey"})
  BY DEF SessionInv, SessionTyped, Record, Fields, Kept, Paid
<1> QED
  BY <1>1, <1>2, <1>3
     DEF SessionInv, Kept, SessionTyped, PreparedWell, Served, ServedFromWallet,
         ServedFromSubscription, ClosedOnWallet, ClosedOnSubscription, SettledOnSubscription,
         RefundedOnSubscription, SourceKnown, Uncharged, Places, Preparing, Raising, Closing,
         Amount, Raised, Quotas

\* The raise is taken back from the subscription.
LoweredTo(s, c, t, d) ==
    /\ t = Paid([[s EXCEPT !.pc = "serving", !.delta = 0]
                  EXCEPT !.finalConsumed = @ + (-s.delta), !.ref = @ + 1], 0, 0)
    /\ d = [c EXCEPT !.phase = "reserved", !.amount = s.finalConsumed + (-s.delta),
            !.version = s.ref + 1]

\* LoweredTo keeps the invariant of the session.
LEMMA SubscriptionLowered ==
    ASSUME NEW s, NEW c, NEW rt \in BOOLEAN, SessionInv(s, c, rt), s.pc = "rollback",
           s.source = "subscription", c.version = s.ref, NEW t, NEW d,
           LoweredTo(s, c, t, d)
    PROVE  SessionInv(t, d, rt)
<1>1. Record(t, Fields)
  BY DEF SessionInv, SessionTyped, Record, Paid, LoweredTo
<1>2. /\ t.pc = "serving" /\ t.delta = 0 /\ t.finalConsumed = s.finalConsumed - s.delta
      /\ t.ref = s.ref + 1 /\ t.netWallet = s.netWallet /\ t.netKey = s.netKey
  BY DEF SessionInv, SessionTyped, Record, Fields, Paid, LoweredTo
<1>3. Kept(t, s, {"pc", "delta", "finalConsumed", "ref", "netWallet", "netKey"})
  BY DEF SessionInv, SessionTyped, Record, Fields, Kept, Paid, LoweredTo
<1>4. /\ d.phase = "reserved" /\ d.amount = s.finalConsumed - s.delta
      /\ d.version = s.ref + 1 /\ d.target = c.target /\ d.tokenPre = c.tokenPre
      /\ Record(d, ChargeFields)
  BY DEF SessionInv, ChargeTyped, Record, ChargeFields, LoweredTo
<1> QED
  BY <1>1, <1>2, <1>3, <1>4
     DEF SessionInv, Kept, SessionTyped, PreparedWell, Served, ServedFromWallet,
         ServedFromSubscription, ClosedOnWallet, ClosedOnSubscription, SettledOnSubscription,
         RefundedOnSubscription, SourceKnown, Uncharged, Places, Preparing, Raising, Closing,
         Amount, Raised, Quotas, ChargeTyped, Sub!Phases

\* The raise cannot be taken back.
LEMMA NotLowered ==
    ASSUME NEW s, NEW c, NEW rt \in BOOLEAN, SessionInv(s, c, rt), s.pc = "rollback",
           NEW t,
           t = Paid([[s EXCEPT !.pc = "serving", !.delta = 0] EXCEPT !.failed = TRUE], 0, 0)
    PROVE  SessionInv(t, c, rt)
<1>1. Record(t, Fields)
  BY DEF SessionInv, SessionTyped, Record, Paid
<1>2. /\ t.pc = "serving" /\ t.delta = 0 /\ t.failed /\ t.netWallet = s.netWallet
      /\ t.netKey = s.netKey
  BY DEF SessionInv, SessionTyped, Record, Fields, Paid
<1>3. Kept(t, s, {"pc", "delta", "failed", "netWallet", "netKey"})
  BY DEF SessionInv, SessionTyped, Record, Fields, Kept, Paid
<1> QED
  BY <1>1, <1>2, <1>3
     DEF SessionInv, Kept, SessionTyped, PreparedWell, Served, ServedFromWallet,
         ServedFromSubscription, ClosedOnWallet, ClosedOnSubscription, SettledOnSubscription,
         RefundedOnSubscription, SourceKnown, Uncharged, Places, Preparing, Raising, Closing,
         Amount, Raised, Quotas

\* The wallet pays the difference.
PaidUpTo(s, t, q) ==
    \E m \in Int, b \in BOOLEAN, p \in {"done", "settleKey"} :
        /\ m = q - s.preConsumedQuota /\ (b <=> m = 0)
        /\ p = IF m = 0 THEN "done" ELSE "settleKey"
        /\ t = Paid([[s EXCEPT !.actual = q]
                      EXCEPT !.fundingSettled = TRUE, !.settled = b, !.pc = p], m, 0)

\* PaidUpTo keeps the invariant of the session.
LEMMA WalletSettled ==
    ASSUME NEW s, NEW c, NEW rt \in BOOLEAN, SessionInv(s, c, rt), s.pc = "serving",
           s.source = "wallet", NEW q \in Int, rt => q = s.actual, NEW t, PaidUpTo(s, t, q)
    PROVE  SessionInv(t, c, rt)
<1>a. PICK m \in Int, b \in BOOLEAN, p \in {"done", "settleKey"} :
        /\ m = q - s.preConsumedQuota /\ (b <=> m = 0)
        /\ p = IF m = 0 THEN "done" ELSE "settleKey"
        /\ t = Paid([[s EXCEPT !.actual = q]
                      EXCEPT !.fundingSettled = TRUE, !.settled = b, !.pc = p], m, 0)
  BY DEF PaidUpTo
<1>b. /\ m = q - s.preConsumedQuota /\ (b <=> m = 0)
      /\ p = IF m = 0 THEN "done" ELSE "settleKey"
  BY <1>a
<1>1. Record(t, Fields)
  BY <1>a DEF SessionInv, SessionTyped, Record, Paid
<1>2. /\ t.pc = p /\ t.actual = q /\ t.fundingSettled /\ t.settled = b
      /\ t.netWallet = s.netWallet + m /\ t.netKey = s.netKey
  BY <1>a DEF SessionInv, SessionTyped, Record, Fields, Paid
<1>3. Kept(t, s, {"pc", "actual", "fundingSettled", "settled", "netWallet", "netKey"})
  BY <1>a DEF SessionInv, SessionTyped, Record, Fields, Kept, Paid
<1>4. SessionTyped(t)
  BY <1>b, <1>1, <1>2, <1>3
     DEF SessionInv, Kept, SessionTyped, Served, Raising, Closing, Quotas, Places,
         Preparing
<1>5. PreparedWell(t, c) /\ SourceKnown(t)
  BY <1>b, <1>1, <1>2, <1>3
     DEF SessionInv, Kept, SessionTyped, Served, Raising, Closing, Quotas, PreparedWell,
         SourceKnown, Preparing
<1>6. Served(t, rt)
  BY <1>b, <1>1, <1>2, <1>3
     DEF SessionInv, Kept, SessionTyped, Served, Raising, Closing, Quotas, SourceKnown
<1>7. ServedFromWallet(t, c)
  BY <1>b, <1>1, <1>2, <1>3
     DEF SessionInv, Kept, SessionTyped, Served, Raising, Closing, Quotas,
         ServedFromWallet, Uncharged, Raised
<1>8. ServedFromSubscription(t, c, rt)
  BY <1>b, <1>1, <1>2, <1>3
     DEF SessionInv, Kept, SessionTyped, Served, Raising, Closing, Quotas,
         ServedFromSubscription, Raised
<1>9. ClosedOnWallet(t, c, rt)
  <2>1. /\ Uncharged(t, c) /\ t.refund = "no" /\ t.fee = 0 /\ t.failed = s.failed
        /\ t.preConsumedQuota = s.preConsumedQuota /\ m \in Int
        /\ s.preConsumedQuota \in Int /\ s.netKey \in Int
    BY <1>b, <1>2, <1>3 DEF SessionInv, Kept, SessionTyped, Served, ServedFromWallet, Uncharged, Quotas
  <2>2. ~t.failed => /\ s.netWallet = s.netKey
                     /\ ~rt => s.netWallet = s.preConsumedQuota
    <3>1. ~rt => s.turns = 0
      BY DEF SessionInv, SessionTyped, Served
    <3>2. Raised(s) = 0 /\ s.delta = 0
      BY DEF SessionInv, Served, Raised, Raising
    <3>3. ~s.failed => /\ s.consumed = s.preConsumedQuota + 0
                       /\ s.netWallet = s.netKey + 0
                       /\ s.turns = 0 => s.netWallet = s.consumed
      BY <3>2 DEF SessionInv, ServedFromWallet
    <3> QED
      BY <2>1, <3>1, <3>3
  <2>3. CASE m = 0
    <3>1. t.pc = "done" /\ t.settled
      BY <1>b, <1>2, <2>3
    <3>2. ~t.failed => /\ t.netWallet = t.netKey
                       /\ ~rt => t.netWallet = t.actual
      <4>1. q = s.preConsumedQuota /\ t.actual = q /\ t.netKey = s.netKey
        BY <1>b, <1>2, <2>1, <2>3
      <4>2. t.netWallet = s.netWallet
        BY <1>b, <1>2, <2>3 DEF SessionInv, SessionTyped
      <4> QED
        BY <4>1, <4>2, <2>2
    <3> QED
      BY <2>1, <3>1, <3>2 DEF ClosedOnWallet
  <2>4. CASE m # 0
    <3>1. t.pc = "settleKey" /\ ~t.settled
      BY <1>b, <1>2, <2>4
    <3>2. ~t.failed => /\ t.netWallet = t.netKey + t.actual - t.preConsumedQuota
                       /\ ~rt => t.netWallet = t.actual
      BY <1>b, <1>2, <2>1, <2>2
    <3> QED
      BY <2>1, <3>1, <3>2 DEF ClosedOnWallet, Closing
  <2> QED
    BY <2>3, <2>4
<1>10. ClosedOnSubscription(t, c) /\ SettledOnSubscription(t, c)
  BY <1>b, <1>1, <1>2, <1>3
     DEF SessionInv, Kept, SessionTyped, Served, Raising, Closing, Quotas,
         ServedFromSubscription, ClosedOnSubscription, SettledOnSubscription, PreparedWell,
         Preparing, SourceKnown, Raised
<1>11. RefundedOnSubscription(t, c)
  BY <1>b, <1>1, <1>2, <1>3
     DEF SessionInv, Kept, SessionTyped, Served, Raising, Closing, Quotas,
         ServedFromSubscription, ClosedOnSubscription, RefundedOnSubscription,
         PreparedWell, Preparing, SourceKnown, Raised
<1> QED
  BY <1>4, <1>5, <1>6, <1>7, <1>8, <1>9, <1>10, <1>11 DEF SessionInv

\* The settlement of the funding source fails.
LEMMA SettlementFailed ==
    ASSUME NEW s, NEW c, NEW rt \in BOOLEAN, SessionInv(s, c, rt), s.pc = "serving",
           NEW q \in Int, rt => q = s.actual, NEW t,
           t = Paid([[s EXCEPT !.actual = q] EXCEPT !.pc = "done", !.failed = TRUE], 0, 0)
    PROVE  SessionInv(t, c, rt)
<1>1. Record(t, Fields)
  BY DEF SessionInv, SessionTyped, Record, Paid
<1>2. /\ t.pc = "done" /\ t.actual = q /\ t.failed /\ t.netWallet = s.netWallet
      /\ t.netKey = s.netKey
  BY DEF SessionInv, SessionTyped, Record, Fields, Paid
<1>3. Kept(t, s, {"pc", "actual", "failed", "netWallet", "netKey"})
  BY DEF SessionInv, SessionTyped, Record, Fields, Kept, Paid
<1>4. SessionTyped(t)
  BY <1>1, <1>2, <1>3
     DEF SessionInv, Kept, SessionTyped, Served, Raising, Closing, Quotas, Places,
         Preparing
<1>5. PreparedWell(t, c) /\ SourceKnown(t)
  BY <1>1, <1>2, <1>3
     DEF SessionInv, Kept, SessionTyped, Served, Raising, Closing, Quotas, PreparedWell,
         SourceKnown, Preparing
<1>6. Served(t, rt)
  BY <1>1, <1>2, <1>3
     DEF SessionInv, Kept, SessionTyped, Served, Raising, Closing, Quotas, SourceKnown
<1>7. ServedFromWallet(t, c)
  BY <1>1, <1>2, <1>3
     DEF SessionInv, Kept, SessionTyped, Served, Raising, Closing, Quotas,
         ServedFromWallet, Uncharged, Raised
<1>8. ServedFromSubscription(t, c, rt)
  BY <1>1, <1>2, <1>3
     DEF SessionInv, Kept, SessionTyped, Served, Raising, Closing, Quotas,
         ServedFromSubscription, Raised
<1>9. ClosedOnWallet(t, c, rt)
  BY <1>1, <1>2, <1>3
     DEF SessionInv, Kept, SessionTyped, Served, Raising, Closing, Quotas,
         ServedFromWallet, ClosedOnWallet, Uncharged, PreparedWell, Preparing, SourceKnown,
         Raised
<1>10. ClosedOnSubscription(t, c) /\ SettledOnSubscription(t, c)
  BY <1>1, <1>2, <1>3
     DEF SessionInv, Kept, SessionTyped, Served, Raising, Closing, Quotas,
         ServedFromSubscription, ClosedOnSubscription, SettledOnSubscription, PreparedWell,
         Preparing, SourceKnown, Raised
<1>11. RefundedOnSubscription(t, c)
  BY <1>1, <1>2, <1>3
     DEF SessionInv, Kept, SessionTyped, Served, Raising, Closing, Quotas,
         ServedFromSubscription, ClosedOnSubscription, RefundedOnSubscription,
         PreparedWell, Preparing, SourceKnown, Raised
<1> QED
  BY <1>4, <1>5, <1>6, <1>7, <1>8, <1>9, <1>10, <1>11 DEF SessionInv

\* The key follows the wallet.
LEMMA KeySettled ==
    ASSUME NEW s, NEW c, NEW rt \in BOOLEAN, SessionInv(s, c, rt), s.pc = "settleKey",
           NEW t,
           t = Paid([s EXCEPT !.settled = TRUE, !.pc = "done"], 0,
                    s.actual - s.preConsumedQuota)
    PROVE  SessionInv(t, c, rt)
<1>1. Record(t, Fields)
  BY DEF SessionInv, SessionTyped, Record, Paid
<1>2. /\ t.pc = "done" /\ t.settled /\ t.netWallet = s.netWallet
      /\ t.netKey = s.netKey + (s.actual - s.preConsumedQuota)
  BY DEF SessionInv, SessionTyped, Record, Fields, Paid
<1>3. Kept(t, s, {"pc", "settled", "netWallet", "netKey"})
  BY DEF SessionInv, SessionTyped, Record, Fields, Kept, Paid
<1> QED
  BY <1>1, <1>2, <1>3
     DEF SessionInv, Kept, SessionTyped, PreparedWell, Served, ServedFromWallet,
         ServedFromSubscription, ClosedOnWallet, ClosedOnSubscription, SettledOnSubscription,
         RefundedOnSubscription, SourceKnown, Uncharged, Places, Preparing, Raising, Closing,
         Amount, Raised, Quotas

\* The key cannot follow.
LEMMA KeyNotSettled ==
    ASSUME NEW s, NEW c, NEW rt \in BOOLEAN, SessionInv(s, c, rt), s.pc = "settleKey",
           NEW t,
           t = Paid([[s EXCEPT !.settled = TRUE, !.pc = "done"] EXCEPT !.failed = TRUE], 0, 0)
    PROVE  SessionInv(t, c, rt)
<1>1. Record(t, Fields)
  BY DEF SessionInv, SessionTyped, Record, Paid
<1>2. /\ t.pc = "done" /\ t.settled /\ t.failed /\ t.netWallet = s.netWallet
      /\ t.netKey = s.netKey
  BY DEF SessionInv, SessionTyped, Record, Fields, Paid
<1>3. Kept(t, s, {"pc", "settled", "failed", "netWallet", "netKey"})
  BY DEF SessionInv, SessionTyped, Record, Fields, Kept, Paid
<1> QED
  BY <1>1, <1>2, <1>3
     DEF SessionInv, Kept, SessionTyped, PreparedWell, Served, ServedFromWallet,
         ServedFromSubscription, ClosedOnWallet, ClosedOnSubscription, SettledOnSubscription,
         RefundedOnSubscription, SourceKnown, Uncharged, Places, Preparing, Raising, Closing,
         Amount, Raised, Quotas

\* The settlement of a subscription is queued.
QueuedTo(s, c, t, d, q) ==
    /\ t = Paid([[s EXCEPT !.actual = q] EXCEPT !.pc = "complete", !.fundingSettled = TRUE,
                 !.postDelta = q - s.preConsumedQuota], 0, 0)
    /\ d = [c EXCEPT !.phase = "queued", !.target = q, !.tokenPre = s.preConsumedQuota]

\* QueuedTo keeps the invariant of the session.
LEMMA SettlementQueued ==
    ASSUME NEW s, NEW c, NEW rt \in BOOLEAN, SessionInv(s, c, rt), s.pc = "serving",
           s.source = "subscription", NEW q \in Int, rt => q = s.actual,
           c.phase = "reserved", NEW t, NEW d, QueuedTo(s, c, t, d, q)
    PROVE  SessionInv(t, d, rt)
<1>1. Record(t, Fields)
  BY DEF SessionInv, SessionTyped, Record, Paid, QueuedTo
<1>2. /\ t.pc = "complete" /\ t.actual = q /\ t.fundingSettled
      /\ t.postDelta = q - s.preConsumedQuota /\ t.netWallet = s.netWallet
      /\ t.netKey = s.netKey
  BY DEF SessionInv, SessionTyped, Record, Fields, Paid, QueuedTo
<1>3. Kept(t, s, {"pc", "actual", "fundingSettled", "postDelta", "netWallet", "netKey"})
  BY DEF SessionInv, SessionTyped, Record, Fields, Kept, Paid, QueuedTo
<1>4. /\ d.phase = "queued" /\ d.amount = c.amount /\ d.version = c.version /\ d.target = q
      /\ d.tokenPre = s.preConsumedQuota
      /\ Record(d, ChargeFields)
  BY DEF SessionInv, ChargeTyped, Record, ChargeFields, QueuedTo
<1> QED
  BY <1>1, <1>2, <1>3, <1>4
     DEF SessionInv, Kept, SessionTyped, PreparedWell, Served, ServedFromWallet,
         ServedFromSubscription, ClosedOnWallet, ClosedOnSubscription, SettledOnSubscription,
         RefundedOnSubscription, SourceKnown, Uncharged, Places, Preparing, Raising, Closing,
         Amount, Raised, Quotas, ChargeTyped, Sub!Phases

\* Turns have settled this very amount.
LEMMA SettledAlready ==
    ASSUME NEW s, NEW c, NEW rt \in BOOLEAN, SessionInv(s, c, rt), s.pc = "serving",
           s.source = "subscription", NEW q \in Int, rt => q = s.actual,
           c.phase = "settled", c.amount = q, NEW t,
           t = Paid([[s EXCEPT !.actual = q]
                      EXCEPT !.pc = "complete", !.fundingSettled = TRUE,
                             !.postDelta = q - s.preConsumedQuota], 0, 0)
    PROVE  SessionInv(t, c, rt)
<1>1. Record(t, Fields)
  BY DEF SessionInv, SessionTyped, Record, Paid
<1>2. /\ t.pc = "complete" /\ t.actual = q /\ t.fundingSettled
      /\ t.postDelta = q - s.preConsumedQuota /\ t.netWallet = s.netWallet
      /\ t.netKey = s.netKey
  BY DEF SessionInv, SessionTyped, Record, Fields, Paid
<1>3. Kept(t, s, {"pc", "actual", "fundingSettled", "postDelta", "netWallet", "netKey"})
  BY DEF SessionInv, SessionTyped, Record, Fields, Kept, Paid
<1> QED
  BY <1>1, <1>2, <1>3
     DEF SessionInv, Kept, SessionTyped, PreparedWell, Served, ServedFromWallet,
         ServedFromSubscription, ClosedOnWallet, ClosedOnSubscription, SettledOnSubscription,
         RefundedOnSubscription, SourceKnown, Uncharged, Places, Preparing, Raising, Closing,
         Amount, Raised, Quotas

\* Turns have settled another amount.
LEMMA SettlementRefused ==
    ASSUME NEW s, NEW c, NEW rt \in BOOLEAN, SessionInv(s, c, rt), s.pc = "serving",
           s.source = "subscription", NEW q \in Int, rt => q = s.actual,
           c.phase = "settled", NEW t,
           t = Paid([[s EXCEPT !.actual = q] EXCEPT !.pc = "done"], 0, 0)
    PROVE  SessionInv(t, c, rt)
<1>1. Record(t, Fields)
  BY DEF SessionInv, SessionTyped, Record, Paid
<1>2. /\ t.pc = "done" /\ t.actual = q /\ t.netWallet = s.netWallet /\ t.netKey = s.netKey
  BY DEF SessionInv, SessionTyped, Record, Fields, Paid
<1>3. Kept(t, s, {"pc", "actual", "netWallet", "netKey"})
  BY DEF SessionInv, SessionTyped, Record, Fields, Kept, Paid
<1> QED
  BY <1>1, <1>2, <1>3
     DEF SessionInv, Kept, SessionTyped, PreparedWell, Served, ServedFromWallet,
         ServedFromSubscription, ClosedOnWallet, ClosedOnSubscription, SettledOnSubscription,
         RefundedOnSubscription, SourceKnown, Uncharged, Places, Preparing, Raising, Closing,
         Amount, Raised, Quotas

\* The session completes its settlement.
CompletedTo(s, c, t, d) ==
    /\ t = Paid([s EXCEPT !.pc = "done", !.settled = TRUE, !.finalConsumed = s.actual,
                 !.ref = c.version + 1, !.infoRef = c.version + 1], 0, c.target - c.tokenPre)
    /\ d = [c EXCEPT !.phase = "settled", !.amount = c.target, !.version = @ + 1,
            !.tokenNet = c.target - c.tokenPre]

\* CompletedTo keeps the invariant of the session.
LEMMA SettlementCompleted ==
    ASSUME NEW s, NEW c, NEW rt \in BOOLEAN, SessionInv(s, c, rt), s.pc = "complete",
           c.phase = "queued", NEW t, NEW d, CompletedTo(s, c, t, d)
    PROVE  SessionInv(t, d, rt)
<1>1. Record(t, Fields)
  BY DEF SessionInv, SessionTyped, Record, Paid, CompletedTo
<1>2. /\ t.pc = "done" /\ t.settled /\ t.finalConsumed = s.actual /\ t.ref = c.version + 1
      /\ t.infoRef = c.version + 1 /\ t.netWallet = s.netWallet
      /\ t.netKey = s.netKey + (c.target - c.tokenPre)
  BY DEF SessionInv, SessionTyped, Record, Fields, Paid, CompletedTo
<1>3. Kept(t, s, {"pc", "settled", "finalConsumed", "ref", "infoRef", "netWallet", "netKey"})
  BY DEF SessionInv, SessionTyped, Record, Fields, Kept, Paid, CompletedTo
<1>4. /\ d.phase = "settled" /\ d.amount = c.target /\ d.version = c.version + 1
      /\ d.target = c.target /\ d.tokenPre = c.tokenPre
      /\ Record(d, ChargeFields)
  BY DEF SessionInv, ChargeTyped, Record, ChargeFields, CompletedTo
<1> QED
  BY <1>1, <1>2, <1>3, <1>4
     DEF SessionInv, Kept, SessionTyped, PreparedWell, Served, ServedFromWallet,
         ServedFromSubscription, ClosedOnWallet, ClosedOnSubscription, SettledOnSubscription,
         RefundedOnSubscription, SourceKnown, Uncharged, Places, Preparing, Raising, Closing,
         Amount, Raised, Quotas, ChargeTyped, Sub!Phases

\* The settlement is complete already.
DoneAt(s, t, v) ==
    /\ t = Paid([s EXCEPT !.pc = "done", !.settled = TRUE, !.finalConsumed = s.actual,
                 !.ref = v, !.infoRef = v], 0, 0)

\* DoneAt keeps the invariant of the session.
LEMMA CompletedBefore ==
    ASSUME NEW s, NEW c, NEW rt \in BOOLEAN, SessionInv(s, c, rt), s.pc = "complete",
           c.phase = "settled", NEW v \in Nat, v = c.version, NEW t, DoneAt(s, t, v)
    PROVE  SessionInv(t, c, rt)
<1>1. Record(t, Fields)
  BY DEF SessionInv, SessionTyped, Record, Paid, DoneAt
<1>2. /\ t.pc = "done" /\ t.settled /\ t.finalConsumed = s.actual /\ t.ref = v
      /\ t.infoRef = v /\ t.netWallet = s.netWallet /\ t.netKey = s.netKey
  BY DEF SessionInv, SessionTyped, Record, Fields, Paid, DoneAt
<1>3. Kept(t, s, {"pc", "settled", "finalConsumed", "ref", "infoRef", "netWallet", "netKey"})
  BY DEF SessionInv, SessionTyped, Record, Fields, Kept, Paid, DoneAt
<1> QED
  BY <1>1, <1>2, <1>3
     DEF SessionInv, Kept, SessionTyped, PreparedWell, Served, ServedFromWallet,
         ServedFromSubscription, ClosedOnWallet, ClosedOnSubscription, SettledOnSubscription,
         RefundedOnSubscription, SourceKnown, Uncharged, Places, Preparing, Raising, Closing,
         Amount, Raised, Quotas

\* The completion fails and is left to the periodic task.
LEMMA NotCompleted ==
    ASSUME NEW s, NEW c, NEW rt \in BOOLEAN, SessionInv(s, c, rt), s.pc = "complete",
           NEW t, t = Paid([s EXCEPT !.pc = "done"], 0, 0)
    PROVE  SessionInv(t, c, rt)
<1>1. Record(t, Fields)
  BY DEF SessionInv, SessionTyped, Record, Paid
<1>2. /\ t.pc = "done" /\ t.netWallet = s.netWallet /\ t.netKey = s.netKey
  BY DEF SessionInv, SessionTyped, Record, Fields, Paid
<1>3. Kept(t, s, {"pc", "netWallet", "netKey"})
  BY DEF SessionInv, SessionTyped, Record, Fields, Kept, Paid
<1> QED
  BY <1>1, <1>2, <1>3
     DEF SessionInv, Kept, SessionTyped, PreparedWell, Served, ServedFromWallet,
         ServedFromSubscription, ClosedOnWallet, ClosedOnSubscription, SettledOnSubscription,
         RefundedOnSubscription, SourceKnown, Uncharged, Places, Preparing, Raising, Closing,
         Amount, Raised, Quotas

\* The periodic task completes the settlement.
ReconciledTo(s, c, t, d) ==
    /\ t = Paid(s, 0, c.target - c.tokenPre)
    /\ d = [c EXCEPT !.phase = "settled", !.amount = c.target, !.version = @ + 1,
            !.tokenNet = c.target - c.tokenPre]

\* ReconciledTo keeps the invariant of the session.
LEMMA Reconciled ==
    ASSUME NEW s, NEW c, NEW rt \in BOOLEAN, SessionInv(s, c, rt), c.phase = "queued",
           NEW t, NEW d, ReconciledTo(s, c, t, d)
    PROVE  SessionInv(t, d, rt)
<1>1. Record(t, Fields)
  BY DEF SessionInv, SessionTyped, Record, Paid, ReconciledTo
<1>2. /\ t.netWallet = s.netWallet /\ t.netKey = s.netKey + (c.target - c.tokenPre)
  BY DEF SessionInv, SessionTyped, Record, Fields, Paid, ReconciledTo
<1>3. Kept(t, s, {"netWallet", "netKey"})
  BY DEF SessionInv, SessionTyped, Record, Fields, Kept, Paid, ReconciledTo
<1>4. /\ d.phase = "settled" /\ d.amount = c.target /\ d.version = c.version + 1
      /\ d.target = c.target /\ d.tokenPre = c.tokenPre
      /\ Record(d, ChargeFields)
  BY DEF SessionInv, ChargeTyped, Record, ChargeFields, ReconciledTo
<1> QED
  BY <1>1, <1>2, <1>3, <1>4
     DEF SessionInv, Kept, SessionTyped, PreparedWell, Served, ServedFromWallet,
         ServedFromSubscription, ClosedOnWallet, ClosedOnSubscription, SettledOnSubscription,
         RefundedOnSubscription, SourceKnown, Uncharged, Places, Preparing, Raising, Closing,
         Amount, Raised, Quotas, ChargeTyped, Sub!Phases

\* The quotas suffice for a turn that cost q.
LEMMA TurnChecked ==
    ASSUME NEW s, NEW c, NEW rt \in BOOLEAN, SessionInv(s, c, rt), s.pc = "serving", rt,
           NEW q \in Quotas \ {0}, s.turns < MaxTurns, NEW t,
           t = Paid([s EXCEPT !.pc = "turn", !.turn = q], 0, 0)
    PROVE  SessionInv(t, c, rt)
<1>1. Record(t, Fields)
  BY DEF SessionInv, SessionTyped, Record, Paid
<1>2. t.pc = "turn" /\ t.turn = q /\ t.netWallet = s.netWallet /\ t.netKey = s.netKey
  BY DEF SessionInv, SessionTyped, Record, Fields, Paid
<1>3. Kept(t, s, {"pc", "turn", "netWallet", "netKey"})
  BY DEF SessionInv, SessionTyped, Record, Fields, Kept, Paid
<1> QED
  BY <1>1, <1>2, <1>3, SessionAssumption
     DEF SessionInv, Kept, SessionTyped, PreparedWell, Served, ServedFromWallet,
         ServedFromSubscription, ClosedOnWallet, ClosedOnSubscription, SettledOnSubscription,
         RefundedOnSubscription, SourceKnown, Uncharged, Places, Preparing, Raising, Closing,
         Amount, Raised

\* A turn is paid from the wallet.
WalletTurnTo(s, t, q) ==
    /\ t = Paid([[s EXCEPT !.actual = @ + q, !.turn = 0]
                  EXCEPT !.pc = "turnKey", !.turns = @ + 1, !.delta = q], q, 0)

\* WalletTurnTo keeps the invariant of the session.
LEMMA TurnOnWallet ==
    ASSUME NEW s, NEW c, NEW rt \in BOOLEAN, SessionInv(s, c, rt), s.pc = "turn", rt,
           NEW q \in Int, q > 0, s.turns < MaxTurns, s.source = "wallet", NEW t,
           WalletTurnTo(s, t, q)
    PROVE  SessionInv(t, c, rt)
<1>1. Record(t, Fields)
  BY DEF SessionInv, SessionTyped, Record, Paid, WalletTurnTo
<1>2. /\ t.pc = "turnKey" /\ t.actual = s.actual + q /\ t.turns = s.turns + 1
      /\ t.delta = q /\ t.netWallet = s.netWallet + q /\ t.netKey = s.netKey
  BY DEF SessionInv, SessionTyped, Record, Fields, Paid, WalletTurnTo
<1>3. Kept(t, s, {"pc", "actual", "turn", "turns", "delta", "netWallet", "netKey"})
  BY DEF SessionInv, SessionTyped, Record, Fields, Kept, Paid, WalletTurnTo
<1> QED
  BY <1>1, <1>2, <1>3, SessionAssumption
     DEF SessionInv, Kept, SessionTyped, PreparedWell, Served, ServedFromWallet,
         ServedFromSubscription, ClosedOnWallet, ClosedOnSubscription, SettledOnSubscription,
         RefundedOnSubscription, SourceKnown, Uncharged, Places, Preparing, Raising, Closing,
         Amount, Raised, Quotas

\* A turn is settled on the subscription.
TurnedTo(s, c, t, d, q) ==
    /\ t = Paid([[[s EXCEPT !.actual = @ + q, !.turn = 0]
                   EXCEPT !.pc = "turnKey", !.turns = @ + 1, !.delta = q]
                   EXCEPT !.postDelta = @ + q, !.infoRef = @ + 1], 0, 0)
    /\ d = [c EXCEPT !.phase = "settled", !.amount = s.preConsumedQuota + s.postDelta + q,
            !.version = s.infoRef + 1]

\* TurnedTo keeps the invariant of the session.
LEMMA TurnOnSubscription ==
    ASSUME NEW s, NEW c, NEW rt \in BOOLEAN, SessionInv(s, c, rt), s.pc = "turn", rt,
           NEW q \in Int, q > 0, s.turns < MaxTurns, s.source = "subscription",
           c.version = s.infoRef, NEW t, NEW d, TurnedTo(s, c, t, d, q)
    PROVE  SessionInv(t, d, rt)
<1>1. Record(t, Fields)
  BY DEF SessionInv, SessionTyped, Record, Paid, TurnedTo
<1>2. /\ t.pc = "turnKey" /\ t.actual = s.actual + q /\ t.turns = s.turns + 1
      /\ t.delta = q /\ t.postDelta = s.postDelta + q /\ t.infoRef = s.infoRef + 1
      /\ t.netWallet = s.netWallet /\ t.netKey = s.netKey
  BY DEF SessionInv, SessionTyped, Record, Fields, Paid, TurnedTo
<1>3. Kept(t, s, {"pc", "actual", "turn", "turns", "delta", "postDelta", "infoRef",
                  "netWallet", "netKey"})
  BY DEF SessionInv, SessionTyped, Record, Fields, Kept, Paid, TurnedTo
<1>4. /\ d.phase = "settled" /\ d.amount = s.preConsumedQuota + s.postDelta + q
      /\ d.version = s.infoRef + 1 /\ d.target = c.target /\ d.tokenPre = c.tokenPre
      /\ Record(d, ChargeFields)
  BY DEF SessionInv, ChargeTyped, Record, ChargeFields, TurnedTo
<1>5. SessionTyped(t)
  BY <1>1, <1>2, <1>3, <1>4, SessionAssumption
     DEF SessionInv, Kept, SessionTyped, Served, Raising, Closing, Quotas, Places,
         Preparing, ChargeTyped, Sub!Phases
<1>6. PreparedWell(t, d) /\ SourceKnown(t)
  BY <1>1, <1>2, <1>3, <1>4, SessionAssumption
     DEF SessionInv, Kept, SessionTyped, Served, Raising, Closing, Quotas, PreparedWell,
         SourceKnown, Preparing, ChargeTyped, Sub!Phases
<1>7. Served(t, rt)
  BY <1>1, <1>2, <1>3, <1>4, SessionAssumption
     DEF SessionInv, Kept, SessionTyped, Served, Raising, Closing, Quotas, SourceKnown,
         ChargeTyped, Sub!Phases
<1>8. ServedFromWallet(t, d)
  BY <1>1, <1>2, <1>3, <1>4, SessionAssumption
     DEF SessionInv, Kept, SessionTyped, Served, Raising, Closing, Quotas,
         ServedFromWallet, Uncharged, Raised, ChargeTyped, Sub!Phases
<1>9. ServedFromSubscription(t, d, rt)
  BY <1>1, <1>2, <1>3, <1>4, SessionAssumption
     DEF SessionInv, Kept, SessionTyped, Served, Raising, Closing, Quotas,
         ServedFromSubscription, Raised, ChargeTyped, Sub!Phases
<1>10. ClosedOnWallet(t, d, rt)
  BY <1>1, <1>2, <1>3, <1>4, SessionAssumption
     DEF SessionInv, Kept, SessionTyped, Served, Raising, Closing, Quotas,
         ServedFromWallet, ClosedOnWallet, Uncharged, PreparedWell, Preparing, SourceKnown,
         Raised, ChargeTyped, Sub!Phases
<1>11. ClosedOnSubscription(t, d) /\ SettledOnSubscription(t, d)
  BY <1>1, <1>2, <1>3, <1>4, SessionAssumption
     DEF SessionInv, Kept, SessionTyped, Served, Raising, Closing, Quotas,
         ServedFromSubscription, ClosedOnSubscription, SettledOnSubscription, PreparedWell,
         Preparing, SourceKnown, Raised, ChargeTyped, Sub!Phases
<1>12. RefundedOnSubscription(t, d)
  BY <1>1, <1>2, <1>3, <1>4, SessionAssumption
     DEF SessionInv, Kept, SessionTyped, Served, Raising, Closing, Quotas,
         ServedFromSubscription, ClosedOnSubscription, RefundedOnSubscription,
         PreparedWell, Preparing, SourceKnown, Raised, ChargeTyped, Sub!Phases
<1>13. ChargeTyped(d)
  BY <1>1, <1>2, <1>3, <1>4, SessionAssumption
     DEF SessionInv, Kept, SessionTyped, Served, Raising, Closing, Quotas, ChargeTyped,
         ChargeTyped, Sub!Phases
<1> QED
  BY <1>5, <1>6, <1>7, <1>8, <1>9, <1>10, <1>11, <1>12, <1>13 DEF SessionInv

\* A turn that cannot be paid ends the connection.
UnpaidTo(s, t, q) ==
    /\ t = Paid([s EXCEPT !.actual = @ + q, !.turns = MaxTurns], 0, 0)

\* UnpaidTo keeps the invariant of the session.
LEMMA TurnUnpaid ==
    ASSUME NEW s, NEW c, NEW rt \in BOOLEAN, SessionInv(s, c, rt), s.pc = "serving", rt,
           NEW q \in Int, q > 0, s.turns < MaxTurns, NEW t, UnpaidTo(s, t, q)
    PROVE  SessionInv(t, c, rt)
<1>1. Record(t, Fields)
  BY DEF SessionInv, SessionTyped, Record, Paid, UnpaidTo
<1>2. /\ t.pc = "serving" /\ t.actual = s.actual + q /\ t.turns = MaxTurns
      /\ t.netWallet = s.netWallet /\ t.netKey = s.netKey
  BY DEF SessionInv, SessionTyped, Record, Fields, Paid, UnpaidTo
<1>3. Kept(t, s, {"pc", "actual", "turns", "netWallet", "netKey"})
  BY DEF SessionInv, SessionTyped, Record, Fields, Kept, Paid, UnpaidTo
<1> QED
  BY <1>1, <1>2, <1>3, SessionAssumption
     DEF SessionInv, Kept, SessionTyped, PreparedWell, Served, ServedFromWallet,
         ServedFromSubscription, ClosedOnWallet, ClosedOnSubscription, SettledOnSubscription,
         RefundedOnSubscription, SourceKnown, Uncharged, Places, Preparing, Raising, Closing,
         Amount, Raised, Quotas

\* So does one whose quotas could not be read or that failed to be billed.
TurnFailedTo(s, t, q) ==
    \/ /\ s.pc = "serving"
       /\ t = Paid([[s EXCEPT !.actual = @ + q, !.turns = MaxTurns] EXCEPT !.failed = TRUE], 0, 0)
    \/ /\ s.pc = "turn"
       /\ t = Paid([[s EXCEPT !.actual = @ + q, !.turn = 0]
                     EXCEPT !.pc = "serving", !.turns = MaxTurns, !.failed = TRUE], 0, 0)

\* TurnFailedTo keeps the invariant of the session.
LEMMA TurnFailed ==
    ASSUME NEW s, NEW c, NEW rt \in BOOLEAN, SessionInv(s, c, rt), rt,
           NEW q \in Int, q > 0, s.turns < MaxTurns, NEW t, TurnFailedTo(s, t, q)
    PROVE  SessionInv(t, c, rt)
<1>1. Record(t, Fields)
  BY DEF SessionInv, SessionTyped, Record, Paid, TurnFailedTo
<1>2. /\ t.pc = "serving" /\ t.actual = s.actual + q /\ t.turns = MaxTurns /\ t.failed
      /\ t.netWallet = s.netWallet /\ t.netKey = s.netKey
      /\ s.pc \in {"serving", "turn"}
  <2> DEFINE a == [[s EXCEPT !.actual = @ + q, !.turns = MaxTurns] EXCEPT !.failed = TRUE]
             b == [[s EXCEPT !.actual = @ + q, !.turn = 0]
                     EXCEPT !.pc = "serving", !.turns = MaxTurns, !.failed = TRUE]
  <2>1. CASE s.pc = "serving" /\ t = Paid(a, 0, 0)
    BY <2>1 DEF SessionInv, SessionTyped, Record, Fields, Paid
  <2>2. CASE s.pc = "turn" /\ t = Paid(b, 0, 0)
    BY <2>2 DEF SessionInv, SessionTyped, Record, Fields, Paid
  <2> QED
    BY <2>1, <2>2 DEF TurnFailedTo
<1>3. Kept(t, s, {"pc", "actual", "turn", "turns", "failed", "netWallet", "netKey"})
  <2> DEFINE a == [[s EXCEPT !.actual = @ + q, !.turns = MaxTurns] EXCEPT !.failed = TRUE]
             b == [[s EXCEPT !.actual = @ + q, !.turn = 0]
                     EXCEPT !.pc = "serving", !.turns = MaxTurns, !.failed = TRUE]
  <2>1. CASE s.pc = "serving" /\ t = Paid(a, 0, 0)
    BY <2>1 DEF SessionInv, SessionTyped, Record, Fields, Kept, Paid
  <2>2. CASE s.pc = "turn" /\ t = Paid(b, 0, 0)
    BY <2>2 DEF SessionInv, SessionTyped, Record, Fields, Kept, Paid
  <2> QED
    BY <2>1, <2>2 DEF TurnFailedTo
<1>4. SessionTyped(t)
  BY <1>1, <1>2, <1>3, SessionAssumption
     DEF SessionInv, Kept, SessionTyped, Served, Raising, Closing, Quotas, Places,
         Preparing
<1>5. PreparedWell(t, c) /\ SourceKnown(t)
  BY <1>1, <1>2, <1>3, SessionAssumption
     DEF SessionInv, Kept, SessionTyped, Served, Raising, Closing, Quotas, PreparedWell,
         SourceKnown, Preparing
<1>6. Served(t, rt)
  BY <1>1, <1>2, <1>3, SessionAssumption
     DEF SessionInv, Kept, SessionTyped, Served, Raising, Closing, Quotas, SourceKnown
<1>7. ServedFromWallet(t, c)
  BY <1>1, <1>2, <1>3, SessionAssumption
     DEF SessionInv, Kept, SessionTyped, Served, Raising, Closing, Quotas,
         ServedFromWallet, Uncharged, Raised
<1>8. ServedFromSubscription(t, c, rt)
  BY <1>1, <1>2, <1>3, SessionAssumption
     DEF SessionInv, Kept, SessionTyped, Served, Raising, Closing, Quotas,
         ServedFromSubscription, Raised
<1>9. ClosedOnWallet(t, c, rt)
  BY <1>1, <1>2, <1>3, SessionAssumption
     DEF SessionInv, Kept, SessionTyped, Served, Raising, Closing, Quotas,
         ServedFromWallet, ClosedOnWallet, Uncharged, PreparedWell, Preparing, SourceKnown,
         Raised
<1>10. ClosedOnSubscription(t, c) /\ SettledOnSubscription(t, c)
  BY <1>1, <1>2, <1>3, SessionAssumption
     DEF SessionInv, Kept, SessionTyped, Served, Raising, Closing, Quotas,
         ServedFromSubscription, ClosedOnSubscription, SettledOnSubscription, PreparedWell,
         Preparing, SourceKnown, Raised
<1>11. RefundedOnSubscription(t, c)
  BY <1>1, <1>2, <1>3, SessionAssumption
     DEF SessionInv, Kept, SessionTyped, Served, Raising, Closing, Quotas,
         ServedFromSubscription, ClosedOnSubscription, RefundedOnSubscription,
         PreparedWell, Preparing, SourceKnown, Raised
<1> QED
  BY <1>4, <1>5, <1>6, <1>7, <1>8, <1>9, <1>10, <1>11 DEF SessionInv

\* The key pays for the turn.
LEMMA TurnTaken ==
    ASSUME NEW s, NEW c, NEW rt \in BOOLEAN, SessionInv(s, c, rt), s.pc = "turnKey", NEW t,
           t = Paid([s EXCEPT !.pc = "serving", !.delta = 0], 0, s.delta)
    PROVE  SessionInv(t, c, rt)
<1>1. Record(t, Fields)
  BY DEF SessionInv, SessionTyped, Record, Paid
<1>2. /\ t.pc = "serving" /\ t.delta = 0 /\ t.netWallet = s.netWallet
      /\ t.netKey = s.netKey + (s.delta)
  BY DEF SessionInv, SessionTyped, Record, Fields, Paid
<1>3. Kept(t, s, {"pc", "delta", "netWallet", "netKey"})
  BY DEF SessionInv, SessionTyped, Record, Fields, Kept, Paid
<1>4. SessionTyped(t)
  BY <1>1, <1>2, <1>3
     DEF SessionInv, Kept, SessionTyped, Served, Raising, Closing, Quotas, Places,
         Preparing
<1>5. PreparedWell(t, c) /\ SourceKnown(t)
  BY <1>1, <1>2, <1>3
     DEF SessionInv, Kept, SessionTyped, Served, Raising, Closing, Quotas, PreparedWell,
         SourceKnown, Preparing
<1>6. Served(t, rt)
  BY <1>1, <1>2, <1>3
     DEF SessionInv, Kept, SessionTyped, Served, Raising, Closing, Quotas, SourceKnown
<1>7. ServedFromWallet(t, c)
  BY <1>1, <1>2, <1>3
     DEF SessionInv, Kept, SessionTyped, Served, Raising, Closing, Quotas,
         ServedFromWallet, Uncharged, Raised
<1>8. ServedFromSubscription(t, c, rt)
  BY <1>1, <1>2, <1>3
     DEF SessionInv, Kept, SessionTyped, Served, Raising, Closing, Quotas,
         ServedFromSubscription, Raised
<1>9. ClosedOnWallet(t, c, rt)
  BY <1>1, <1>2, <1>3
     DEF SessionInv, Kept, SessionTyped, Served, Raising, Closing, Quotas,
         ServedFromWallet, ClosedOnWallet, Uncharged, PreparedWell, Preparing, SourceKnown,
         Raised
<1>10. ClosedOnSubscription(t, c) /\ SettledOnSubscription(t, c)
  BY <1>1, <1>2, <1>3
     DEF SessionInv, Kept, SessionTyped, Served, Raising, Closing, Quotas,
         ServedFromSubscription, ClosedOnSubscription, SettledOnSubscription, PreparedWell,
         Preparing, SourceKnown, Raised
<1>11. RefundedOnSubscription(t, c)
  BY <1>1, <1>2, <1>3
     DEF SessionInv, Kept, SessionTyped, Served, Raising, Closing, Quotas,
         ServedFromSubscription, ClosedOnSubscription, RefundedOnSubscription,
         PreparedWell, Preparing, SourceKnown, Raised
<1> QED
  BY <1>4, <1>5, <1>6, <1>7, <1>8, <1>9, <1>10, <1>11 DEF SessionInv

\* The key cannot pay for the turn.
LEMMA TurnNotTaken ==
    ASSUME NEW s, NEW c, NEW rt \in BOOLEAN, SessionInv(s, c, rt), s.pc = "turnKey", NEW t,
           t = Paid([[s EXCEPT !.pc = "serving", !.delta = 0] EXCEPT !.turns = MaxTurns,
                     !.failed = TRUE], 0, 0)
    PROVE  SessionInv(t, c, rt)
<1>1. Record(t, Fields)
  BY DEF SessionInv, SessionTyped, Record, Paid
<1>2. /\ t.pc = "serving" /\ t.delta = 0 /\ t.turns = MaxTurns /\ t.failed
      /\ t.netWallet = s.netWallet /\ t.netKey = s.netKey
  BY DEF SessionInv, SessionTyped, Record, Fields, Paid
<1>3. Kept(t, s, {"pc", "delta", "turns", "failed", "netWallet", "netKey"})
  BY DEF SessionInv, SessionTyped, Record, Fields, Kept, Paid
<1> QED
  BY <1>1, <1>2, <1>3, SessionAssumption
     DEF SessionInv, Kept, SessionTyped, PreparedWell, Served, ServedFromWallet,
         ServedFromSubscription, ClosedOnWallet, ClosedOnSubscription, SettledOnSubscription,
         RefundedOnSubscription, SourceKnown, Uncharged, Places, Preparing, Raising, Closing,
         Amount, Raised, Quotas

\* The request has failed and is refunded if there is something to refund.
RefundingTo(s, t, fee, b, p, u) ==
    /\ t = Paid([s EXCEPT !.refunded = b, !.fee = fee, !.refund = u, !.pc = p], 0, 0)

\* RefundingTo keeps the invariant of the session.
LEMMA RefundStarted ==
    ASSUME NEW s, NEW c, NEW rt \in BOOLEAN, SessionInv(s, c, rt), s.pc = "serving",
           s.turns = 0, NEW fee \in Nat, NEW b \in BOOLEAN,
           b <=> ~s.fundingSettled /\ (s.tokenConsumed > 0 \/ s.preConsumed > 0), NEW p,
           p = IF fee > 0 THEN "fee" ELSE "done", NEW u, u = IF b THEN "funding" ELSE "no",
           NEW t, RefundingTo(s, t, fee, b, p, u)
    PROVE  SessionInv(t, c, rt)
<1>1. Record(t, Fields)
  BY DEF SessionInv, SessionTyped, Record, Paid, RefundingTo
<1>2. /\ t.pc = p /\ t.fee = fee /\ t.refund = u /\ t.netWallet = s.netWallet
      /\ t.netKey = s.netKey
  BY DEF SessionInv, SessionTyped, Record, Fields, Paid, RefundingTo
<1>3. Kept(t, s, {"pc", "refunded", "fee", "refund", "netWallet", "netKey"})
  BY DEF SessionInv, SessionTyped, Record, Fields, Kept, Paid, RefundingTo
<1>4. SessionTyped(t)
  BY <1>1, <1>2, <1>3
     DEF SessionInv, Kept, SessionTyped, Served, Raising, Closing, Quotas, Places,
         Preparing
<1>5. PreparedWell(t, c) /\ SourceKnown(t)
  BY <1>1, <1>2, <1>3
     DEF SessionInv, Kept, SessionTyped, Served, Raising, Closing, Quotas, PreparedWell,
         SourceKnown, Preparing
<1>6. Served(t, rt)
  BY <1>1, <1>2, <1>3
     DEF SessionInv, Kept, SessionTyped, Served, Raising, Closing, Quotas, SourceKnown
<1>7. ServedFromWallet(t, c)
  BY <1>1, <1>2, <1>3
     DEF SessionInv, Kept, SessionTyped, Served, Raising, Closing, Quotas,
         ServedFromWallet, Uncharged, Raised
<1>8. ServedFromSubscription(t, c, rt)
  BY <1>1, <1>2, <1>3
     DEF SessionInv, Kept, SessionTyped, Served, Raising, Closing, Quotas,
         ServedFromSubscription, Raised
<1>9. ClosedOnWallet(t, c, rt)
  BY <1>1, <1>2, <1>3
     DEF SessionInv, Kept, SessionTyped, Served, Raising, Closing, Quotas,
         ServedFromWallet, ClosedOnWallet, Uncharged, PreparedWell, Preparing, SourceKnown,
         Raised
<1>10. ClosedOnSubscription(t, c) /\ SettledOnSubscription(t, c)
  BY <1>1, <1>2, <1>3
     DEF SessionInv, Kept, SessionTyped, Served, Raising, Closing, Quotas,
         ServedFromSubscription, ClosedOnSubscription, SettledOnSubscription, PreparedWell,
         Preparing, SourceKnown, Raised
<1>11. RefundedOnSubscription(t, c)
  BY <1>1, <1>2, <1>3
     DEF SessionInv, Kept, SessionTyped, Served, Raising, Closing, Quotas,
         ServedFromSubscription, ClosedOnSubscription, RefundedOnSubscription,
         PreparedWell, Preparing, SourceKnown, Raised
<1> QED
  BY <1>4, <1>5, <1>6, <1>7, <1>8, <1>9, <1>10, <1>11 DEF SessionInv

\* The wallet gets the reservation back.
LEMMA WalletRefunded ==
    ASSUME NEW s, NEW c, NEW rt \in BOOLEAN, SessionInv(s, c, rt), s.refund = "funding",
           s.source = "wallet", NEW t,
           t = Paid([s EXCEPT !.refund = "key"], -s.consumed, 0)
    PROVE  SessionInv(t, c, rt)
<1>1. Record(t, Fields)
  BY DEF SessionInv, SessionTyped, Record, Paid
<1>2. /\ t.refund = "key" /\ t.netWallet = s.netWallet + (-s.consumed)
      /\ t.netKey = s.netKey
  BY DEF SessionInv, SessionTyped, Record, Fields, Paid
<1>3. Kept(t, s, {"refund", "netWallet", "netKey"})
  BY DEF SessionInv, SessionTyped, Record, Fields, Kept, Paid
<1>4. SessionTyped(t)
  BY <1>1, <1>2, <1>3
     DEF SessionInv, Kept, SessionTyped, Served, Raising, Closing, Quotas, Places,
         Preparing
<1>5. PreparedWell(t, c) /\ SourceKnown(t)
  BY <1>1, <1>2, <1>3
     DEF SessionInv, Kept, SessionTyped, Served, Raising, Closing, Quotas, PreparedWell,
         SourceKnown, Preparing
<1>6. Served(t, rt)
  BY <1>1, <1>2, <1>3
     DEF SessionInv, Kept, SessionTyped, Served, Raising, Closing, Quotas, SourceKnown
<1>7. ServedFromWallet(t, c)
  BY <1>1, <1>2, <1>3
     DEF SessionInv, Kept, SessionTyped, Served, Raising, Closing, Quotas,
         ServedFromWallet, Uncharged, Raised
<1>8. ServedFromSubscription(t, c, rt)
  BY <1>1, <1>2, <1>3
     DEF SessionInv, Kept, SessionTyped, Served, Raising, Closing, Quotas,
         ServedFromSubscription, Raised
<1>9. ClosedOnWallet(t, c, rt)
  BY <1>1, <1>2, <1>3
     DEF SessionInv, Kept, SessionTyped, Closing, Quotas, ClosedOnWallet, Uncharged
<1>10. ClosedOnSubscription(t, c) /\ SettledOnSubscription(t, c)
  BY <1>1, <1>2, <1>3
     DEF SessionInv, Kept, SessionTyped, Served, Raising, Closing, Quotas,
         ServedFromSubscription, ClosedOnSubscription, SettledOnSubscription, PreparedWell,
         Preparing, SourceKnown, Raised
<1>11. RefundedOnSubscription(t, c)
  BY <1>1, <1>2, <1>3
     DEF SessionInv, Kept, SessionTyped, Served, Raising, Closing, Quotas,
         ServedFromSubscription, ClosedOnSubscription, RefundedOnSubscription,
         PreparedWell, Preparing, SourceKnown, Raised
<1> QED
  BY <1>4, <1>5, <1>6, <1>7, <1>8, <1>9, <1>10, <1>11 DEF SessionInv

\* The subscription gets the reservation back.
RefundedTo(s, c, t, d) ==
    /\ t = Paid([s EXCEPT !.refund = "key"], 0, 0)
    /\ d = [c EXCEPT !.phase = "refunded", !.amount = 0, !.version = s.ref + 1]

\* RefundedTo keeps the invariant of the session.
LEMMA SubscriptionRefunded ==
    ASSUME NEW s, NEW c, NEW rt \in BOOLEAN, SessionInv(s, c, rt), s.refund = "funding",
           s.source = "subscription", c.phase \in {"reserved", "settled"},
           c.version = s.ref, NEW t, NEW d, RefundedTo(s, c, t, d)
    PROVE  SessionInv(t, d, rt)
<1>1. Record(t, Fields)
  BY DEF SessionInv, SessionTyped, Record, Paid, RefundedTo
<1>2. /\ t.refund = "key" /\ t.netWallet = s.netWallet /\ t.netKey = s.netKey
  BY DEF SessionInv, SessionTyped, Record, Fields, Paid, RefundedTo
<1>3. Kept(t, s, {"refund", "netWallet", "netKey"})
  BY DEF SessionInv, SessionTyped, Record, Fields, Kept, Paid, RefundedTo
<1>4. /\ d.phase = "refunded" /\ d.amount = 0 /\ d.version = s.ref + 1
      /\ d.target = c.target /\ d.tokenPre = c.tokenPre
      /\ Record(d, ChargeFields)
  BY DEF SessionInv, ChargeTyped, Record, ChargeFields, RefundedTo
<1> QED
  BY <1>1, <1>2, <1>3, <1>4
     DEF SessionInv, Kept, SessionTyped, PreparedWell, Served, ServedFromWallet,
         ServedFromSubscription, ClosedOnWallet, ClosedOnSubscription, SettledOnSubscription,
         RefundedOnSubscription, SourceKnown, Uncharged, Places, Preparing, Raising, Closing,
         Amount, Raised, Quotas, ChargeTyped, Sub!Phases

\* The fee was faster than the refund.
LEMMA RefundStale ==
    ASSUME NEW s, NEW c, NEW rt \in BOOLEAN, SessionInv(s, c, rt), s.refund = "funding",
           s.source = "subscription", c.version # s.ref, NEW t,
           t = Paid([s EXCEPT !.refund = "key"], 0, 0)
    PROVE  SessionInv(t, c, rt)
<1>1. Record(t, Fields)
  BY DEF SessionInv, SessionTyped, Record, Paid
<1>2. /\ t.refund = "key" /\ t.netWallet = s.netWallet /\ t.netKey = s.netKey
  BY DEF SessionInv, SessionTyped, Record, Fields, Paid
<1>3. Kept(t, s, {"refund", "netWallet", "netKey"})
  BY DEF SessionInv, SessionTyped, Record, Fields, Kept, Paid
<1> QED
  BY <1>1, <1>2, <1>3
     DEF SessionInv, Kept, SessionTyped, PreparedWell, Served, ServedFromWallet,
         ServedFromSubscription, ClosedOnWallet, ClosedOnSubscription, SettledOnSubscription,
         RefundedOnSubscription, SourceKnown, Uncharged, Places, Preparing, Raising, Closing,
         Amount, Raised, Quotas

\* The refund of the funding source fails.
LEMMA NotRefunded ==
    ASSUME NEW s, NEW c, NEW rt \in BOOLEAN, SessionInv(s, c, rt), s.refund = "funding",
           NEW t, t = Paid([[s EXCEPT !.refund = "key"] EXCEPT !.failed = TRUE], 0, 0)
    PROVE  SessionInv(t, c, rt)
<1>1. Record(t, Fields)
  BY DEF SessionInv, SessionTyped, Record, Paid
<1>2. /\ t.refund = "key" /\ t.failed /\ t.netWallet = s.netWallet /\ t.netKey = s.netKey
  BY DEF SessionInv, SessionTyped, Record, Fields, Paid
<1>3. Kept(t, s, {"refund", "failed", "netWallet", "netKey"})
  BY DEF SessionInv, SessionTyped, Record, Fields, Kept, Paid
<1>4. SessionTyped(t)
  BY <1>1, <1>2, <1>3
     DEF SessionInv, Kept, SessionTyped, Served, Raising, Closing, Quotas, Places,
         Preparing
<1>5. PreparedWell(t, c) /\ SourceKnown(t)
  BY <1>1, <1>2, <1>3
     DEF SessionInv, Kept, SessionTyped, Served, Raising, Closing, Quotas, PreparedWell,
         SourceKnown, Preparing
<1>6. Served(t, rt)
  BY <1>1, <1>2, <1>3
     DEF SessionInv, Kept, SessionTyped, Served, Raising, Closing, Quotas, SourceKnown
<1>7. ServedFromWallet(t, c)
  BY <1>1, <1>2, <1>3
     DEF SessionInv, Kept, SessionTyped, Served, Raising, Closing, Quotas,
         ServedFromWallet, Uncharged, Raised
<1>8. ServedFromSubscription(t, c, rt)
  BY <1>1, <1>2, <1>3
     DEF SessionInv, Kept, SessionTyped, Served, Raising, Closing, Quotas,
         ServedFromSubscription, Raised
<1>9. ClosedOnWallet(t, c, rt)
  BY <1>1, <1>2, <1>3
     DEF SessionInv, Kept, SessionTyped, Served, Raising, Closing, Quotas,
         ServedFromWallet, ClosedOnWallet, Uncharged, PreparedWell, Preparing, SourceKnown,
         Raised
<1>10. ClosedOnSubscription(t, c) /\ SettledOnSubscription(t, c)
  BY <1>1, <1>2, <1>3
     DEF SessionInv, Kept, SessionTyped, Served, Raising, Closing, Quotas,
         ServedFromSubscription, ClosedOnSubscription, SettledOnSubscription, PreparedWell,
         Preparing, SourceKnown, Raised
<1>11. RefundedOnSubscription(t, c)
  BY <1>1, <1>2, <1>3
     DEF SessionInv, Kept, SessionTyped, Served, Raising, Closing, Quotas,
         ServedFromSubscription, ClosedOnSubscription, RefundedOnSubscription,
         PreparedWell, Preparing, SourceKnown, Raised
<1> QED
  BY <1>4, <1>5, <1>6, <1>7, <1>8, <1>9, <1>10, <1>11 DEF SessionInv

\* The key gets the reservation back.
LEMMA KeyRefunded ==
    ASSUME NEW s, NEW c, NEW rt \in BOOLEAN, SessionInv(s, c, rt), s.refund = "key", NEW t,
           t = Paid([s EXCEPT !.refund = "done"], 0, -s.tokenConsumed)
    PROVE  SessionInv(t, c, rt)
<1>1. Record(t, Fields)
  BY DEF SessionInv, SessionTyped, Record, Paid
<1>2. /\ t.refund = "done" /\ t.netWallet = s.netWallet
      /\ t.netKey = s.netKey + (-s.tokenConsumed)
  BY DEF SessionInv, SessionTyped, Record, Fields, Paid
<1>3. Kept(t, s, {"refund", "netWallet", "netKey"})
  BY DEF SessionInv, SessionTyped, Record, Fields, Kept, Paid
<1>4. SessionTyped(t)
  BY <1>1, <1>2, <1>3
     DEF SessionInv, Kept, SessionTyped, Served, Raising, Closing, Quotas, Places,
         Preparing
<1>5. PreparedWell(t, c) /\ SourceKnown(t)
  BY <1>1, <1>2, <1>3
     DEF SessionInv, Kept, SessionTyped, Served, Raising, Closing, Quotas, PreparedWell,
         SourceKnown, Preparing
<1>6. Served(t, rt)
  BY <1>1, <1>2, <1>3
     DEF SessionInv, Kept, SessionTyped, Served, Raising, Closing, Quotas, SourceKnown
<1>7. ServedFromWallet(t, c)
  BY <1>1, <1>2, <1>3
     DEF SessionInv, Kept, SessionTyped, Served, Raising, Closing, Quotas,
         ServedFromWallet, Uncharged, Raised
<1>8. ServedFromSubscription(t, c, rt)
  BY <1>1, <1>2, <1>3
     DEF SessionInv, Kept, SessionTyped, Served, Raising, Closing, Quotas,
         ServedFromSubscription, Raised
<1>9. ClosedOnWallet(t, c, rt)
  <2> SUFFICES ASSUME t.pc \in Closing \cup {"settleKey"}, t.source = "wallet"
               PROVE  ClosedOnWallet(t, c, rt)
    BY DEF ClosedOnWallet
  <2>1. /\ s.pc = t.pc /\ s.source = "wallet" /\ t.consumed = s.consumed
        /\ t.tokenConsumed = s.tokenConsumed /\ t.fee = s.fee /\ t.failed = s.failed
        /\ t.settled = s.settled /\ s.pc # "settleKey" /\ ~s.settled /\ s.pc \in Closing
    BY <1>1, <1>2, <1>3 DEF SessionInv, Kept, SessionTyped, ClosedOnWallet, Closing
  <2>2. Uncharged(t, c)
    BY <1>1, <1>2, <1>3, <2>1
       DEF SessionInv, Kept, SessionTyped, ClosedOnWallet, Closing, Uncharged
  <2>3. ~s.failed => /\ s.netWallet = 0 + (IF s.pc = "fee" THEN 0 ELSE s.fee)
                     /\ s.netKey = s.tokenConsumed + (IF s.pc = "done" THEN s.fee ELSE 0)
    BY <1>2, <2>1 DEF SessionInv, ClosedOnWallet
  <2>4. s.tokenConsumed \in Int /\ s.netKey \in Int /\ s.fee \in Int
    BY DEF SessionInv, SessionTyped, Quotas
  <2> QED
    BY <1>2, <2>1, <2>2, <2>3, <2>4 DEF ClosedOnWallet, Closing
<1>10. ClosedOnSubscription(t, c) /\ SettledOnSubscription(t, c)
  BY <1>1, <1>2, <1>3
     DEF SessionInv, Kept, SessionTyped, Served, Raising, Closing, Quotas,
         ServedFromSubscription, ClosedOnSubscription, SettledOnSubscription, PreparedWell,
         Preparing, SourceKnown, Raised
<1>11. RefundedOnSubscription(t, c)
  BY <1>1, <1>2, <1>3
     DEF SessionInv, Kept, SessionTyped, Served, Raising, Closing, Quotas,
         ServedFromSubscription, ClosedOnSubscription, RefundedOnSubscription,
         PreparedWell, Preparing, SourceKnown, Raised
<1> QED
  BY <1>4, <1>5, <1>6, <1>7, <1>8, <1>9, <1>10, <1>11 DEF SessionInv

\* The refund of the key fails.
LEMMA KeyNotRefunded ==
    ASSUME NEW s, NEW c, NEW rt \in BOOLEAN, SessionInv(s, c, rt), s.refund = "key", NEW t,
           t = Paid([[s EXCEPT !.refund = "done"] EXCEPT !.failed = TRUE], 0, 0)
    PROVE  SessionInv(t, c, rt)
<1>1. Record(t, Fields)
  BY DEF SessionInv, SessionTyped, Record, Paid
<1>2. /\ t.refund = "done" /\ t.failed /\ t.netWallet = s.netWallet /\ t.netKey = s.netKey
  BY DEF SessionInv, SessionTyped, Record, Fields, Paid
<1>3. Kept(t, s, {"refund", "failed", "netWallet", "netKey"})
  BY DEF SessionInv, SessionTyped, Record, Fields, Kept, Paid
<1> QED
  BY <1>1, <1>2, <1>3
     DEF SessionInv, Kept, SessionTyped, PreparedWell, Served, ServedFromWallet,
         ServedFromSubscription, ClosedOnWallet, ClosedOnSubscription, SettledOnSubscription,
         RefundedOnSubscription, SourceKnown, Uncharged, Places, Preparing, Raising, Closing,
         Amount, Raised, Quotas

\* The wallet pays the fee.
LEMMA FeeOnWallet ==
    ASSUME NEW s, NEW c, NEW rt \in BOOLEAN, SessionInv(s, c, rt), s.pc = "fee",
           s.source = "wallet", NEW t, t = Paid([s EXCEPT !.pc = "feeKey"], s.fee, 0)
    PROVE  SessionInv(t, c, rt)
<1>1. Record(t, Fields)
  BY DEF SessionInv, SessionTyped, Record, Paid
<1>2. /\ t.pc = "feeKey" /\ t.netWallet = s.netWallet + (s.fee) /\ t.netKey = s.netKey
  BY DEF SessionInv, SessionTyped, Record, Fields, Paid
<1>3. Kept(t, s, {"pc", "netWallet", "netKey"})
  BY DEF SessionInv, SessionTyped, Record, Fields, Kept, Paid
<1> QED
  BY <1>1, <1>2, <1>3, SMTT(30)
     DEF SessionInv, Kept, SessionTyped, PreparedWell, Served, ServedFromWallet,
         ServedFromSubscription, ClosedOnWallet, ClosedOnSubscription, SettledOnSubscription,
         RefundedOnSubscription, SourceKnown, Uncharged, Places, Preparing, Raising, Closing,
         Amount, Raised, Quotas

\* The fee is settled on the subscription, on top of the reservation.
ChargedTo(s, c, t, d) ==
    /\ t = Paid([[s EXCEPT !.pc = "feeKey"] EXCEPT !.postDelta = @ + s.fee,
                 !.infoRef = @ + 1], 0, 0)
    /\ d = [c EXCEPT !.phase = "settled",
            !.amount = s.preConsumedQuota + s.postDelta + s.fee, !.version = s.infoRef + 1]

\* ChargedTo keeps the invariant of the session.
LEMMA FeeOnSubscription ==
    ASSUME NEW s, NEW c, NEW rt \in BOOLEAN, SessionInv(s, c, rt), s.pc = "fee",
           s.source = "subscription", c.phase \in {"reserved", "settled"},
           c.version = s.infoRef, NEW t, NEW d, ChargedTo(s, c, t, d)
    PROVE  SessionInv(t, d, rt)
<1>1. Record(t, Fields)
  BY DEF SessionInv, SessionTyped, Record, Paid, ChargedTo
<1>2. /\ t.pc = "feeKey" /\ t.postDelta = s.postDelta + s.fee /\ t.infoRef = s.infoRef + 1
      /\ t.netWallet = s.netWallet /\ t.netKey = s.netKey
  BY DEF SessionInv, SessionTyped, Record, Fields, Paid, ChargedTo
<1>3. Kept(t, s, {"pc", "postDelta", "infoRef", "netWallet", "netKey"})
  BY DEF SessionInv, SessionTyped, Record, Fields, Kept, Paid, ChargedTo
<1>4. /\ d.phase = "settled" /\ d.amount = s.preConsumedQuota + s.postDelta + s.fee
      /\ d.version = s.infoRef + 1 /\ d.target = c.target /\ d.tokenPre = c.tokenPre
      /\ Record(d, ChargeFields)
  BY DEF SessionInv, ChargeTyped, Record, ChargeFields, ChargedTo
<1> QED
  BY <1>1, <1>2, <1>3, <1>4
     DEF SessionInv, Kept, SessionTyped, PreparedWell, Served, ServedFromWallet,
         ServedFromSubscription, ClosedOnWallet, ClosedOnSubscription, SettledOnSubscription,
         RefundedOnSubscription, SourceKnown, Uncharged, Places, Preparing, Raising, Closing,
         Amount, Raised, Quotas, ChargeTyped, Sub!Phases

\* The refund was faster than the fee.
LEMMA FeeStale ==
    ASSUME NEW s, NEW c, NEW rt \in BOOLEAN, SessionInv(s, c, rt), s.pc = "fee",
           s.source = "subscription", c.version # s.infoRef, NEW t,
           t = Paid([s EXCEPT !.pc = "done"], 0, 0)
    PROVE  SessionInv(t, c, rt)
<1>1. Record(t, Fields)
  BY DEF SessionInv, SessionTyped, Record, Paid
<1>2. /\ t.pc = "done" /\ t.netWallet = s.netWallet /\ t.netKey = s.netKey
  BY DEF SessionInv, SessionTyped, Record, Fields, Paid
<1>3. Kept(t, s, {"pc", "netWallet", "netKey"})
  BY DEF SessionInv, SessionTyped, Record, Fields, Kept, Paid
<1> QED
  BY <1>1, <1>2, <1>3
     DEF SessionInv, Kept, SessionTyped, PreparedWell, Served, ServedFromWallet,
         ServedFromSubscription, ClosedOnWallet, ClosedOnSubscription, SettledOnSubscription,
         RefundedOnSubscription, SourceKnown, Uncharged, Places, Preparing, Raising, Closing,
         Amount, Raised, Quotas

\* The fee cannot be charged.
LEMMA FeeNotCharged ==
    ASSUME NEW s, NEW c, NEW rt \in BOOLEAN, SessionInv(s, c, rt), s.pc = "fee", NEW t,
           t = Paid([s EXCEPT !.pc = "done", !.failed = TRUE], 0, 0)
    PROVE  SessionInv(t, c, rt)
<1>1. Record(t, Fields)
  BY DEF SessionInv, SessionTyped, Record, Paid
<1>2. /\ t.pc = "done" /\ t.failed /\ t.netWallet = s.netWallet /\ t.netKey = s.netKey
  BY DEF SessionInv, SessionTyped, Record, Fields, Paid
<1>3. Kept(t, s, {"pc", "failed", "netWallet", "netKey"})
  BY DEF SessionInv, SessionTyped, Record, Fields, Kept, Paid
<1> QED
  BY <1>1, <1>2, <1>3
     DEF SessionInv, Kept, SessionTyped, PreparedWell, Served, ServedFromWallet,
         ServedFromSubscription, ClosedOnWallet, ClosedOnSubscription, SettledOnSubscription,
         RefundedOnSubscription, SourceKnown, Uncharged, Places, Preparing, Raising, Closing,
         Amount, Raised, Quotas

\* The key pays the fee.
LEMMA FeeKeyTaken ==
    ASSUME NEW s, NEW c, NEW rt \in BOOLEAN, SessionInv(s, c, rt), s.pc = "feeKey", NEW t,
           t = Paid([s EXCEPT !.pc = "done"], 0, s.fee)
    PROVE  SessionInv(t, c, rt)
<1>1. Record(t, Fields)
  BY DEF SessionInv, SessionTyped, Record, Paid
<1>2. /\ t.pc = "done" /\ t.netWallet = s.netWallet /\ t.netKey = s.netKey + (s.fee)
  BY DEF SessionInv, SessionTyped, Record, Fields, Paid
<1>3. Kept(t, s, {"pc", "netWallet", "netKey"})
  BY DEF SessionInv, SessionTyped, Record, Fields, Kept, Paid
<1> QED
  BY <1>1, <1>2, <1>3
     DEF SessionInv, Kept, SessionTyped, PreparedWell, Served, ServedFromWallet,
         ServedFromSubscription, ClosedOnWallet, ClosedOnSubscription, SettledOnSubscription,
         RefundedOnSubscription, SourceKnown, Uncharged, Places, Preparing, Raising, Closing,
         Amount, Raised, Quotas

\* The key cannot pay the fee.
LEMMA FeeKeyNotTaken ==
    ASSUME NEW s, NEW c, NEW rt \in BOOLEAN, SessionInv(s, c, rt), s.pc = "feeKey", NEW t,
           t = Paid([[s EXCEPT !.pc = "done"] EXCEPT !.failed = TRUE], 0, 0)
    PROVE  SessionInv(t, c, rt)
<1>1. Record(t, Fields)
  BY DEF SessionInv, SessionTyped, Record, Paid
<1>2. /\ t.pc = "done" /\ t.failed /\ t.netWallet = s.netWallet /\ t.netKey = s.netKey
  BY DEF SessionInv, SessionTyped, Record, Fields, Paid
<1>3. Kept(t, s, {"pc", "failed", "netWallet", "netKey"})
  BY DEF SessionInv, SessionTyped, Record, Fields, Kept, Paid
<1> QED
  BY <1>1, <1>2, <1>3
     DEF SessionInv, Kept, SessionTyped, PreparedWell, Served, ServedFromWallet,
         ServedFromSubscription, ClosedOnWallet, ClosedOnSubscription, SettledOnSubscription,
         RefundedOnSubscription, SourceKnown, Uncharged, Places, Preparing, Raising, Closing,
         Amount, Raised, Quotas

-----------------------------------------------------------------------------
(* A step moves one session and its charge.                                *)

\* A step that changes one session, and perhaps its charge, keeps the rest.
LEMMA OneMoves ==
    ASSUME BillingInv, NEW r \in Requests, wallet' \in Int, key' \in Int, failures' \in Nat,
           Record(ses', Requests), Record(charge', Requests),
           \A x \in Requests \ {r} : ses'[x] = ses[x] /\ charge'[x] = charge[x],
           SessionInv(ses'[r], charge'[r], r \in Realtime)
    PROVE  BillingInv'
<1>1. ASSUME NEW x \in Requests PROVE SessionInv(ses'[x], charge'[x], x \in Realtime)
  <2>1. CASE x = r
    BY <2>1
  <2>2. CASE x # r
    <3>1. SessionInv(ses[x], charge[x], x \in Realtime)
      BY DEF BillingInv
    <3> QED
      BY <2>2, <3>1
  <2> QED
    BY <2>1, <2>2
<1> QED
  BY <1>1 DEF BillingInv

\* What Pay does to the sessions and the balances.
LEMMA PayEffect ==
    ASSUME BillingInv, NEW r \in Requests, NEW n, NEW w \in Int, NEW k \in Int, Pay(r, n, w, k)
    PROVE  /\ wallet' \in Int /\ key' \in Int /\ Record(ses', Requests)
           /\ ses'[r] = Paid(n, w, k) /\ \A x \in Requests \ {r} : ses'[x] = ses[x]
<1>1. wallet' \in Int /\ key' \in Int
  BY DEF BillingInv, Pay
<1>2. ses' = [ses EXCEPT ![r] = Paid(n, w, k)]
  BY DEF Pay, Paid
<1>3. Record(ses, Requests)
  BY DEF BillingInv
<1> QED
  BY <1>1, <1>2, <1>3 DEF Record

\* A session moves and pays, and its charge stays.
LEMMA MoveKeeps ==
    ASSUME BillingInv, NEW r \in Requests, NEW n, NEW w \in Int, NEW k \in Int,
           Move(r, n, w, k), SessionInv(Paid(n, w, k), charge[r], r \in Realtime)
    PROVE  BillingInv'
<1>1. Pay(r, n, w, k) /\ charge' = charge /\ failures' = failures
  BY DEF Move
<1>2. failures' \in Nat /\ Record(charge', Requests)
  BY <1>1 DEF BillingInv
<1> QED
  BY <1>1, <1>2, PayEffect, OneMoves

\* The same with a statement that failed.
LEMMA FailKeeps ==
    ASSUME BillingInv, NEW r \in Requests, NEW n, FailTo(r, n),
           SessionInv(Paid(n, 0, 0), charge[r], r \in Realtime)
    PROVE  BillingInv'
<1>1. Pay(r, n, 0, 0) /\ charge' = charge /\ failures' = failures + 1
  BY DEF FailTo
<1>2. failures' \in Nat /\ Record(charge', Requests)
  BY <1>1 DEF BillingInv
<1> QED
  BY <1>1, <1>2, PayEffect, OneMoves

\* A session moves together with its charge.
LEMMA ChargeKeeps ==
    ASSUME BillingInv, NEW r \in Requests, NEW n, NEW w \in Int, NEW k \in Int,
           Pay(r, n, w, k), UNCHANGED failures, Record(charge', Requests),
           \A x \in Requests \ {r} : charge'[x] = charge[x],
           SessionInv(Paid(n, w, k), charge'[r], r \in Realtime)
    PROVE  BillingInv'
<1>1. failures' \in Nat
  BY DEF BillingInv
<1>2. /\ wallet' \in Int /\ key' \in Int /\ Record(ses', Requests)
      /\ ses'[r] = Paid(n, w, k) /\ \A x \in Requests \ {r} : ses'[x] = ses[x]
  BY PayEffect
<1>3. SessionInv(ses'[r], charge'[r], r \in Realtime)
  BY <1>2
<1> QED
  BY <1>1, <1>2, <1>3, OneMoves

\* What the operations of the ledger do to the charges.
LEMMA ReserveEffect ==
    ASSUME BillingInv, NEW r \in Requests, NEW a, Sub!Reserve(r, a)
    PROVE  /\ Record(charge', Requests) /\ \A x \in Requests \ {r} : charge'[x] = charge[x]
           /\ charge'[r] = [charge[r] EXCEPT !.phase = "reserved", !.amount = a,
                            !.version = 1]
<1>1. Record(charge, Requests)
  BY DEF BillingInv
<1>2. charge' = [charge EXCEPT ![r] =
                    [charge[r] EXCEPT !.phase = "reserved", !.amount = a, !.version = 1]]
  BY <1>1 DEF Sub!Reserve, Record
<1> QED
  BY <1>1, <1>2 DEF Record

\* What a change of the charge with a version does.
LEMMA ChangeEffect ==
    ASSUME BillingInv, NEW r \in Requests, NEW v, NEW phase, NEW a, Sub!Change(r, v, phase, a)
    PROVE  /\ Record(charge', Requests) /\ \A x \in Requests \ {r} : charge'[x] = charge[x]
           /\ charge[r].version = v
           /\ charge'[r] = [charge[r] EXCEPT !.phase = phase, !.amount = a, !.version = v + 1]
<1>1. Record(charge, Requests)
  BY DEF BillingInv
<1>2. charge' = [charge EXCEPT ![r] =
                    [charge[r] EXCEPT !.phase = phase, !.amount = a, !.version = v + 1]]
  BY <1>1 DEF Sub!Change, Record
<1>3. charge[r].version = v
  BY DEF Sub!Change
<1> QED
  BY <1>1, <1>2, <1>3 DEF Record

ChargeQueued(r, q, p) ==
    /\ Record(charge', Requests) /\ \A x \in Requests \ {r} : charge'[x] = charge[x]
    /\ charge[r].phase = "reserved"
    /\ charge'[r] = [charge[r] EXCEPT !.phase = "queued", !.target = q, !.tokenPre = p]

\* What queueing a settlement does.
LEMMA QueueEffect ==
    ASSUME BillingInv, NEW r \in Requests, NEW v, NEW q, NEW p, Sub!Queue(r, v, q, p)
    PROVE  ChargeQueued(r, q, p)
<1>1. Record(charge, Requests)
  BY DEF BillingInv
<1>2. charge' = [charge EXCEPT ![r] =
                    [charge[r] EXCEPT !.phase = "queued", !.target = q, !.tokenPre = p]]
  BY <1>1 DEF Sub!Queue, Record
<1>3. charge[r].phase = "reserved"
  BY DEF Sub!Queue
<1> QED
  BY <1>1, <1>2, <1>3 DEF Record, ChargeQueued

\* What completing a queued settlement does.
LEMMA ApplyEffect ==
    ASSUME BillingInv, NEW r \in Requests, Sub!Apply(r, TRUE)
    PROVE  /\ Record(charge', Requests) /\ \A x \in Requests \ {r} : charge'[x] = charge[x]
           /\ charge[r].phase = "queued"
           /\ charge'[r] = [charge[r] EXCEPT !.phase = "settled", !.amount = charge[r].target,
                                             !.version = @ + 1,
                                             !.tokenNet = charge[r].target - charge[r].tokenPre]
<1>1. Record(charge, Requests)
  BY DEF BillingInv
<1>2. charge[r].phase = "queued"
  BY DEF Sub!Apply
<1>3. charge' = [charge EXCEPT ![r] =
                    [charge[r] EXCEPT !.phase = "settled", !.amount = charge[r].target,
                                      !.version = @ + 1,
                                      !.tokenNet = charge[r].target - charge[r].tokenPre]]
  BY <1>1 DEF Sub!Apply, Record
<1> QED
  BY <1>1, <1>2, <1>3 DEF Record

-----------------------------------------------------------------------------
(* Every action keeps the invariant.                                       *)

\* The invariant of a session and its balances, from that of all.
LEMMA OwnInv ==
    ASSUME BillingInv, NEW r \in Requests
    PROVE  /\ SessionInv(ses[r], charge[r], r \in Realtime) /\ (r \in Realtime) \in BOOLEAN
           /\ SessionTyped(ses[r]) /\ ChargeTyped(charge[r])
BY DEF BillingInv, SessionInv

\* Action NewBillingSession.
LEMMA NewBillingSessionKeeps ==
    ASSUME BillingInv, NEW r \in Requests, NEW route \in Routes, NEW a \in Quotas,
           NewBillingSession(r, route, a)
    PROVE  BillingInv'
<1>1. /\ route[1] \in {"none", "wallet", "subscription"}
      /\ route[2] \in {"none", "wallet", "subscription"}
  BY SessionAssumption
<1>2. PICK n : n = [Try(ses[r], route[1]) EXCEPT !.fallback = route[2], !.asked = a]
  OBVIOUS
<1>3. ses[r].pc = "new" /\ Move(r, n, 0, 0)
  BY <1>2 DEF NewBillingSession, At, Go
<1>4. SessionInv(Paid(n, 0, 0), charge[r], r \in Realtime)
  <2>1. Opened(ses[r], Paid(n, 0, 0))
    BY <1>1, <1>2 DEF Opened
  <2> QED
    BY <1>3, <2>1, OwnInv, SessionOpened
<1> QED
  BY <1>3, <1>4, MoveKeeps

\* Action TryWallet.
LEMMA TryWalletKeeps ==
    ASSUME BillingInv, NEW r \in Requests, TryWallet(r)
    PROVE  BillingInv'
<1>1. ses[r].pc = "wallet"
  BY DEF TryWallet, At
<1>2. CASE Move(r, Fallback(ses[r]), 0, 0)
  <2>1. SessionInv(Paid(Fallback(ses[r]), 0, 0), charge[r], r \in Realtime)
    BY <1>1, OwnInv, WalletShort
  <2> QED
    BY <1>2, <2>1, MoveKeeps
<1>3. CASE Go(r, [ses[r] EXCEPT !.trusted = TRUE, !.pc = "serving"])
  <2>1. SessionInv(Paid([ses[r] EXCEPT !.trusted = TRUE, !.pc = "serving"], 0, 0), charge[r],
                   r \in Realtime)
    BY <1>1, OwnInv, WalletTrusted
  <2> QED
    BY <1>3, <2>1, MoveKeeps DEF Go
<1>4. CASE Go(r, [ses[r] EXCEPT !.trusted = FALSE, !.pc = "checkKey"])
  <2>1. SessionInv(Paid([ses[r] EXCEPT !.trusted = FALSE, !.pc = "checkKey"], 0, 0),
                   charge[r],
                   r \in Realtime)
    BY <1>1, OwnInv, WalletChosen
  <2> QED
    BY <1>4, <2>1, MoveKeeps DEF Go
<1>5. \A b \in BOOLEAN :
         Go(r, [ses[r] EXCEPT !.trusted = b, !.pc = IF b THEN "serving" ELSE "checkKey"]) =>
            BillingInv'
  BY <1>3, <1>4
<1> QED
  BY <1>2, <1>5 DEF TryWallet, Go

\* Action CheckKey.
LEMMA CheckKeyKeeps ==
    ASSUME BillingInv, NEW r \in Requests, CheckKey(r)
    PROVE  BillingInv'
<1>1. PICK p : p = IF Amount(ses[r]) = 0 THEN "fund"
                   ELSE IF ~Unlimited /\ key < Amount(ses[r]) THEN "rejected" ELSE "takeKey"
  OBVIOUS
<1>2. p \in {"fund", "rejected", "takeKey"} /\ (p = "fund" => Amount(ses[r]) = 0)
  BY <1>1
<1>3. ses[r].pc = "checkKey" /\ Move(r, [ses[r] EXCEPT !.pc = p], 0, 0)
  BY <1>1 DEF CheckKey, At, Go
<1>4. SessionInv(Paid([ses[r] EXCEPT !.pc = p], 0, 0), charge[r], r \in Realtime)
  BY <1>2, <1>3, OwnInv, KeyChecked
<1> QED
  BY <1>3, <1>4, MoveKeeps

\* Action PreConsumeTokenQuota.
LEMMA PreConsumeTokenQuotaKeeps ==
    ASSUME BillingInv, NEW r \in Requests, PreConsumeTokenQuota(r)
    PROVE  BillingInv'
<1>1. ses[r].pc = "takeKey"
  BY DEF PreConsumeTokenQuota, At
<1>2. CASE Move(r, [ses[r] EXCEPT !.pc = "fund", !.tokenConsumed = Amount(ses[r])], 0,
                Amount(ses[r]))
  <2>1. Amount(ses[r]) \in Int
    BY OwnInv DEF SessionTyped, Amount, Quotas
  <2>2. SessionInv(Paid([ses[r] EXCEPT !.pc = "fund", !.tokenConsumed = Amount(ses[r])], 0,
                        Amount(ses[r])), charge[r], r \in Realtime)
    BY <1>1, OwnInv, KeyTaken
  <2> QED
    BY <1>2, <2>1, <2>2, MoveKeeps
<1>3. CASE FailTo(r, [ses[r] EXCEPT !.pc = "rejected"])
  BY <1>1, <1>3, OwnInv, KeyNotTaken, FailKeeps
<1> QED
  BY <1>2, <1>3 DEF PreConsumeTokenQuota

\* Action PreConsume.
LEMMA PreConsumeKeeps ==
    ASSUME BillingInv, NEW r \in Requests, PreConsume(r)
    PROVE  BillingInv'
<1>1. PICK a : a = Amount(ses[r])
  OBVIOUS
<1>2. ses[r].pc = "fund" /\ a \in Int
  BY <1>1, OwnInv DEF PreConsume, At, SessionTyped, Amount, Quotas
<1>3. CASE /\ ses[r].source = "wallet"
           /\ Move(r, [[ses[r] EXCEPT !.pc = "serving", !.preConsumedQuota = a]
                         EXCEPT !.consumed = a], a, 0)
  <2>1. SessionInv(Paid([[ses[r] EXCEPT !.pc = "serving", !.preConsumedQuota = a]
                           EXCEPT !.consumed = a], a, 0), charge[r], r \in Realtime)
    BY <1>1, <1>2, <1>3, OwnInv, WalletReserved, Zenon
  <2> QED
    BY <1>2, <1>3, <2>1, MoveKeeps
<1>4. CASE /\ ses[r].source = "subscription" /\ Sub!Reserve(r, a)
           /\ Pay(r, [[ses[r] EXCEPT !.pc = "serving", !.preConsumedQuota = a]
                        EXCEPT !.preConsumed = a, !.finalConsumed = a,
                               !.ref = 1, !.infoRef = 1], 0, 0)
           /\ UNCHANGED failures
  <2>1. /\ Record(charge', Requests) /\ \A x \in Requests \ {r} : charge'[x] = charge[x]
        /\ charge'[r] = [charge[r] EXCEPT !.phase = "reserved", !.amount = a, !.version = 1]
    BY <1>4, ReserveEffect
  <2>2. SessionInv(Paid([[ses[r] EXCEPT !.pc = "serving", !.preConsumedQuota = a]
                           EXCEPT !.preConsumed = a, !.finalConsumed = a,
                                  !.ref = 1, !.infoRef = 1], 0, 0), charge'[r], r \in Realtime)
    <3>1. PICK t : t = Paid([[ses[r] EXCEPT !.pc = "serving", !.preConsumedQuota = a]
                              EXCEPT !.preConsumed = a, !.finalConsumed = a,
                                     !.ref = 1, !.infoRef = 1], 0, 0)
      OBVIOUS
    <3>2. ReservedTo(ses[r], charge[r], t, charge'[r])
      BY <1>1, <2>1, <3>1 DEF ReservedTo
    <3>3. SessionInv(t, charge'[r], r \in Realtime)
      BY <1>2, <1>4, <3>2, OwnInv, SubscriptionReserved
    <3> QED
      BY <3>1, <3>3
  <2> QED
    BY <1>4, <2>1, <2>2, ChargeKeeps
<1> QED
  BY <1>1, <1>3, <1>4 DEF PreConsume

\* Action PreConsumeRefused.
LEMMA PreConsumeRefusedKeeps ==
    ASSUME BillingInv, NEW r \in Requests, PreConsumeRefused(r)
    PROVE  BillingInv'
<1>1. ses[r].pc = "fund"
  BY DEF PreConsumeRefused, At
<1>2. CASE Go(r, [[ses[r] EXCEPT !.pc = "unwind"] EXCEPT !.insufficient = TRUE])
  <2>1. SessionInv(Paid([[ses[r] EXCEPT !.pc = "unwind"] EXCEPT !.insufficient = TRUE], 0, 0),
                   charge[r], r \in Realtime)
    BY <1>1, OwnInv, FundingRefused, Zenon
  <2> QED
    BY <1>2, <2>1, MoveKeeps DEF Go
<1>3. CASE FailTo(r, [ses[r] EXCEPT !.pc = "unwind"])
  BY <1>1, <1>3, OwnInv, FundingFailed, FailKeeps
<1> QED
  BY <1>2, <1>3 DEF PreConsumeRefused

\* Action Unwind.
LEMMA UnwindKeeps ==
    ASSUME BillingInv, NEW r \in Requests, Unwind(r)
    PROVE  BillingInv'
<1>1. PICK u : u = [ses[r] EXCEPT !.tokenConsumed = 0, !.insufficient = FALSE]
  OBVIOUS
<1>2. PICK n : n = IF ses[r].insufficient THEN Fallback(u) ELSE [u EXCEPT !.pc = "rejected"]
  OBVIOUS
<1>3. n = Fallback(u) \/ n = [u EXCEPT !.pc = "rejected"]
  BY <1>2
<1>4. ses[r].pc = "unwind" /\ -ses[r].tokenConsumed \in Int
  BY OwnInv DEF Unwind, At, SessionTyped
<1>5. ASSUME NEW t, \/ t = Paid(n, 0, -ses[r].tokenConsumed)
                    \/ t = Paid([n EXCEPT !.failed = TRUE], 0, 0)
      PROVE  SessionInv(t, charge[r], r \in Realtime)
  <2>1. GivenBack(ses[r], t)
    BY <1>1, <1>3, <1>5, Zenon DEF GivenBack
  <2> QED
    BY <1>4, <2>1, OwnInv, Unwound
<1>6. CASE Move(r, n, 0, -ses[r].tokenConsumed)
  BY <1>4, <1>5, <1>6, MoveKeeps
<1>7. CASE FailTo(r, [n EXCEPT !.failed = TRUE])
  BY <1>5, <1>7, FailKeeps
<1> QED
  BY <1>1, <1>2, <1>6, <1>7 DEF Unwind

\* Action ReserveFunding.
LEMMA ReserveFundingKeeps ==
    ASSUME BillingInv, NEW r \in Requests, NEW target \in Quotas, ReserveFunding(r, target)
    PROVE  BillingInv'
<1>1. PICK m : m = target - ses[r].preConsumedQuota
  OBVIOUS
<1>2. /\ ses[r].pc = "serving" /\ m > 0 /\ ~(r \in Realtime)
      /\ Rebook(r, [ses[r] EXCEPT !.pc = "reserveKey", !.delta = m, !.reserves = @ + 1], m)
  BY <1>1 DEF ReserveFunding, At
<1>3. ses[r].preConsumedQuota + m \in Quotas /\ m \in Int
  BY <1>1, OwnInv DEF SessionTyped, Quotas
<1>4. PICK n : n = [ses[r] EXCEPT !.pc = "reserveKey", !.delta = m, !.reserves = @ + 1]
  OBVIOUS
<1>5. /\ n.source = ses[r].source /\ n.ref = ses[r].ref
      /\ n.finalConsumed = ses[r].finalConsumed
  BY <1>4, OwnInv DEF SessionTyped, Record, Fields
<1>6. CASE n.source = "wallet" /\ Move(r, [n EXCEPT !.consumed = @ + m], m, 0)
  <2>1. SessionInv(Paid([n EXCEPT !.consumed = @ + m], m, 0), charge[r], r \in Realtime)
    BY <1>2, <1>3, <1>4, <1>5, <1>6, OwnInv, WalletRaised, ZenonT(60)
  <2> QED
    BY <1>3, <1>6, <2>1, MoveKeeps
<1>7. CASE /\ n.source = "subscription" /\ Sub!Rebook(r, n.ref, n.finalConsumed + m)
           /\ Pay(r, [n EXCEPT !.finalConsumed = @ + m, !.ref = @ + 1], 0, 0)
           /\ UNCHANGED failures
  <2>1. /\ Record(charge', Requests) /\ \A x \in Requests \ {r} : charge'[x] = charge[x]
        /\ charge[r].version = ses[r].ref
        /\ charge'[r] = [charge[r] EXCEPT !.phase = "reserved",
                         !.amount = ses[r].finalConsumed + m,
                                          !.version = ses[r].ref + 1]
    <3>1. PICK v, a : v = ses[r].ref /\ a = ses[r].finalConsumed + m
      OBVIOUS
    <3>2. Sub!Change(r, v, "reserved", a)
      BY <1>5, <1>7, <3>1 DEF Sub!Rebook
    <3>3. /\ Record(charge', Requests) /\ \A x \in Requests \ {r} : charge'[x] = charge[x]
          /\ charge[r].version = v
          /\ charge'[r] = [charge[r] EXCEPT !.phase = "reserved", !.amount = a,
                           !.version = v + 1]
      BY <3>2, ChangeEffect
    <3> QED
      BY <3>1, <3>3
  <2>2. PICK t : t = Paid([n EXCEPT !.finalConsumed = @ + m, !.ref = @ + 1], 0, 0)
    OBVIOUS
  <2>3. RaisedTo(ses[r], charge[r], t, charge'[r], m)
    BY <1>4, <2>1, <2>2 DEF RaisedTo
  <2>4. SessionInv(t, charge'[r], r \in Realtime)
    <3>1. ses[r].source = "subscription" /\ charge[r].version = ses[r].ref
      BY <1>5, <1>7, <2>1
    <3> QED
      BY <1>2, <1>3, <2>3, <3>1, OwnInv, SubscriptionRaised
  <2> QED
    BY <1>7, <2>1, <2>2, <2>4, ChargeKeeps
<1> QED
  BY <1>2, <1>4, <1>6, <1>7 DEF Rebook

\* Action CheckReserve.
LEMMA CheckReserveKeeps ==
    ASSUME BillingInv, NEW r \in Requests, CheckReserve(r)
    PROVE  BillingInv'
<1>1. PICK p : p = IF Unlimited \/ key >= ses[r].delta THEN "reserveTake" ELSE "rollback"
  OBVIOUS
<1>2. p \in {"reserveTake", "rollback"}
  BY <1>1
<1>3. ses[r].pc = "reserveKey" /\ Move(r, [ses[r] EXCEPT !.pc = p], 0, 0)
  BY <1>1 DEF CheckReserve, At, Go
<1>4. SessionInv(Paid([ses[r] EXCEPT !.pc = p], 0, 0), charge[r], r \in Realtime)
  BY <1>2, <1>3, OwnInv, RaiseChecked
<1> QED
  BY <1>3, <1>4, MoveKeeps

\* Action ReserveToken.
LEMMA ReserveTokenKeeps ==
    ASSUME BillingInv, NEW r \in Requests, ReserveToken(r)
    PROVE  BillingInv'
<1>1. ses[r].pc = "reserveTake" /\ ses[r].delta \in Int
  BY OwnInv DEF ReserveToken, At, SessionTyped
<1>2. CASE Move(r, [ses[r] EXCEPT !.pc = "serving", !.preConsumedQuota = @ + ses[r].delta,
                                  !.delta = 0, !.tokenConsumed = @ + ses[r].delta,
                                  !.infoRef = ses[r].ref], 0, ses[r].delta)
  <2>1. SessionInv(Paid([ses[r] EXCEPT !.pc = "serving", !.preConsumedQuota = @ + ses[r].delta,
                                       !.delta = 0, !.tokenConsumed = @ + ses[r].delta,
                                       !.infoRef = ses[r].ref], 0, ses[r].delta),
                   charge[r], r \in Realtime)
    BY <1>1, OwnInv, RaiseTaken
  <2> QED
    BY <1>1, <1>2, <2>1, MoveKeeps DEF Go
<1>3. CASE FailTo(r, [ses[r] EXCEPT !.pc = "rollback"])
  <2>1. SessionInv(Paid([ses[r] EXCEPT !.pc = "rollback"], 0, 0), charge[r], r \in Realtime)
    BY <1>1, OwnInv, RaiseNotTaken
  <2> QED
    BY <1>3, <2>1, FailKeeps
<1> QED
  BY <1>2, <1>3 DEF ReserveToken

\* Action RollbackFundingReserve.
LEMMA RollbackFundingReserveKeeps ==
    ASSUME BillingInv, NEW r \in Requests, RollbackFundingReserve(r)
    PROVE  BillingInv'
<1>1. ses[r].pc = "rollback" /\ -ses[r].delta \in Int
  BY OwnInv DEF RollbackFundingReserve, At, SessionTyped
<1>2. PICK n : n = [ses[r] EXCEPT !.pc = "serving", !.delta = 0]
  OBVIOUS
<1>3. /\ n.source = ses[r].source /\ n.ref = ses[r].ref
      /\ n.finalConsumed = ses[r].finalConsumed
  BY <1>2, OwnInv DEF SessionTyped, Record, Fields
<1>4. CASE n.source = "wallet" /\ Move(r, [n EXCEPT !.consumed = @ + (-ses[r].delta)],
                                       -ses[r].delta, 0)
  <2>1. SessionInv(Paid([n EXCEPT !.consumed = @ + (-ses[r].delta)], -ses[r].delta, 0),
                   charge[r], r \in Realtime)
    BY <1>1, <1>2, <1>3, <1>4, OwnInv, WalletLowered
  <2> QED
    BY <1>1, <1>4, <2>1, MoveKeeps
<1>5. CASE /\ n.source = "subscription"
           /\ Sub!Rebook(r, n.ref, n.finalConsumed + (-ses[r].delta))
           /\ Pay(r, [n EXCEPT !.finalConsumed = @ + (-ses[r].delta), !.ref = @ + 1], 0, 0)
           /\ UNCHANGED failures
  <2>1. /\ Record(charge', Requests) /\ \A x \in Requests \ {r} : charge'[x] = charge[x]
        /\ charge[r].version = ses[r].ref
        /\ charge'[r] = [charge[r] EXCEPT !.phase = "reserved",
                         !.amount = ses[r].finalConsumed + (-ses[r].delta),
                                          !.version = ses[r].ref + 1]
    <3>1. PICK v, a : v = ses[r].ref /\ a = ses[r].finalConsumed + (-ses[r].delta)
      OBVIOUS
    <3>2. Sub!Change(r, v, "reserved", a)
      BY <1>3, <1>5, <3>1 DEF Sub!Rebook
    <3>3. /\ Record(charge', Requests) /\ \A x \in Requests \ {r} : charge'[x] = charge[x]
          /\ charge[r].version = v
          /\ charge'[r] = [charge[r] EXCEPT !.phase = "reserved", !.amount = a,
                           !.version = v + 1]
      BY <3>2, ChangeEffect
    <3> QED
      BY <3>1, <3>3
  <2>2. PICK t : t = Paid([n EXCEPT !.finalConsumed = @ + (-ses[r].delta), !.ref = @ + 1],
                          0, 0)
    OBVIOUS
  <2>3. LoweredTo(ses[r], charge[r], t, charge'[r])
    BY <1>2, <2>1, <2>2 DEF LoweredTo
  <2>4. SessionInv(t, charge'[r], r \in Realtime)
    <3>1. ses[r].source = "subscription" /\ charge[r].version = ses[r].ref
      BY <1>3, <1>5, <2>1
    <3> QED
      BY <1>1, <2>3, <3>1, OwnInv, SubscriptionLowered
  <2> QED
    BY <1>5, <2>1, <2>2, <2>4, ChargeKeeps
<1>6. CASE FailTo(r, [n EXCEPT !.failed = TRUE])
  <2>1. SessionInv(Paid([n EXCEPT !.failed = TRUE], 0, 0), charge[r], r \in Realtime)
    BY <1>1, <1>2, OwnInv, NotLowered
  <2> QED
    BY <1>6, <2>1, FailKeeps
<1> QED
  BY <1>2, <1>4, <1>5, <1>6 DEF RollbackFundingReserve, Rebook

\* Action SettleWallet.
LEMMA SettleWalletKeeps ==
    ASSUME BillingInv, NEW r \in Requests, NEW q \in Costs(r), SettleWallet(r, q)
    PROVE  BillingInv'
<1>1. /\ ses[r].pc = "serving" /\ q \in Int /\ (r \in Realtime => q = ses[r].actual)
      /\ ses[r].preConsumedQuota \in Int
  BY OwnInv DEF SettleWallet, At, Costs, Quotas, SessionTyped
<1>2. PICK n : n = [ses[r] EXCEPT !.actual = q]
  OBVIOUS
<1>3. n.source = ses[r].source /\ n.preConsumedQuota = ses[r].preConsumedQuota
  BY <1>2, OwnInv DEF SessionTyped, Record, Fields
<1>4. PICK m, b, p : /\ m = q - ses[r].preConsumedQuota /\ b = (m = 0)
                     /\ p = IF m = 0 THEN "done" ELSE "settleKey"
  OBVIOUS
<1>5. ses[r].source = "wallet" /\ m \in Int
  BY <1>1, <1>2, <1>3, <1>4 DEF SettleWallet
<1>6. CASE Move(r, [n EXCEPT !.fundingSettled = TRUE, !.settled = b, !.pc = p], m, 0)
  <2>1. PICK t : t = Paid([n EXCEPT !.fundingSettled = TRUE, !.settled = b, !.pc = p], m, 0)
    OBVIOUS
  <2>2. /\ b \in BOOLEAN /\ (b <=> m = 0)
        /\ m = q - ses[r].preConsumedQuota /\ p \in {"done", "settleKey"}
        /\ p = IF m = 0 THEN "done" ELSE "settleKey"
    BY <1>4
  <2>3. PaidUpTo(ses[r], t, q)
    BY <1>2, <1>5, <2>1, <2>2 DEF PaidUpTo
  <2>4. SessionInv(t, charge[r], r \in Realtime)
    BY <1>1, <1>5, <2>3, OwnInv, WalletSettled
  <2> QED
    BY <1>5, <1>6, <2>1, <2>4, MoveKeeps
<1>7. CASE FailTo(r, [n EXCEPT !.pc = "done", !.failed = TRUE])
  <2>1. SessionInv(Paid([n EXCEPT !.pc = "done", !.failed = TRUE], 0, 0), charge[r],
                   r \in Realtime)
    BY <1>1, <1>2, OwnInv, SettlementFailed
  <2> QED
    BY <1>7, <2>1, FailKeeps
<1> QED
  BY <1>2, <1>3, <1>4, <1>6, <1>7 DEF SettleWallet

\* Action SettleKey.
LEMMA SettleKeyKeeps ==
    ASSUME BillingInv, NEW r \in Requests, SettleKey(r)
    PROVE  BillingInv'
<1>1. ses[r].pc = "settleKey" /\ ses[r].actual - ses[r].preConsumedQuota \in Int
  BY OwnInv DEF SettleKey, At, SessionTyped, Quotas
<1>2. CASE Move(r, [ses[r] EXCEPT !.settled = TRUE, !.pc = "done"], 0,
                ses[r].actual - ses[r].preConsumedQuota)
  <2>1. SessionInv(Paid([ses[r] EXCEPT !.settled = TRUE, !.pc = "done"], 0,
                        ses[r].actual - ses[r].preConsumedQuota), charge[r], r \in Realtime)
    BY <1>1, OwnInv, KeySettled
  <2> QED
    BY <1>1, <1>2, <2>1, MoveKeeps DEF Go
<1>3. CASE FailTo(r, [[ses[r] EXCEPT !.settled = TRUE, !.pc = "done"] EXCEPT !.failed = TRUE])
  <2>1. SessionInv(Paid([[ses[r] EXCEPT !.settled = TRUE, !.pc = "done"]
                          EXCEPT !.failed = TRUE], 0, 0), charge[r], r \in Realtime)
    BY <1>1, OwnInv, KeyNotSettled
  <2> QED
    BY <1>3, <2>1, FailKeeps
<1> QED
  BY <1>2, <1>3 DEF SettleKey

\* Action SettleQueue.
LEMMA SettleQueueKeeps ==
    ASSUME BillingInv, NEW r \in Requests, NEW q \in Costs(r), SettleQueue(r, q)
    PROVE  BillingInv'
<1>1. /\ ses[r].pc = "serving" /\ q \in Int /\ (r \in Realtime => q = ses[r].actual)
  BY OwnInv DEF SettleQueue, At, Costs, Quotas, SessionTyped
<1>2. PICK n : n = [ses[r] EXCEPT !.actual = q]
  OBVIOUS
<1>3. /\ n.source = ses[r].source /\ n.preConsumedQuota = ses[r].preConsumedQuota
      /\ n.ref = ses[r].ref
  BY <1>2, OwnInv DEF SessionTyped, Record, Fields
<1>4. PICK m : m = [n EXCEPT !.pc = "complete", !.fundingSettled = TRUE,
                             !.postDelta = q - ses[r].preConsumedQuota]
  OBVIOUS
<1>5. ses[r].source = "subscription"
  BY <1>2, <1>3 DEF SettleQueue
<1>6. CASE /\ Sub!Queue(r, ses[r].ref, q, ses[r].preConsumedQuota)
           /\ Pay(r, m, 0, 0) /\ UNCHANGED failures
  <2>1. PICK v, p : v = ses[r].ref /\ p = ses[r].preConsumedQuota
    OBVIOUS
  <2>2. Sub!Queue(r, v, q, p)
    BY <1>6, <2>1
  <2>3. /\ Record(charge', Requests) /\ \A x \in Requests \ {r} : charge'[x] = charge[x]
        /\ charge[r].phase = "reserved"
        /\ charge'[r] = [charge[r] EXCEPT !.phase = "queued", !.target = q, !.tokenPre = p]
    <3>1. ChargeQueued(r, q, p)
      BY <2>2, QueueEffect
    <3> QED
      BY <3>1 DEF ChargeQueued
  <2>4. PICK t : t = Paid(m, 0, 0)
    OBVIOUS
  <2>5. QueuedTo(ses[r], charge[r], t, charge'[r], q)
    BY <1>2, <1>4, <2>1, <2>3, <2>4 DEF QueuedTo
  <2>6. SessionInv(t, charge'[r], r \in Realtime)
    <3>1. charge[r].phase = "reserved"
      BY <2>3
    <3> QED
      BY <1>1, <1>5, <2>5, <3>1, OwnInv, SettlementQueued
  <2> QED
    BY <1>6, <2>3, <2>4, <2>6, ChargeKeeps
<1>7. CASE charge[r].phase = "settled" /\ charge[r].amount = q /\ Go(r, m)
  <2>1. SessionInv(Paid(m, 0, 0), charge[r], r \in Realtime)
    BY <1>1, <1>2, <1>4, <1>5, <1>7, OwnInv, SettledAlready, ZenonT(60)
  <2> QED
    BY <1>7, <2>1, MoveKeeps DEF Go
<1>8. CASE charge[r].phase = "settled" /\ Go(r, [n EXCEPT !.pc = "done"])
  <2>1. SessionInv(Paid([n EXCEPT !.pc = "done"], 0, 0), charge[r], r \in Realtime)
    BY <1>1, <1>2, <1>5, <1>8, OwnInv, SettlementRefused
  <2> QED
    BY <1>8, <2>1, MoveKeeps DEF Go
<1>9. CASE FailTo(r, [n EXCEPT !.pc = "done", !.failed = TRUE])
  <2>1. SessionInv(Paid([n EXCEPT !.pc = "done", !.failed = TRUE], 0, 0), charge[r],
                   r \in Realtime)
    BY <1>1, <1>2, OwnInv, SettlementFailed
  <2> QED
    BY <1>9, <2>1, FailKeeps
<1> QED
  BY <1>2, <1>3, <1>4, <1>6, <1>7, <1>8, <1>9 DEF SettleQueue

CompletedAs(s, c, n) ==
    \/ n = s
    \/ /\ s.pc = "complete"
       /\ n = [s EXCEPT !.pc = "done", !.settled = TRUE, !.finalConsumed = s.actual,
                         !.ref = c.version + 1, !.infoRef = c.version + 1]

\* Action Complete.
LEMMA CompleteKeeps ==
    ASSUME BillingInv, NEW r \in Requests, NEW n, Complete(r, n),
           CompletedAs(ses[r], charge[r], n)
    PROVE  BillingInv'
<1>1. /\ Sub!Apply(r, TRUE) /\ UNCHANGED failures
      /\ Pay(r, n, 0, charge[r].target - charge[r].tokenPre)
      /\ charge[r].target - charge[r].tokenPre \in Int
  <2>1. charge[r].target - charge[r].tokenPre \in Int
    BY OwnInv DEF ChargeTyped
  <2> QED
    BY <2>1 DEF Complete
<1>2. /\ Record(charge', Requests) /\ \A x \in Requests \ {r} : charge'[x] = charge[x]
      /\ charge[r].phase = "queued"
      /\ charge'[r] = [charge[r] EXCEPT !.phase = "settled", !.amount = charge[r].target,
                                        !.version = @ + 1,
                                        !.tokenNet = charge[r].target - charge[r].tokenPre]
  BY <1>1, ApplyEffect
<1>3. PICK t : t = Paid(n, 0, charge[r].target - charge[r].tokenPre)
  OBVIOUS
<1>4. charge[r].phase = "queued"
  BY <1>2
<1>5. SessionInv(t, charge'[r], r \in Realtime)
  <2>1. CASE n = ses[r]
    <3>1. ReconciledTo(ses[r], charge[r], t, charge'[r])
      BY <1>2, <1>3, <2>1 DEF ReconciledTo
    <3> QED
      BY <1>4, <3>1, OwnInv, Reconciled
  <2>2. CASE /\ ses[r].pc = "complete"
             /\ n = [ses[r] EXCEPT !.pc = "done", !.settled = TRUE,
                                    !.finalConsumed = ses[r].actual,
                                    !.ref = charge[r].version + 1,
                                    !.infoRef = charge[r].version + 1]
    <3>1. CompletedTo(ses[r], charge[r], t, charge'[r])
      BY <1>2, <1>3, <2>2 DEF CompletedTo
    <3>2. ses[r].pc = "complete"
      BY <2>2
    <3> QED
      BY <1>4, <3>1, <3>2, OwnInv, SettlementCompleted
  <2> QED
    BY <2>1, <2>2 DEF CompletedAs
<1> QED
  BY <1>1, <1>2, <1>3, <1>5, ChargeKeeps

\* Action Reconcile.
LEMMA ReconcileKeeps ==
    ASSUME BillingInv, NEW r \in Requests, Reconcile(r)
    PROVE  BillingInv'
<1>1. Complete(r, ses[r]) /\ CompletedAs(ses[r], charge[r], ses[r])
  BY DEF Reconcile, CompletedAs
<1> QED
  BY <1>1, CompleteKeeps

\* Action SettleComplete.
LEMMA SettleCompleteKeeps ==
    ASSUME BillingInv, NEW r \in Requests, SettleComplete(r)
    PROVE  BillingInv'
<1>1. ses[r].pc = "complete" /\ charge[r].version \in Nat
  BY OwnInv DEF SettleComplete, At, ChargeTyped
<1>2. PICK n : n = [ses[r] EXCEPT !.pc = "done", !.settled = TRUE,
                    !.finalConsumed = ses[r].actual,
                                  !.ref = charge[r].version + 1,
                                  !.infoRef = charge[r].version + 1]
  OBVIOUS
<1>3. CASE Complete(r, n)
  <2>1. CompletedAs(ses[r], charge[r], n)
    BY <1>1, <1>2 DEF CompletedAs
  <2> QED
    BY <1>3, <2>1, CompleteKeeps
<1>4. PICK v : v = charge[r].version
  OBVIOUS
<1>5. PICK m : m = [ses[r] EXCEPT !.pc = "done", !.settled = TRUE,
                    !.finalConsumed = ses[r].actual,
                                  !.ref = v, !.infoRef = v]
  OBVIOUS
<1>6. CASE charge[r].phase = "settled" /\ Go(r, m)
  <2>1. v \in Nat
    BY <1>1, <1>4
  <2>2. SessionInv(Paid(m, 0, 0), charge[r], r \in Realtime)
    <3>1. DoneAt(ses[r], Paid(m, 0, 0), v)
      BY <1>5 DEF DoneAt
    <3> QED
      BY <1>1, <1>4, <1>6, <2>1, <3>1, OwnInv, CompletedBefore
  <2> QED
    BY <1>6, <2>2, MoveKeeps DEF Go
<1>7. CASE FailTo(r, [ses[r] EXCEPT !.pc = "done"])
  <2>1. SessionInv(Paid([ses[r] EXCEPT !.pc = "done"], 0, 0), charge[r], r \in Realtime)
    BY <1>1, OwnInv, NotCompleted
  <2> QED
    BY <1>7, <2>1, FailKeeps
<1> QED
  BY <1>2, <1>3, <1>4, <1>5, <1>6, <1>7 DEF SettleComplete

\* Action CheckTurn.
LEMMA CheckTurnKeeps ==
    ASSUME BillingInv, NEW r \in Requests, NEW q \in Quotas \ {0}, CheckTurn(r, q)
    PROVE  BillingInv'
<1>1. PICK n : n = [ses[r] EXCEPT !.actual = @ + q, !.turns = MaxTurns]
  OBVIOUS
<1>2. /\ ses[r].pc = "serving" /\ r \in Realtime /\ q \in Int /\ q > 0
      /\ ses[r].turns < MaxTurns
  BY DEF CheckTurn, At, Quotas
<1>3. CASE Go(r, [ses[r] EXCEPT !.pc = "turn", !.turn = q])
  <2>1. SessionInv(Paid([ses[r] EXCEPT !.pc = "turn", !.turn = q], 0, 0), charge[r],
                   r \in Realtime)
    BY <1>2, OwnInv, TurnChecked
  <2> QED
    BY <1>3, <2>1, MoveKeeps DEF Go
<1>4. CASE Go(r, n)
  <2>1. SessionInv(Paid(n, 0, 0), charge[r], r \in Realtime)
    <3>1. UnpaidTo(ses[r], Paid(n, 0, 0), q)
      BY <1>1 DEF UnpaidTo
    <3> QED
      BY <1>2, <3>1, OwnInv, TurnUnpaid
  <2> QED
    BY <1>4, <2>1, MoveKeeps DEF Go
<1>5. CASE FailTo(r, [n EXCEPT !.failed = TRUE])
  <2>1. SessionInv(Paid([n EXCEPT !.failed = TRUE], 0, 0), charge[r], r \in Realtime)
    <3>1. TurnFailedTo(ses[r], Paid([n EXCEPT !.failed = TRUE], 0, 0), q)
      BY <1>1, <1>2 DEF TurnFailedTo
    <3> QED
      BY <1>2, <3>1, OwnInv, TurnFailed
  <2> QED
    BY <1>5, <2>1, FailKeeps
<1> QED
  BY <1>1, <1>3, <1>4, <1>5 DEF CheckTurn

\* Action PreWssConsumeQuota.
LEMMA PreWssConsumeQuotaKeeps ==
    ASSUME BillingInv, NEW r \in Requests, PreWssConsumeQuota(r)
    PROVE  BillingInv'
<1>0. PICK q : q = ses[r].turn
  OBVIOUS
<1>1. PICK n : n = [ses[r] EXCEPT !.actual = @ + q, !.turn = 0]
  OBVIOUS
<1>2. /\ n.source = ses[r].source /\ n.preConsumedQuota = ses[r].preConsumedQuota
      /\ n.postDelta = ses[r].postDelta /\ n.infoRef = ses[r].infoRef
  BY <1>1, OwnInv DEF SessionTyped, Record, Fields
<1>3. /\ ses[r].pc = "turn" /\ r \in Realtime /\ q \in Int /\ q > 0
      /\ ses[r].turns < MaxTurns
  BY <1>0, OwnInv DEF PreWssConsumeQuota, At, SessionInv, Served, Quotas
<1>4. PICK m : m = [n EXCEPT !.pc = "turnKey", !.turns = @ + 1, !.delta = q]
  OBVIOUS
<1>5. /\ m.source = ses[r].source /\ m.preConsumedQuota = ses[r].preConsumedQuota
      /\ m.postDelta = ses[r].postDelta /\ m.infoRef = ses[r].infoRef
  <2>1. Record(n, Fields)
    BY <1>1, OwnInv DEF SessionTyped, Record
  <2> QED
    BY <1>2, <1>4, <2>1 DEF Record, Fields
<1>6. CASE m.source = "wallet" /\ Move(r, m, q, 0)
  <2>1. SessionInv(Paid(m, q, 0), charge[r], r \in Realtime)
    <3>1. WalletTurnTo(ses[r], Paid(m, q, 0), q)
      BY <1>1, <1>4 DEF WalletTurnTo
    <3>2. ses[r].source = "wallet"
      BY <1>5, <1>6
    <3> QED
      BY <1>3, <3>1, <3>2, OwnInv, TurnOnWallet
  <2> QED
    BY <1>3, <1>6, <2>1, MoveKeeps
<1>7. CASE /\ m.source = "subscription"
           /\ Sub!Settle(r, m.infoRef, m.preConsumedQuota + m.postDelta + q)
           /\ Pay(r, [m EXCEPT !.postDelta = @ + q, !.infoRef = @ + 1], 0, 0)
           /\ UNCHANGED failures
  <2>1. /\ Record(charge', Requests) /\ \A x \in Requests \ {r} : charge'[x] = charge[x]
        /\ charge[r].version = ses[r].infoRef
        /\ charge'[r] = [charge[r] EXCEPT !.phase = "settled",
                         !.amount = ses[r].preConsumedQuota + ses[r].postDelta + q,
                                          !.version = ses[r].infoRef + 1]
    <3>1. PICK v, a : v = ses[r].infoRef /\ a = ses[r].preConsumedQuota + ses[r].postDelta + q
      OBVIOUS
    <3>2. Sub!Change(r, v, "settled", a)
      BY <1>5, <1>7, <3>1 DEF Sub!Settle
    <3>3. /\ Record(charge', Requests) /\ \A x \in Requests \ {r} : charge'[x] = charge[x]
          /\ charge[r].version = v
          /\ charge'[r] = [charge[r] EXCEPT !.phase = "settled", !.amount = a,
                           !.version = v + 1]
      BY <3>2, ChangeEffect
    <3> QED
      BY <3>1, <3>3
  <2>2. PICK t : t = Paid([m EXCEPT !.postDelta = @ + q, !.infoRef = @ + 1], 0, 0)
    OBVIOUS
  <2>3. TurnedTo(ses[r], charge[r], t, charge'[r], q)
    BY <1>1, <1>4, <2>1, <2>2 DEF TurnedTo
  <2>4. SessionInv(t, charge'[r], r \in Realtime)
    <3>1. ses[r].source = "subscription" /\ charge[r].version = ses[r].infoRef
      BY <1>5, <1>7, <2>1
    <3> QED
      BY <1>3, <2>3, <3>1, OwnInv, TurnOnSubscription
  <2> QED
    BY <1>7, <2>1, <2>2, <2>4, ChargeKeeps
<1>8. CASE FailTo(r, [n EXCEPT !.pc = "serving", !.turns = MaxTurns, !.failed = TRUE])
  <2>1. SessionInv(Paid([n EXCEPT !.pc = "serving", !.turns = MaxTurns, !.failed = TRUE], 0, 0),
                   charge[r], r \in Realtime)
    <3>1. TurnFailedTo(ses[r], Paid([n EXCEPT !.pc = "serving", !.turns = MaxTurns,
                                              !.failed = TRUE], 0, 0), q)
      BY <1>1, <1>3 DEF TurnFailedTo
    <3> QED
      BY <1>3, <3>1, OwnInv, TurnFailed
  <2> QED
    BY <1>8, <2>1, FailKeeps
<1> QED
  BY <1>0, <1>1, <1>4, <1>6, <1>7, <1>8 DEF PreWssConsumeQuota, PostConsumeFunding

\* Action TurnKey.
LEMMA TurnKeyKeeps ==
    ASSUME BillingInv, NEW r \in Requests, TurnKey(r)
    PROVE  BillingInv'
<1>1. ses[r].pc = "turnKey" /\ ses[r].delta \in Int
  BY OwnInv DEF TurnKey, At, SessionTyped
<1>2. CASE Move(r, [ses[r] EXCEPT !.pc = "serving", !.delta = 0], 0, ses[r].delta)
  <2>1. SessionInv(Paid([ses[r] EXCEPT !.pc = "serving", !.delta = 0], 0, ses[r].delta),
                   charge[r], r \in Realtime)
    BY <1>1, OwnInv, TurnTaken
  <2> QED
    BY <1>1, <1>2, <2>1, MoveKeeps DEF Go
<1>3. CASE FailTo(r, [[ses[r] EXCEPT !.pc = "serving", !.delta = 0]
                      EXCEPT !.turns = MaxTurns, !.failed = TRUE])
  <2>1. SessionInv(Paid([[ses[r] EXCEPT !.pc = "serving", !.delta = 0]
                      EXCEPT !.turns = MaxTurns, !.failed = TRUE], 0, 0), charge[r], r \in Realtime)
    BY <1>1, OwnInv, TurnNotTaken
  <2> QED
    BY <1>3, <2>1, FailKeeps
<1> QED
  BY <1>2, <1>3 DEF TurnKey

\* Action Refund.
LEMMA RefundKeeps ==
    ASSUME BillingInv, NEW r \in Requests, NEW fee \in {0} \cup Fees, Refund(r, fee)
    PROVE  BillingInv'
<1>1. ses[r].pc = "serving" /\ ses[r].turns = 0 /\ fee \in Nat
  BY SessionAssumption DEF Refund, At, Quotas
<1>2. PICK b : b = (~ses[r].fundingSettled /\ (ses[r].tokenConsumed > 0 \/ ses[r].preConsumed > 0))
  OBVIOUS
<1>3. PICK u, p : u = (IF b THEN "funding" ELSE "no") /\ p = IF fee > 0 THEN "fee" ELSE "done"
  OBVIOUS
<1>4. PICK t : t = Paid([ses[r] EXCEPT !.refunded = b, !.fee = fee, !.refund = u,
                         !.pc = p], 0, 0)
  OBVIOUS
<1>5. Go(r, [ses[r] EXCEPT !.refunded = b, !.fee = fee, !.refund = u, !.pc = p])
  BY <1>2, <1>3 DEF Refund
<1>6. RefundingTo(ses[r], t, fee, b, p, u)
  BY <1>4 DEF RefundingTo
<1>7. /\ b \in BOOLEAN
      /\ b <=> ~ses[r].fundingSettled /\ (ses[r].tokenConsumed > 0 \/ ses[r].preConsumed > 0)
  BY <1>2
<1>8. SessionInv(t, charge[r], r \in Realtime)
  BY <1>1, <1>3, <1>6, <1>7, OwnInv, RefundStarted
<1> QED
  BY <1>4, <1>5, <1>8, MoveKeeps DEF Go

\* Action RefundFunding.
LEMMA RefundFundingKeeps ==
    ASSUME BillingInv, NEW r \in Requests, RefundFunding(r)
    PROVE  BillingInv'
<1>1. ses[r].refund = "funding" /\ -ses[r].consumed \in Int
  BY OwnInv DEF RefundFunding, SessionTyped
<1>2. PICK n : n = [ses[r] EXCEPT !.refund = "key"]
  OBVIOUS
<1>3. CASE ses[r].source = "wallet" /\ Move(r, n, -ses[r].consumed, 0)
  <2>1. SessionInv(Paid(n, -ses[r].consumed, 0), charge[r], r \in Realtime)
    BY <1>1, <1>2, <1>3, OwnInv, WalletRefunded
  <2> QED
    BY <1>1, <1>3, <2>1, MoveKeeps
<1>4. CASE /\ ses[r].source = "subscription" /\ Sub!Refund(r, ses[r].ref)
           /\ Pay(r, n, 0, 0) /\ UNCHANGED failures
  <2>1. /\ Record(charge', Requests) /\ \A x \in Requests \ {r} : charge'[x] = charge[x]
        /\ charge[r].version = ses[r].ref
        /\ charge'[r] = [charge[r] EXCEPT !.phase = "refunded", !.amount = 0,
                                          !.version = ses[r].ref + 1]
    <3>1. PICK v, a : v = ses[r].ref /\ a = 0
      OBVIOUS
    <3>2. Sub!Change(r, v, "refunded", a)
      BY <1>4, <3>1 DEF Sub!Refund
    <3>3. /\ Record(charge', Requests) /\ \A x \in Requests \ {r} : charge'[x] = charge[x]
          /\ charge[r].version = v
          /\ charge'[r] = [charge[r] EXCEPT !.phase = "refunded", !.amount = a,
                           !.version = v + 1]
      BY <3>2, ChangeEffect
    <3> QED
      BY <3>1, <3>3
  <2>2. PICK t : t = Paid(n, 0, 0)
    OBVIOUS
  <2>3. RefundedTo(ses[r], charge[r], t, charge'[r])
    BY <1>2, <2>1, <2>2 DEF RefundedTo
  <2>4. SessionInv(t, charge'[r], r \in Realtime)
    <3>1. /\ ses[r].source = "subscription" /\ charge[r].version = ses[r].ref
          /\ charge[r].phase \in {"reserved", "settled"}
      BY <1>4, <2>1 DEF Sub!Refund
    <3> QED
      BY <1>1, <2>3, <3>1, OwnInv, SubscriptionRefunded
  <2> QED
    BY <1>4, <2>1, <2>2, <2>4, ChargeKeeps
<1>5. CASE /\ ses[r].source = "subscription" /\ charge[r].version # ses[r].ref
           /\ Go(r, n)
  <2>1. SessionInv(Paid(n, 0, 0), charge[r], r \in Realtime)
    BY <1>1, <1>2, <1>5, OwnInv, RefundStale
  <2> QED
    BY <1>5, <2>1, MoveKeeps DEF Go
<1>6. CASE FailTo(r, [n EXCEPT !.failed = TRUE])
  <2>1. SessionInv(Paid([n EXCEPT !.failed = TRUE], 0, 0), charge[r], r \in Realtime)
    BY <1>1, <1>2, OwnInv, NotRefunded
  <2> QED
    BY <1>6, <2>1, FailKeeps
<1> QED
  BY <1>2, <1>3, <1>4, <1>5, <1>6 DEF RefundFunding

\* Action RefundKey.
LEMMA RefundKeyKeeps ==
    ASSUME BillingInv, NEW r \in Requests, RefundKey(r)
    PROVE  BillingInv'
<1>1. ses[r].refund = "key" /\ -ses[r].tokenConsumed \in Int
  BY OwnInv DEF RefundKey, SessionTyped
<1>2. CASE Move(r, [ses[r] EXCEPT !.refund = "done"], 0, -ses[r].tokenConsumed)
  <2>1. SessionInv(Paid([ses[r] EXCEPT !.refund = "done"], 0, -ses[r].tokenConsumed),
                   charge[r], r \in Realtime)
    BY <1>1, OwnInv, KeyRefunded
  <2> QED
    BY <1>1, <1>2, <2>1, MoveKeeps DEF Go
<1>3. CASE FailTo(r, [[ses[r] EXCEPT !.refund = "done"] EXCEPT !.failed = TRUE])
  <2>1. SessionInv(Paid([[ses[r] EXCEPT !.refund = "done"] EXCEPT !.failed = TRUE], 0, 0),
                   charge[r], r \in Realtime)
    BY <1>1, OwnInv, KeyNotRefunded
  <2> QED
    BY <1>3, <2>1, FailKeeps
<1> QED
  BY <1>2, <1>3 DEF RefundKey

\* Action ChargeViolationFeeIfNeeded.
LEMMA ChargeViolationFeeIfNeededKeeps ==
    ASSUME BillingInv, NEW r \in Requests, ChargeViolationFeeIfNeeded(r)
    PROVE  BillingInv'
<1>1. ses[r].pc = "fee" /\ ses[r].fee \in Int
  BY OwnInv DEF ChargeViolationFeeIfNeeded, At, SessionTyped
<1>2. PICK m : m = [ses[r] EXCEPT !.pc = "feeKey"]
  OBVIOUS
<1>3. /\ m.source = ses[r].source /\ m.preConsumedQuota = ses[r].preConsumedQuota
      /\ m.postDelta = ses[r].postDelta /\ m.infoRef = ses[r].infoRef
  BY <1>2, OwnInv DEF SessionTyped, Record, Fields
<1>4. CASE m.source = "wallet" /\ Move(r, m, ses[r].fee, 0)
  <2>1. SessionInv(Paid(m, ses[r].fee, 0), charge[r], r \in Realtime)
    BY <1>1, <1>2, <1>3, <1>4, OwnInv, FeeOnWallet
  <2> QED
    BY <1>1, <1>4, <2>1, MoveKeeps
<1>5. CASE /\ m.source = "subscription"
           /\ Sub!Settle(r, m.infoRef, m.preConsumedQuota + m.postDelta + ses[r].fee)
           /\ Pay(r, [m EXCEPT !.postDelta = @ + ses[r].fee, !.infoRef = @ + 1], 0, 0)
           /\ UNCHANGED failures
  <2>1. /\ Record(charge', Requests) /\ \A x \in Requests \ {r} : charge'[x] = charge[x]
        /\ charge[r].version = ses[r].infoRef
        /\ charge'[r] = [charge[r] EXCEPT !.phase = "settled",
                         !.amount = ses[r].preConsumedQuota + ses[r].postDelta + ses[r].fee,
                                          !.version = ses[r].infoRef + 1]
    <3>1. PICK v, a : /\ v = ses[r].infoRef
                      /\ a = ses[r].preConsumedQuota + ses[r].postDelta + ses[r].fee
      OBVIOUS
    <3>2. Sub!Change(r, v, "settled", a)
      BY <1>3, <1>5, <3>1 DEF Sub!Settle
    <3>3. /\ Record(charge', Requests) /\ \A x \in Requests \ {r} : charge'[x] = charge[x]
          /\ charge[r].version = v
          /\ charge'[r] = [charge[r] EXCEPT !.phase = "settled", !.amount = a,
                           !.version = v + 1]
      BY <3>2, ChangeEffect
    <3> QED
      BY <3>1, <3>3
  <2>2. PICK t : t = Paid([m EXCEPT !.postDelta = @ + ses[r].fee, !.infoRef = @ + 1], 0, 0)
    OBVIOUS
  <2>3. ChargedTo(ses[r], charge[r], t, charge'[r])
    BY <1>2, <2>1, <2>2 DEF ChargedTo
  <2>4. SessionInv(t, charge'[r], r \in Realtime)
    <3>1. /\ ses[r].source = "subscription" /\ charge[r].version = ses[r].infoRef
          /\ charge[r].phase \in {"reserved", "settled"}
      BY <1>3, <1>5, <2>1 DEF Sub!Settle
    <3> QED
      BY <1>1, <2>3, <3>1, OwnInv, FeeOnSubscription
  <2> QED
    BY <1>5, <2>1, <2>2, <2>4, ChargeKeeps
<1>6. CASE /\ ses[r].source = "subscription" /\ charge[r].version # ses[r].infoRef
           /\ Go(r, [ses[r] EXCEPT !.pc = "done"])
  <2>1. SessionInv(Paid([ses[r] EXCEPT !.pc = "done"], 0, 0), charge[r], r \in Realtime)
    BY <1>1, <1>6, OwnInv, FeeStale
  <2> QED
    BY <1>6, <2>1, MoveKeeps DEF Go
<1>7. CASE FailTo(r, [ses[r] EXCEPT !.pc = "done", !.failed = TRUE])
  <2>1. SessionInv(Paid([ses[r] EXCEPT !.pc = "done", !.failed = TRUE], 0, 0), charge[r],
                   r \in Realtime)
    BY <1>1, OwnInv, FeeNotCharged
  <2> QED
    BY <1>7, <2>1, FailKeeps
<1> QED
  BY <1>2, <1>4, <1>5, <1>6, <1>7 DEF ChargeViolationFeeIfNeeded, PostConsumeFunding

\* Action FeeKey.
LEMMA FeeKeyKeeps ==
    ASSUME BillingInv, NEW r \in Requests, FeeKey(r)
    PROVE  BillingInv'
<1>1. ses[r].pc = "feeKey" /\ ses[r].fee \in Int
  BY OwnInv DEF FeeKey, At, SessionTyped
<1>2. CASE Move(r, [ses[r] EXCEPT !.pc = "done"], 0, ses[r].fee)
  <2>1. SessionInv(Paid([ses[r] EXCEPT !.pc = "done"], 0, ses[r].fee), charge[r],
                   r \in Realtime)
    BY <1>1, OwnInv, FeeKeyTaken
  <2> QED
    BY <1>1, <1>2, <2>1, MoveKeeps DEF Go
<1>3. CASE FailTo(r, [[ses[r] EXCEPT !.pc = "done"] EXCEPT !.failed = TRUE])
  <2>1. SessionInv(Paid([[ses[r] EXCEPT !.pc = "done"] EXCEPT !.failed = TRUE], 0, 0),
                   charge[r], r \in Realtime)
    BY <1>1, OwnInv, FeeKeyNotTaken
  <2> QED
    BY <1>3, <2>1, FailKeeps
<1> QED
  BY <1>2, <1>3 DEF FeeKey

-----------------------------------------------------------------------------
(* The invariant, and what it says of requests that are over.              *)

\* At the start no session has taken anything.
LEMMA InitBilling == ASSUME Init PROVE BillingInv
<1>1. /\ wallet \in Int /\ key \in Int /\ failures \in Nat
      /\ Record(ses, Requests) /\ Record(charge, Requests)
  BY SessionAssumption DEF Init, Sub!Init, Record
<1>2. ASSUME NEW r \in Requests PROVE SessionInv(ses[r], charge[r], r \in Realtime)
  <2>1. PICK s, c : s = NoSession /\ c = Sub!NoCharge
    OBVIOUS
  <2>2. ses[r] = s /\ charge[r] = c
    BY <2>1 DEF Init, Sub!Init
  <2>3. SessionTyped(s)
    <3>1. Record(s, Fields)
      BY <2>1 DEF NoSession, Record, Fields
    <3> QED
      BY <2>1, <3>1, SessionAssumption DEF NoSession, SessionTyped, Places, Preparing, Quotas
  <2>4. ChargeTyped(c)
    <3>1. Record(c, ChargeFields)
      BY <2>1 DEF Sub!NoCharge, Record, ChargeFields
    <3> QED
      BY <2>1, <3>1 DEF Sub!NoCharge, ChargeTyped, Sub!Phases
  <2>5. PreparedWell(s, c) /\ s.pc = "new"
    BY <2>1 DEF NoSession, Sub!NoCharge, PreparedWell, Uncharged, Preparing
  <2> QED
    BY <2>2, <2>3, <2>4, <2>5
       DEF SessionInv, Served, ServedFromWallet, ServedFromSubscription, ClosedOnWallet,
           ClosedOnSubscription, SettledOnSubscription, RefundedOnSubscription, SourceKnown,
           Raising, Closing
<1> QED
  BY <1>1, <1>2 DEF BillingInv

\* Every step keeps the invariant, action by action.
LEMMA StepKeeps == ASSUME BillingInv, [Next]_vars PROVE BillingInv'
<1>1. ASSUME NEW r \in Requests, Step(r) PROVE BillingInv'
  <2>1. ASSUME NEW route \in Routes, NEW a \in Quotas, NewBillingSession(r, route, a)
        PROVE  BillingInv'
    BY <2>1, NewBillingSessionKeeps
  <2>2. CASE TryWallet(r) \/ CheckKey(r) \/ PreConsumeTokenQuota(r) \/ PreConsume(r)
             \/ PreConsumeRefused(r) \/ Unwind(r)
    BY <2>2, TryWalletKeeps, CheckKeyKeeps, PreConsumeTokenQuotaKeeps, PreConsumeKeeps,
       PreConsumeRefusedKeeps, UnwindKeeps
  <2>3. ASSUME NEW q \in Quotas, ReserveFunding(r, q) PROVE BillingInv'
    BY <2>3, ReserveFundingKeeps
  <2>4. CASE CheckReserve(r) \/ ReserveToken(r) \/ RollbackFundingReserve(r)
    BY <2>4, CheckReserveKeeps, ReserveTokenKeeps, RollbackFundingReserveKeeps
  <2>5. ASSUME NEW q \in Costs(r), SettleWallet(r, q) \/ SettleQueue(r, q) PROVE BillingInv'
    BY <2>5, SettleWalletKeeps, SettleQueueKeeps
  <2>6. CASE SettleKey(r) \/ SettleComplete(r) \/ PreWssConsumeQuota(r) \/ TurnKey(r)
    BY <2>6, SettleKeyKeeps, SettleCompleteKeeps, PreWssConsumeQuotaKeeps, TurnKeyKeeps
  <2>7. ASSUME NEW q \in Quotas \ {0}, CheckTurn(r, q) PROVE BillingInv'
    BY <2>7, CheckTurnKeeps
  <2>8. ASSUME NEW fee \in {0} \cup Fees, Refund(r, fee) PROVE BillingInv'
    BY <2>8, RefundKeeps
  <2>9. CASE ChargeViolationFeeIfNeeded(r) \/ FeeKey(r)
    BY <2>9, ChargeViolationFeeIfNeededKeeps, FeeKeyKeeps
  <2> QED
    BY <1>1, <2>1, <2>2, <2>3, <2>4, <2>5, <2>6, <2>7, <2>8, <2>9 DEF Step
<1>2. ASSUME NEW r \in Requests, Background(r) PROVE BillingInv'
  BY <1>2, RefundFundingKeeps, RefundKeyKeeps, ReconcileKeeps DEF Background
<1>3. CASE UNCHANGED vars
  BY <1>3 DEF vars, BillingInv
<1> QED
  BY <1>1, <1>2, <1>3 DEF Next

\* The invariant implies the property, outcome by outcome.
LEMMA ChargedWell == ASSUME BillingInv PROVE ChargedForOutcome
<1>1. wallet \in Int /\ key \in Int
  BY DEF BillingInv
<1>2. ASSUME NEW s, NEW c, NEW rt \in BOOLEAN, SessionInv(s, c, rt)
      PROVE  s.ref <= c.version /\ s.infoRef <= c.version
  BY <1>2 DEF SessionInv, SessionTyped, ChargeTyped, PreparedWell, Served, ServedFromWallet,
              ServedFromSubscription, ClosedOnWallet, ClosedOnSubscription, SourceKnown,
              Uncharged, Places, Preparing, Raising, Closing
<1>3. TypeOK
  <2>1. ASSUME NEW r \in Requests
        PROVE  /\ ses[r].source \in {"none", "wallet", "subscription"}
               /\ charge[r].phase \in Sub!Phases
               /\ ses[r].preConsumedQuota \in Quotas
    BY OwnInv DEF SessionTyped, ChargeTyped
  <2>2. ASSUME NEW r \in Requests
        PROVE  ses[r].ref <= charge[r].version /\ ses[r].infoRef <= charge[r].version
    BY <1>2, OwnInv
  <2> QED
    BY <1>1, <2>1, <2>2 DEF TypeOK
<1>4. RefusedCostsNothing
  <2>1. ASSUME NEW s, NEW c, NEW rt \in BOOLEAN, SessionInv(s, c, rt), s.pc = "rejected", ~s.failed
        PROVE  s.netWallet + c.amount = 0 /\ s.netKey = 0
    BY <2>1 DEF SessionInv, PreparedWell, Uncharged, Preparing
  <2> QED
    BY <2>1, OwnInv DEF RefusedCostsNothing, NetFunding
<1>5. ASSUME NEW s, NEW c, NEW rt \in BOOLEAN, SessionInv(s, c, rt),
             s.pc \in {"rejected", "done"}, s.refund \in {"no", "done"}, c.phase # "queued",
             s.fundingSettled, s.source = "subscription"
      PROVE  c.amount = s.actual /\ (~s.failed => s.netKey = s.actual)
  BY <1>5 DEF SessionInv, PreparedWell, SettledOnSubscription, Preparing, Closing
<1>6. QueuedSettlesBoth
  BY <1>5, OwnInv DEF QueuedSettlesBoth, Over
<1>7. SettledExactly
  <2>1. ASSUME NEW s, NEW c, NEW rt \in BOOLEAN, SessionInv(s, c, rt),
               s.pc \in {"rejected", "done"}, s.refund \in {"no", "done"}, c.phase # "queued",
               s.settled, ~s.failed, ~rt
        PROVE  s.netWallet + c.amount = s.actual /\ s.netKey = s.actual
    BY <2>1, <1>5
       DEF SessionInv, SessionTyped, ChargeTyped, PreparedWell, ClosedOnWallet,
           ClosedOnSubscription, RefundedOnSubscription, SourceKnown, Uncharged, Preparing, Closing
  <2> QED
    BY <2>1, OwnInv DEF SettledExactly, Over, NetFunding
<1>8. FailedCostsFee
  <2>1. ASSUME NEW s, NEW c, NEW rt \in BOOLEAN, SessionInv(s, c, rt),
               s.fee = 0 \/ s.source = "wallet", s.pc = "done", s.refund \in {"no", "done"},
               c.phase # "queued", s.actual = 0, ~s.settled, ~s.failed
        PROVE  s.netWallet + c.amount = s.fee
    BY <2>1, <1>5
       DEF SessionInv, SessionTyped, ChargeTyped, ClosedOnWallet, ClosedOnSubscription,
           RefundedOnSubscription, SourceKnown, Uncharged, Closing
  <2> QED
    BY <2>1, OwnInv DEF FailedCostsFee, Over, NetFunding
<1>9. KeyFollowsFunding
  <2>1. ASSUME NEW s, NEW c, NEW rt \in BOOLEAN, SessionInv(s, c, rt),
               s.pc \in {"rejected", "done"}, s.refund \in {"no", "done"}, c.phase # "queued",
               ~s.failed, s.source = "subscription" => s.fee = 0 /\ s.turns = 0
        PROVE  s.netKey = s.netWallet + c.amount
    <3>1. CASE s.pc = "rejected"
      BY <2>1, <3>1 DEF SessionInv, PreparedWell, Uncharged, Preparing
    <3>2. CASE s.pc = "done" /\ s.source = "wallet"
      BY <2>1, <3>2 DEF SessionInv, SessionTyped, ClosedOnWallet, Uncharged, Closing
    <3>3. CASE s.pc = "done" /\ s.source = "subscription"
      BY <2>1, <3>3, <1>5
         DEF SessionInv, SessionTyped, ChargeTyped, ClosedOnSubscription,
             RefundedOnSubscription, Closing
    <3> QED
      BY <2>1, <3>1, <3>2, <3>3 DEF SessionInv, SourceKnown, Closing
  <2> QED
    BY <2>1, OwnInv DEF KeyFollowsFunding, Over, NetFunding
<1> QED
  BY <1>3, <1>4, <1>6, <1>7, <1>8, <1>9 DEF ChargedForOutcome

\* A request that is over has cost what its outcome says, on its funding source
\* and on its key, whatever failed and whoever completed its settlement: nothing
\* when it was refused or failed, what was consumed when it was settled, and the
\* violation fee on top when the wallet pays it.
THEOREM RequestsChargedForOutcome == Spec => []ChargedForOutcome
<1>1. Init => BillingInv
  BY InitBilling
<1>2. BillingInv /\ [Next]_vars => BillingInv'
  BY StepKeeps
<1>3. BillingInv => ChargedForOutcome
  BY ChargedWell
<1> QED
  BY <1>1, <1>2, <1>3, PTL DEF Spec
=============================================================================
