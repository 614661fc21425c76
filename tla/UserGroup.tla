----------------------------- MODULE UserGroup -----------------------------
(***************************************************************************)
(* The group of a user, which decides prices and the channels a request    *)
(* may use.  Two lifecycles write it: subscriptions, which upgrade it when *)
(* bought and downgrade it when they end, and redemption codes, which lend *)
(* a group until a time and name the group to restore then.                *)
(*                                                                         *)
(* One user.  Each transaction is one step, but for Redeem, whose check    *)
(* for an active subscription and whose writes are apart: rows that do not *)
(* exist cannot be locked, unless the database locks the gap (MySQL).      *)
(* An expired loan stays in the row until somebody reads it for update.    *)
(* A purchase cancels what is active in the same transaction, so at most   *)
(* one subscription is in force.                                           *)
(***************************************************************************)
EXTENDS Integers, FiniteSets

CONSTANTS
    Groups, Default,    \* groups, and the one of users without any benefit
    Plans,              \* plans on sale
    Codes,              \* redemption codes of type group
    CodeOf,             \* each code's group and minutes
    None,               \* an empty group name
    Sites,              \* deployments: their plans, whether the check of Redeem
                        \* locks out new subscriptions, and whether maintenance
                        \* has run whenever somebody buys
    MaxSubs, MaxTime    \* bounds on subscriptions and on time

ASSUME DefaultIsGroup == Default \in Groups /\ None \notin Groups
ASSUME PlansWellFormed ==
    \A s \in Sites :
        /\ s.plan \in [Plans -> [upgrade : Groups \cup {None}, downgrade : Groups \cup {None},
                                    price : Nat, length : Nat \ {0}]]
        /\ s.gapLocks \in BOOLEAN /\ s.promptExpiry \in BOOLEAN
ASSUME GroupBounds == MaxSubs \in Nat /\ MaxTime \in Nat \ {0}
ASSUME CodesWellFormed == CodeOf \in [Codes -> [group : Groups, minutes : Nat \ {0}]]

VARIABLES
    site,       \* the deployment
    now,
    user,       \* group, group_restore, group_expires_at
    subs,       \* user_subscriptions, by id
    code        \* enabled, being redeemed, used

groupVars == <<site, now, user, subs, code>>

\* The upgrade and downgrade group, the price and the length of each plan.
PlanOf == site.plan
GapLocks == site.gapLocks
PromptExpiry == site.promptExpiry

Ids == 1 .. MaxSubs
NoSub == [status |-> "none", end |-> 0, plan |-> None, upgrade |-> None,
          prev |-> None, downgrade |-> None, source |-> "none"]

GroupInit ==
    /\ site \in Sites
    /\ now = 1
    /\ user = [group |-> Default, restore |-> None, expires |-> 0]
    /\ subs = [i \in Ids |-> NoSub]
    /\ code = [c \in Codes |-> "enabled"]

-----------------------------------------------------------------------------
(* The user's row.                                                         *)

OrDefault(g) == IF g = None THEN Default ELSE g
OnLoan(u) == u.expires > now

\* loadUserGroupStateForUpdateTx: a loan that is over is ended first.
Loaded(u) ==
    IF u.expires = 0 \/ OnLoan(u) THEN u
    ELSE [group |-> OrDefault(u.restore), restore |-> None, expires |-> 0]

\* The group held apart from a loan.
Held(u) == IF OnLoan(u) THEN OrDefault(u.restore) ELSE u.group

\* The group held becomes g: at once, or when the loan is over.
WithHeld(u, g) == IF OnLoan(u) THEN [u EXCEPT !.restore = g] ELSE [u EXCEPT !.group = g]

-----------------------------------------------------------------------------
(* Subscriptions.                                                          *)

InForce(i) == subs[i].status = "active" /\ subs[i].end > now
Due(i) == subs[i].status = "active" /\ subs[i].end <= now
Exists(i) == subs[i].status # "none"
Upgrading(s) == {i \in Ids : s[i].status = "active" /\ s[i].end > now /\ s[i].upgrade # None}
NextId == Cardinality({i \in Ids : Exists(i) \/ subs[i].source = "deleted"}) + 1

\* The user's row after a plan took effect: at once, ending a loan.
Upgraded(u, upgrade) ==
    IF upgrade = None \/ (Held(Loaded(u)) = upgrade /\ ~OnLoan(Loaded(u)))
    THEN IF upgrade = None THEN u ELSE Loaded(u)
    ELSE [group |-> upgrade, restore |-> None, expires |-> 0]

\* The group to return to: the one the replaced subscription would return to,
\* or the one held, where the plan changes it.
PrevGroup(u, current, upgrade) ==
    IF current # {} /\ (CHOOSE s \in current : TRUE).prev # None
    THEN (CHOOSE s \in current : TRUE).prev
    ELSE LET l == Loaded(u)
         IN IF upgrade # None /\ (Held(l) # upgrade \/ OnLoan(l)) THEN Held(l) ELSE None

\* CreateUserSubscriptionFromPlanTx on the row u: what is in force is cancelled
\* and its cycle goes on.  over is the end a redemption asks for, or 0.
CreatedSubs(u, p, source, upgrade, downgrade, over) ==
    LET current == {subs[i] : i \in {j \in Ids : InForce(j)}}
        end == IF current = {} THEN (IF over # 0 THEN over ELSE now + PlanOf[p].length)
               ELSE LET s == CHOOSE s \in current : TRUE
                    IN IF source = "redemption" /\ s.source = "redemption" /\ over > s.end
                       THEN over ELSE s.end
    IN [i \in Ids |->
          IF i = NextId
          THEN [status |-> "active", end |-> end, plan |-> p, upgrade |-> upgrade,
                prev |-> PrevGroup(u, current, upgrade), downgrade |-> downgrade,
                source |-> source]
          ELSE IF InForce(i) THEN [subs[i] EXCEPT !.status = "cancelled", !.end = now]
          ELSE subs[i]]

\* A paid order, a purchase from the balance: only to a higher price.  An
\* administrator assigns any plan.
Purchase(p, source) ==
    /\ NextId \in Ids
    /\ GapLocks => \A c \in Codes : code[c] # "redeeming"
    /\ PromptExpiry => \A i \in Ids : ~Due(i)
    /\ source = "order" =>
         \A i \in Ids : InForce(i) => PlanOf[subs[i].plan].price < PlanOf[p].price
    /\ subs' = CreatedSubs(user, p, source, PlanOf[p].upgrade, PlanOf[p].downgrade, 0)
    /\ user' = Upgraded(user, PlanOf[p].upgrade)
    /\ UNCHANGED <<site, now, code>>

-----------------------------------------------------------------------------
(* The end of a subscription.                                              *)

\* Where the end of subscription s takes the user: to the explicit group, or
\* back from the group it upgraded to.
Target(u, s) ==
    IF s.downgrade # None THEN s.downgrade
    ELSE IF s.upgrade # None /\ Held(u) = s.upgrade THEN s.prev ELSE None
\* Mutant: the lent group is overwritten.
DowngradedIgnoringLoan(u, s) ==
    LET l == Loaded(u)
        target == Target(l, s)
    IN IF target = None \/ target = Held(l) THEN l ELSE [l EXCEPT !.group = target]
\* The row after s is over and no upgrading subscription is left.
Downgraded(u, s) ==
    LET l == Loaded(u)
        target == Target(l, s)
    IN IF target = None \/ target = Held(l) THEN l ELSE WithHeld(l, target)

\* ExpireDueSubscriptions for this user: of the expired ones that define a
\* transition the last decides.
ExpireDue ==
    /\ \E i \in Ids : Due(i)
    /\ subs' = [i \in Ids |-> IF Due(i) THEN [subs[i] EXCEPT !.status = "expired"] ELSE subs[i]]
    /\ LET done == {i \in Ids : /\ subs'[i].status = "expired"
                                /\ subs'[i].downgrade # None \/ subs'[i].upgrade # None}
           last == CHOOSE i \in done : \A j \in done :
                     subs'[j].end < subs'[i].end \/ (subs'[j].end = subs'[i].end /\ j <= i)
       IN user' = IF Upgrading(subs') # {} \/ done = {} THEN user
                  ELSE Downgraded(user, subs'[last])
    /\ UNCHANGED <<site, now, code>>

\* downgradeUserGroupForSubscriptionTx, for the two operations below.
AfterEnd(i, rest) ==
    IF subs[i].downgrade = None /\ subs[i].upgrade = None THEN user
    ELSE IF Upgrading(rest) \ {i} # {} THEN Loaded(user)
    ELSE Downgraded(user, subs[i])

\* An administrator invalidates or deletes any subscription.
AdminInvalidate(i) ==
    /\ Exists(i)
    /\ subs' = [subs EXCEPT ![i].status = "cancelled", ![i].end = now]
    /\ user' = AfterEnd(i, subs)
    /\ UNCHANGED <<site, now, code>>

AdminDelete(i) ==
    /\ Exists(i)
    /\ subs' = [subs EXCEPT ![i] = [NoSub EXCEPT !.source = "deleted"]]
    /\ user' = AfterEnd(i, subs)
    /\ UNCHANGED <<site, now, code>>

\* The administrator's "free": what is in force is cancelled, with any loan.
AdminFree ==
    /\ subs' = [i \in Ids |-> IF InForce(i) THEN [subs[i] EXCEPT !.status = "cancelled", !.end = now]
                              ELSE subs[i]]
    /\ user' = [group |-> Default, restore |-> None, expires |-> 0]
    /\ UNCHANGED <<site, now, code>>

-----------------------------------------------------------------------------
(* Redemption codes.                                                       *)

\* Mutant: only subscriptions that were paid for count.
RedeemCheckPaid(c) ==
    /\ code[c] = "enabled"
    /\ \A i \in Ids : ~(InForce(i) /\ subs[i].source # "redemption")
    /\ code' = [code EXCEPT ![c] = "redeeming"]
    /\ UNCHANGED <<site, now, user, subs>>
\* Redeem takes the code and finds no active subscription.
RedeemCheck(c) ==
    /\ code[c] = "enabled"
    /\ \A i \in Ids : ~InForce(i)
    /\ code' = [code EXCEPT ![c] = "redeeming"]
    /\ UNCHANGED <<site, now, user, subs>>

\* applyUserGroupEntitlementTx: the same group is lent for longer.
Loan(u, group, minutes) ==
    [group |-> group,
     restore |-> Held(u),
     expires |-> (IF OnLoan(u) /\ u.group = group THEN u.expires ELSE now) + minutes]

\* The rest of the transaction: the loan, and a subscription that funds it
\* unless a paid one came up meanwhile.  Of two that locked the same gap the
\* database aborts one.
RedeemCommit(c) ==
    LET group == CodeOf[c].group
        row == Loan(Loaded(user), group, CodeOf[c].minutes)
        paid == {i \in Ids : InForce(i) /\ subs[i].source # "redemption"}
        matching == {p \in Plans : PlanOf[p].upgrade = group}
    IN /\ code[c] = "redeeming"
       /\ GapLocks => \A d \in Codes \ {c} : code[d] # "redeeming"
       /\ code' = [code EXCEPT ![c] = "used"]
       /\ user' = row
       /\ \/ /\ paid # {}
             /\ UNCHANGED subs
          \/ /\ paid = {} /\ NextId \in Ids
             /\ \E p \in matching :
                  subs' = CreatedSubs(user, p, "redemption", None, None, row.expires)
       /\ UNCHANGED <<site, now>>

\* It fails and is rolled back: no plan matches, or the database says no.
RedeemAbort(c) ==
    /\ code[c] = "redeeming"
    /\ code' = [code EXCEPT ![c] = "enabled"]
    /\ UNCHANGED <<site, now, user, subs>>

\* ResolveExpiredUserGroupByID, by whoever reads a user whose loan is over.
ResolveExpired ==
    /\ user.expires # 0 /\ ~OnLoan(user)
    /\ user' = Loaded(user)
    /\ UNCHANGED <<site, now, subs, code>>

Tick ==
    /\ now < MaxTime
    /\ now' = now + 1
    /\ UNCHANGED <<site, user, subs, code>>

GroupNext ==
    \/ \E p \in Plans, source \in {"order", "admin"} : Purchase(p, source)
    \/ ExpireDue \/ AdminFree \/ ResolveExpired \/ Tick
    \/ \E i \in Ids : AdminInvalidate(i) \/ AdminDelete(i)
    \/ \E c \in Codes : RedeemCheck(c) \/ RedeemCommit(c) \/ RedeemAbort(c)

GroupSpec == GroupInit /\ [][GroupNext]_groupVars

-----------------------------------------------------------------------------
(* Properties.                                                             *)

\* The values the variables range over.
GroupTypeOK ==
    /\ now \in 1 .. MaxTime
    /\ user.group \in Groups /\ user.restore \in Groups \cup {None} /\ user.expires \in Nat
    /\ \A i \in Ids : /\ subs[i].status \in {"none", "active", "expired", "cancelled"}
                      /\ subs[i].upgrade \in Groups \cup {None}
                      /\ subs[i].prev \in Groups \cup {None}
    /\ code \in [Codes -> {"enabled", "redeeming", "used"}]

\* A user's group does not outlive what it was given for: when maintenance has
\* expired every subscription and no loan runs, the user is back in the default
\* group, whatever was bought, lent, replaced, cancelled and deleted before.
\* Plans that name no group to return to need prompt expiry for it: one bought
\* between the end of the last and its maintenance returns to the paid group.
NoGroupOutlivesItsPlan ==
    (PromptExpiry \/ \A p \in Plans : PlanOf[p].downgrade # None) =>
        ((\A i \in Ids : subs[i].status # "active") /\ ~OnLoan(user)
            => Loaded(user).group = Default)

\* What a loan hides is never itself a loan: the group it returns to is the one
\* of a plan or the default one.
LoanReturnsToOwnGroup ==
    OnLoan(user) => OrDefault(user.restore) \in {Default} \cup
        {PlanOf[p].upgrade : p \in {subs[i].plan : i \in {j \in Ids : subs[j].source \in {"order", "admin"}}}}

\* No group is lent to a user who has a subscription: the code stays unused,
\* where the database locks the gap the check has read.
NoLoanOverSubscription ==
    [][GapLocks => \A c \in Codes : code[c] = "redeeming" /\ code'[c] = "used"
         => \A i \in Ids : ~InForce(i)]_groupVars

\* Plans and loans give a group for their time and then return the user's own
\* (downgradeUserGroupForSubscriptionTx, applyUserGroupEntitlementTx).
GroupsReturn == GroupTypeOK /\ NoGroupOutlivesItsPlan /\ LoanReturnsToOwnGroup
=============================================================================
