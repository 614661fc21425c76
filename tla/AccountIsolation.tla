-------------------------- MODULE AccountIsolation --------------------------
(***************************************************************************)
(* The web front end's signed-in identity, in the tabs of one browser.     *)
(*                                                                         *)
(* An identity is kept in three places that change at different moments:   *)
(* the session cookie and localStorage, which all tabs share, and the auth *)
(* store of each tab (stores/auth-store.ts).  lib/api.ts stamps every      *)
(* request with the account scope <<sessionVersion, uid>> and drops an     *)
(* answer whose scope is no longer the tab's; bindAccountQueryCache        *)
(* empties the query cache when the version moves; main.tsx reloads a tab  *)
(* whose stored user another tab has replaced; the _authenticated route    *)
(* verifies a session once per version.                                    *)
(*                                                                         *)
(* A request is issued by a tab, passes the request interceptor and leaves *)
(* with the cookie of that moment ("sent"), is answered by the server, the *)
(* browser applying Set-Cookie ("arrived"), and is handled by the tab's    *)
(* response interceptor and by whoever awaits it.  The session store is    *)
(* the cookie itself (cookie.NewStore), so the answer depends on the       *)
(* cookie and the header the request left with.                            *)
(*                                                                         *)
(* A person is slower than a storage event: what a user does (sign in,     *)
(* sign out, navigate) happens when every tab has seen the events already  *)
(* fired.  What the program does by itself races with them freely.         *)
(***************************************************************************)
EXTENDS Integers, FiniteSets

CONSTANTS Tabs, Accounts, Requests, Nobody,
          MaxVersion,   \* bound on account changes after which a page still acts
          MaxLogins,    \* bound on the sign-ins submitted
          MaxFaults,    \* bound on requests that fail and sessions that are forgotten
          OverlappingSignIns  \* do two tabs sign in at the same time?

ASSUME NoneIsNoAccount == Nobody \notin Accounts
ASSUME BoundsAreNaturals == /\ MaxVersion \in Nat
                            /\ MaxLogins \in Nat
                            /\ MaxFaults \in Nat
                            /\ OverlappingSignIns \in BOOLEAN

VARIABLES
  cookie,    \* the account and the sign-in the session cookie stands for
  lsUser,    \* localStorage 'user': the id of the stored user
  lsUid,     \* localStorage 'uid'
  tab,       \* each tab's page, auth store and query cache
  req,       \* the requests under way
  logins,    \* sign-ins submitted so far; numbers them
  signedIn,  \* the last sign-in whose user was stored
  faults     \* requests failed and sessions forgotten so far

tabsVars == <<cookie, lsUser, lsUid, tab, req, logins, signedIn, faults>>

Ids == Accounts \cup {Nobody}
SignedOut == [account |-> Nobody, login |-> 0]
Unverified == -1

NoRequest == [st |-> "idle"]
Kinds == {"query", "self", "login", "logout"}

(* A page as it is just after loading: the store is filled from localStorage *)
(* and nothing has been verified.                                            *)
FreshTab(stored) ==
  [page |-> "loading", user |-> stored, version |-> 0, verified |-> Unverified,
   cache |-> {}, pending |-> FALSE, confirmed |-> Nobody]

(* A browser that nobody has used and that may meet faults, or one of a     *)
(* returning user that meets none, unless the session has ended meanwhile.  *)
(* Its tabs have just been opened, or show the sign-in page.                *)
TabsInit ==
  /\ \E stored \in Ids, page \in {"loading", "out"} :
       /\ stored # Nobody => page = "loading"
       /\ \E session \in {stored, Nobody} : cookie = [account |-> session, login |-> 0]
       /\ lsUser = stored /\ lsUid = stored
       /\ tab = [t \in Tabs |-> [FreshTab(stored) EXCEPT !.page = page]]
  /\ req = [r \in Requests |-> NoRequest]
  /\ logins = 0 /\ signedIn = 0
  /\ faults = IF lsUser = Nobody THEN 0 ELSE MaxFaults

-----------------------------------------------------------------------------
(* Requests.                                                               *)

getAccountScope(t) == <<tab[t].version, lsUid>>

DedupeKey(t) == getAccountScope(t)

Busy(r) == req[r].st # "idle"
OfTab(r, t) == Busy(r) /\ req[r].tab = t /\ ~req[r].orphan

NewRequest(t, kind, account, waiters, key, scope) ==
  [st |-> "issued", tab |-> t, kind |-> kind, account |-> account,
   key |-> key, scope |-> scope, waiters |-> waiters, header |-> Nobody,
   cookie |-> SignedOut, after |-> 0, answer |-> "none", orphan |-> FALSE]

(* api.get: join the request already under way for the same scope and URL, *)
(* or start one.  rs are the requests to start from, key and scope the     *)
(* tab's at that moment; the result is the set of possible requests after. *)
Get(rs, t, kind, who, key, scope) ==
  LET waiter == [who |-> who, scope |-> scope]
      same == {r \in Requests : /\ rs[r].st # "idle" /\ rs[r].tab = t
                                /\ ~rs[r].orphan /\ rs[r].kind = kind
                                /\ rs[r].key = key}
  IN IF same # {}
     THEN {[rs EXCEPT ![r].waiters = @ \cup {waiter}] : r \in same}
     ELSE {[rs EXCEPT ![r] = NewRequest(t, kind, Nobody, {waiter}, key, scope)] :
             r \in {r \in Requests : rs[r].st = "idle"}}

(* Mutant of Stale: only before the request is sent.                       *)
StaleUnsent(r) == req[r].st = "issued" /\ req[r].scope # getAccountScope(req[r].tab)

(* The tab has left the account scope a request was stamped with.          *)
Stale(r) == req[r].scope # getAccountScope(req[r].tab)

(* The request interceptor: the uid header and the scope of the request.  A *)
(* GET stamped with another scope is not sent (HandleCancelled); a POST is  *)
(* stamped only here.                                                       *)
Send(r) ==
  /\ req[r].st = "issued"
  /\ req[r].kind # "login" => ~Stale(r)
  /\ req' = [req EXCEPT ![r].st = "sent", ![r].scope = getAccountScope(req[r].tab), ![r].header = lsUid,
                        ![r].cookie = cookie, ![r].after = signedIn]
  /\ UNCHANGED <<cookie, lsUser, lsUid, tab, logins, signedIn, faults>>

(* What the server makes of a request: the session must be of the user the *)
(* header names, sign-in and sign-out need none.                           *)
AuthHelper(r) ==
  IF /\ req[r].kind \notin {"login", "logout"}
     /\ req[r].cookie = SignedOut \/ req[r].header # req[r].cookie.account
  THEN "unauthorized" ELSE "ok"

(* The answer reaches the browser, which applies Set-Cookie whatever became *)
(* of the page that asked.                                                  *)
Arrive(r) ==
  /\ req[r].st = "sent"
  /\ req' = [req EXCEPT ![r] = IF @.orphan THEN NoRequest
                               ELSE [@ EXCEPT !.st = "arrived",
                                              !.answer = AuthHelper(r)]]
  /\ cookie' = CASE req[r].kind = "login" ->
                      [account |-> req[r].account.id, login |-> req[r].account.login]
                 [] req[r].kind = "logout" -> SignedOut
                 [] OTHER -> cookie
  /\ UNCHANGED <<lsUser, lsUid, tab, logins, signedIn, faults>>

(* The network or the server fails, or a reloading page's request is aborted. *)
Fail(r) ==
  /\ req[r].st = "sent"
  /\ faults < MaxFaults /\ faults' = faults + 1
  /\ req' = [req EXCEPT ![r] = IF @.orphan THEN NoRequest
                               ELSE [@ EXCEPT !.st = "arrived", !.answer = "error"]]
  /\ UNCHANGED <<cookie, lsUser, lsUid, tab, logins, signedIn>>

SessionExpires ==
  /\ faults < MaxFaults /\ cookie # SignedOut
  /\ cookie' = SignedOut /\ faults' = faults + 1
  /\ UNCHANGED <<lsUser, lsUid, tab, req, logins, signedIn>>

-----------------------------------------------------------------------------
(* The auth store.                                                         *)

(* Mutant of CacheAfter: the cache stays.                                  *)
CacheAfterKept(rec, changed) == rec.cache

(* client.clear(): cached data and the queries under way are dropped.      *)
CacheAfter(rec, changed) == IF changed THEN {} ELSE rec.cache

WithoutQueries(rs, t) ==
  [r \in Requests |->
     IF OfTab(r, t) /\ rs[r].st # "idle"
     THEN [rs[r] EXCEPT !.waiters = {w \in @ : w.who # "query"}]
     ELSE rs[r]]

(* A changed 'user' item fires a storage event in the other tabs.  f is the *)
(* tabs after the step of t.                                                *)
Notify(f, t, stored) ==
  [u \in Tabs |-> IF u # t /\ stored # lsUser
                  THEN [f[u] EXCEPT !.pending = TRUE] ELSE f[u]]

(* setUser with a user that may be the same account's refreshed profile.   *)
SetUser(rec, id) ==
  LET changed == rec.user # id
  IN [rec EXCEPT !.user = id, !.version = @ + (IF changed THEN 1 ELSE 0),
                 !.cache = CacheAfter(rec, changed)]

(* reset always moves the version.                                         *)
Reset(rec) ==
  [rec EXCEPT !.user = Nobody, !.version = @ + 1, !.cache = CacheAfter(rec, TRUE)]

(* The step of t that stores id and leaves its own record as rec.          *)
Store(t, id, rec) ==
  /\ lsUser' = id
  /\ lsUid' = id
  /\ tab' = Notify([tab EXCEPT ![t] = rec], t, id)

-----------------------------------------------------------------------------
(* The response interceptor and the callers it answers.                    *)

Done(r) == [req EXCEPT ![r] = NoRequest]
Waits(r, who) == \E w \in req[r].waiters : w.who = who
Arrived(r) == req[r].st = "arrived"

(* Mutant of PageAfterFailure: it waits on.                                *)
PageAfterFailureStuck(rec, version) == IF rec.version # version THEN "loading" ELSE rec.page

(* Where the guard goes when its request failed without a 401: it lets the *)
(* page through unverified, unless the version moved while it waited,      *)
(* which sends it to /sign-in and from there, signed in, back.             *)
PageAfterFailure(rec, version) == IF rec.version # version THEN "loading" ELSE "app"

(* Sign-out goes on whether or not the server answered.                    *)
SignOutLocally(r) ==
  LET t == req[r].tab
  IN /\ Store(t, Nobody, [Reset(tab[t]) EXCEPT !.page = "out"])
     /\ req' = WithoutQueries(Done(r), t)
     /\ UNCHANGED <<cookie, logins, signedIn, faults>>

(* The answer of a scope the tab has left, or a request that was never     *)
(* sent: CanceledError.                                                    *)
HandleCancelled(r) ==
  /\ \/ req[r].st = "issued" /\ req[r].kind # "login"
     \/ Arrived(r)
  /\ Stale(r)
  /\ IF Waits(r, "signout") THEN SignOutLocally(r)
     ELSE LET t == req[r].tab
              guards == {w \in req[r].waiters : w.who = "guard"}
          IN /\ tab' = [tab EXCEPT ![t].page =
                          IF guards = {} THEN @
                          ELSE PageAfterFailure(tab[t], (CHOOSE w \in guards : TRUE).scope[1])]
             /\ req' = Done(r)
             /\ UNCHANGED <<cookie, lsUser, lsUid, logins, signedIn, faults>>

HandleFailed(r) ==
  /\ Arrived(r) /\ ~Stale(r) /\ req[r].answer = "error"
  /\ IF Waits(r, "signout") THEN SignOutLocally(r)
     ELSE /\ tab' = [tab EXCEPT ![req[r].tab].page =
                       IF Waits(r, "guard")
                       THEN PageAfterFailure(tab[req[r].tab], req[r].scope[1]) ELSE @]
          /\ req' = Done(r)
          /\ UNCHANGED <<cookie, lsUser, lsUid, logins, signedIn, faults>>

(* A 401: the interceptor resets the store.  The guard then finds the      *)
(* version moved and goes to /sign-in; a page already shown stays until it *)
(* navigates.  The guard does the same with an error the server reports in *)
(* a successful answer.                                                    *)
HandleUnauthorized(r) ==
  /\ Arrived(r) /\ ~Stale(r)
  /\ req[r].answer = "unauthorized" \/ (req[r].answer = "error" /\ Waits(r, "guard"))
  /\ LET t == req[r].tab
         rec == Reset(tab[t])
     IN /\ Store(t, Nobody, [rec EXCEPT !.page =
                             IF Waits(r, "guard") THEN "loading" ELSE @])
        /\ req' = WithoutQueries(Done(r), t)
  /\ UNCHANGED <<cookie, logins, signedIn, faults>>

(* The query cache takes the data of the account that asked.               *)
HandleQuery(r) ==
  /\ Arrived(r) /\ ~Stale(r) /\ req[r].answer = "ok" /\ req[r].kind = "query"
  /\ tab' = [tab EXCEPT ![req[r].tab].cache =
               IF Waits(r, "query") THEN @ \cup {req[r].cookie.account} ELSE @]
  /\ req' = Done(r)
  /\ UNCHANGED <<cookie, lsUser, lsUid, logins, signedIn, faults>>

(* A signed-in answer: handleLoginSuccess stores the uid, then asks for the *)
(* profile under the scope that follows.                                    *)
HandleLogin(r) ==
  /\ Arrived(r) /\ ~Stale(r) /\ req[r].answer = "ok" /\ req[r].kind = "login"
  /\ lsUid' = req[r].account.id
  /\ LET t == req[r].tab
         scope == <<tab[t].version, lsUid'>>
     IN req' \in Get(Done(r), t, "self", "login", scope, scope)
  /\ UNCHANGED <<cookie, lsUser, tab, logins, signedIn, faults>>

(* The profile for a sign-in: the store takes it and the page moves on.    *)
HandleProfile(r) ==
  /\ Arrived(r) /\ ~Stale(r) /\ req[r].answer = "ok" /\ req[r].kind = "self"
  /\ Waits(r, "login")
  /\ LET t == req[r].tab
         id == req[r].cookie.account
         rec == SetUser(tab[t], id)
     IN /\ Store(t, id, [rec EXCEPT !.page = "loading"])
        /\ signedIn' = req[r].cookie.login
        /\ req' = IF tab[t].user # id THEN WithoutQueries(Done(r), t) ELSE Done(r)
  /\ UNCHANGED <<cookie, logins, faults>>

(* The profile for the guard: the session of this version is verified.     *)
HandleVerified(r) ==
  /\ Arrived(r) /\ ~Stale(r) /\ req[r].answer = "ok" /\ req[r].kind = "self"
  /\ Waits(r, "guard")
  /\ LET t == req[r].tab
         id == req[r].cookie.account
         rec == SetUser(tab[t], id)
     IN /\ Store(t, id, [rec EXCEPT !.page = "app", !.confirmed = id,
                                    !.verified = rec.version])
        /\ req' = IF tab[t].user # id THEN WithoutQueries(Done(r), t) ELSE Done(r)
  /\ UNCHANGED <<cookie, logins, signedIn, faults>>

HandleLogout(r) ==
  /\ Arrived(r) /\ ~Stale(r) /\ req[r].answer = "ok" /\ req[r].kind = "logout"
  /\ SignOutLocally(r)

-----------------------------------------------------------------------------
(* What a page does by itself.                                             *)

(* beforeLoad of the _authenticated route, and of /sign-in, which sends a  *)
(* signed-in user here.                                                    *)
NeedsVerification(rec) == rec.verified # rec.version
BeforeLoad(t) ==
  /\ tab[t].page = "loading"
  /\ IF tab[t].user = Nobody
     THEN tab' = [tab EXCEPT ![t].page = "out"] /\ UNCHANGED req
     ELSE IF NeedsVerification(tab[t])
     THEN /\ tab' = [tab EXCEPT ![t].page = "checking"]
          /\ req' \in Get(req, t, "self", "guard", DedupeKey(t), getAccountScope(t))
     ELSE tab' = [tab EXCEPT ![t].page = "app"] /\ UNCHANGED req
  /\ UNCHANGED <<cookie, lsUser, lsUid, logins, signedIn, faults>>

(* A mounted page loads or refreshes private data.                         *)
Query(t) ==
  /\ tab[t].page = "app" /\ tab[t].version <= MaxVersion
  /\ req' \in Get(req, t, "query", "query", DedupeKey(t), getAccountScope(t))
  /\ UNCHANGED <<cookie, lsUser, lsUid, tab, logins, signedIn, faults>>

(* The storage event: reload when the stored user is no longer this tab's. *)
(* Requests not yet sent die with the page; answers on the way still reach *)
(* the browser.                                                            *)
MustReload(t) == lsUser # tab[t].user
StorageEvent(t) ==
  /\ tab[t].pending
  /\ IF MustReload(t)
     THEN /\ tab' = [tab EXCEPT ![t] = FreshTab(lsUser)]
          /\ req' = [r \in Requests |->
                       IF ~OfTab(r, t) THEN req[r]
                       ELSE IF req[r].st = "sent"
                       THEN [req[r] EXCEPT !.orphan = TRUE, !.waiters = {}]
                       ELSE NoRequest]
     ELSE tab' = [tab EXCEPT ![t].pending = FALSE] /\ UNCHANGED req
  /\ UNCHANGED <<cookie, lsUser, lsUid, logins, signedIn, faults>>

-----------------------------------------------------------------------------
(* What a user does.                                                       *)

EventsSeen == \A t \in Tabs : ~tab[t].pending

SigningIn(t) ==
  \E r \in Requests : OfTab(r, t) /\ (req[r].kind = "login" \/ Waits(r, "login"))

(* The sign-in form, disabled while this tab's own sign-in is under way.    *)
SubmitLogin(t) ==
  /\ EventsSeen
  /\ tab[t].page = "out" /\ tab[t].user = Nobody
  /\ tab[t].version <= MaxVersion /\ logins < MaxLogins
  /\ \A u \in IF OverlappingSignIns THEN {t} ELSE Tabs : ~SigningIn(u)
  /\ \E r \in Requests, a \in Accounts :
       /\ ~Busy(r)
       /\ req' = [req EXCEPT ![r] =
                    NewRequest(t, "login", [id |-> a, login |-> logins + 1], {},
                               <<-1, Nobody>>, getAccountScope(t))]
  /\ logins' = logins + 1
  /\ UNCHANGED <<cookie, lsUser, lsUid, tab, signedIn, faults>>

SignOut(t) ==
  /\ EventsSeen
  /\ tab[t].page = "app" /\ tab[t].user # Nobody
  /\ tab[t].version <= MaxVersion
  /\ ~\E r \in Requests : OfTab(r, t) /\ Waits(r, "signout")
  /\ req' \in Get(req, t, "logout", "signout", DedupeKey(t), getAccountScope(t))
  /\ UNCHANGED <<cookie, lsUser, lsUid, tab, logins, signedIn, faults>>

Navigate(t) ==
  /\ EventsSeen
  /\ tab[t].page = "app"
  /\ tab' = [tab EXCEPT ![t].page = "loading"]
  /\ UNCHANGED <<cookie, lsUser, lsUid, req, logins, signedIn, faults>>

Handle(r) ==
  \/ HandleCancelled(r) \/ HandleFailed(r) \/ HandleUnauthorized(r)
  \/ HandleQuery(r) \/ HandleLogin(r) \/ HandleProfile(r)
  \/ HandleVerified(r) \/ HandleLogout(r)

TabsNext ==
  \/ \E t \in Tabs : \/ BeforeLoad(t) \/ Query(t) \/ StorageEvent(t)
                     \/ SubmitLogin(t) \/ SignOut(t) \/ Navigate(t)
  \/ \E r \in Requests : Send(r) \/ Arrive(r) \/ Fail(r) \/ Handle(r)
  \/ SessionExpires

TabsSpec == TabsInit /\ [][TabsNext]_tabsVars

(* The event loop runs what is due and the network answers or fails; users *)
(* and sessions owe nothing.  Fairness of BeforeLoad is strong only because *)
(* the model has few requests to hand out, where the browser has plenty.    *)
TabsFairness ==
  /\ \A t \in Tabs : SF_tabsVars(BeforeLoad(t)) /\ WF_tabsVars(StorageEvent(t))
  /\ \A r \in Requests : /\ WF_tabsVars(Send(r)) /\ WF_tabsVars(Handle(r))
                         /\ WF_tabsVars(Arrive(r) \/ Fail(r))

FairTabsSpec == TabsSpec /\ TabsFairness

-----------------------------------------------------------------------------
(* The values each variable ranges over.                                   *)
TabsTypeOK ==
  /\ cookie \in [account : Ids, login : 0 .. MaxLogins]
  /\ lsUser \in Ids /\ lsUid \in Ids
  /\ \A t \in Tabs :
       /\ tab[t].page \in {"loading", "checking", "app", "out"}
       /\ tab[t].user \in Ids /\ tab[t].version \in Nat
       /\ tab[t].cache \subseteq Accounts /\ tab[t].pending \in BOOLEAN
  /\ \A r \in Requests : Busy(r) => req[r].kind \in Kinds /\ req[r].tab \in Tabs
  /\ logins \in 0 .. MaxLogins /\ signedIn \in 0 .. MaxLogins
  /\ faults \in 0 .. MaxFaults

(* Once a tab has seen the storage events fired, what its query cache holds *)
(* is data of the account it shows: neither an earlier account of this tab  *)
(* nor one signed in from another tab has left anything there.              *)
ShownDataIsOwn ==
  \A t \in Tabs : ~tab[t].pending /\ tab[t].user # Nobody =>
    tab[t].cache \subseteq {tab[t].user}

(* A tab that has seen the events shows the account localStorage names, so  *)
(* two such tabs never show two accounts.                                   *)
TabsFollowStorage == \A t \in Tabs : ~tab[t].pending => tab[t].user = lsUser

(* A version the guard counts as verified is one whose user the server     *)
(* itself named.                                                           *)
VerifiedByServer ==
  \A t \in Tabs : tab[t].verified = tab[t].version => tab[t].user = tab[t].confirmed

(* A 401 signs a tab out only when its request left after the browser's last *)
(* sign-in: a late refusal of an earlier session never ends a newer one.     *)
LateRefusalIsHarmless ==
  [][\A t \in Tabs, r \in Requests :
       /\ OfTab(r, t) /\ Arrived(r) /\ req[r].answer = "unauthorized"
       /\ req'[r].st = "idle" /\ tab[t].user # Nobody /\ tab'[t].user = Nobody
       /\ tab'[t].version > tab[t].version
       => req[r].after = signedIn]_tabsVars

(* A query that joined a request under way is cancelled only if the account *)
(* scope it asked in has gone: sharing requests never costs the account     *)
(* that is signed in its answer.                                            *)
SharedOnlyWithinAccount ==
  \A r \in Requests : Busy(r) /\ Stale(r) /\ ~req[r].orphan =>
    \A w \in req[r].waiters : w.scope # getAccountScope(req[r].tab)

(* A page that is loading or being verified is shown or sent to sign-in,   *)
(* whatever the network does and whichever tab changes the account.        *)
NavigationEnds ==
  \A t \in Tabs : tab[t].page \in {"loading", "checking"} ~> tab[t].page \in {"app", "out"}

(* Data, verdicts and shared requests stay with the account they belong to, *)
(* in every tab (getAccountScope, bindAccountQueryCache, the storage        *)
(* listener and the route's guard together).                                *)
OwnAccountOnly ==
  /\ TabsTypeOK
  /\ ShownDataIsOwn
  /\ TabsFollowStorage
  /\ VerifiedByServer
  /\ SharedOnlyWithinAccount
=============================================================================
