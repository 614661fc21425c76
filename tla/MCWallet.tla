------------------------------ MODULE MCWallet ------------------------------
(***************************************************************************)
(* The wallet: how payments are credited to it (WalletTopUp) and where its *)
(* balance is kept (QuotaCache).  The two share no state, so their steps   *)
(* commute: a behaviour exercises the one `focus' names while the other    *)
(* rests.  Fairness is that of FairTopUpSpec and FairCacheSpec.            *)
(***************************************************************************)
EXTENDS WalletTopUp, QuotaCache

CONSTANTS n1, n2, o1, h1, h2, h3, m1, m2, m3, s1, s2

VARIABLE focus

walletVars == <<topUpVars, cacheVars, focus>>

Crediting == focus = "credits"
Caching   == focus = "caches"

WalletInit == TopUpInit /\ CacheInit /\ focus \in {"credits", "caches"}

WalletNext ==
    \/ Crediting /\ TopUpNext /\ UNCHANGED <<cacheVars, focus>>
    \/ Caching /\ CacheNext /\ UNCHANGED <<topUpVars, focus>>

WalletSpec ==
    /\ WalletInit /\ [][WalletNext]_walletVars
    /\ \A h \in Handlers : WF_topUpVars(Crediting /\ CallStep(h))
    /\ \A o \in Orders : WF_topUpVars(Crediting /\ Delivers(o))
    /\ \A s \in Slots : WF_cacheVars(Caching /\ Goroutine(s))
    /\ WF_cacheVars(Caching /\ BatchTake)
    /\ WF_cacheVars(Caching /\ (BatchWrite \/ BatchFail))
    /\ WF_cacheVars(Caching /\ TopUpInvalidate)
    /\ WF_cacheVars(Caching /\ Expire)
    /\ WF_cacheVars(Caching /\ ManageOn)
=============================================================================
