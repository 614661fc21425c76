------------------------------ MODULE MCRelay -------------------------------
(***************************************************************************)
(* What the requests of a user cost (BillingSession), how the user comes   *)
(* to a group and leaves it (UserGroup), and the limits a group sets       *)
(* (GroupRateLease).  The three share no state: a behaviour exercises the  *)
(* one `focus' names while the others rest.                                *)
(***************************************************************************)
EXTENDS MCBillingSession, UserGroup, GroupRateLease, TLC

CONSTANTS basic, pro, c1, c2, free, light, vip, q1, q2, q3

VARIABLE focus

\* Each plan says where its users go when it ends.
Explicit ==
    basic :> [upgrade |-> light, downgrade |-> free, price |-> 1, length |-> 1] @@
    pro   :> [upgrade |-> vip,   downgrade |-> free, price |-> 2, length |-> 2]

\* The plans return a user to the group held before.
Returning ==
    basic :> [upgrade |-> light, downgrade |-> None, price |-> 1, length |-> 1] @@
    pro   :> [upgrade |-> vip,   downgrade |-> None, price |-> 2, length |-> 2]

\* Explicit plans with expiry that may come late and without gap locks;
\* returning plans with both.
Deployments ==
    {[plan |-> Explicit,  gapLocks |-> FALSE, promptExpiry |-> FALSE],
     [plan |-> Returning, gapLocks |-> TRUE,  promptExpiry |-> TRUE]}

Gifts ==
    c1 :> [group |-> light, minutes |-> 1] @@
    c2 :> [group |-> vip,   minutes |-> 2]

\* A limit of requests whose heartbeats may fail; a limit of successes; limits
\* of requests at a time and of tokens; a limit of tokens that tasks and
\* upstreams do not keep to.
Limits ==
    {[period |-> 3, requests |-> 2, concurrency |-> 0, successes |-> 0, tpm |-> 0,
      timely |-> FALSE, budgeted |-> TRUE],
     [period |-> 1, requests |-> 0, concurrency |-> 0, successes |-> 2, tpm |-> 0,
      timely |-> TRUE, budgeted |-> TRUE],
     [period |-> 1, requests |-> 0, concurrency |-> 2, successes |-> 0, tpm |-> 2,
      timely |-> TRUE, budgeted |-> TRUE],
     [period |-> 2, requests |-> 0, concurrency |-> 1, successes |-> 0, tpm |-> 1,
      timely |-> TRUE, budgeted |-> FALSE]}

Symmetry == Permutations(Calls)

\* What rests starts in one way.
RelayInit ==
    /\ Init /\ GroupInit /\ RateInit
    /\ focus \in {"billing", "membership", "limits"}
    /\ focus # "membership" => site = CHOOSE s \in Sites : TRUE
    /\ focus # "limits" => policy = CHOOSE p \in Policies : TRUE

RelayNext ==
    /\ \/ focus = "billing" /\ Next /\ UNCHANGED <<groupVars, rateVars>>
       \/ focus = "membership" /\ GroupNext /\ UNCHANGED <<vars, rateVars>>
       \/ focus = "limits" /\ RateNext /\ UNCHANGED <<vars, groupVars>>
    /\ UNCHANGED focus

RelaySpec == RelayInit /\ [][RelayNext]_<<vars, groupVars, rateVars, focus>>
=============================================================================
