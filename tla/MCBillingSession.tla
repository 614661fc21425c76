-------------------------- MODULE MCBillingSession --------------------------
(* A small instance of BillingSession for TLC. *)
EXTENDS BillingSession

CONSTANTS r1, r2

AllRoutes == {<<"wallet", "none">>, <<"wallet", "subscription">>,
              <<"subscription", "none">>, <<"subscription", "wallet">>}
=============================================================================
