----------------------------- MODULE MCPurchase -----------------------------
(***************************************************************************)
(* A small instance of SubscriptionOrder, SubscriptionCheckout and         *)
(* WalletPayment.  In some behaviours the user has a checkout dialog open, *)
(* in others an order meets everything else that may happen to an account  *)
(* (the dialog shows no more of that than the purchase from the wallet in  *)
(* Elsewhere), and in others the user tops up the wallet.  Only one of the *)
(* two rarest events happens in one behaviour: a binding by an             *)
(* administrator or the replacement of the account.                        *)
(***************************************************************************)
EXTENDS SubscriptionCheckout, WalletPayment, TLC

CONSTANTS o1, o2, m1, m2

VARIABLE focus

purchaseVars == <<cvars, paymentVars, focus>>

\* The cheap plan may be bought any number of times, the other one once.
OnceOnly == 1 :> 0 @@ 2 :> 1

PurchaseInit == CheckoutInit /\ PaymentInit /\ focus \in {"dialog", "orders", "payment"}

PurchaseNext ==
    \/ focus = "dialog" /\ CheckoutNext /\ UNCHANGED <<paymentVars, focus>>
    \/ /\ focus = "orders" /\ Next /\ UNCHANGED <<dialog, paymentVars, focus>>
       /\ order'[o2] = NoOrder /\ (nonce' = 0 \/ binds' = 0)
    \/ focus = "payment" /\ PaymentNext /\ UNCHANGED <<cvars, focus>>

\* Fairness is that of FairSpec, FairCheckoutSpec and FairPaymentSpec.
PurchaseSpec ==
    /\ PurchaseInit /\ [][PurchaseNext]_purchaseVars
    /\ WF_cvars(focus = "dialog" /\ Browser)
    /\ WF_vars(focus = "orders" /\ BindCommit)
    /\ \A o \in Orders : WF_vars(CompleteOrder(o))
    /\ \A q \in 1 .. MaxQuotes : WF_paymentVars(focus = "payment" /\ QuoteAnswered(q))
    /\ \A n \in Payments : WF_paymentVars(focus = "payment" /\ PaymentStep(n))
=============================================================================
