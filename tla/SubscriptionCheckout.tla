------------------------- MODULE SubscriptionCheckout -------------------------
(***************************************************************************)
(* The checkout dialog of the web front end, composed with the server's    *)
(* orders (SubscriptionOrder): useSubscriptionCheckoutPayment, the slide   *)
(* that confirms a payment, the payment window and its monitor.            *)
(*                                                                         *)
(* One confirmation is a chain of awaits: open the window in the user's    *)
(* gesture, create the order under a stable request id, submit the form    *)
(* into the window, poll the order.  At every await the dialog may be      *)
(* unmounted, the account may change, the user may close the window and    *)
(* the request or its answer may get lost.                                 *)
(*                                                                         *)
(* A request id stands for the trade number the server makes of it; the    *)
(* dialog is for one plan and lives for one mount.                         *)
(***************************************************************************)
EXTENDS SubscriptionOrder, Integers

CONSTANTS
    Plan,           \* the plan of the dialog
    Methods,        \* external payment methods
    None,           \* no order, no request id
    MaxChecks,      \* polls of one monitor (300 in the code)
    GraceChecks,    \* polls after the window was closed (2 in the code)
    MaxConfirms     \* bound on confirmations

ASSUME CheckoutAssumptions ==
    /\ Plan \in Plans
    /\ "balance" \notin Methods
    /\ None \notin Orders
    /\ MaxChecks \in Nat \ {0} /\ GraceChecks \in Nat

VARIABLES
    ui,             \* the hook's refs and state, and where its mutation stands
    requestIds,     \* requests.current: request id of each method
    confirms        \* confirmations so far

cvars == <<vars, ui, requestIds, confirms>>
dialog == <<ui, requestIds, confirms>>

Running == {"request", "answer", "balance", "monitor", "result"}

UiRow ==
    [pc : {"idle"} \cup Running, method : Methods \cup {"balance"},
     locked : BOOLEAN, running : BOOLEAN, paid : BOOLEAN, review : BOOLEAN,
     live : BOOLEAN, account : BOOLEAN,     \* mounted; the account it was opened for
     pendingOrder : Orders \cup {None},
     popup : {"none", "open", "closed"},
     checks : 0 .. MaxChecks, grace : -1 .. GraceChecks,
     result : {"none", "success", "failed", "review", "pending", "cancelled"},
     reveal : {"none", "timer", "shown"}]

CheckoutInit ==
    /\ Init
    /\ ui = [pc |-> "idle", method |-> "balance", locked |-> FALSE, running |-> FALSE,
             paid |-> FALSE, review |-> FALSE, live |-> TRUE, account |-> TRUE,
             pendingOrder |-> None, popup |-> "none",
             checks |-> 0, grace |-> -1, result |-> "none", reveal |-> "none"]
    /\ requestIds = [m \in Methods |-> None]
    /\ confirms = 0

CurrentAccount == ui.live /\ ui.account

Known == {requestIds[m] : m \in Methods} \cup {o \in Orders : order[o].status # "none"}
            \cup {ui.pendingOrder}

\* The confirmation throws: the slide returns and the hook is unlocked.
Failed(row) == [row EXCEPT !.pc = "idle", !.locked = FALSE, !.running = FALSE]

-----------------------------------------------------------------------------
(* Confirming. *)

\* commit() and confirm(): the window is opened before anything is awaited.
\* If the browser blocks it, nothing has happened.
\* With an order pending the same order is monitored again, and the choice
\* of the method is disabled.
Confirm(m) ==
    /\ confirms < MaxConfirms
    /\ ui.pc = "idle"
    /\ ~ ui.running /\ ~ ui.locked /\ ~ ui.paid /\ ~ ui.review
    /\ CurrentAccount
    /\ ui.pendingOrder # None => m = ui.method
    /\ confirms' = confirms + 1
    /\ LET row == [ui EXCEPT !.running = TRUE, !.locked = TRUE, !.method = m]
       IN \/ /\ m = "balance"
             /\ ui' = [row EXCEPT !.pc = "balance"]
             /\ UNCHANGED requestIds
          \/ /\ m # "balance" /\ ui.pendingOrder # None
             /\ ui' = [row EXCEPT !.pc = "monitor", !.checks = 0, !.grace = -1]
             /\ UNCHANGED requestIds
          \/ /\ m # "balance" /\ ui.pendingOrder = None
             /\ ui' = [row EXCEPT !.pc = "request", !.popup = "open"]
             /\ \E o \in Orders :
                  /\ IF requestIds[m] = None THEN o \notin Known ELSE o = requestIds[m]
                  /\ requestIds' = [requestIds EXCEPT ![m] = o]
    /\ UNCHANGED vars

-----------------------------------------------------------------------------
(* createSubscriptionPayment. *)

Asked == requestIds[ui.method]

\* The request arrives: the server creates the order or finds it pending.
ServerCreates ==
    /\ ui.pc = "request"
    /\ CreateOrder(Asked, Plan) \/ (order[Asked].plan = Plan /\ RepeatOrder(Asked))
    /\ ui' = [ui EXCEPT !.pc = "answer"]
    /\ UNCHANGED <<requestIds, confirms>>

\* The answer is a refusal: the id is given up and the window closed.
Refused ==
    /\ ui' = Failed([ui EXCEPT !.popup = "closed"])
    /\ requestIds' = [requestIds EXCEPT ![ui.method] = None]
    /\ UNCHANGED confirms

\* The server refuses: nothing to sell, an order no longer pending, or a price
\* other than the one displayed.
ServerRefuses ==
    /\ ui.pc = "request"
    /\ Refused
    /\ UNCHANGED vars

\* The payment request could not be built: the order is expired.
ServerFails ==
    /\ ui.pc = "answer"
    /\ ExpireOrder(Asked)
    /\ Refused

\* The request or its answer is lost: the mutation throws and the id stays.
RequestLost ==
    /\ ui.pc \in {"request", "answer"}
    /\ ui' = Failed(ui)
    /\ requests' = IF ui.pc = "answer" THEN [requests EXCEPT ![Asked] = @ - 1] ELSE requests
    /\ UNCHANGED <<world, subs, books, gateway, binding, binds, requestIds, confirms>>

\* Mutant: the order is opened whoever looks at the page by now.
SubmitAnyway ==
    /\ ui.pc = "answer"
    /\ OpenGateway(Asked)
    /\ ui' = [ui EXCEPT !.pc = "monitor", !.pendingOrder = Asked, !.checks = 0, !.grace = -1]
    /\ UNCHANGED <<requestIds, confirms>>

\* The answer arrives.  On the page and account it was asked for, the order is
\* remembered and the form submitted into the window; else nothing is opened.
SubmitPaymentForm ==
    /\ ui.pc = "answer"
    /\ \/ /\ CurrentAccount
          /\ OpenGateway(Asked)
          /\ ui' = [ui EXCEPT !.pc = "monitor", !.pendingOrder = Asked, !.checks = 0, !.grace = -1]
       \/ /\ ~ CurrentAccount
          /\ ui' = Failed(ui)
          /\ requests' = [requests EXCEPT ![Asked] = @ - 1]
          /\ UNCHANGED <<world, subs, books, gateway, binding, binds>>
    /\ UNCHANGED <<requestIds, confirms>>

-----------------------------------------------------------------------------
(* monitorPaymentWindow. *)

Verdict(o) ==
    CASE order[o].status = "success" -> "success"
      [] order[o].status = "expired" -> "failed"
      [] order[o].status = "paid_review" -> "review"
      [] OTHER -> "none"

\* A poll that decided nothing: give up after the last one, or when the window
\* has been closed for the polls of grace.
NextCheck ==
    LET last == ui.checks + 1 >= MaxChecks
        row == [ui EXCEPT !.checks = @ + 1]
        over == [row EXCEPT !.pc = "result", !.result = "pending"]
    IN IF ui.popup # "closed" THEN (IF last THEN over ELSE row)
       ELSE IF ui.grace = 0 \/ last THEN over
       ELSE [row EXCEPT !.grace = IF @ = -1 THEN GraceChecks ELSE @ - 1]

\* One round of the loop: stop when aborted, else ask for the order's status;
\* a request that fails is no verdict.
Poll ==
    /\ ui.pc = "monitor"
    /\ \/ /\ ~ ui.live
          /\ ui' = [ui EXCEPT !.pc = "result", !.result = "cancelled"]
       \/ /\ ui.live
          /\ Verdict(ui.pendingOrder) # "none"
          /\ ui' = [ui EXCEPT !.pc = "result", !.result = Verdict(ui.pendingOrder)]
       \/ /\ ui.live
          /\ ui' = NextCheck
    /\ UNCHANGED <<vars, requestIds, confirms>>

\* Mutant: every end but success gives the order up.
ForgetUnlessPaid(row) ==
    IF ui.result = "success" THEN row ELSE [row EXCEPT !.pendingOrder = None]

\* Only an order that failed or expired is given up: an unconfirmed one is
\* retained.
ForgetIfFailed(row) ==
    IF ui.result = "failed" THEN [row EXCEPT !.pendingOrder = None] ELSE row

Successful == ui.result = "success"

\* The mutation returns or throws, and confirm() and commit() after it.
HandleResult ==
    /\ ui.pc = "result"
    /\ LET row == [ui EXCEPT !.result = "none"]
       IN ui' = IF Successful
                THEN LET done == [row EXCEPT !.popup = "closed", !.pc = "idle", !.locked = FALSE]
                     IN IF CurrentAccount THEN [done EXCEPT !.paid = TRUE, !.reveal = "timer"]
                                          ELSE Failed(done)
                ELSE Failed(ForgetIfFailed([row EXCEPT !.review = @ \/ ui.result = "review"]))
    /\ UNCHANGED <<vars, requestIds, confirms>>

-----------------------------------------------------------------------------
(* Paying from the wallet, and the rest of the page. *)

\* paySubscriptionBalance, answered; or refused, or lost on either way.
PayBalance ==
    /\ ui.pc = "balance"
    /\ \/ /\ PurchaseWithBalance(Plan)
          /\ \/ ui' = IF CurrentAccount
                      THEN [ui EXCEPT !.pc = "idle", !.locked = FALSE, !.paid = TRUE, !.reveal = "timer"]
                      ELSE Failed(ui)
             \/ ui' = Failed(ui)
       \/ /\ ui' = Failed(ui)
          /\ UNCHANGED vars
    /\ UNCHANGED <<requestIds, confirms>>

\* A second after the success the dialog closes and the pack is revealed.
Reveal ==
    /\ ui.reveal = "timer"
    /\ ui.live
    /\ ui' = IF ui.account THEN [ui EXCEPT !.reveal = "shown", !.live = FALSE]
                           ELSE [ui EXCEPT !.reveal = "none"]
    /\ UNCHANGED <<vars, requestIds, confirms>>

\* The dialog is unmounted: the timer is cleared and the monitor aborted.
Leave ==
    /\ ui.live
    /\ ui' = [ui EXCEPT !.live = FALSE, !.reveal = IF @ = "timer" THEN "none" ELSE @]
    /\ UNCHANGED <<vars, requestIds, confirms>>

\* Another account signs in; the page notices when it renders.
SwitchAccount ==
    /\ ui.account
    /\ ui' = [ui EXCEPT !.account = FALSE]
    /\ UNCHANGED <<vars, requestIds, confirms>>

\* External: the user closes the payment window.
ClosePopup ==
    /\ ui.popup = "open"
    /\ ui' = [ui EXCEPT !.popup = "closed"]
    /\ UNCHANGED <<vars, requestIds, confirms>>

\* What happens to the orders meanwhile: payments, their callbacks, and a
\* purchase made elsewhere.
Elsewhere ==
    /\ \/ \E o \in Orders : Pay(o) \/ CompleteOrder(o)
       \/ ui.pc # "balance" /\ PurchaseWithBalance(Plan)
    /\ UNCHANGED dialog

Browser ==
    \/ ServerCreates \/ ServerRefuses \/ ServerFails \/ RequestLost \/ SubmitPaymentForm
    \/ Poll \/ HandleResult \/ PayBalance

CheckoutNext ==
    \/ \E m \in Methods \cup {"balance"} : Confirm(m)
    \/ Browser
    \/ Reveal \/ Leave \/ SwitchAccount \/ ClosePopup
    \/ Elsewhere

CheckoutSpec == CheckoutInit /\ [][CheckoutNext]_cvars

\* Awaited requests end, in an answer or an error, and timers fire.
FairCheckoutSpec == CheckoutSpec /\ WF_cvars(Browser)

-----------------------------------------------------------------------------
(* Properties. *)

\* The type of the dialog's state.
CheckoutTypeOK ==
    /\ ui \in UiRow
    /\ requestIds \in [Methods -> Orders \cup {None}]

\* The dialog says "paid" only of a plan that was granted, and "under review"
\* only of an order the server has put there.
ShownIsTrue ==
    /\ ui.paid => IF ui.method = "balance" THEN \E i \in Ids : subs[i].by = "balance"
                  ELSE \E o \in Orders : o = ui.pendingOrder /\ order[o].status = "success"
    /\ ui.review => \E o \in Orders : o = ui.pendingOrder /\ order[o].status = "paid_review"

\* A checkout never has two orders the user could pay: lost answers, failed
\* requests and a changed method lead back to the same order, or to a new one
\* only after the old one was given up by the server.
OneOrderToPay ==
    Cardinality({o \in Orders : gateway[o] # "none" /\ order[o].status = "pending"}) <= 1

\* Once the dialog is gone, or is another account's, it opens no payment.
OpensNothingAfterLeaving ==
    [][\A o \in Orders : gateway[o] = "none" /\ gateway'[o] = "open" => CurrentAccount]_cvars

\* A confirmation always comes back: the slide and the hook are released.
ConfirmReturns == ui.locked ~> ~ ui.locked

\* The dialog tells the truth and leaves one order open at most
\* (useSubscriptionCheckoutPayment).
CheckoutHonest == CheckoutTypeOK /\ ShownIsTrue /\ OneOrderToPay

\* A dialog that was left does nothing more, one that stays comes to an end.
CheckoutEnds == OpensNothingAfterLeaving /\ ConfirmReturns
=============================================================================
