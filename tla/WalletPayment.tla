--------------------------- MODULE WalletPayment ---------------------------
(***************************************************************************)
(* Topping up the wallet in the web front end: the usePayment hook, the    *)
(* amount field and the confirmation dialog of the wallet page, and the    *)
(* payment windows the hook opens and watches.                             *)
(*                                                                         *)
(* Everything is asynchronous and may overlap: quotes for the amounts that *)
(* were typed, the request that makes an order, the polls of a window's    *)
(* monitor.  The hook keeps two references to tell what is current: the    *)
(* number of the last quote request and the active monitor.                *)
(*                                                                         *)
(* The n-th payment has the n-th window, order and monitor.  A quote is    *)
(* named by the amount it is for; 0 is "no valid amount".                  *)
(***************************************************************************)
EXTENDS Integers, FiniteSets

CONSTANTS
    Amounts,        \* valid amounts, positive
    MaxPolls,      \* polls of one monitor (300 in the code)
    GracePolls,    \* polls after the window was closed (2 in the code)
    MaxQuotes,      \* bound on quote requests
    MaxPayments     \* bound on payments

ASSUME AmountsPositive == Amounts \subseteq Nat \ {0}
ASSUME ChecksPositive == MaxPolls \in Nat \ {0} /\ GracePolls \in Nat
ASSUME PaymentBounds == MaxQuotes \in Nat /\ MaxPayments \in Nat

VARIABLES
    page,       \* amount typed, quote shown, dialog and whether still mounted
    quote,      \* the quote requests: amount asked for, and whether answered
    quoteRef,   \* quoteRequestRef: number of the last quote request
    pay,        \* the payments: window, monitor, and what was reported
    active,     \* activeMonitorRef: the payment whose monitor is active, or 0
    status      \* the server's orders

paymentVars == <<page, quote, quoteRef, pay, active, status>>

Payments == 1 .. MaxPayments
Started == {n \in Payments : pay[n].pc # "none"}
Latest == Cardinality(Started)

NoPayment == [pc |-> "none", popup |-> "none", aborted |-> FALSE, checks |-> 0,
              grace |-> -1, result |-> "none", reported |-> "none"]

PaymentInit ==
    /\ page = [input |-> 0, shown |-> 0, calculating |-> FALSE, selecting |-> 0,
               dialog |-> FALSE, processing |-> FALSE, mounted |-> TRUE]
    /\ quote = [q \in 1 .. MaxQuotes |-> [amount |-> 0, pending |-> FALSE]]
    /\ quoteRef = 0
    /\ pay = [n \in Payments |-> NoPayment]
    /\ active = 0
    /\ status = [n \in Payments |-> "none"]

-----------------------------------------------------------------------------
(* Quotes.                                                                 *)

\* calculatePaymentAmount up to its await, and the page as row for the rest.
Ask(amount, row) ==
    /\ quoteRef < MaxQuotes
    /\ quoteRef' = quoteRef + 1
    /\ IF amount = 0
       THEN /\ page' = [row EXCEPT !.shown = 0, !.calculating = FALSE]
            /\ UNCHANGED quote
       ELSE /\ page' = [row EXCEPT !.calculating = TRUE]
            /\ quote' = [quote EXCEPT ![quoteRef + 1] = [amount |-> amount, pending |-> TRUE]]
    /\ UNCHANGED <<pay, active, status>>

\* An edit or a preset.  The confirmation dialog, when open, is in front.
EditAmount(amount) ==
    /\ page.mounted /\ ~page.dialog
    /\ Ask(amount, [page EXCEPT !.input = amount])

\* A payment method is chosen: ask again, then show the dialog.
SelectMethod ==
    /\ page.mounted /\ ~page.dialog /\ page.selecting = 0 /\ page.input # 0
    /\ Ask(page.input, [page EXCEPT !.selecting = quoteRef + 1])

\* Mutant: any answer is shown.
ShownAfterAny(q, amount) == [page EXCEPT !.shown = amount, !.calculating = FALSE]
\* An answer is used only by the last request.
ShownAfter(q, amount) ==
    IF q = quoteRef THEN [page EXCEPT !.shown = amount, !.calculating = FALSE] ELSE page

\* The quote arrives, or the request fails and nothing is shown; the choice of
\* a method that waited for it opens the dialog either way.
QuoteAnswered(q) ==
    /\ quote[q].pending
    /\ quote' = [quote EXCEPT ![q].pending = FALSE]
    /\ \E amount \in {quote[q].amount, 0} :
         LET row == ShownAfter(q, amount)
         IN page' = IF row.selecting = q
                    THEN [row EXCEPT !.selecting = 0, !.dialog = row.mounted] ELSE row
    /\ UNCHANGED <<quoteRef, pay, active, status>>

-----------------------------------------------------------------------------
(* Payments.                                                               *)

\* stopActiveMonitor: abort the active monitor, and close its window too.
StopActiveMonitor(closePopup) ==
    IF active = 0 THEN pay
    ELSE [pay EXCEPT ![active].aborted = TRUE,
                     ![active].popup = IF closePopup THEN "closed" ELSE @]

\* The user confirms: the previous monitor is stopped and the window opened
\* within the gesture, unless the browser blocks it.
ConfirmPayment ==
    /\ page.dialog /\ ~page.processing /\ page.input > 0
    /\ Latest < MaxPayments
    /\ active' = 0
    /\ \/ /\ pay' = [StopActiveMonitor(TRUE) EXCEPT ![Latest + 1].pc = "request",
                                                     ![Latest + 1].popup = "open"]
          /\ page' = [page EXCEPT !.processing = TRUE]
       \/ /\ pay' = StopActiveMonitor(TRUE)
          /\ UNCHANGED page
    /\ UNCHANGED <<quote, quoteRef, status>>

\* requestPayment answers with an order: the form is submitted into the window
\* and its monitor becomes the active one.
OrderMade(n) ==
    /\ pay[n].pc = "request"
    /\ status' = [status EXCEPT ![n] = "pending"]
    /\ pay' = [pay EXCEPT ![n].pc = "check"]
    /\ active' = n
    /\ page' = [page EXCEPT !.processing = FALSE, !.dialog = FALSE]
    /\ UNCHANGED <<quote, quoteRef>>

\* It refuses, answers without an order, or is lost (an order may have been
\* made all the same): the window is closed.  A closed payment channel closes
\* the dialog too.
OrderRefused(n) ==
    /\ pay[n].pc = "request"
    /\ \E made \in {"none", "pending"}, open \in BOOLEAN :
         /\ status' = [status EXCEPT ![n] = made]
         /\ page' = [page EXCEPT !.processing = FALSE, !.dialog = @ /\ open]
    /\ pay' = [pay EXCEPT ![n].pc = "ended", ![n].popup = "closed"]
    /\ UNCHANGED <<quote, quoteRef, active>>

-----------------------------------------------------------------------------
(* monitorPaymentWindow.                                                   *)

Ended(n, result) == [pay EXCEPT ![n].pc = "result", ![n].result = result]

\* The head of the loop: stop when aborted or after the last check, else ask
\* for the order's status.
CheckLoop(n) ==
    IF pay[n].aborted THEN Ended(n, "cancelled")
    ELSE IF pay[n].checks = MaxPolls THEN Ended(n, "pending")
    ELSE [pay EXCEPT ![n].pc = "status"]

Check(n) ==
    /\ pay[n].pc = "check"
    /\ pay' = CheckLoop(n)
    /\ UNCHANGED <<page, quote, quoteRef, active, status>>

\* The status arrives, or its request fails and decides nothing.  A window
\* that is closed leaves a few more checks.
StatusAnswered(n) ==
    /\ pay[n].pc = "status"
    /\ \/ /\ status[n] \in {"success", "failed"}
          /\ pay' = Ended(n, status[n])
       \/ LET waiting == [pay EXCEPT ![n].pc = "check", ![n].checks = @ + 1]
          IN pay' = IF pay[n].popup # "closed" THEN waiting
                    ELSE IF pay[n].grace = 0 THEN Ended(n, "pending")
                    ELSE [waiting EXCEPT ![n].grace =
                            IF @ = -1 THEN GracePolls ELSE @ - 1]
    /\ UNCHANGED <<page, quote, quoteRef, active, status>>

\* The monitor returned.  Only the active one reports, and is over then.
IsActiveAlways(n) == TRUE
IsActive(n) == active = n

ReportResult(n) ==
    /\ pay[n].pc = "result"
    /\ IF IsActive(n)
       THEN /\ active' = 0
            /\ pay' = [pay EXCEPT ![n].pc = "ended",
                         ![n].reported = IF pay[n].result = "cancelled" THEN "none"
                                         ELSE pay[n].result,
                         ![n].popup = IF pay[n].result = "success" THEN "closed" ELSE @]
       ELSE /\ pay' = [pay EXCEPT ![n].pc = "ended"]
            /\ UNCHANGED active
    /\ UNCHANGED <<page, quote, quoteRef, status>>

-----------------------------------------------------------------------------
(* The page and the world.                                                 *)

\* Its button is disabled while a request is under way; the Escape key is not.
CancelDialog ==
    /\ page.dialog
    /\ page' = [page EXCEPT !.dialog = FALSE]
    /\ UNCHANGED <<quote, quoteRef, pay, active, status>>

\* Leaving the page aborts the active monitor and leaves its window open.
Unmount ==
    /\ page.mounted
    /\ page' = [page EXCEPT !.mounted = FALSE, !.dialog = FALSE]
    /\ pay' = StopActiveMonitor(FALSE)
    /\ active' = 0
    /\ UNCHANGED <<quote, quoteRef, status>>

ClosePayment(n) ==
    /\ pay[n].popup = "open"
    /\ pay' = [pay EXCEPT ![n].popup = "closed"]
    /\ UNCHANGED <<page, quote, quoteRef, active, status>>

\* The order is paid, or fails or expires, whatever became of its window.
SettleOrder(n) ==
    /\ status[n] = "pending"
    /\ \E s \in {"success", "failed"} : status' = [status EXCEPT ![n] = s]
    /\ UNCHANGED <<page, quote, quoteRef, pay, active>>

PaymentStep(n) == OrderMade(n) \/ OrderRefused(n) \/ Check(n) \/ StatusAnswered(n)
                \/ ReportResult(n)

PaymentNext ==
    \/ \E amount \in Amounts \cup {0} : EditAmount(amount)
    \/ SelectMethod
    \/ \E q \in 1 .. MaxQuotes : QuoteAnswered(q)
    \/ ConfirmPayment \/ CancelDialog \/ Unmount
    \/ \E n \in Payments : PaymentStep(n) \/ ClosePayment(n) \/ SettleOrder(n)

PaymentSpec == PaymentInit /\ [][PaymentNext]_paymentVars

\* Requests end, in an answer or an error, and timers fire.
FairPaymentSpec ==
    /\ PaymentSpec
    /\ \A q \in 1 .. MaxQuotes : WF_paymentVars(QuoteAnswered(q))
    /\ \A n \in Payments : WF_paymentVars(PaymentStep(n))

-----------------------------------------------------------------------------
(* Properties.                                                             *)

\* The values the variables range over.
PaymentTypeOK ==
    /\ page \in [input : Amounts \cup {0}, shown : Amounts \cup {0}, calculating : BOOLEAN,
                 selecting : 0 .. MaxQuotes, dialog : BOOLEAN, processing : BOOLEAN,
                 mounted : BOOLEAN]
    /\ quote \in [1 .. MaxQuotes -> [amount : Amounts \cup {0}, pending : BOOLEAN]]
    /\ quoteRef \in 0 .. MaxQuotes
    /\ \A n \in Payments :
         /\ pay[n].pc \in {"none", "request", "check", "status", "result", "ended"}
         /\ pay[n].checks \in 0 .. MaxPolls /\ pay[n].grace \in -1 .. GracePolls
    /\ active \in 0 .. MaxPayments
    /\ status \in [Payments -> {"none", "pending", "success", "failed"}]

\* A quote on show is the quote of the amount in the field, in whatever order
\* the quotes asked for while typing come back: what the user confirms in the
\* dialog is what the order will cost.
QuoteIsForInput == ~page.calculating => page.shown \in {0, page.input}

\* Two windows are never watched for payment at once: starting a payment ends
\* the one before it.
OneWindowWatched ==
    Cardinality({n \in Payments : /\ pay[n].pc \in {"request", "check", "status"}
                                  /\ pay[n].popup = "open" /\ ~pay[n].aborted}) <= 1

\* A verdict is reported only of the latest payment, and is the server's: a
\* poll that was under way when its payment was superseded says nothing.
OnlyLatestReports ==
    [][\A n \in Payments : pay[n].reported # pay'[n].reported =>
         n = Latest /\ (pay'[n].reported \in {"success", "failed"}
                          => pay'[n].reported = status[n])]_paymentVars

\* A confirmed payment releases the dialog, and every monitor ends.
PaymentsEnd ==
    /\ page.processing ~> ~page.processing
    /\ \A n \in Payments : pay[n].pc = "check" ~> pay[n].pc = "ended"

\* The page shows the price of what is entered and watches one window (usePayment).
PaymentHonest == PaymentTypeOK /\ QuoteIsForInput /\ OneWindowWatched

\* Each payment ends, and its verdict is reported only while it is the latest.
PaymentReported == OnlyLatestReports /\ PaymentsEnd
=============================================================================
