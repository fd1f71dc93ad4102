-------------------------- MODULE CanteenPayments --------------------------
(***************************************************************************)
(* Paying for orders through the UPI gateway, composed with the orders     *)
(* themselves.  A call of POST /payments/checkout opens at most one        *)
(* payment, so a payment stands for that call as well.  The gateway is     *)
(* outside the system: it opens a payment when asked, decides it when it   *)
(* likes, and answers truthfully when it answers at all.                   *)
(*                                                                         *)
(* Webhooks, and the settlement a status poll finds, are both ApplyWebhook:*)
(* the delivery only names the payment, its outcome is what check-status   *)
(* says.  A decided payment stays decided, so an answer that is acted upon *)
(* late says what the gateway says then.                                   *)
(***************************************************************************)
EXTENDS CanteenOrders

CONSTANTS
    Payment,      \* calls of POST /payments/checkout
    NoPayment,    \* Order.paymentId is NULL
    Poller        \* clients that poll GET /payments/:id

ASSUME PaymentAssumption ==
    /\ PaymentsEnabled
    /\ NoPayment \notin Payment

VARIABLES
    payStatus,    \* [Payment -> PaymentStatus]: Payment.status
    payOf,        \* [Order -> Payment or NoPayment]: Order.paymentId
    callPc,       \* [Payment -> stage of the checkout call]
    asking,       \* [Payment -> set of Order]: the call's orderIds
    gateway,      \* [Payment -> what the gateway would answer]
    pastDue,      \* [Payment -> BOOLEAN]: Payment.expiresAt is in the past
    pollPc,       \* [Poller -> stage of the poll]
    polled,       \* [Poller -> the Payment whose orders are being released]
    sweeping      \* [Poller -> set of Payment]: expired, orders to release

payVars == <<payStatus, payOf, callPc, asking, gateway, pastDue>>
pollVars == <<pollPc, polled, sweeping>>
baseVars == <<menuVars, bookedCount, cartVars, orderVars, cancelVars>>
allVars == <<vars, payVars, pollVars>>

PaymentStatus == {"NONE", "PENDING", "SUCCESS", "FAILED", "EXPIRED"}
CallStage == {"idle", "call", "close", "attach", "linked", "giveBack",
              "cancelUnpaid", "failed", "dead"}
Verdict == {"paid", "paidOther", "failed"}

PayInit ==
    /\ Init
    /\ payStatus = [p \in Payment |-> "NONE"]
    /\ payOf = [o \in Order |-> NoPayment]
    /\ callPc = [p \in Payment |-> "idle"]
    /\ asking = [p \in Payment |-> {}]
    /\ gateway = [p \in Payment |-> "none"]
    /\ pastDue = [p \in Payment |-> FALSE]
    /\ pollPc = [v \in Poller |-> "idle"]
    /\ polled = [v \in Poller |-> NoPayment]
    /\ sweeping = [v \in Poller |-> {}]
-----------------------------------------------------------------------------
(* Orders under a payment, and the orders a failed checkout may give back.  *)

Unpaid(o) == awaiting[o] /\ status[o] = "PENDING"
Payable(o) == Unpaid(o) /\ payOf[o] = NoPayment

OrdersOf(p) == {o \in Order : payOf[o] = p /\ Unpaid(o)}
OrdersLeft(p) == {o \in asking[p] : Payable(o)}

CancelUnpaidOrders(orders) ==
    /\ status' = [o \in Order |-> IF o \in orders THEN "CANCELLED" ELSE status[o]]
    /\ awaiting' = [o \in Order |-> awaiting[o] /\ o \notin orders]

\* What a release leaves alone.
ReleaseFrame == UNCHANGED <<stockQty, sellable, bookedCount, cartVars, overdue,
                            collected, cancelVars>>
-----------------------------------------------------------------------------
(* POST /payments/checkout: initiatePayment, and the route's give-back.     *)

CallMoves(p, stage) == callPc' = [callPc EXCEPT ![p] = stage]

\* Every order asked for is payable, and the payment row is inserted.
CheckoutOpens(p, orders) ==
    /\ callPc[p] = "idle"
    /\ orders # {}
    /\ \A o \in orders : Payable(o)
    /\ payStatus' = [payStatus EXCEPT ![p] = "PENDING"]
    /\ asking' = [asking EXCEPT ![p] = orders]
    /\ CallMoves(p, "call")
    /\ UNCHANGED <<baseVars, payOf, gateway, pastDue, pollVars>>

\* An order is not payable, the total is not chargeable or a query fails.
CheckoutRefused(p, orders) ==
    /\ callPc[p] = "idle"
    /\ orders # {}
    /\ \A o \in orders : status[o] # "NONE"
    /\ asking' = [asking EXCEPT ![p] = orders]
    /\ CallMoves(p, "giveBack")
    /\ UNCHANGED <<baseVars, payStatus, payOf, gateway, pastDue, pollVars>>

\* create-order: it may open the payment and the answer never arrive.
CallGateway(p, opened, answered) ==
    /\ callPc[p] = "call"
    /\ gateway' = [gateway EXCEPT ![p] = IF opened THEN "open" ELSE @]
    /\ CallMoves(p, IF opened /\ answered THEN "attach" ELSE "close")
    /\ UNCHANGED <<baseVars, payStatus, payOf, asking, pastDue, pollVars>>

\* The row is closed whatever its status is by now; a failure is logged.
CloseUnopened(p, written) ==
    /\ callPc[p] = "close"
    /\ payStatus' = [payStatus EXCEPT ![p] = IF written THEN "FAILED" ELSE @]
    /\ CallMoves(p, "giveBack")
    /\ UNCHANGED <<baseVars, payOf, asking, gateway, pastDue, pollVars>>

\* The orders are attached if they still await a payment; that some are not
\* is only logged.
Attach(p) ==
    /\ callPc[p] = "attach"
    /\ payOf' = [o \in Order |->
           IF o \in asking[p] /\ payOf[o] = NoPayment /\ awaiting[o]
           THEN p ELSE payOf[o]]
    /\ CallMoves(p, "linked")
    /\ UNCHANGED <<baseVars, payStatus, asking, gateway, pastDue, pollVars>>

AttachFails(p) ==
    /\ callPc[p] = "attach"
    /\ CallMoves(p, "giveBack")
    /\ UNCHANGED <<baseVars, payStatus, payOf, asking, gateway, pastDue, pollVars>>

\* Mutant: the portions given back and the orders left holding them.
GiveBackUnstamped(p) ==
    /\ callPc[p] = "giveBack"
    /\ LET still == {o \in OrdersLeft(p) : Outstanding(o)} IN
       reservedQty' = [i \in Item |->
           Floor0(reservedQty[i] - Cardinality(Release(still, i)))]
    /\ CallMoves(p, "cancelUnpaid")
    /\ ReleaseFrame
    /\ UNCHANGED <<settled, status, awaiting, payStatus, payOf, asking, gateway,
                   pastDue, pollVars>>

\* releaseUnpaidOrders, first statement and second.
GiveBackUnpaid(p) ==
    /\ callPc[p] = "giveBack"
    /\ Settle(OrdersLeft(p))
    /\ CallMoves(p, "cancelUnpaid")
    /\ ReleaseFrame
    /\ UNCHANGED <<status, awaiting, payStatus, payOf, asking, gateway, pastDue, pollVars>>

CancelUnpaid(p) ==
    /\ callPc[p] = "cancelUnpaid"
    /\ CancelUnpaidOrders(OrdersLeft(p))
    /\ CallMoves(p, "failed")
    /\ ReleaseFrame
    /\ UNCHANGED <<reservedQty, settled, payStatus, payOf, asking, gateway,
                   pastDue, pollVars>>

CheckoutDies(p) ==
    /\ callPc[p] \in {"call", "close", "attach", "giveBack", "cancelUnpaid"}
    /\ CallMoves(p, "dead")
    /\ UNCHANGED <<baseVars, payStatus, payOf, asking, gateway, pastDue, pollVars>>
-----------------------------------------------------------------------------
(* The gateway and the clock.                                               *)

\* Paying takes the link; the gateway may give up on its own.
GatewayDecides(p, verdict) ==
    /\ gateway[p] = "open"
    /\ verdict # "failed" => callPc[p] = "linked"
    /\ gateway' = [gateway EXCEPT ![p] = verdict]
    /\ UNCHANGED <<baseVars, payStatus, payOf, callPc, asking, pastDue, pollVars>>

\* A checkout call lasts seconds, the payment window fifteen minutes.
WindowCloses(p) ==
    /\ payStatus[p] # "NONE"
    /\ ~pastDue[p]
    /\ callPc[p] \notin {"call", "close", "attach"}
    /\ pastDue' = [pastDue EXCEPT ![p] = TRUE]
    /\ UNCHANGED <<baseVars, payStatus, payOf, callPc, asking, gateway,
                   pollVars>>
-----------------------------------------------------------------------------
(* Settlement: one transaction under a lock on the payment row.             *)

\* Mutant: a late success un-expires its payment.
SucceedLate(p) ==
    /\ payStatus[p] \notin {"NONE", "SUCCESS"}
    /\ gateway[p] = "paid"
    /\ payStatus' = [payStatus EXCEPT ![p] = "SUCCESS"]
    /\ awaiting' = [o \in Order |-> awaiting[o] /\ o \notin OrdersOf(p)]
    /\ UNCHANGED <<menuVars, bookedCount, cartVars, status, settled, overdue,
                   collected, cancelVars, payOf, callPc, asking, gateway,
                   pastDue, pollVars>>

\* Mutant: the amount is not compared.
SucceedForAnyAmount(p) ==
    /\ payStatus[p] = "PENDING"
    /\ gateway[p] \in {"paid", "paidOther"}
    /\ payStatus' = [payStatus EXCEPT ![p] = "SUCCESS"]
    /\ awaiting' = [o \in Order |-> awaiting[o] /\ o \notin OrdersOf(p)]
    /\ UNCHANGED <<menuVars, bookedCount, cartVars, status, settled, overdue,
                   collected, cancelVars, payOf, callPc, asking, gateway,
                   pastDue, pollVars>>

\* Mutant: an order whose reservation ran out is not confirmed.
SucceedInTime(p) ==
    /\ payStatus[p] = "PENDING"
    /\ gateway[p] = "paid"
    /\ payStatus' = [payStatus EXCEPT ![p] = "SUCCESS"]
    /\ awaiting' = [o \in Order |->
           awaiting[o] /\ (o \notin OrdersOf(p) \/ overdue[o])]
    /\ UNCHANGED <<menuVars, bookedCount, cartVars, status, settled, overdue,
                   collected, cancelVars, payOf, callPc, asking, gateway,
                   pastDue, pollVars>>

\* Success for the right amount makes the orders visible to the kitchen.
ApplySuccess(p) ==
    /\ payStatus[p] = "PENDING"
    /\ gateway[p] = "paid"
    /\ payStatus' = [payStatus EXCEPT ![p] = "SUCCESS"]
    /\ awaiting' = [o \in Order |-> awaiting[o] /\ o \notin OrdersOf(p)]
    /\ UNCHANGED <<menuVars, bookedCount, cartVars, status, settled, overdue,
                   collected, cancelVars, payOf, callPc, asking, gateway,
                   pastDue, pollVars>>

\* Mutant: the gateway's own word stored as the status.
FailUnmapped(p) ==
    /\ payStatus[p] = "PENDING"
    /\ gateway[p] \in {"failed", "paidOther"}
    /\ payStatus' = [payStatus EXCEPT ![p] = gateway[p]]
    /\ Settle(OrdersOf(p))
    /\ CancelUnpaidOrders(OrdersOf(p))
    /\ ReleaseFrame
    /\ UNCHANGED <<payOf, callPc, asking, gateway, pastDue, pollVars>>

\* Failure, and success for another amount, release the orders.
ApplyFailure(p) ==
    /\ payStatus[p] = "PENDING"
    /\ gateway[p] \in {"failed", "paidOther"}
    /\ payStatus' = [payStatus EXCEPT ![p] = "FAILED"]
    /\ Settle(OrdersOf(p))
    /\ CancelUnpaidOrders(OrdersOf(p))
    /\ ReleaseFrame
    /\ UNCHANGED <<payOf, callPc, asking, gateway, pastDue, pollVars>>

ApplyWebhook(p) == ApplySuccess(p) \/ ApplyFailure(p)
-----------------------------------------------------------------------------
(* GET /payments/:id on a payment past its window.                          *)

\* The gateway is asked first; the poll goes on when it has no verdict, or
\* when it cannot be reached.
PollAsks(v, p) ==
    /\ pollPc[v] = "idle"
    /\ callPc[p] = "linked"
    /\ payStatus[p] = "PENDING"
    /\ pastDue[p]
    /\ pollPc' = [pollPc EXCEPT ![v] = "expire"]
    /\ UNCHANGED <<baseVars, payVars, polled, sweeping>>

\* expireStalePayments closes every payment past its window, not just this one.
ExpireStale(v) ==
    LET due == {q \in Payment : payStatus[q] = "PENDING" /\ pastDue[q]} IN
    /\ pollPc[v] = "expire"
    /\ payStatus' = [q \in Payment |->
           IF q \in due THEN "EXPIRED" ELSE payStatus[q]]
    /\ sweeping' = [sweeping EXCEPT ![v] = due]
    /\ pollPc' = [pollPc EXCEPT ![v] = IF due = {} THEN "idle" ELSE "settle"]
    /\ UNCHANGED <<baseVars, payOf, callPc, asking, gateway, pastDue, polled>>

\* releaseOrdersForPayment outside a transaction: two statements per payment.
ExpireSettle(v, q) ==
    /\ pollPc[v] = "settle"
    /\ q \in sweeping[v]
    /\ Settle(OrdersOf(q))
    /\ polled' = [polled EXCEPT ![v] = q]
    /\ pollPc' = [pollPc EXCEPT ![v] = "cancel"]
    /\ ReleaseFrame
    /\ UNCHANGED <<status, awaiting, payVars, sweeping>>

ExpireCancel(v) ==
    LET left == sweeping[v] \ {polled[v]} IN
    /\ pollPc[v] = "cancel"
    /\ CancelUnpaidOrders(OrdersOf(polled[v]))
    /\ sweeping' = [sweeping EXCEPT ![v] = left]
    /\ polled' = [polled EXCEPT ![v] = NoPayment]
    /\ pollPc' = [pollPc EXCEPT ![v] = IF left = {} THEN "idle" ELSE "settle"]
    /\ ReleaseFrame
    /\ UNCHANGED <<reservedQty, settled, payVars>>

\* The poll found its payment decided, its worker died, or a statement failed.
PollEnds(v) ==
    /\ pollPc[v] # "idle"
    /\ pollPc' = [pollPc EXCEPT ![v] = "idle"]
    /\ sweeping' = [sweeping EXCEPT ![v] = {}]
    /\ polled' = [polled EXCEPT ![v] = NoPayment]
    /\ UNCHANGED <<baseVars, payVars>>
-----------------------------------------------------------------------------
Checkout(p) ==
    \/ \E orders \in SUBSET Order :
           CheckoutOpens(p, orders) \/ CheckoutRefused(p, orders)
    \/ \E opened, answered \in BOOLEAN : CallGateway(p, opened, answered)
    \/ \E written \in BOOLEAN : CloseUnopened(p, written)
    \/ Attach(p)
    \/ AttachFails(p)
    \/ GiveBackUnpaid(p)
    \/ CancelUnpaid(p)
    \/ CheckoutDies(p)

Gateway(p) == WindowCloses(p) \/ \E verdict \in Verdict : GatewayDecides(p, verdict)

Poll(v) ==
    \/ \E p \in Payment : PollAsks(v, p)
    \/ ExpireStale(v)
    \/ \E q \in Payment : ExpireSettle(v, q)
    \/ ExpireCancel(v)
    \/ PollEnds(v)

PayNext ==
    \/ Next /\ UNCHANGED <<payVars, pollVars>>
    \/ \E p \in Payment : Checkout(p) \/ Gateway(p) \/ ApplyWebhook(p)
    \/ \E v \in Poller : Poll(v)

PaySpec == PayInit /\ [][PayNext]_allVars

\* The orders' fairness and no other: the client polls for two minutes at most
\* (routes/payments.ts:215), so neither a poll, nor the expiry that hangs off
\* it, nor an answer of the gateway can be counted on.
PayFairSpec == PaySpec /\ Fairness
-----------------------------------------------------------------------------
(* Properties.                                                              *)

\* Every payment variable keeps the range its column or local variable has.
PayTypeOK ==
    /\ TypeOK
    /\ payStatus \in [Payment -> PaymentStatus]
    /\ payOf \in [Order -> Payment \cup {NoPayment}]
    /\ callPc \in [Payment -> CallStage]
    /\ asking \in [Payment -> SUBSET Order]
    /\ gateway \in [Payment -> {"none", "open"} \cup Verdict]
    /\ pastDue \in [Payment -> BOOLEAN]
    /\ pollPc \in [Poller -> {"idle", "expire", "settle", "cancel"}]
    /\ polled \in [Poller -> Payment \cup {NoPayment}]
    /\ sweeping \in [Poller -> SUBSET Payment]

\* No unpaid food: an order the kitchen can see and has not seen cancelled
\* belongs to a payment that succeeded because the gateway holds the money.
ConfirmedIsPaid ==
    \A o \in Order :
        status[o] \notin {"NONE", "CANCELLED"} /\ ~awaiting[o] =>
            /\ payOf[o] # NoPayment
            /\ payStatus[payOf[o]] = "SUCCESS"
            /\ gateway[payOf[o]] = "paid"

\* All that was paid for is cooked: a cart split over kitchens is paid as one,
\* and success leaves none of the payment's orders invisible to its kitchen.
PaidIsVisible ==
    \A p \in Payment : payStatus[p] = "SUCCESS" => OrdersOf(p) = {}

\* Terminal states are final (applyWebhook): no late webhook, expiry sweep or
\* failed checkout moves a payment that was decided.
SettlementFinal ==
    [][\A p \in Payment :
           payStatus[p] \notin {"NONE", "PENDING"}
               => payStatus'[p] = payStatus[p]]_allVars

\* Portions nobody pays for are sold to somebody else: whatever becomes of a
\* payment -- no webhook, no poll, a checkout cut off halfway -- the orders
\* under it do not hold their portions past RESERVATION_TTL.
UnpaidIsReleased ==
    \A o \in Order : Unpaid(o) /\ overdue[o] ~> settled[o]

=============================================================================
