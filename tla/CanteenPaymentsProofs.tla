----------------------- MODULE CanteenPaymentsProofs -----------------------
(***************************************************************************)
(* Proofs about CanteenPayments for any set of payments, polls, carts and  *)
(* items: nothing reaches the kitchen unpaid, a decided payment stays      *)
(* decided, and the releases of unpaid orders keep what CanteenOrdersProofs*)
(* proves of the counters.                                                 *)
(***************************************************************************)
EXTENDS CanteenPayments, CanteenOrdersProofs

-----------------------------------------------------------------------------
(* The inductive invariant.                                                 *)

\* What the stage of a checkout call says of its payment.  The window of a
\* payment does not close during the call, so nothing expires under it and no
\* order is attached once it has expired.
CallInv ==
    \A p \in Payment :
        /\ callPc[p] = "idle" => payStatus[p] = "NONE"
        /\ callPc[p] = "call" => payStatus[p] = "PENDING"
        /\ callPc[p] = "close" => payStatus[p] \in {"PENDING", "FAILED"}
        /\ callPc[p] \in {"idle", "call"} => gateway[p] = "none"
        /\ callPc[p] \in {"idle", "call", "close", "attach"} => ~pastDue[p]
        /\ gateway[p] \in {"paid", "paidOther"} => callPc[p] = "linked"
        /\ payStatus[p] = "SUCCESS" => gateway[p] = "paid"
        /\ \A o \in asking[p] : status[o] # "NONE"
        /\ callPc[p] = "cancelUnpaid" => \A o \in OrdersLeft(p) : settled[o]

\* A sweep holds late payments only, and has settled what it will cancel.
PollInv ==
    \A v \in Poller :
        /\ \A q \in sweeping[v] : pastDue[q]
        /\ pollPc[v] = "cancel" =>
               /\ polled[v] \in Payment
               /\ pastDue[polled[v]]
               /\ \A o \in OrdersOf(polled[v]) : settled[o]

\* Only orders that were written are attached.
AttachInv == \A o \in Order : payOf[o] # NoPayment => status[o] # "NONE"

PayInv ==
    /\ CountedInv
    /\ PayTypeOK
    /\ CallInv
    /\ PollInv
    /\ AttachInv
    /\ ConfirmedIsPaid
    /\ PaidIsVisible

LEMMA InitPay == PayInit => PayInv
<1> SUFFICES ASSUME PayInit
             PROVE  PayInv
  OBVIOUS
<1>1. Init /\ CountedInv /\ TypeOK
  BY InitLifecycle, InitCount, InitType DEF PayInit, CountedInv
<1>2. PayTypeOK
  BY <1>1 DEF PayInit, PayTypeOK, PaymentStatus, CallStage
<1>3. CallInv /\ PollInv /\ AttachInv
  BY DEF PayInit, CallInv, PollInv, AttachInv
<1>4. ConfirmedIsPaid /\ PaidIsVisible
  BY <1>1 DEF Init, PayInit, ConfirmedIsPaid, PaidIsVisible, Order
<1> QED
  BY <1>1, <1>2, <1>3, <1>4 DEF PayInv

-----------------------------------------------------------------------------
(* What the steps of the orders do to one order.                            *)

\* No order is forgotten, unsettled or put back to awaiting payment, and the
\* orders' own steps confirm none.
OrderSteps ==
    \A o \in Order :
        /\ status[o] # "NONE" => status'[o] # "NONE"
        /\ status'[o] = "PENDING" => status[o] \in {"PENDING", "NONE"}
        /\ status[o] # "NONE" /\ awaiting'[o] => awaiting[o]
        /\ status'[o] \notin {"NONE", "CANCELLED"} /\ ~awaiting'[o]
               => status[o] \notin {"NONE", "CANCELLED"} /\ ~awaiting[o]
        /\ settled[o] => settled'[o]

LEMMA NextOrderSteps ==
    ASSUME LifecycleInv, Next
    PROVE  OrderSteps
<1> USE DEF orderVars, menuVars, cartVars, cancelVars, LifecycleInv
<1>1. ASSUME NEW r \in Cart, PlaceOrder(r)
      PROVE  OrderSteps
  <2>1. ASSUME NEW replied \in BOOLEAN, InsertOrders(r, replied)
        PROVE  OrderSteps
    <3> DEFINE new == {<<r, k>> : k \in Kitchens(basket[r])}
    <3>1. pc[r] = "insert" /\ settled' = settled
      BY <2>1 DEF InsertOrders
    <3>2. \A o \in Order : o \in new => status[o] = "NONE"
      BY <3>1 DEF WrittenInv
    <3>3. \A o \in Order : /\ o \in new => status'[o] = "PENDING" /\ awaiting'[o]
                           /\ o \notin new => /\ status'[o] = status[o]
                                              /\ awaiting'[o] = awaiting[o]
      BY <2>1, PaymentAssumption DEF InsertOrders
    <3> QED
      BY <3>1, <3>2, <3>3 DEF OrderSteps
  <2>2. CASE UNCHANGED orderVars
    BY <2>2 DEF OrderSteps
  <2>3. (\E replied \in BOOLEAN : InsertOrders(r, replied)) \/ UNCHANGED orderVars
    BY <1>1, CanteenAssumption
    DEF PlaceOrder, Worker, ClaimStock, HandBackPartialClaim, ClaimWindowSeats,
        StatementFails, UndoStock, UndoSeats, UndoFails, WorkerDies
  <2> QED
    BY <2>1, <2>2, <2>3
<1>2. ASSUME NEW c \in Cancel, CancelOrder(c)
      PROVE  OrderSteps
  <2>1. CASE CancelGiveBack(c)
    BY <2>1, SettleStamps DEF CancelGiveBack, OrderSteps
  <2>2. CASE CancelWrite(c)
    BY <2>2 DEF CancelWrite, OrderSteps, TypeOK
  <2>3. CASE CancelDies(c) \/ \E o \in Order : CancelRead(c, o)
    BY <2>3 DEF CancelDies, CancelRead, OrderSteps
  <2> QED
    BY <1>2, <2>1, <2>2, <2>3 DEF CancelOrder
<1>3. ASSUME NEW o \in Order, MoveOrder(o)
      PROVE  OrderSteps
  <2>1. CASE DeadlinePasses(o)
    BY <2>1 DEF DeadlinePasses, OrderSteps
  <2>2. CASE Cook(o)
    BY <2>2 DEF Cook, MayMove, NextStatus, OrderSteps, TypeOK
  <2>3. CASE Deliver(o)
    <3>1. Settle({o})
      BY <2>3 DEF Deliver
    <3>2. \A x \in Order : settled[x] => settled'[x]
      BY <3>1, SettleStamps
    <3> QED
      BY <2>3, <3>2 DEF Deliver, MayMove, NextStatus, OrderSteps, TypeOK
  <2> QED
    BY <1>3, <2>1, <2>2, <2>3 DEF MoveOrder
<1>4. CASE Sweep
  <2>1. CASE ReleaseExpiredReservations
    BY <2>1, SettleStamps DEF ReleaseExpiredReservations, OrderSteps
  <2>2. CASE ReconcileReservations
    BY <2>2 DEF ReconcileReservations, OrderSteps
  <2> QED
    BY <1>4, <2>1, <2>2 DEF Sweep
<1>5. CASE EditMenu
  BY <1>5 DEF EditMenu, UpdateMenuItems, OrderSteps
<1> QED
  BY <1>1, <1>2, <1>3, <1>4, <1>5 DEF Next

-----------------------------------------------------------------------------
(* Releasing unpaid orders.                                                 *)

\* Stamping orders, cancelling pending ones that are stamped, or both, keeps
\* the invariant of the orders.
LEMMA ReleaseKeepsCount ==
    ASSUME CountedInv, NEW S, NEW T \in SUBSET Order, ReleaseFrame,
           Settle(S) \/ UNCHANGED <<reservedQty, settled>>,
           CancelUnpaidOrders(T) \/ UNCHANGED <<status, awaiting>>,
           \A o \in T : status[o] = "PENDING" /\ settled'[o]
    PROVE  /\ CountedInv'
           /\ TypeOK'
           /\ \A o \in Order :
                  /\ settled[o] => settled'[o]
                  /\ status'[o] # "NONE" <=> status[o] # "NONE"
<1> USE DEF CountedInv, LifecycleInv
<1>1. /\ UNCHANGED <<stockQty, sellable, bookedCount, overdue, collected>>
      /\ UNCHANGED <<pc, basket, slot, claimed, seated, seatsKnown>>
      /\ UNCHANGED <<cancelPc, cancelling>>
  BY DEF ReleaseFrame, cartVars, cancelVars
<1>2. /\ settled' \in [Order -> BOOLEAN] /\ reservedQty' \in [Item -> Nat]
      /\ \A o \in Order : /\ settled[o] => settled'[o]
                          /\ settled'[o] => settled[o] \/ status[o] # "NONE"
  BY SettleType, SettleStamps DEF TypeOK
<1>3. /\ status' \in [Order -> Status]
      /\ \A o \in Order : \/ status'[o] = status[o]
                          \/ /\ status[o] = "PENDING" /\ status'[o] = "CANCELLED"
                             /\ settled'[o]
  BY DEF CancelUnpaidOrders, TypeOK, Status
<1>4. TypeOK'
  <2>1. awaiting' \in [Order -> BOOLEAN]
    BY Zenon DEF CancelUnpaidOrders, TypeOK
  <2> QED
    BY <1>1, <1>2, <1>3, <2>1 DEF TypeOK
<1>5. \A o \in Order : status'[o] # "NONE" <=> status[o] # "NONE"
  BY <1>3
<1>6. ClaimInv'
  BY <1>1 DEF ClaimInv
<1>7. WrittenInv'
  BY <1>1, <1>5 DEF WrittenInv
<1>8. LifeInv'
  BY <1>1, <1>2, <1>3 DEF LifeInv
<1>9. CancelInv'
  BY <1>1, <1>2, <1>5 DEF CancelInv
<1>10. OverHoldsNothing'
  BY <1>2, <1>3 DEF OverHoldsNothing
<1>11. LifecycleInv'
  BY <1>4, <1>6, <1>7, <1>8, <1>9, <1>10
<1>12. CountInv'
  <2>1. CASE Settle(S)
    BY <1>1, <1>5, <2>1, CountSettle
  <2>2. CASE UNCHANGED <<reservedQty, settled>>
    BY <1>1, <1>5, <1>11, <2>2, CountQuiet DEF HalfPlaced
  <2> QED
    BY <2>1, <2>2
<1> QED
  BY <1>2, <1>4, <1>5, <1>11, <1>12

\* A step that leaves the orders alone keeps their invariant.
LEMMA QuietKeepsCount ==
    ASSUME CountedInv, UNCHANGED baseVars
    PROVE  CountedInv'
BY NextCounted DEF baseVars, vars

-----------------------------------------------------------------------------
(* Each step keeps the invariant.                                           *)

\* The orders' own steps.
LEMMA BaseKeepsPay ==
    ASSUME PayInv, Next, UNCHANGED <<payVars, pollVars>>
    PROVE  PayInv'
<1> USE DEF PayInv, payVars, pollVars
<1>1. CountedInv' /\ OrderSteps
  BY NextCounted, NextOrderSteps DEF CountedInv
<1>2. PayTypeOK'
  BY <1>1 DEF CountedInv, LifecycleInv, PayTypeOK
<1>3. CallInv'
  <2>1. ASSUME NEW p \in Payment, NEW o \in asking[p]
        PROVE  /\ status'[o] # "NONE"
               /\ o \in OrdersLeft(p)' => o \in OrdersLeft(p)
               /\ settled[o] => settled'[o]
    <3>1. o \in Order /\ status[o] # "NONE"
      BY DEF CallInv, PayTypeOK
    <3> QED
      BY <1>1, <3>1 DEF OrderSteps, OrdersLeft, Payable, Unpaid
  <2> QED
    BY <2>1 DEF CallInv, OrdersLeft
<1>4. PollInv' /\ AttachInv' /\ PaidIsVisible'
  <2>1. AttachInv'
    BY <1>1 DEF AttachInv, OrderSteps
  <2>2. ASSUME NEW p \in Payment, NEW o \in OrdersOf(p)'
        PROVE  /\ o \in OrdersOf(p)
               /\ settled[o] => settled'[o]
    <3>1. o \in Order /\ status[o] # "NONE" /\ payOf[o] = p
      BY PaymentAssumption DEF OrdersOf, AttachInv
    <3> QED
      BY <1>1, <3>1 DEF OrderSteps, OrdersOf, Unpaid
  <2> QED
    BY <2>1, <2>2 DEF PollInv, PaidIsVisible
<1>5. ConfirmedIsPaid'
  BY <1>1 DEF ConfirmedIsPaid, OrderSteps
<1> QED
  BY <1>1, <1>2, <1>3, <1>4, <1>5

\* A step that leaves the orders and their attachment alone, and changes one
\* payment's call within what CallInv allows.
LEMMA CallKeepsPay ==
    ASSUME PayInv, UNCHANGED <<baseVars, payOf, pollVars>>, NEW p \in Payment,
           PayTypeOK',
           \A q \in Payment \ {p} :
               /\ payStatus'[q] = payStatus[q] /\ callPc'[q] = callPc[q]
               /\ gateway'[q] = gateway[q] /\ pastDue'[q] = pastDue[q]
               /\ asking'[q] = asking[q],
           /\ callPc'[p] = "idle" => payStatus'[p] = "NONE"
           /\ callPc'[p] = "call" => payStatus'[p] = "PENDING"
           /\ callPc'[p] = "close" => payStatus'[p] \in {"PENDING", "FAILED"}
           /\ callPc'[p] \in {"idle", "call"} => gateway'[p] = "none"
           /\ callPc'[p] \in {"idle", "call", "close", "attach"} => ~pastDue'[p]
           /\ gateway'[p] \in {"paid", "paidOther"} => callPc'[p] = "linked"
           /\ \A o \in asking'[p] : status[o] # "NONE"
           /\ callPc'[p] = "cancelUnpaid" => \A o \in OrdersLeft(p)' : settled[o],
           pastDue[p] => pastDue'[p],
           payStatus'[p] = "SUCCESS" <=> payStatus[p] = "SUCCESS",
           payStatus[p] = "SUCCESS" => gateway'[p] = gateway[p]
    PROVE  PayInv'
<1> USE DEF PayInv
<1>1. CountedInv'
  BY QuietKeepsCount
<1>2. UNCHANGED <<status, awaiting, settled, payOf, pollPc, polled, sweeping>>
  BY DEF baseVars, orderVars, pollVars
<1>3. CallInv'
  BY <1>2 DEF CallInv, OrdersLeft, Payable, Unpaid
<1>4. PollInv'
  BY <1>2 DEF PollInv, OrdersOf, Unpaid, PayTypeOK
<1>5. AttachInv' /\ ConfirmedIsPaid' /\ PaidIsVisible'
  BY <1>2
  DEF AttachInv, ConfirmedIsPaid, PaidIsVisible, OrdersOf, Unpaid, CallInv, PayTypeOK
<1> QED
  BY <1>1, <1>3, <1>4, <1>5

\* initiatePayment, and the give-back of a failed checkout.
LEMMA CheckoutKeepsPay ==
    ASSUME PayInv, NEW p \in Payment, Checkout(p)
    PROVE  PayInv'
<1> USE DEF PayInv
<1>0. ASSUME UNCHANGED baseVars
      PROVE  TypeOK' /\ UNCHANGED <<status, awaiting, settled>>
  BY <1>0, QuietKeepsCount DEF CountedInv, LifecycleInv, baseVars, orderVars
<1>1. ASSUME NEW orders \in SUBSET Order, CheckoutOpens(p, orders)
      PROVE  PayInv'
  <2>1. PayTypeOK'
    BY <1>0, <1>1
    DEF CheckoutOpens, CallMoves, PayTypeOK, PaymentStatus, CallStage, pollVars
  <2>2. \A o \in orders : status[o] # "NONE"
    BY <1>1 DEF CheckoutOpens, Payable, Unpaid
  <2> QED
    BY <1>1, <2>1, <2>2, CallKeepsPay
    DEF CheckoutOpens, CallMoves, CallInv, PayTypeOK
<1>2. ASSUME NEW orders \in SUBSET Order, CheckoutRefused(p, orders)
      PROVE  PayInv'
  <2>1. PayTypeOK'
    BY <1>0, <1>2
    DEF CheckoutRefused, CallMoves, PayTypeOK, CallStage, pollVars
  <2>2. /\ UNCHANGED <<baseVars, payStatus, payOf, gateway, pastDue, pollVars>>
        /\ callPc' = [callPc EXCEPT ![p] = "giveBack"]
        /\ asking' = [asking EXCEPT ![p] = orders]
        /\ callPc[p] = "idle" /\ \A o \in orders : status[o] # "NONE"
    BY <1>2 DEF CheckoutRefused, CallMoves
  <2> QED
    BY <2>1, <2>2, CallKeepsPay DEF CallInv, PayTypeOK
<1>3. ASSUME NEW opened \in BOOLEAN, NEW answered \in BOOLEAN,
             CallGateway(p, opened, answered)
      PROVE  PayInv'
  <2>1. PayTypeOK'
    BY <1>0, <1>3
    DEF CallGateway, CallMoves, PayTypeOK, CallStage, pollVars
  <2> QED
    BY <1>3, <2>1, CallKeepsPay DEF CallGateway, CallMoves, CallInv, PayTypeOK
<1>4. ASSUME NEW written \in BOOLEAN, CloseUnopened(p, written)
      PROVE  PayInv'
  <2>1. PayTypeOK'
    BY <1>0, <1>4
    DEF CloseUnopened, CallMoves, PayTypeOK, PaymentStatus, CallStage, pollVars
  <2> QED
    BY <1>4, <2>1, CallKeepsPay DEF CloseUnopened, CallMoves, CallInv, PayTypeOK
<1>5. CASE Attach(p)
  <2>1. /\ CountedInv' /\ TypeOK' /\ UNCHANGED <<status, awaiting, settled>>
        /\ callPc[p] = "attach" /\ ~pastDue[p]
        /\ callPc' = [callPc EXCEPT ![p] = "linked"]
        /\ UNCHANGED <<payStatus, asking, gateway, pastDue, pollVars>>
    BY <1>0, <1>5, QuietKeepsCount DEF Attach, CallMoves, CallInv
  <2>2. \A o \in Order : \/ payOf'[o] = payOf[o]
                         \/ /\ payOf[o] = NoPayment /\ payOf'[o] = p
                            /\ o \in asking[p] /\ awaiting[o]
    BY <1>5 DEF Attach
  <2>3. PayTypeOK'
    <3>1. payOf' \in [Order -> Payment \cup {NoPayment}]
      BY <1>5 DEF Attach, PayTypeOK
    <3> QED
      BY <2>1, <3>1 DEF PayTypeOK, CallStage, pollVars
  <2>4. CallInv'
    BY <2>1, <2>2, PaymentAssumption
    DEF CallInv, OrdersLeft, Payable, Unpaid, PayTypeOK
  <2>5. PollInv'
    BY <2>1, <2>2 DEF PollInv, OrdersOf, Unpaid, PayTypeOK, pollVars
  <2>6. AttachInv' /\ ConfirmedIsPaid'
    BY <2>1, <2>2 DEF AttachInv, ConfirmedIsPaid, CallInv
  <2>7. PaidIsVisible'
    BY <2>1, <2>2 DEF PaidIsVisible, OrdersOf, Unpaid, CallInv
  <2> QED
    BY <2>1, <2>3, <2>4, <2>5, <2>6, <2>7
<1>6. CASE AttachFails(p) \/ CheckoutDies(p)
  <2>1. PayTypeOK'
    BY <1>0, <1>6
    DEF AttachFails, CheckoutDies, CallMoves, PayTypeOK, CallStage, pollVars
  <2> QED
    BY <1>6, <2>1, CallKeepsPay
    DEF AttachFails, CheckoutDies, CallMoves, CallInv, PayTypeOK
<1>7. CASE GiveBackUnpaid(p)
  <2>1. /\ Settle(OrdersLeft(p)) /\ ReleaseFrame
        /\ callPc[p] = "giveBack"
        /\ callPc' = [callPc EXCEPT ![p] = "cancelUnpaid"]
        /\ UNCHANGED <<status, awaiting, payStatus, payOf, asking, gateway>>
        /\ UNCHANGED <<pastDue, pollVars>>
    BY <1>7 DEF GiveBackUnpaid, CallMoves
  <2>2. CountedInv' /\ TypeOK' /\ \A o \in Order : settled[o] => settled'[o]
    <3>1. {} \in SUBSET Order /\ \A o \in {} : status[o] = "PENDING" /\ settled'[o]
      OBVIOUS
    <3> QED
      BY <2>1, <3>1, ReleaseKeepsCount
  <2>3. PayTypeOK'
    BY <2>1, <2>2 DEF PayTypeOK, CallStage, pollVars
  <2>4. CallInv'
    <3>1. \A o \in OrdersLeft(p) : settled'[o]
      BY <2>1, SettleStamps
      DEF OrdersLeft, Payable, Unpaid, CountedInv, LifecycleInv, PayTypeOK
    <3> QED
      BY <2>1, <2>2, <3>1
      DEF CallInv, OrdersLeft, Payable, Unpaid, PayTypeOK
  <2>5. PollInv'
    BY <2>1, <2>2 DEF PollInv, OrdersOf, Unpaid, pollVars
  <2>6. AttachInv' /\ ConfirmedIsPaid' /\ PaidIsVisible'
    BY <2>1 DEF AttachInv, ConfirmedIsPaid, PaidIsVisible, OrdersOf, Unpaid
  <2> QED
    BY <2>2, <2>3, <2>4, <2>5, <2>6
<1>8. CASE CancelUnpaid(p)
  <2>1. /\ CancelUnpaidOrders(OrdersLeft(p)) /\ ReleaseFrame
        /\ callPc[p] = "cancelUnpaid"
        /\ callPc' = [callPc EXCEPT ![p] = "failed"]
        /\ UNCHANGED <<reservedQty, settled, payStatus, payOf, asking, gateway>>
        /\ UNCHANGED <<pastDue, pollVars>>
    BY <1>8 DEF CancelUnpaid, CallMoves
  <2>2. /\ OrdersLeft(p) \in SUBSET Order
        /\ \A o \in OrdersLeft(p) : status[o] = "PENDING" /\ settled'[o]
    BY <2>1 DEF OrdersLeft, Payable, Unpaid, CallInv, PayTypeOK
  <2>3. /\ CountedInv' /\ TypeOK'
        /\ \A o \in Order : status'[o] # "NONE" <=> status[o] # "NONE"
    BY <2>1, <2>2, ReleaseKeepsCount
  <2>4. PayTypeOK'
    BY <2>1, <2>3 DEF PayTypeOK, CallStage, pollVars
  <2>5. \A o \in Order : \/ status'[o] = status[o] /\ awaiting'[o] = awaiting[o]
                         \/ status'[o] = "CANCELLED"
    BY <2>1 DEF CancelUnpaidOrders, PayTypeOK, TypeOK
  <2>6. CallInv'
    BY <2>1, <2>3, <2>5 DEF CallInv, OrdersLeft, Payable, Unpaid, PayTypeOK
  <2>7. PollInv'
    BY <2>1, <2>5 DEF PollInv, OrdersOf, Unpaid, pollVars
  <2>8. AttachInv' /\ ConfirmedIsPaid' /\ PaidIsVisible'
    BY <2>1, <2>3, <2>5
    DEF AttachInv, ConfirmedIsPaid, PaidIsVisible, OrdersOf, Unpaid
  <2> QED
    BY <2>3, <2>4, <2>6, <2>7, <2>8
<1> QED
  BY <1>1, <1>2, <1>3, <1>4, <1>5, <1>6, <1>7, <1>8 DEF Checkout

\* The gateway and the clock.
LEMMA GatewayKeepsPay ==
    ASSUME PayInv, NEW p \in Payment, Gateway(p)
    PROVE  PayInv'
<1> USE DEF PayInv
<1>1. UNCHANGED baseVars /\ TypeOK'
  BY QuietKeepsCount
  DEF Gateway, WindowCloses, GatewayDecides, CountedInv, LifecycleInv
<1>2. CASE WindowCloses(p)
  <2>1. PayTypeOK'
    BY <1>1, <1>2 DEF WindowCloses, PayTypeOK, pollVars
  <2>2. /\ OrdersLeft(p)' = OrdersLeft(p)
        /\ callPc[p] \notin {"idle", "call", "close", "attach"}
    BY <1>2
    DEF WindowCloses, CallInv, OrdersLeft, Payable, Unpaid, baseVars, orderVars
  <2>3. /\ UNCHANGED <<baseVars, payOf, pollVars>>
        /\ UNCHANGED <<payStatus, callPc, gateway, asking>>
        /\ pastDue'[p] /\ \A q \in Payment \ {p} : pastDue'[q] = pastDue[q]
    BY <1>2 DEF WindowCloses, PayTypeOK
  <2> QED
    BY <2>1, <2>2, <2>3, CallKeepsPay DEF CallInv
<1>3. ASSUME NEW verdict \in Verdict, GatewayDecides(p, verdict)
      PROVE  PayInv'
  <2>1. PayTypeOK'
    BY <1>1, <1>3 DEF GatewayDecides, PayTypeOK, Verdict, pollVars
  <2>2. /\ OrdersLeft(p)' = OrdersLeft(p)
        /\ callPc[p] \notin {"idle", "call"} /\ payStatus[p] # "SUCCESS"
        /\ verdict \in {"paid", "paidOther"} => callPc[p] = "linked"
    BY <1>3
    DEF GatewayDecides, CallInv, OrdersLeft, Payable, Unpaid, baseVars, orderVars
  <2>3. /\ UNCHANGED <<baseVars, payOf, pollVars>>
        /\ UNCHANGED <<payStatus, callPc, pastDue, asking>>
        /\ gateway'[p] = verdict
        /\ \A q \in Payment \ {p} : gateway'[q] = gateway[q]
    BY <1>3 DEF GatewayDecides, PayTypeOK
  <2> QED
    BY <2>1, <2>2, <2>3, CallKeepsPay DEF CallInv
<1> QED
  BY <1>2, <1>3 DEF Gateway

\* A step that attaches no order and only decides, stamps and cancels orders.
LEMMA OrdersShrink ==
    ASSUME PayInv, UNCHANGED <<payOf, asking, callPc, gateway, pastDue>>,
           \A o \in Order :
               /\ settled[o] => settled'[o]
               /\ status[o] # "NONE" => status'[o] # "NONE"
               /\ status'[o] = "PENDING" => status[o] = "PENDING"
               /\ awaiting'[o] => awaiting[o]
    PROVE  /\ AttachInv'
           /\ \A p \in Payment : /\ \A o \in OrdersOf(p)' : o \in OrdersOf(p)
                                 /\ \A o \in asking'[p] : status'[o] # "NONE"
                                 /\ callPc'[p] = "cancelUnpaid"
                                      => \A o \in OrdersLeft(p)' : settled'[o]
<1> USE DEF PayInv
<1>1. AttachInv'
  BY DEF AttachInv
<1>2. ASSUME NEW p \in Payment
      PROVE  \A o \in OrdersOf(p)' : o \in OrdersOf(p)
  BY DEF OrdersOf, Unpaid
<1>3. ASSUME NEW p \in Payment, NEW o \in asking[p]
      PROVE  /\ status'[o] # "NONE"
             /\ callPc'[p] = "cancelUnpaid" /\ o \in OrdersLeft(p)' => settled'[o]
  <2>1. o \in Order /\ status[o] # "NONE"
    BY DEF CallInv, PayTypeOK
  <2> QED
    BY <2>1 DEF CallInv, OrdersLeft, Payable, Unpaid
<1> QED
  BY <1>1, <1>2, <1>3 DEF OrdersLeft

\* Webhooks and status polls that settle a payment.
LEMMA SettlementKeepsPay ==
    ASSUME PayInv, NEW p \in Payment, ApplyWebhook(p)
    PROVE  PayInv'
<1> USE DEF PayInv
<1>1. CASE ApplySuccess(p)
  <2>1. /\ gateway[p] = "paid" /\ callPc[p] = "linked"
        /\ payStatus' = [payStatus EXCEPT ![p] = "SUCCESS"]
        /\ UNCHANGED <<payOf, asking, callPc, gateway, pastDue, pollVars>>
        /\ UNCHANGED <<menuVars, bookedCount, cartVars, cancelVars>>
        /\ UNCHANGED <<status, settled, overdue, collected>>
        /\ awaiting' = [o \in Order |-> awaiting[o] /\ o \notin OrdersOf(p)]
    BY <1>1 DEF ApplySuccess, CallInv
  <2>2. /\ awaiting' \in [Order -> BOOLEAN]
        /\ \A o \in Order : awaiting'[o] => awaiting[o]
        /\ \A o \in Order : awaiting[o] /\ ~awaiting'[o] => payOf[o] = p
    BY <2>1, Zenon DEF OrdersOf
  <2>3. CountedInv' /\ TypeOK'
    <3>1. TypeOK'
      BY <2>1, <2>2
      DEF CountedInv, LifecycleInv, TypeOK, menuVars, cartVars, cancelVars
    <3>2. LifecycleInv'
      BY <2>1, <3>1
      DEF CountedInv, LifecycleInv, ClaimInv, WrittenInv, LifeInv, CancelInv,
          OverHoldsNothing, menuVars, cartVars, cancelVars
    <3>3. UNCHANGED <<reservedQty, basket, claimed, settled, pc, status>>
      BY <2>1 DEF menuVars, cartVars
    <3> QED
      BY <3>1, <3>2, <3>3, CountQuiet DEF CountedInv, HalfPlaced
  <2>4. PayTypeOK'
    BY <2>1, <2>3 DEF PayTypeOK, PaymentStatus, pollVars
  <2>5. /\ AttachInv'
        /\ \A q \in Payment : /\ \A o \in OrdersOf(q)' : o \in OrdersOf(q)
                              /\ \A o \in asking'[q] : status'[o] # "NONE"
                              /\ callPc'[q] = "cancelUnpaid"
                                   => \A o \in OrdersLeft(q)' : settled'[o]
    BY <2>1, <2>2, OrdersShrink
  <2>6. CallInv'
    BY <2>1, <2>5 DEF CallInv, PayTypeOK
  <2>7. PollInv'
    BY <2>1, <2>5 DEF PollInv, pollVars
  <2>8. ConfirmedIsPaid'
    BY <2>1, <2>2, PaymentAssumption DEF ConfirmedIsPaid, PayTypeOK
  <2>9. PaidIsVisible'
    <3>1. OrdersOf(p)' = {}
      BY <2>1, Zenon DEF OrdersOf, Unpaid
    <3> QED
      BY <2>1, <2>5, <3>1 DEF PaidIsVisible, PayTypeOK
  <2> QED
    BY <2>3, <2>4, <2>5, <2>6, <2>7, <2>8, <2>9
<1>2. CASE ApplyFailure(p)
  <2>1. /\ payStatus[p] = "PENDING"
        /\ payStatus' = [payStatus EXCEPT ![p] = "FAILED"]
        /\ Settle(OrdersOf(p)) /\ CancelUnpaidOrders(OrdersOf(p)) /\ ReleaseFrame
        /\ UNCHANGED <<payOf, asking, callPc, gateway, pastDue, pollVars>>
        /\ callPc[p] \notin {"idle", "call"}
    BY <1>2 DEF ApplyFailure, CallInv
  <2>2. /\ OrdersOf(p) \in SUBSET Order
        /\ \A o \in OrdersOf(p) : status[o] = "PENDING" /\ settled'[o]
    BY <2>1, SettleStamps DEF OrdersOf, Unpaid, CountedInv, LifecycleInv
  <2>3. /\ CountedInv' /\ TypeOK'
        /\ \A o \in Order : /\ settled[o] => settled'[o]
                            /\ status'[o] # "NONE" <=> status[o] # "NONE"
    BY <2>1, <2>2, ReleaseKeepsCount
  <2>4. PayTypeOK'
    BY <2>1, <2>3 DEF PayTypeOK, PaymentStatus, pollVars
  <2>5. \A o \in Order : \/ status'[o] = status[o] /\ awaiting'[o] = awaiting[o]
                         \/ status'[o] = "CANCELLED" /\ ~awaiting'[o]
    BY <2>1 DEF CancelUnpaidOrders, PayTypeOK, TypeOK
  <2>6. /\ AttachInv'
        /\ \A q \in Payment : /\ \A o \in OrdersOf(q)' : o \in OrdersOf(q)
                              /\ \A o \in asking'[q] : status'[o] # "NONE"
                              /\ callPc'[q] = "cancelUnpaid"
                                   => \A o \in OrdersLeft(q)' : settled'[o]
    BY <2>1, <2>3, <2>5, OrdersShrink
  <2>7. CallInv'
    BY <2>1, <2>6 DEF CallInv, PayTypeOK
  <2>8. PollInv'
    BY <2>1, <2>3, <2>6 DEF PollInv, OrdersOf, pollVars
  <2>9. ConfirmedIsPaid' /\ PaidIsVisible'
    BY <2>1, <2>5, <2>6 DEF ConfirmedIsPaid, PaidIsVisible, PayTypeOK
  <2> QED
    BY <2>3, <2>4, <2>6, <2>7, <2>8, <2>9
<1> QED
  BY <1>1, <1>2 DEF ApplyWebhook

\* Polls of late payments.
LEMMA PollKeepsPay ==
    ASSUME PayInv, NEW v \in Poller, Poll(v)
    PROVE  PayInv'
<1> USE DEF PayInv
<1>0. ASSUME UNCHANGED baseVars
      PROVE  /\ CountedInv' /\ TypeOK'
             /\ UNCHANGED <<status, awaiting, settled>>
  BY <1>0, QuietKeepsCount DEF CountedInv, LifecycleInv, baseVars, orderVars
<1>1. ASSUME NEW p \in Payment, PollAsks(v, p)
      PROVE  PayInv'
  <2>1. /\ CountedInv' /\ TypeOK' /\ UNCHANGED <<status, awaiting, settled>>
        /\ pollPc' = [pollPc EXCEPT ![v] = "expire"]
        /\ UNCHANGED <<payStatus, payOf, callPc, asking, gateway, pastDue>>
        /\ UNCHANGED <<polled, sweeping>>
    BY <1>0, <1>1 DEF PollAsks, payVars
  <2>2. PayTypeOK'
    BY <2>1 DEF PayTypeOK
  <2>3. CallInv' /\ AttachInv' /\ ConfirmedIsPaid' /\ PaidIsVisible'
    BY <2>1
    DEF CallInv, OrdersLeft, OrdersOf, Payable, Unpaid, AttachInv, ConfirmedIsPaid,
        PaidIsVisible
  <2>4. PollInv'
    BY <2>1 DEF PollInv, OrdersOf, Unpaid, PayTypeOK
  <2> QED
    BY <2>1, <2>2, <2>3, <2>4
<1>2. CASE ExpireStale(v)
  <2>1. /\ CountedInv' /\ TypeOK' /\ UNCHANGED <<status, awaiting, settled>>
        /\ UNCHANGED <<payOf, callPc, asking, gateway, pastDue, polled>>
        /\ \A q \in Payment :
               \/ payStatus'[q] = payStatus[q]
               \/ /\ payStatus[q] = "PENDING" /\ pastDue[q]
                  /\ payStatus'[q] = "EXPIRED"
        /\ \A q \in sweeping'[v] : pastDue[q]
        /\ \A u \in Poller \ {v} : /\ sweeping'[u] = sweeping[u]
                                   /\ pollPc'[u] = pollPc[u]
        /\ pollPc'[v] \in {"idle", "settle"}
    BY <1>0, <1>2 DEF ExpireStale, PayTypeOK
  <2>2. PayTypeOK'
    BY <1>2, <2>1 DEF ExpireStale, PayTypeOK, PaymentStatus
  <2>3. CallInv'
    BY <2>1 DEF CallInv, OrdersLeft, Payable, Unpaid
  <2>4. PollInv'
    BY <2>1 DEF PollInv, OrdersOf, Unpaid
  <2>5. AttachInv' /\ ConfirmedIsPaid' /\ PaidIsVisible'
    BY <2>1
    DEF AttachInv, ConfirmedIsPaid, PaidIsVisible, OrdersOf, Unpaid, PayTypeOK
  <2> QED
    BY <2>1, <2>2, <2>3, <2>4, <2>5
<1>3. ASSUME NEW q \in Payment, ExpireSettle(v, q)
      PROVE  PayInv'
  <2>1. /\ q \in sweeping[v] /\ pastDue[q]
        /\ Settle(OrdersOf(q)) /\ ReleaseFrame
        /\ polled' = [polled EXCEPT ![v] = q]
        /\ pollPc' = [pollPc EXCEPT ![v] = "cancel"]
        /\ UNCHANGED <<status, awaiting, payStatus, payOf, callPc, asking>>
        /\ UNCHANGED <<gateway, pastDue, sweeping>>
    BY <1>3 DEF ExpireSettle, PollInv, payVars
  <2>2. CountedInv' /\ TypeOK' /\ \A o \in Order : settled[o] => settled'[o]
    <3>1. {} \in SUBSET Order /\ \A o \in {} : status[o] = "PENDING" /\ settled'[o]
      OBVIOUS
    <3> QED
      BY <2>1, <3>1, ReleaseKeepsCount
  <2>3. PayTypeOK'
    BY <2>1, <2>2 DEF PayTypeOK
  <2>4. /\ AttachInv'
        /\ \A p \in Payment : /\ \A o \in OrdersOf(p)' : o \in OrdersOf(p)
                              /\ \A o \in asking'[p] : status'[o] # "NONE"
                              /\ callPc'[p] = "cancelUnpaid"
                                   => \A o \in OrdersLeft(p)' : settled'[o]
    BY <2>1, <2>2, OrdersShrink
  <2>5. CallInv'
    BY <2>1, <2>4 DEF CallInv, PayTypeOK
  <2>6. \A o \in OrdersOf(q) : settled'[o]
    BY <2>1, SettleStamps DEF OrdersOf, Unpaid, CountedInv, LifecycleInv
  <2>7. PollInv'
    BY <2>1, <2>2, <2>4, <2>6 DEF PollInv, OrdersOf, PayTypeOK
  <2>8. ConfirmedIsPaid' /\ PaidIsVisible'
    BY <2>1, <2>4 DEF ConfirmedIsPaid, PaidIsVisible
  <2> QED
    BY <2>2, <2>3, <2>4, <2>5, <2>7, <2>8
<1>4. CASE ExpireCancel(v)
  <2>1. /\ pollPc[v] = "cancel" /\ CancelUnpaidOrders(OrdersOf(polled[v]))
        /\ sweeping' = [sweeping EXCEPT ![v] = sweeping[v] \ {polled[v]}]
        /\ pollPc' = [pollPc EXCEPT ![v] =
               IF sweeping[v] \ {polled[v]} = {} THEN "idle" ELSE "settle"]
        /\ ReleaseFrame
        /\ UNCHANGED <<reservedQty, settled, payStatus, payOf, callPc, asking>>
        /\ polled' = [polled EXCEPT ![v] = NoPayment]
        /\ UNCHANGED <<gateway, pastDue>>
    BY <1>4 DEF ExpireCancel, payVars
  <2>2. /\ OrdersOf(polled[v]) \in SUBSET Order
        /\ \A o \in OrdersOf(polled[v]) : status[o] = "PENDING" /\ settled'[o]
    BY <2>1 DEF OrdersOf, Unpaid, PollInv
  <2>3. /\ CountedInv' /\ TypeOK'
        /\ \A o \in Order : /\ settled[o] => settled'[o]
                            /\ status'[o] # "NONE" <=> status[o] # "NONE"
    BY <2>1, <2>2, ReleaseKeepsCount
  <2>4. PayTypeOK'
    BY <2>1, <2>3 DEF PayTypeOK
  <2>5. \A o \in Order : \/ status'[o] = status[o] /\ awaiting'[o] = awaiting[o]
                         \/ status'[o] = "CANCELLED" /\ ~awaiting'[o]
    BY <2>1 DEF CancelUnpaidOrders, PayTypeOK, TypeOK
  <2>6. /\ AttachInv'
        /\ \A p \in Payment : /\ \A o \in OrdersOf(p)' : o \in OrdersOf(p)
                              /\ \A o \in asking'[p] : status'[o] # "NONE"
                              /\ callPc'[p] = "cancelUnpaid"
                                   => \A o \in OrdersLeft(p)' : settled'[o]
    BY <2>1, <2>3, <2>5, OrdersShrink
  <2>7. CallInv'
    BY <2>1, <2>6 DEF CallInv, PayTypeOK
  <2>8. PollInv'
    BY <2>1, <2>3, <2>6 DEF PollInv, PayTypeOK
  <2>9. ConfirmedIsPaid' /\ PaidIsVisible'
    BY <2>1, <2>5, <2>6 DEF ConfirmedIsPaid, PaidIsVisible
  <2> QED
    BY <2>3, <2>4, <2>6, <2>7, <2>8, <2>9
<1>5. CASE PollEnds(v)
  <2>1. /\ CountedInv' /\ TypeOK' /\ UNCHANGED <<status, awaiting, settled>>
        /\ pollPc' = [pollPc EXCEPT ![v] = "idle"]
        /\ sweeping' = [sweeping EXCEPT ![v] = {}]
        /\ UNCHANGED <<payStatus, payOf, callPc, asking, gateway, pastDue>>
        /\ polled' = [polled EXCEPT ![v] = NoPayment]
    BY <1>0, <1>5 DEF PollEnds, payVars
  <2>2. PayTypeOK'
    BY <2>1 DEF PayTypeOK
  <2>3. CallInv' /\ AttachInv' /\ ConfirmedIsPaid' /\ PaidIsVisible'
    BY <2>1
    DEF CallInv, OrdersLeft, OrdersOf, Payable, Unpaid, AttachInv, ConfirmedIsPaid,
        PaidIsVisible
  <2>4. PollInv'
    BY <2>1 DEF PollInv, OrdersOf, Unpaid, PayTypeOK
  <2> QED
    BY <2>1, <2>2, <2>3, <2>4
<1> QED
  BY <1>1, <1>2, <1>3, <1>4, <1>5 DEF Poll

\* A step that changes nothing.
LEMMA StutterKeepsPay == PayInv /\ UNCHANGED allVars => PayInv'
<1> SUFFICES ASSUME PayInv, UNCHANGED allVars
             PROVE  PayInv'
  OBVIOUS
<1>1. UNCHANGED baseVars /\ CountedInv'
  BY QuietKeepsCount DEF PayInv, allVars, vars, baseVars
<1>2. PayTypeOK'
  BY <1>1 DEF PayInv, CountedInv, LifecycleInv, PayTypeOK, allVars, payVars, pollVars
<1>3. CallInv' /\ PollInv' /\ AttachInv' /\ ConfirmedIsPaid' /\ PaidIsVisible'
  BY <1>1
  DEF PayInv, CallInv, PollInv, AttachInv, ConfirmedIsPaid, PaidIsVisible,
      OrdersLeft, OrdersOf, Payable, Unpaid, allVars, payVars, pollVars, baseVars,
      orderVars
<1> QED
  BY <1>1, <1>2, <1>3 DEF PayInv

\* Together: the invariant is inductive.
LEMMA NextKeepsPay == PayInv /\ [PayNext]_allVars => PayInv'
BY BaseKeepsPay, CheckoutKeepsPay, GatewayKeepsPay, SettlementKeepsPay,
   PollKeepsPay, StutterKeepsPay DEF PayNext

\* So it holds in every reachable state.
LEMMA PayInvariant == PaySpec => []PayInv
BY InitPay, NextKeepsPay, PTL DEF PaySpec

-----------------------------------------------------------------------------
(* What follows.                                                            *)

\* Type correctness of payments, checkout calls, the gateway and the polls.
THEOREM PayTypeCorrect == PaySpec => []PayTypeOK
BY PayInvariant, PTL DEF PayInv

\* An order that the kitchen can see is paid for, and the gateway has the
\* money, whatever webhooks, polls, sweeps and failed checkouts do meanwhile.
THEOREM PaidBeforeCooked == PaySpec => []ConfirmedIsPaid
BY PayInvariant, PTL DEF PayInv

\* A payment that succeeded leaves none of its orders invisible: the link that
\* is paid exists only once the orders are attached.
THEOREM AllPaidForIsVisible == PaySpec => []PaidIsVisible
BY PayInvariant, PTL DEF PayInv

\* Cancelled and delivered orders hold no portions, also where a payment's
\* failure or expiry cancelled them in two statements.
THEOREM UnpaidHoldNothing == PaySpec => []OverHoldsNothing
<1>1. PayInv => OverHoldsNothing
  BY DEF PayInv, CountedInv, LifecycleInv
<1> QED
  BY <1>1, PayInvariant, PTL

\* Releases of unpaid orders leave no reservation that nobody holds.
THEOREM PaymentsLeakNothing == PaySpec => []NoPhantomReservation
<1>1. PayInv => NoPhantomReservation
  BY DEF PayInv, CountedInv, CountInv
<1> QED
  BY <1>1, PayInvariant, PTL

\* A release only settles orders that were written, or cancels ones that are
\* unpaid; a success does neither.
LEMMA ReleasesKeepPromises ==
    ASSUME PayInv, PayInv',
           \/ \E p \in Payment : Checkout(p) \/ Gateway(p) \/ ApplyWebhook(p)
           \/ \E v \in Poller : Poll(v)
    PROVE  PromisesKept
<1> USE DEF PayInv, CountedInv
<1>1. /\ \/ \E S : Settle(S)
         \/ UNCHANGED <<reservedQty, settled>>
      /\ UNCHANGED <<basket, claimed, pc>>
      /\ \/ status' = status
         \/ \E T : CancelUnpaidOrders(T) /\ \A o \in T : status[o] = "PENDING"
  <2> USE DEF baseVars, menuVars, cartVars, orderVars, ReleaseFrame
  <2>1. ASSUME NEW p \in Payment, GiveBackUnpaid(p) \/ CancelUnpaid(p)
        PROVE  <1>1!:
    BY <2>1 DEF GiveBackUnpaid, CancelUnpaid, OrdersLeft, Payable, Unpaid
  <2>2. ASSUME NEW p \in Payment,
               \/ \E orders \in SUBSET Order :
                      CheckoutOpens(p, orders) \/ CheckoutRefused(p, orders)
               \/ \E opened, answered \in BOOLEAN : CallGateway(p, opened, answered)
               \/ \E written \in BOOLEAN : CloseUnopened(p, written)
               \/ Attach(p) \/ AttachFails(p) \/ CheckoutDies(p) \/ Gateway(p)
        PROVE  <1>1!:
    BY <2>2
    DEF CheckoutOpens, CheckoutRefused, CallGateway, CloseUnopened, Attach,
        AttachFails, CheckoutDies, Gateway, WindowCloses, GatewayDecides
  <2>3. ASSUME NEW p \in Payment, ApplyWebhook(p)
        PROVE  <1>1!:
    BY <2>3 DEF ApplyWebhook, ApplySuccess, ApplyFailure, OrdersOf, Unpaid
  <2>4. ASSUME NEW v \in Poller, Poll(v)
        PROVE  <1>1!:
    <3>1. CASE ExpireCancel(v)
      <4>1. /\ CancelUnpaidOrders(OrdersOf(polled[v]))
            /\ UNCHANGED <<reservedQty, settled, basket, claimed, pc>>
        BY <3>1 DEF ExpireCancel
      <4>2. \A o \in OrdersOf(polled[v]) : status[o] = "PENDING"
        BY DEF OrdersOf, Unpaid
      <4> QED
        BY <4>1, <4>2
    <3>2. ASSUME NEW q \in Payment, ExpireSettle(v, q)
          PROVE  <1>1!:
      BY <3>2 DEF ExpireSettle
    <3>3. CASE ExpireStale(v) \/ PollEnds(v) \/ \E p \in Payment : PollAsks(v, p)
      BY <3>3 DEF ExpireStale, PollEnds, PollAsks
    <3> QED
      BY <2>4, <3>1, <3>2, <3>3 DEF Poll
  <2> QED
    BY <2>1, <2>2, <2>3, <2>4 DEF Checkout
<1>2. \A o \in Order : status'[o] # "NONE" <=> status[o] # "NONE"
  BY <1>1 DEF CancelUnpaidOrders
<1>3. ASSUME NEW S, Settle(S)
      PROVE  PromisesKept
  BY <1>1, <1>2, <1>3, CountSettle
<1>4. CASE UNCHANGED <<reservedQty, settled>>
  BY <1>1, <1>2, <1>4, CountQuiet DEF HalfPlaced
<1> QED
  BY <1>1, <1>3, <1>4

\* Paying, failing to pay and releasing what nobody paid for forget no promise:
\* a portion drops out of reservedQty in the two ways PromisesAreRemembered
\* names and in no other, whatever webhooks, polls and checkouts overlap.
THEOREM PaymentsForgetNoPromise == PaySpec => NoPromiseForgotten
<1>1. PayInv /\ PayInv' /\ [PayNext]_allVars =>
          [\A i \in Item : Uncounted(i)' > Uncounted(i) =>
              \/ /\ ReconcileReservations
                 /\ \E r \in Cart : HalfPlaced(r) /\ i \in claimed[r]
              \/ \E r \in Cart :
                     UndoStock(r) /\ status[OrderWith(r, i)] # "NONE"]_vars
  <2> SUFFICES ASSUME PayInv, PayInv', [PayNext]_allVars,
                      NEW i \in Item, Uncounted(i)' > Uncounted(i)
               PROVE  \/ /\ ReconcileReservations
                         /\ \E r \in Cart : HalfPlaced(r) /\ i \in claimed[r]
                      \/ \E r \in Cart :
                             UndoStock(r) /\ status[OrderWith(r, i)] # "NONE"
    OBVIOUS
  <2>1. CASE [Next]_vars
    BY <2>1, StepRemembers DEF PayInv
  <2>2. CASE \/ \E p \in Payment : Checkout(p) \/ Gateway(p) \/ ApplyWebhook(p)
             \/ \E v \in Poller : Poll(v)
    <3>1. PromiseKept(i)
      BY <2>2, ReleasesKeepPromises DEF PromisesKept
    <3> QED
      BY <3>1, KeptIsCounted DEF PayInv, PayTypeOK
  <2> QED
    BY <2>1, <2>2 DEF PayNext, allVars
<1> QED
  BY <1>1, PayInvariant, PTL DEF PaySpec, NoPromiseForgotten

\* Every step that writes a status writes it over a pending one.
LEMMA StepSettles ==
    PayInv /\ [PayNext]_allVars =>
        [\A p \in Payment : payStatus[p] \notin {"NONE", "PENDING"}
                                => payStatus'[p] = payStatus[p]]_allVars
<1> SUFFICES ASSUME PayInv, PayNext, NEW p \in Payment,
                    payStatus[p] \notin {"NONE", "PENDING"}
             PROVE  payStatus'[p] = payStatus[p]
  OBVIOUS
<1> USE DEF PayInv
<1>1. CASE Next /\ UNCHANGED <<payVars, pollVars>>
  BY <1>1 DEF payVars
<1>2. ASSUME NEW q \in Payment, Checkout(q)
      PROVE  payStatus'[p] = payStatus[p]
  BY <1>2
  DEF Checkout, CheckoutOpens, CheckoutRefused, CallGateway, CloseUnopened, Attach,
      AttachFails, GiveBackUnpaid, CancelUnpaid, CheckoutDies, CallInv, PayTypeOK
<1>3. ASSUME NEW q \in Payment, Gateway(q) \/ ApplyWebhook(q)
      PROVE  payStatus'[p] = payStatus[p]
  BY <1>3
  DEF Gateway, WindowCloses, GatewayDecides, ApplyWebhook, ApplySuccess,
      ApplyFailure, PayTypeOK
<1>4. ASSUME NEW v \in Poller, Poll(v)
      PROVE  payStatus'[p] = payStatus[p]
  BY <1>4
  DEF Poll, PollAsks, ExpireStale, ExpireSettle, ExpireCancel, PollEnds, payVars
<1> QED
  BY <1>1, <1>2, <1>3, <1>4 DEF PayNext

\* Terminal states of a payment are final: a webhook that comes late, an
\* expiry sweep or the close of a failed checkout changes a pending one only.
THEOREM SettledForGood == PaySpec => SettlementFinal
BY PayInvariant, StepSettles, PTL DEF PaySpec, SettlementFinal

=============================================================================
