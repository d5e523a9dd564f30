------------------------ MODULE Subscriptions_proofs ------------------------
(***************************************************************************)
(* Proofs about Subscriptions, for any number of orders, references and     *)
(* webhook requests in progress at once.                                    *)
(***************************************************************************)
EXTENDS Subscriptions, TLAPS

\* The statements of the webhook keep the types of the rows.
LEMMA RowTypes ==
  ASSUME NEW order \in [status : OrderStatus, ref : Ref \cup {NoRef}],
         NEW sub \in SubStatus, NEW r \in Ref \cup {NoRef}, NEW s \in PaymentStatus
  PROVE  /\ OrderAfter(order, r, s) \in [status : OrderStatus, ref : Ref \cup {NoRef}]
         /\ SubAfter(sub, s) \in SubStatus
BY DEF OrderAfter, SubAfter, OrderStatus, SubStatus, PaymentStatus

\* An order and its subscription are inserted together, and a request that waits to
\* insert them finds neither.
InsertedTogether ==
  /\ \A o \in Order : orders[o].status = "absent" <=> subs[o] = "absent"
  /\ \A o \in subscribing : subs[o] = "absent"
  /\ \A o \in unsubscribing : subs[o] # "absent"

\* A request in progress names an order and a reference; one that writes names an
\* order that is there.
RequestsName ==
  \A h \in Hook :
    /\ hooks[h].pc # "idle" => hooks[h].order \in Order /\ hooks[h].ref \in Ref
    /\ hooks[h].pc = "write" => orders[hooks[h].order].status # "absent"

\* What RefundEndsAccess rests on: the refund cancelled the subscription.
RefundCancelled ==
  \A o \in Order : orders[o].status = "refunded" => subs[o] = "cancelled"

Inv == /\ TypeOK
       /\ InsertedTogether
       /\ RequestsName
       /\ RefundCancelled
       /\ PaidLeavesPending

\* The empty tables satisfy the invariant.
LEMMA InvInit == Init => Inv
<1> SUFFICES ASSUME Init PROVE Inv
  OBVIOUS
<1>1. NoRequest \in Request
  BY DEF NoRequest, Request, PaymentStatus
<1>2. TypeOK
  BY <1>1 DEF Init, TypeOK, OrderStatus, SubStatus
<1>3. InsertedTogether /\ RefundCancelled /\ PaidLeavesPending
  BY DEF Init, InsertedTogether, RefundCancelled, PaidLeavesPending
<1>4. RequestsName
  BY DEF Init, RequestsName, NoRequest
<1>5. QED BY <1>2, <1>3, <1>4 DEF Inv

\* Every handler keeps the invariant, however their reads and writes interleave.
LEMMA InvStep == Inv /\ [Next]_vars => Inv'
<1>0. SUFFICES ASSUME Inv, [Next]_vars PROVE Inv'
  OBVIOUS
<1> USE DEF Inv
<1> NoRequest \in Request
  BY DEF NoRequest, Request, PaymentStatus
<1>1. ASSUME NEW o \in Order, Subscribe(o) PROVE Inv'
  BY <1>0, <1>1 DEF Subscribe, TypeOK, InsertedTogether, RequestsName, RefundCancelled,
     PaidLeavesPending
<1>2. ASSUME NEW o \in Order, CreateOrder(o) PROVE Inv'
  <2>1. TypeOK'
    BY <1>0, <1>2 DEF CreateOrder, TypeOK, OrderStatus, SubStatus
  <2>2. InsertedTogether'
    BY <1>0, <1>2 DEF CreateOrder, TypeOK, InsertedTogether
  <2>3. RequestsName'
    BY <1>0, <1>2 DEF CreateOrder, TypeOK, RequestsName
  <2>4. RefundCancelled' /\ PaidLeavesPending'
    BY <1>0, <1>2 DEF CreateOrder, TypeOK, RefundCancelled, PaidLeavesPending
  <2>5. QED BY <2>1, <2>2, <2>3, <2>4
<1>3. ASSUME NEW o \in Order, Expire(o) PROVE Inv'
  BY <1>0, <1>3 DEF Expire, TypeOK, InsertedTogether, RequestsName, RefundCancelled,
     PaidLeavesPending
<1>4. ASSUME NEW o \in Order, Unsubscribe(o) PROVE Inv'
  BY <1>0, <1>4 DEF Unsubscribe, Current, TypeOK, InsertedTogether, RequestsName,
     RefundCancelled, PaidLeavesPending
<1>5. ASSUME NEW o \in Order, CancelSubscription(o) PROVE Inv'
  <2>1. TypeOK'
    BY <1>0, <1>5 DEF CancelSubscription, TypeOK, SubStatus
  <2>2. InsertedTogether'
    BY <1>0, <1>5 DEF CancelSubscription, TypeOK, InsertedTogether
  <2>3. RequestsName' /\ RefundCancelled' /\ PaidLeavesPending'
    BY <1>0, <1>5 DEF CancelSubscription, TypeOK, RequestsName, RefundCancelled,
       PaidLeavesPending
  <2>4. QED BY <2>1, <2>2, <2>3
<1>6. ASSUME NEW o \in Order, Disconnect(o) PROVE Inv'
  BY <1>0, <1>6 DEF Disconnect, TypeOK, InsertedTogether, RequestsName, RefundCancelled,
     PaidLeavesPending
<1>7. ASSUME NEW h \in Hook, NEW o \in Order, NEW r \in Ref, NEW s \in PaymentStatus,
             Receive(h, o, r, s)
      PROVE  Inv'
  <2>1. PICK b \in Order \cup {NoOrder} :
          hooks' = [hooks EXCEPT ![h] = [pc |-> "read", order |-> o, ref |-> r,
                                         status |-> s, bound |-> b]]
    BY <1>7 DEF Receive, BoundTo
  <2>2. TypeOK'
    BY <1>0, <1>7, <2>1 DEF Receive, TypeOK, Request
  <2>3. RequestsName'
    BY <1>0, <1>7, <2>1 DEF Receive, TypeOK, RequestsName
  <2>4. InsertedTogether' /\ RefundCancelled' /\ PaidLeavesPending'
    BY <1>0, <1>7 DEF Receive, InsertedTogether, RefundCancelled, PaidLeavesPending
  <2>5. QED BY <2>2, <2>3, <2>4
<1>8. ASSUME NEW h \in Hook, Decide(h) PROVE Inv'
  <2>1. InsertedTogether' /\ RefundCancelled' /\ PaidLeavesPending'
    BY <1>0, <1>8 DEF Decide, InsertedTogether, RefundCancelled, PaidLeavesPending
  <2>2. CASE Accepted(h)
    <3>1. hooks' = [hooks EXCEPT ![h].pc = "write"]
      BY <1>8, <2>2 DEF Decide
    <3>2. [hooks[h] EXCEPT !.pc = "write"] \in Request
      BY <1>0 DEF TypeOK, Request
    <3>3. TypeOK'
      BY <1>0, <1>8, <3>1, <3>2 DEF Decide, TypeOK
    <3>4. RequestsName'
      BY <1>0, <1>8, <2>2, <3>1 DEF Decide, Accepted, TypeOK, Request, RequestsName
    <3>5. QED BY <2>1, <3>3, <3>4
  <2>3. CASE ~ Accepted(h)
    <3>1. TypeOK' /\ RequestsName'
      BY <1>0, <1>8, <2>3 DEF Decide, Ends, NoRequest, TypeOK, RequestsName
    <3>2. QED BY <2>1, <3>1
  <2>4. QED BY <2>2, <2>3
<1>9. ASSUME NEW h \in Hook, Write(h) PROVE Inv'
  <2> DEFINE p == hooks[h].order
             s == hooks[h].status
  <2>1. /\ p \in Order /\ hooks[h].ref \in Ref /\ s \in PaymentStatus
        /\ orders[p].status # "absent" /\ subs[p] # "absent"
    BY <1>0, <1>9 DEF Write, RequestsName, InsertedTogether, TypeOK, Request
  <2>2. /\ orders' = [orders EXCEPT ![p] = OrderAfter(orders[p], hooks[h].ref, s)]
        /\ subs' = [subs EXCEPT ![p] = SubAfter(subs[p], s)]
        /\ hooks' = [hooks EXCEPT ![h] = NoRequest]
        /\ UNCHANGED << expired, subscribing, unsubscribing, overlapped >>
    BY <1>9 DEF Write, Ends
  <2>3. TypeOK'
    <3>1. /\ OrderAfter(orders[p], hooks[h].ref, s) \in [status : OrderStatus, ref : Ref \cup {NoRef}]
          /\ SubAfter(subs[p], s) \in SubStatus
      BY <1>0, <2>1, RowTypes DEF TypeOK
    <3>2. QED BY <1>0, <2>1, <2>2, <3>1 DEF TypeOK
  <2>4. /\ orders'[p].status \notin {"absent", "pending"}
        /\ subs'[p] # "absent"
        /\ orders'[p].status = "refunded" => subs'[p] = "cancelled"
        /\ orders'[p].status = "paid" => subs'[p] # "pending_payment"
    BY <1>0, <2>1, <2>2 DEF TypeOK, OrderAfter, SubAfter, PaymentStatus
  <2>5. \A q \in Order : q # p => orders'[q] = orders[q] /\ subs'[q] = subs[q]
    BY <1>0, <2>1, <2>2 DEF TypeOK
  <2>6. InsertedTogether'
    BY <1>0, <2>1, <2>2, <2>4, <2>5 DEF InsertedTogether, TypeOK
  <2>7. RequestsName'
    BY <1>0, <2>2, <2>4, <2>5 DEF RequestsName, NoRequest, TypeOK
  <2>8. RefundCancelled' /\ PaidLeavesPending'
    BY <1>0, <2>4, <2>5 DEF RefundCancelled, PaidLeavesPending
  <2>9. QED BY <2>3, <2>6, <2>7, <2>8
<1>10. ASSUME NEW h \in Hook, HookFails(h) PROVE Inv'
  <2>1. TypeOK' /\ RequestsName'
    BY <1>0, <1>10 DEF HookFails, Ends, NoRequest, TypeOK, RequestsName
  <2>2. InsertedTogether' /\ RefundCancelled' /\ PaidLeavesPending'
    BY <1>0, <1>10 DEF HookFails, InsertedTogether, RefundCancelled, PaidLeavesPending
  <2>3. QED BY <2>1, <2>2
<1>11. CASE UNCHANGED vars
  BY <1>0, <1>11 DEF vars, TypeOK, InsertedTogether, RequestsName, RefundCancelled,
     PaidLeavesPending
<1>12. QED
  BY <1>0, <1>1, <1>2, <1>3, <1>4, <1>5, <1>6, <1>7, <1>8, <1>9, <1>10, <1>11 DEF Next

\* Tables, requests and histories keep their types.
THEOREM TypeCorrect == Spec => []TypeOK
BY InvInit, InvStep, PTL DEF Spec, Inv

\* The invariant: orders and subscriptions come in pairs, requests write to orders that
\* are there, a refunded order's subscription is cancelled.
THEOREM InvHolds == Spec => []Inv
BY InvInit, InvStep, PTL DEF Spec

\* However many deliveries race, an order that stands refunded gives no access.
THEOREM RefundEndsAccessHolds == Spec => []RefundEndsAccess
<1>1. Inv => RefundEndsAccess
  BY DEF Inv, RefundCancelled, RefundEndsAccess
<1>2. QED BY <1>1, InvHolds, PTL

\* Payment and activation stay together.
THEOREM PaidLeavesPendingHolds == Spec => []PaidLeavesPending
BY InvHolds, PTL DEF Inv

\* A cancelled subscription stays cancelled: a payment only activates a pending one, and
\* a number whose subscription exists is not inserted again.
THEOREM CancelledIsFinalHolds == Spec => CancelledIsFinal
<1>1. Inv /\ [Next]_vars => [CancelledKept]_vars
  <2>0. SUFFICES ASSUME Inv, Next, NEW o \in Order, subs[o] = "cancelled"
                 PROVE  subs'[o] = "cancelled"
    BY DEF CancelledKept
  <2>1. ASSUME NEW p \in Order, CreateOrder(p) PROVE subs'[o] = "cancelled"
    BY <2>0, <2>1 DEF CreateOrder, Inv, TypeOK, InsertedTogether
  <2>2. ASSUME NEW p \in Order, CancelSubscription(p) PROVE subs'[o] = "cancelled"
    BY <2>0, <2>2 DEF CancelSubscription, Inv, TypeOK
  <2>3. ASSUME NEW h \in Hook, Write(h) PROVE subs'[o] = "cancelled"
    <3>1. hooks[h].order \in Order /\ hooks[h].status \in PaymentStatus
      BY <2>0, <2>3 DEF Write, Inv, TypeOK, RequestsName, Request
    <3>2. subs' = [subs EXCEPT ![hooks[h].order] = SubAfter(@, hooks[h].status)]
      BY <2>3 DEF Write
    <3>3. SubAfter("cancelled", hooks[h].status) = "cancelled"
      BY <3>1 DEF SubAfter, PaymentStatus
    <3>4. QED BY <2>0, <3>1, <3>2, <3>3 DEF Inv, TypeOK
  <2>4. ASSUME NEW p \in Order,
               Subscribe(p) \/ Expire(p) \/ Unsubscribe(p) \/ Disconnect(p)
        PROVE  subs'[o] = "cancelled"
    BY <2>0, <2>4 DEF Subscribe, Expire, Unsubscribe, Disconnect
  <2>5. ASSUME NEW h \in Hook, NEW p \in Order, NEW r \in Ref, NEW s \in PaymentStatus,
               Receive(h, p, r, s)
        PROVE  subs'[o] = "cancelled"
    BY <2>0, <2>5 DEF Receive
  <2>6. ASSUME NEW h \in Hook, Decide(h) \/ HookFails(h) PROVE subs'[o] = "cancelled"
    BY <2>0, <2>6 DEF Decide, HookFails
  <2>7. QED BY <2>0, <2>1, <2>2, <2>3, <2>4, <2>5, <2>6 DEF Next
<1>2. QED BY <1>1, InvHolds, PTL DEF Spec, CancelledIsFinal
-----------------------------------------------------------------------------
(***************************************************************************)
(* What holds as long as deliveries do not overlap                          *)
(***************************************************************************)
\* One request at a time, ...
OneInProgress ==
  \A g, h \in Hook : hooks[g].pc # "idle" /\ hooks[h].pc # "idle" => g = h

\* ... what it read still stands when it writes: ...
ReadsStand ==
  \A h \in Hook :
    /\ hooks[h].pc # "idle" => BoundTo(hooks[h].ref) \subseteq {hooks[h].bound}
    /\ hooks[h].pc = "write" => Accepted(h)

\* ... its decision and the reference's binding.
Serial == /\ OneInProgress
          /\ ReadsStand
          /\ \A o \in Order : subs[o] = "active" => orders[o].status = "paid"
          /\ \A o, p \in Order : orders[o].ref # NoRef /\ orders[o].ref = orders[p].ref
                                  => o = p

InvSerial == ~ overlapped => Serial

\* No request, no order: the invariant holds at first.
LEMMA SerialInit == Init => InvSerial
BY NoRefAssumption
   DEF Init, InvSerial, Serial, OneInProgress, ReadsStand, BoundTo, Accepted, NoRequest

\* Every step keeps it, unless it makes two requests overlap.
LEMMA SerialStep == Inv /\ InvSerial /\ [Next]_vars => InvSerial'
<1>0. SUFFICES ASSUME Inv, InvSerial, [Next]_vars, ~ overlapped' PROVE Serial'
  BY DEF InvSerial
<1>1. ~ overlapped
  BY <1>0 DEF Next, vars, Subscribe, CreateOrder, Expire, Unsubscribe, CancelSubscription,
     Disconnect, Receive, Decide, Write, HookFails, Inv, TypeOK
<1>2. Serial
  BY <1>0, <1>1 DEF InvSerial
<1>3. ASSUME UNCHANGED << orders, subs, hooks >> PROVE Serial'
  BY <1>2, <1>3 DEF Serial, OneInProgress, ReadsStand, BoundTo, Accepted
<1>4. ASSUME NEW o \in Order, CancelSubscription(o) PROVE Serial'
  <2>1. OneInProgress' /\ ReadsStand'
    BY <1>2, <1>4 DEF CancelSubscription, Serial, OneInProgress, ReadsStand, BoundTo, Accepted
  <2>2. \A q \in Order : subs'[q] = "active" => subs[q] = "active"
    BY <1>0, <1>4 DEF CancelSubscription, Inv, TypeOK
  <2>3. QED BY <1>2, <1>4, <2>1, <2>2 DEF CancelSubscription, Serial
<1>5. ASSUME NEW o \in Order, CreateOrder(o) PROVE Serial'
  <2>1. /\ orders' = [orders EXCEPT ![o] = [status |-> "pending", ref |-> NoRef]]
        /\ subs' = [subs EXCEPT ![o] = "pending_payment"]
        /\ hooks' = hooks
        /\ orders[o].status = "absent"
    BY <1>0, <1>5 DEF CreateOrder, Inv, InsertedTogether, TypeOK
  <2>2. \A q \in Order : /\ q # o => orders'[q] = orders[q] /\ subs'[q] = subs[q]
                         /\ orders'[o].ref = NoRef
                         /\ subs'[o] # "active"
    BY <1>0, <2>1 DEF Inv, TypeOK
  <2>3. OneInProgress'
    BY <1>2, <2>1 DEF Serial, OneInProgress
  <2>4. ASSUME NEW h \in Hook, hooks[h].pc # "idle"
        PROVE  BoundTo(hooks[h].ref)' \subseteq {hooks'[h].bound}
    <3>1. hooks[h].ref # NoRef
      BY <1>0, <2>4, NoRefAssumption DEF Inv, RequestsName
    <3>2. BoundTo(hooks[h].ref)' \subseteq BoundTo(hooks[h].ref)
      BY <2>1, <2>2, <3>1 DEF BoundTo
    <3>3. QED BY <1>2, <2>1, <2>4, <3>2 DEF Serial, ReadsStand
  <2>5. ASSUME NEW h \in Hook, hooks[h].pc = "write" PROVE Accepted(h)'
    <3>1. hooks[h].order \in Order /\ hooks[h].order # o
      BY <1>0, <2>1, <2>5 DEF Inv, RequestsName
    <3>2. QED BY <1>2, <2>1, <2>2, <2>5, <3>1 DEF Serial, ReadsStand, Accepted
  <2>6. ReadsStand'
    BY <2>1, <2>4, <2>5 DEF ReadsStand
  <2>7. QED BY <1>2, <2>2, <2>3, <2>6 DEF Serial
<1>6. ASSUME NEW h \in Hook, NEW o \in Order, NEW r \in Ref, NEW s \in PaymentStatus,
             Receive(h, o, r, s)
      PROVE  Serial'
  <2>1. PICK b \in IF BoundTo(r) = {} THEN {NoOrder} ELSE BoundTo(r) :
          hooks' = [hooks EXCEPT ![h] = [pc |-> "read", order |-> o, ref |-> r,
                                         status |-> s, bound |-> b]]
    BY <1>6 DEF Receive
  <2>2. UNCHANGED << orders, subs >> /\ \A g \in Hook : hooks[g].pc = "idle"
    BY <1>0, <1>6 DEF Receive
  <2>3. \A g \in Hook : g # h => hooks'[g].pc = "idle"
    BY <1>0, <2>1, <2>2 DEF Inv, TypeOK
  <2>4. /\ hooks'[h].pc = "read"
        /\ hooks'[h].ref = r
        /\ hooks'[h].bound = b
    BY <1>0, <2>1 DEF Inv, TypeOK
  <2>5. BoundTo(r) \subseteq {b}
    BY <1>2, <2>1, NoRefAssumption DEF Serial, BoundTo
  <2>6. OneInProgress'
    BY <2>3 DEF OneInProgress
  <2>7. ReadsStand'
    BY <2>2, <2>3, <2>4, <2>5 DEF ReadsStand, BoundTo
  <2>8. QED BY <1>2, <2>2, <2>6, <2>7 DEF Serial
<1>7. ASSUME NEW h \in Hook, Ends(h), UNCHANGED << orders, subs >> PROVE Serial'
  <2>1. \A g \in Hook : \/ hooks'[g].pc = "idle"
                        \/ hooks'[g] = hooks[g]
    BY <1>0, <1>7 DEF Ends, NoRequest, Inv, TypeOK
  <2>2. OneInProgress'
    BY <1>2, <2>1 DEF Serial, OneInProgress
  <2>3. ReadsStand'
    BY <1>2, <1>7, <2>1 DEF Serial, ReadsStand, BoundTo, Accepted
  <2>4. QED BY <1>2, <1>7, <2>2, <2>3 DEF Serial
<1>8. ASSUME NEW h \in Hook, HookFails(h) PROVE Serial'
  BY <1>7, <1>8 DEF HookFails
<1>9. ASSUME NEW h \in Hook, Decide(h) PROVE Serial'
  <2>1. CASE Accepted(h)
    <3>1. /\ hooks' = [hooks EXCEPT ![h].pc = "write"]
          /\ hooks[h].pc = "read"
          /\ UNCHANGED << orders, subs >>
      BY <1>9, <2>1 DEF Decide
    <3>2. \A g \in Hook : /\ hooks'[g].order = hooks[g].order
                          /\ hooks'[g].ref = hooks[g].ref
                          /\ hooks'[g].bound = hooks[g].bound
                          /\ g # h => hooks'[g] = hooks[g]
      BY <1>0, <3>1 DEF Inv, TypeOK, Request
    <3>3. OneInProgress'
      BY <1>2, <3>1, <3>2 DEF Serial, OneInProgress
    <3>4. ReadsStand'
      BY <1>2, <2>1, <3>1, <3>2 DEF Serial, ReadsStand, BoundTo, Accepted
    <3>5. QED BY <1>2, <3>1, <3>3, <3>4 DEF Serial
  <2>2. CASE ~ Accepted(h)
    BY <1>7, <1>9, <2>2 DEF Decide
  <2>3. QED BY <2>1, <2>2
<1>10. ASSUME NEW h \in Hook, Write(h) PROVE Serial'
  <2> DEFINE p == hooks[h].order
             r == hooks[h].ref
             s == hooks[h].status
  <2>1. /\ orders' = [orders EXCEPT ![p] = OrderAfter(orders[p], r, s)]
        /\ subs' = [subs EXCEPT ![p] = SubAfter(subs[p], s)]
        /\ hooks' = [hooks EXCEPT ![h] = NoRequest]
        /\ hooks[h].pc = "write"
    BY <1>10 DEF Write, Ends
  <2>2. /\ p \in Order /\ r \in Ref /\ s \in PaymentStatus
        /\ orders[p].status \notin Processed
        /\ BoundTo(r) \subseteq {p}
    BY <1>0, <1>2, <2>1, NoOrderAssumption
       DEF Inv, TypeOK, Request, RequestsName, Serial, ReadsStand, Accepted, BoundTo
  <2>3. \A g \in Hook : hooks'[g].pc = "idle"
    BY <1>0, <1>2, <2>1 DEF Inv, TypeOK, Serial, OneInProgress, NoRequest
  <2>4. \A q \in Order : q # p => orders'[q] = orders[q] /\ subs'[q] = subs[q]
    BY <1>0, <2>1, <2>2 DEF Inv, TypeOK
  <2>5. orders'[p] = OrderAfter(orders[p], r, s) /\ subs'[p] = SubAfter(subs[p], s)
    BY <1>0, <2>1, <2>2 DEF Inv, TypeOK
  <2>6. subs[p] # "active"
    BY <1>2, <2>2 DEF Serial, Processed
  <2>7. subs'[p] = "active" => orders'[p].status = "paid"
    BY <2>2, <2>5, <2>6 DEF SubAfter, OrderAfter, PaymentStatus
  <2>8. orders'[p].ref \in {r, orders[p].ref}
    BY <2>2, <2>5 DEF OrderAfter, PaymentStatus
  <2>9. \A o, q \in Order : orders'[o].ref # NoRef /\ orders'[o].ref = orders'[q].ref
                            => o = q
    BY <1>2, <2>2, <2>4, <2>8 DEF Serial, BoundTo
  <2>10. OneInProgress' /\ ReadsStand'
    BY <2>3 DEF OneInProgress, ReadsStand
  <2>11. QED BY <1>2, <2>4, <2>7, <2>9, <2>10 DEF Serial
<1>11. QED
  BY <1>0, <1>3, <1>4, <1>5, <1>6, <1>8, <1>9, <1>10
     DEF Next, vars, Subscribe, Expire, Unsubscribe, Disconnect

\* Between deliveries that do not overlap, what a request read still stands when it
\* writes.
THEOREM SerialHolds == Spec => []InvSerial
BY InvHolds, SerialInit, SerialStep, PTL DEF Spec

\* Then an active subscription is paid for, and a reference names one order.
THEOREM SerialPaymentsHolds == Spec => []SerialPayments
<1>1. InvSerial => SerialPayments
  BY DEF InvSerial, Serial, SerialPayments
<1>2. QED BY <1>1, SerialHolds, PTL

\* Then a processed order is never written again: the webhook is idempotent.
THEOREM ProcessedIsFinalHolds == Spec => ProcessedIsFinal
<1>1. Inv /\ InvSerial /\ [Next]_vars => [ProcessedKept]_vars
  <2>0. SUFFICES ASSUME Inv, InvSerial, Next, ~ overlapped, NEW o \in Order,
                        orders[o].status \in Processed
                 PROVE  orders'[o] = orders[o]
    BY DEF ProcessedKept
  <2>1. ASSUME NEW p \in Order, CreateOrder(p) PROVE orders'[o] = orders[o]
    <3>1. orders[p].status = "absent" /\ p # o
      BY <2>0, <2>1 DEF CreateOrder, Inv, InsertedTogether, TypeOK, Processed
    <3>2. QED BY <2>0, <2>1, <3>1 DEF CreateOrder, Inv, TypeOK
  <2>2. ASSUME NEW h \in Hook, Write(h) PROVE orders'[o] = orders[o]
    <3>1. Accepted(h)
      BY <2>0, <2>2 DEF InvSerial, Serial, ReadsStand, Write
    <3>2. hooks[h].order # o
      BY <2>0, <3>1 DEF Accepted
    <3>3. QED BY <2>0, <2>2, <3>2 DEF Write, Inv, TypeOK
  <2>3. ASSUME NEW p \in Order, \/ Subscribe(p) \/ Expire(p) \/ Unsubscribe(p)
                                \/ CancelSubscription(p) \/ Disconnect(p)
        PROVE  orders'[o] = orders[o]
    BY <2>3 DEF Subscribe, Expire, Unsubscribe, CancelSubscription, Disconnect
  <2>4. ASSUME NEW h \in Hook, NEW p \in Order, NEW r \in Ref, NEW s \in PaymentStatus,
               Receive(h, p, r, s)
        PROVE  orders'[o] = orders[o]
    BY <2>4 DEF Receive
  <2>5. ASSUME NEW h \in Hook, Decide(h) \/ HookFails(h) PROVE orders'[o] = orders[o]
    BY <2>5 DEF Decide, HookFails
  <2>6. QED BY <2>0, <2>1, <2>2, <2>3, <2>4, <2>5 DEF Next
<1>2. QED BY <1>1, InvHolds, SerialHolds, PTL DEF Spec, ProcessedIsFinal
=============================================================================
