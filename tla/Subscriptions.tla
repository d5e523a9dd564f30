--------------------------- MODULE Subscriptions ---------------------------
(***************************************************************************)
(* Orders, payments and subscriptions of gr-api: subscribe, unsubscribe and *)
(* the payment webhook, as concurrent transactions on orders and            *)
(* user_strategy_subscriptions.                                             *)
(*                                                                          *)
(* Each handler reads, decides and then writes, in one READ COMMITTED       *)
(* transaction without row locks: what it decides on may have changed when  *)
(* it writes.  A handler is cut where it reads; its UPDATEs lock the rows   *)
(* they touch until the commit, so they are one step.                       *)
(*                                                                          *)
(* The provider may deliver a webhook several times, in any order and at    *)
(* once.  subscribe makes one order and one subscription row that names it  *)
(* (source_order_id), so both tables are functions of the order.            *)
(***************************************************************************)
EXTENDS FiniteSets

CONSTANTS Order,        \* order numbers: generated, never reused
          NoOrder,
          Ref, NoRef,   \* payment_ref of the provider; NULL
          Hook,         \* webhook requests that may be in progress at once
          Buyer,        \* user_id of each order
          Item          \* strategy of each order

ASSUME NoOrderAssumption == NoOrder \notin Order
ASSUME NoRefAssumption == NoRef \notin Ref

VARIABLES
  orders,         \* app.orders: status and payment_ref of each order
  subs,           \* status of each order's row of user_strategy_subscriptions
  expired,        \* orders whose subscription's expire_date is before CURRENT_DATE
  subscribing,    \* subscribe requests past their check for an active subscription
  unsubscribing,  \* unsubscribe requests past their SELECT: the order they found
  hooks,          \* the webhook requests
  overlapped      \* history: two webhook requests have been in progress at once

vars == << orders, subs, expired, subscribing, unsubscribing, hooks, overlapped >>

OrderStatus == {"absent", "pending", "paid", "failed", "refunded"}
SubStatus == {"absent", "pending_payment", "active", "cancelled"}
PaymentStatus == {"success", "failed", "refunded"}

\* The statuses handle_webhook takes for processed; nothing sets "cancelled".
Processed == {"paid", "refunded", "cancelled", "failed"}

\* A webhook request: where it is, its body, and the order its payment_ref is
\* already bound to.
Request == [pc : {"idle", "read", "write"}, order : Order \cup {NoOrder},
            ref : Ref \cup {NoRef}, status : PaymentStatus, bound : Order \cup {NoOrder}]

NoRequest == [pc |-> "idle", order |-> NoOrder, ref |-> NoRef, status |-> "failed",
              bound |-> NoOrder]

TypeOK ==
  /\ orders \in [Order -> [status : OrderStatus, ref : Ref \cup {NoRef}]]
  /\ subs \in [Order -> SubStatus]
  /\ expired \subseteq Order
  /\ subscribing \subseteq Order
  /\ unsubscribing \subseteq Order
  /\ hooks \in [Hook -> Request]
  /\ overlapped \in BOOLEAN

Init ==
  /\ orders = [o \in Order |-> [status |-> "absent", ref |-> NoRef]]
  /\ subs = [o \in Order |-> "absent"]
  /\ expired = {}
  /\ subscribing = {}
  /\ unsubscribing = {}
  /\ hooks = [h \in Hook |-> NoRequest]
  /\ overlapped = FALSE
-----------------------------------------------------------------------------
\* The test by which subscribe, unsubscribe, pick.py and strategy.py find a current
\* subscription; its outcome is the is_subscribed of every answer.
Current(o) == subs[o] = "active" /\ o \notin expired

SamePlan(o, p) == Buyer[o] = Buyer[p] /\ Item[o] = Item[p]

\* subscribe: "already subscribed and active" ends the request here.
Subscribe(o) ==
  /\ subs[o] = "absent"
  /\ o \notin subscribing
  /\ \A p \in Order : SamePlan(o, p) => ~ Current(p)
  /\ subscribing' = subscribing \cup {o}
  /\ UNCHANGED << orders, subs, expired, unsubscribing, hooks, overlapped >>

\* The rest of subscribe: order, item and subscription in one transaction.
CreateOrder(o) ==
  /\ o \in subscribing
  /\ subscribing' = subscribing \ {o}
  /\ orders' = [orders EXCEPT ![o] = [status |-> "pending", ref |-> NoRef]]
  /\ subs' = [subs EXCEPT ![o] = "pending_payment"]
  /\ UNCHANGED << expired, unsubscribing, hooks, overlapped >>

\* The day after expire_date, which counts from the order, not from the payment.
Expire(o) ==
  /\ subs[o] # "absent"
  /\ expired' = expired \cup {o}
  /\ UNCHANGED << orders, subs, subscribing, unsubscribing, hooks, overlapped >>

\* unsubscribe finds a current subscription.  Which one of several (the last to
\* expire) is left open.
Unsubscribe(o) ==
  /\ Current(o)
  /\ unsubscribing' = unsubscribing \cup {o}
  /\ UNCHANGED << orders, subs, expired, subscribing, hooks, overlapped >>

\* Its UPDATE names the row only, not its status.
CancelSubscription(o) ==
  /\ o \in unsubscribing
  /\ unsubscribing' = unsubscribing \ {o}
  /\ subs' = [subs EXCEPT ![o] = "cancelled"]
  /\ UNCHANGED << orders, expired, subscribing, hooks, overlapped >>

\* The connection is lost before the commit of subscribe or unsubscribe.
Disconnect(o) ==
  /\ subscribing' = subscribing \ {o}
  /\ unsubscribing' = unsubscribing \ {o}
  /\ UNCHANGED << orders, subs, expired, hooks, overlapped >>
-----------------------------------------------------------------------------
(***************************************************************************)
(* POST /webhooks/payment                                                   *)
(***************************************************************************)
BoundTo(r) == {o \in Order : orders[o].ref = r}

\* A delivery arrives; its first SELECT looks payment_ref up (any row of several).
Receive(h, o, r, s) ==
  /\ hooks[h].pc = "idle"
  /\ \E b \in IF BoundTo(r) = {} THEN {NoOrder} ELSE BoundTo(r) :
       hooks' = [hooks EXCEPT ![h] = [pc |-> "read", order |-> o, ref |-> r,
                                      status |-> s, bound |-> b]]
  /\ overlapped' = (overlapped \/ \E g \in Hook : hooks[g].pc # "idle")
  /\ UNCHANGED << orders, subs, expired, subscribing, unsubscribing >>

\* The request ends: answered, refused, or its connection lost.
Ends(h) == hooks' = [hooks EXCEPT ![h] = NoRequest]

\* Variant for the checks: the statuses that end a request early are not tested.
AcceptedAlways(h) ==
  /\ orders[hooks[h].order].status # "absent"
  /\ hooks[h].bound \in {NoOrder, hooks[h].order}

\* Variant for the checks: the binding of payment_ref is not tested.
AcceptedUnbound(h) ==
  /\ orders[hooks[h].order].status # "absent"
  /\ orders[hooks[h].order].status \notin Processed

\* The second SELECT: the order exists, its payment_ref is not another order's, and
\* it has not been processed.
Accepted(h) ==
  /\ orders[hooks[h].order].status # "absent"
  /\ hooks[h].bound \in {NoOrder, hooks[h].order}
  /\ orders[hooks[h].order].status \notin Processed

Decide(h) ==
  /\ hooks[h].pc = "read"
  /\ IF Accepted(h) THEN hooks' = [hooks EXCEPT ![h].pc = "write"] ELSE Ends(h)
  /\ UNCHANGED << orders, subs, expired, subscribing, unsubscribing, overlapped >>

\* Variant for the checks: the body's status is written as it came.
OrderAfterRaw(order, r, s) == [status |-> s, ref |-> r]

\* The UPDATE of orders: by id, whatever the status has become.
OrderAfter(order, r, s) ==
  CASE s = "success"  -> [status |-> "paid", ref |-> r]
    [] s = "failed"   -> [status |-> "failed", ref |-> order.ref]
    [] s = "refunded" -> [status |-> "refunded", ref |-> order.ref]

\* Variants for the checks: the subscription's UPDATE tests the wrong status, or none.
SubAfterWrongWord(sub, s) ==
  CASE s = "success"  -> IF sub = "pending" THEN "active" ELSE sub
    [] s = "failed"   -> sub
    [] s = "refunded" -> "cancelled"
SubAfterRevived(sub, s) ==
  CASE s = "success"  -> "active"
    [] s = "failed"   -> sub
    [] s = "refunded" -> "cancelled"
SubAfterPendingOnly(sub, s) ==
  CASE s = "success"  -> IF sub = "pending_payment" THEN "active" ELSE sub
    [] s = "failed"   -> sub
    [] s = "refunded" -> IF sub = "pending_payment" THEN "cancelled" ELSE sub

\* The UPDATE of the order's subscription: a payment activates a pending one, a
\* refund cancels any.
SubAfter(sub, s) ==
  CASE s = "success"  -> IF sub = "pending_payment" THEN "active" ELSE sub
    [] s = "failed"   -> sub
    [] s = "refunded" -> "cancelled"

\* The writes of one delivery and their commit.
Write(h) ==
  LET b == hooks[h] IN
  /\ b.pc = "write"
  /\ orders' = [orders EXCEPT ![b.order] = OrderAfter(@, b.ref, b.status)]
  /\ subs' = [subs EXCEPT ![b.order] = SubAfter(@, b.status)]
  /\ Ends(h)
  /\ UNCHANGED << expired, subscribing, unsubscribing, overlapped >>

\* A delivery fails before its commit; the provider may deliver it again.
HookFails(h) ==
  /\ hooks[h].pc # "idle"
  /\ Ends(h)
  /\ UNCHANGED << orders, subs, expired, subscribing, unsubscribing, overlapped >>
-----------------------------------------------------------------------------
Next ==
  \/ \E o \in Order : \/ Subscribe(o) \/ CreateOrder(o) \/ Expire(o)
                      \/ Unsubscribe(o) \/ CancelSubscription(o) \/ Disconnect(o)
  \/ \E h \in Hook : \/ \E o \in Order, r \in Ref, s \in PaymentStatus : Receive(h, o, r, s)
                     \/ Decide(h) \/ Write(h) \/ HookFails(h)

Spec == Init /\ [][Next]_vars
-----------------------------------------------------------------------------
(***************************************************************************)
(* Properties                                                               *)
(***************************************************************************)
\* payment.py: a refund ends the subscription.  Whatever deliveries race it, an order
\* that stands refunded has no active subscription.
RefundEndsAccess ==
  \A o \in Order : orders[o].status = "refunded" => subs[o] # "active"

\* payment.py, "success: orders.status=paid and subscription status=active".  A paid
\* order's subscription never stays pending, although the two are tables of their own
\* and its UPDATE skips rows that are not pending.
PaidLeavesPending ==
  \A o \in Order : orders[o].status = "paid" => subs[o] # "pending_payment"

\* A cancelled subscription never comes back, whatever delivery is late.
CancelledKept == \A o \in Order : subs[o] = "cancelled" => subs'[o] = "cancelled"
CancelledIsFinal == [][CancelledKept]_vars

\* payment.py, "idempotent": as long as deliveries do not overlap, a processed order is
\* never written again, ...
ProcessedKept ==
  ~ overlapped =>
    \A o \in Order : orders[o].status \in Processed => orders'[o] = orders[o]
ProcessedIsFinal == [][ProcessedKept]_vars

\* ... only a paid order has an active subscription, and payment_ref names one order.
\* Overlapping deliveries break each of the three.
SerialPayments ==
  ~ overlapped =>
    /\ \A o \in Order : subs[o] = "active" => orders[o].status = "paid"
    /\ \A o, p \in Order : orders[o].ref # NoRef /\ orders[o].ref = orders[p].ref => o = p

\* subscription.py:4, "cancelling marks status=cancelled, access lasts until
\* expire_date".  A paid order gives access until it expires, cancelled or not.  The only
\* test of access there is is is_subscribed of pick.py, strategy.py and subscription.py.
AccessUntilExpiry ==
  ~ overlapped =>
    \A o \in Order : orders[o].status = "paid" /\ o \notin expired => Current(o)
=============================================================================
