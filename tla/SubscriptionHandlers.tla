-------------------------- MODULE SubscriptionHandlers -------------------------
(***************************************************************************)
(* handlers/subscriptions.rs.  All its handlers that change something do   *)
(* it at Stripe; a subscription is stored when Stripe's event about it     *)
(* comes.  subscribe_zero_pro is the only one that writes a row, and it    *)
(* awaits Stripe after it has read it.                                     *)
(***************************************************************************)
EXTENDS Requests

SubscribePcs == {"subscribe.customer", "subscribe.put", "subscribe.pay",
                 "checkout.session", "portal.session", "cancel.end"}

SubscribeGet(r) ==
  LET a == IF Exists(Arg(r).user) THEN accounts[Arg(r).user] ELSE NewAccount
  IN  /\ At(r, "subscribe_zero_pro")
      /\ \/ a.subscription # None /\ Answer(r, "bad_request")
         \/ a.subscription = None /\ a.stripe_customer /\ Goto(r, "subscribe.pay")
         \/ a.subscription = None /\ ~a.stripe_customer /\ Keep(r, a, "subscribe.customer")
      /\ UNCHANGED storeVars

SubscribeCustomer(r) ==
  /\ At(r, "subscribe.customer")
  /\ Goto(r, "subscribe.put") \/ Answer(r, "internal_error")
  /\ UNCHANGED storeVars

SubscribePut(r) ==
  /\ At(r, "subscribe.put")
  /\ PutAccount(Arg(r).user, [Copy(r) EXCEPT !.stripe_customer = TRUE])
  /\ Goto(r, "subscribe.pay")

\* Attaching the payment method, and creating the subscription at Stripe.
SubscribePay(r) ==
  /\ At(r, "subscribe.pay")
  /\ Answer(r, "ok") \/ Answer(r, "internal_error")
  /\ UNCHANGED storeVars

ZeroPro(r) == SubscribeGet(r) \/ SubscribeCustomer(r) \/ SubscribePut(r) \/ SubscribePay(r)

-----------------------------------------------------------------------------
(* checkout and portal open a page of Stripe's, where the user goes on.    *)

PaidPlan == {"pro", "crusader", "sage"}

\* Mutant of CheckoutAsk: a subscription on record does not matter.
CheckoutAskAnyway(r) ==
  /\ At(r, "checkout")
  /\ \/ Arg(r).reason \notin PaidPlan /\ Answer(r, "bad_request")
     \/ Arg(r).reason \in PaidPlan /\ Goto(r, "checkout.session")
  /\ UNCHANGED storeVars

CheckoutAsk(r) ==
  LET subscribed == Exists(Arg(r).user) /\ accounts[Arg(r).user].subscription # None
  IN  /\ At(r, "checkout")
      /\ IF Arg(r).reason \notin PaidPlan \/ subscribed
         THEN Answer(r, "bad_request")
         ELSE Goto(r, "checkout.session")
      /\ UNCHANGED storeVars

PortalAsk(r) ==
  /\ At(r, "portal")
  /\ \/ ~Exists(Arg(r).user) /\ Answer(r, "not_found")
     \/ Exists(Arg(r).user) /\ ~accounts[Arg(r).user].stripe_customer /\ Answer(r, "bad_request")
     \/ Exists(Arg(r).user) /\ accounts[Arg(r).user].stripe_customer /\ Goto(r, "portal.session")
  /\ UNCHANGED storeVars

\* cancel_zero_pro: the subscription of the account is to end with its period.
CancelAsk(r) ==
  LET a == accounts[Arg(r).user]
  IN  /\ At(r, "cancel_zero_pro")
      /\ \/ ~Exists(Arg(r).user) /\ Answer(r, "not_found")
         \/ Exists(Arg(r).user) /\ a.subscription = None /\ Answer(r, "bad_request")
         \/ Exists(Arg(r).user) /\ a.subscription # None /\ Keep(r, a, "cancel.end")
      /\ UNCHANGED storeVars

\* The call to Stripe that ends each of the three.
StripeCall(r) ==
  /\ proc[r].pc \in {"checkout.session", "portal.session", "cancel.end"}
  /\ Answer(r, "ok") \/ Answer(r, "internal_error")
  /\ UNCHANGED storeVars

Subscribe(r) == ZeroPro(r) \/ CheckoutAsk(r) \/ PortalAsk(r) \/ CancelAsk(r) \/ StripeCall(r)

=============================================================================
