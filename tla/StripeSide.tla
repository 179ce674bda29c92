------------------------------ MODULE StripeSide ------------------------------
(***************************************************************************)
(* The billing service together with Stripe: the pages a user opens and    *)
(* pays, the subscriptions that come of them, and the events about them,   *)
(* each of which is delivered in any order until it is acknowledged.       *)
(* Stripe is not in this repository; it is modelled by what the handlers   *)
(* ask of it and expect from it.                                           *)
(*                                                                         *)
(* acknowledged, applied, late and cut record history.                     *)
(***************************************************************************)
EXTENDS Billing

CONSTANTS
  MaxSessions,  \* bound on the pages that are opened
  MaxEvents,    \* bound on the events of Stripe
  PeriodDays    \* length of a billing period

ASSUME StripeAssumption ==
  /\ MaxSessions \in Nat /\ MaxEvents \in Nat /\ PeriodDays \in Nat \ {0}
  /\ WebhookId = 1..MaxEvents

\* The names below are strings, for provers that know no STRING.
ASSUME StringsAssumption ==
  {"", "stripe_webhook", "checkout.payment", "subscription.updated", "subscription.deleted",
   "invoice.paid", "invoice.payment_failed", "paid", "subscription_create", "subscription_update",
   "subscription_cycle", "incomplete", "active", "past_due", "ending", "ended"} \subseteq STRING

VARIABLES
  sessions,       \* checkout sessions, and who may use the portal
  subscriptions,  \* Stripe's subscriptions: the n-th has the id n
  events,         \* Stripe's events: the n-th has the id n
  acknowledged,   \* events that were answered without an error
  applied,        \* events that were applied, in part at least
  late,           \* events that were applied after a newer one
  cut             \* deliveries that were cut short

stripeVars == <<sessions, subscriptions, events>>

historyVars == <<acknowledged, applied, late, cut>>

allVars == <<vars, stripeVars, historyVars>>

\* known: the events that had been applied when it was asked for.
Session == [kind : {"checkout", "inline", "payment", "portal"}, user : User,
            plan : Plan, amount : Nat, known : SUBSET Nat, open : BOOLEAN]

StripeSubscription ==
  [user : User, plan : Plan, start : Day, end : Day, known : SUBSET Nat,
   status : {"incomplete", "active", "past_due", "ending", "ended"}]

StripeInit ==
  /\ Init
  /\ sessions = <<>> /\ subscriptions = <<>> /\ events = <<>>
  /\ acknowledged = {} /\ applied = {} /\ late = {} /\ cut = 0

-----------------------------------------------------------------------------
(* Events.                                                                 *)

StatusTypes == {"subscription.updated", "subscription.deleted", "invoice.payment_failed"}

EventCall(type, u) ==
  [op |-> "stripe_webhook", event |-> type, user |-> u, other |-> None, amount |-> 0,
   id |-> None, subscription |-> None, reason |-> "", auto_refill |-> None, lookup |-> FALSE]

\* An event about the n-th subscription, which is now s.
About(n, s, type, reason) ==
  [EventCall(type, s.user) EXCEPT !.reason = reason, !.subscription =
     [id |-> n, plan |-> s.plan, status |-> "active", start |-> s.start, end |-> s.end]]

Updated(n, s) == About(n, s, "subscription.updated", s.status)

Invoice(n, s, reason, amount) == [About(n, s, "invoice.paid", reason) EXCEPT !.amount = amount]

Emit(calls) ==
  /\ Len(events) + Len(calls) <= MaxEvents
  /\ events' = events \o [i \in DOMAIN calls |-> [calls[i] EXCEPT !.id = Len(events) + i]]

-----------------------------------------------------------------------------
(* What the client asks of Stripe.                                         *)

StripePcs == {"purchase.session", "checkout.session", "portal.session", "cancel.end",
              "subscribe.pay"}

Open(kind, u, plan, amount) ==
  /\ Len(sessions) < MaxSessions
  /\ sessions' = Append(sessions, [kind |-> kind, user |-> u, plan |-> plan, amount |-> amount,
                                   known |-> applied, open |-> TRUE])

CreateCheckoutSession(u, amount) ==
  Open("payment", u, "mortal", amount) /\ UNCHANGED <<subscriptions, events>>

CreateSubscriptionCheckout(u, plan) ==
  Open("checkout", u, plan, 0) /\ UNCHANGED <<subscriptions, events>>

CreatePortalSession(u) ==
  Open("portal", u, "mortal", 0) /\ UNCHANGED <<subscriptions, events>>

NewSubscription(u, plan, status, known) ==
  [user |-> u, plan |-> plan, status |-> status, start |-> today, end |-> today + PeriodDays,
   known |-> known]

\* payment_behavior is default_incomplete: it waits for its first payment.
CreateInlineSubscription(u) ==
  LET s == NewSubscription(u, "pro", "incomplete", applied)
  IN  /\ Open("inline", u, "pro", Len(subscriptions) + 1)
      /\ subscriptions' = Append(subscriptions, s)
      /\ Emit(<<Updated(Len(subscriptions) + 1, s)>>)

CancelSubscriptionAtPeriodEnd(n) ==
  /\ n \in DOMAIN subscriptions
  /\ subscriptions[n].status \in {"active", "past_due"}
  /\ subscriptions' = [subscriptions EXCEPT ![n].status = "ending"]
  /\ Emit(<<Updated(n, subscriptions'[n])>>)
  /\ UNCHANGED sessions

Hears(r) ==
  \/ At(r, "purchase.session") /\ CreateCheckoutSession(Arg(r).user, Arg(r).amount)
  \/ At(r, "checkout.session") /\ CreateSubscriptionCheckout(Arg(r).user, Arg(r).reason)
  \/ At(r, "portal.session") /\ CreatePortalSession(Arg(r).user)
  \/ At(r, "subscribe.pay") /\ CreateInlineSubscription(Arg(r).user)
  \/ At(r, "cancel.end") /\ CancelSubscriptionAtPeriodEnd(Copy(r).subscription.id)

\* Stripe may act and its answer be lost; when it refuses the answer is an error.
AskStripe(r) ==
  /\ proc[r].pc \in StripePcs
  /\ Handler(r)
  /\ \/ Hears(r)
     \/ proc'[r].answer = "internal_error" /\ UNCHANGED stripeVars
  /\ UNCHANGED historyVars

-----------------------------------------------------------------------------
(* Deliveries, and the other steps of handlers.                            *)

Forgotten(r) == proc' = [proc EXCEPT ![r] = NotSent]

\* Requests that were answered leave nothing behind.
Forget(r) ==
  /\ At(r, "done")
  /\ Forgotten(r)
  /\ UNCHANGED <<storeVars, stripeVars, historyVars>>

\* Stripe repeats what was not answered well, and sometimes what was.
Deliver(r) ==
  /\ At(r, "new")
  /\ \E i \in DOMAIN events :
       proc' = [proc EXCEPT ![r].pc = "stripe_webhook", ![r].call = events[i]]
  /\ UNCHANGED <<storeVars, stripeVars, historyVars>>

CutShort(r) ==
  /\ proc[r].pc \in WebhookPcs
  /\ cut < Abandons
  /\ Forgotten(r)
  /\ cut' = cut + 1
  /\ UNCHANGED <<storeVars, stripeVars, acknowledged, applied, late>>

Acknowledges(r) ==
  Arg(r).op = "stripe_webhook" /\ proc'[r].answer \in {"ok", "already_processed"}

\* Statuses overtake statuses; an invoice is also overtaken by a status.
Overtaken(i) ==
  \E j \in applied :
    j > i /\ (events[i].event \in StatusTypes => events[j].event \in StatusTypes)

\* An event is applied when it writes to an account, or its handler ends; to
\* open the account is no part of it.
Step(r) ==
  LET id == Arg(r).id
      applies == \/ /\ Arg(r).op = "stripe_webhook" /\ proc[r].pc # "subscription.create"
                    /\ <<accounts, ledger>>' # <<accounts, ledger>>
                 \/ proc[r].pc # "record" /\ proc'[r].pc = "record"
  IN  /\ proc[r].pc \notin StripePcs
      /\ Handler(r)
      /\ acknowledged' = IF Acknowledges(r) THEN acknowledged \cup {id} ELSE acknowledged
      /\ applied' = IF applies THEN applied \cup {id} ELSE applied
      /\ late' = IF applies /\ Overtaken(id) THEN late \cup {id} ELSE late
      /\ UNCHANGED <<stripeVars, cut>>

-----------------------------------------------------------------------------
(* What happens at Stripe.                                                 *)

Close(i) == sessions' = [sessions EXCEPT ![i].open = FALSE]

PayPurchase(i) ==
  LET s == sessions[i]
  IN  /\ s.open /\ s.kind = "payment"
      /\ Close(i)
      /\ Emit(<<[EventCall("checkout.payment", s.user) EXCEPT
                   !.amount = s.amount, !.reason = "paid"]>>)
      /\ UNCHANGED subscriptions

\* The event of the session itself is left out: all that its handler does,
\* opening the account and saving the customer's id, the first of these does.
PayCheckout(i) ==
  LET s == NewSubscription(sessions[i].user, sessions[i].plan, "active", sessions[i].known)
      n == Len(subscriptions) + 1
  IN  /\ sessions[i].open /\ sessions[i].kind = "checkout"
      /\ Close(i)
      /\ subscriptions' = Append(subscriptions, s)
      /\ Emit(<<Updated(n, s), Invoice(n, s, "subscription_create", 1)>>)

\* The page of the user's confirms the payment.
PayInline(i) ==
  LET n == sessions[i].amount
      s == [subscriptions[n] EXCEPT !.status = "active"]
  IN  /\ sessions[i].open /\ sessions[i].kind = "inline"
      /\ Close(i)
      /\ subscriptions' = [subscriptions EXCEPT ![n] = s]
      /\ Emit(<<Updated(n, s), Invoice(n, s, "subscription_create", 1)>>)

Changes(n, s, calls) ==
  /\ subscriptions' = [subscriptions EXCEPT ![n] = s]
  /\ Emit(calls)
  /\ UNCHANGED sessions

\* In the portal; a change to a lesser plan costs nothing.
ChangePlan(n) ==
  \E plan \in PaidPlan \ {subscriptions[n].plan} :
    LET s == [subscriptions[n] EXCEPT !.plan = plan]
        more == MonthlyCredits[plan] > MonthlyCredits[subscriptions[n].plan]
    IN  /\ s.status = "active" /\ today < s.end
        /\ \E i \in DOMAIN sessions : sessions[i].kind = "portal" /\ sessions[i].user = s.user
        /\ Changes(n, s, <<Updated(n, s), Invoice(n, s, "subscription_update", IF more THEN 1 ELSE 0)>>)

NextPeriod(s, status) ==
  [s EXCEPT !.status = status, !.start = s.end, !.end = s.end + PeriodDays]

Renew(n) ==
  LET s == NextPeriod(subscriptions[n], "active")
  IN  /\ subscriptions[n].status = "active" /\ today >= subscriptions[n].end
      /\ Changes(n, s, <<Updated(n, s), Invoice(n, s, "subscription_cycle", 1)>>)

FailToRenew(n) ==
  LET s == NextPeriod(subscriptions[n], "past_due")
  IN  /\ subscriptions[n].status = "active" /\ today >= subscriptions[n].end
      /\ Changes(n, s, <<Updated(n, s), About(n, s, "invoice.payment_failed", "")>>)

End(n) ==
  LET s == [subscriptions[n] EXCEPT !.status = "ended"]
  IN  /\ subscriptions[n].status \in {"ending", "past_due"}
      /\ subscriptions[n].status = "ending" => today >= s.end
      /\ Changes(n, s, <<About(n, s, "subscription.deleted", "")>>)

AtStripe ==
  /\ \/ \E i \in DOMAIN sessions : PayPurchase(i) \/ PayCheckout(i) \/ PayInline(i)
     \/ \E n \in DOMAIN subscriptions : ChangePlan(n) \/ Renew(n) \/ FailToRenew(n) \/ End(n)
  /\ UNCHANGED <<vars, historyVars>>

-----------------------------------------------------------------------------

\* One request or delivery at a time; what Stripe does while it runs, no
\* handler sees before it ends.
Idle == \A r \in Request : At(r, "new")

\* What would end at a bound of Stripe's is not asked.
WithinBounds(c) ==
  IF c.op = "cancel_zero_pro" THEN Len(events) < MaxEvents ELSE Len(sessions) < MaxSessions

Ask(r) ==
  Send(r) /\ WithinBounds(proc'[r].call) /\ UNCHANGED <<stripeVars, historyVars>>

NextDay == Tick /\ UNCHANGED <<stripeVars, historyVars>>

StripeNext ==
  \/ \E r \in Request : AskStripe(r) \/ Step(r) \/ Forget(r) \/ CutShort(r)
  \/ Idle /\ \E r \in Request : Ask(r) \/ Deliver(r)
  \/ Idle /\ (AtStripe \/ NextDay)

StripeSpec == StripeInit /\ [][StripeNext]_allVars

=============================================================================
