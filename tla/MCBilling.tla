------------------------------ MODULE MCBilling -------------------------------
(***************************************************************************)
(* Small instances of Billing for TLC.                                     *)
(***************************************************************************)
EXTENDS BillingProperties

LOCAL INSTANCE TLC

CONSTANTS alice, bob, carol, e1, e2, w1, w2, w3, w4

\* Requests differ in nothing but their names.
Symmetry == Permutations(Request)

-----------------------------------------------------------------------------
(* Amounts: small, and different wherever a confusion should show.         *)

MCDailyGrant == [p \in Plan |-> IF p = "mortal" THEN 1 ELSE 2]

NoDailyGrant == [p \in Plan |-> 0]

MCMonthlyCredits ==
  [p \in Plan |-> CASE p = "mortal" -> 2 [] p = "pro" -> 4 [] p = "crusader" -> 8 [] OTHER -> 16]

\* The code also provides for a plan without credits, though it has none now.
NoneForMortal == [MCMonthlyCredits EXCEPT !["mortal"] = 0]

Opened(balance) == [NewAccount EXCEPT !.balance = balance, !.purchased = balance]

SignedUp == [Opened(SignupGrant) EXCEPT !.signup_grant = 0]

Customer(a) == [a EXCEPT !.stripe_customer = TRUE]

Period(plan, start, end) ==
  [id |-> 1, plan |-> plan, status |-> "active", start |-> start, end |-> end]

Subscribed(a, sub) == [Customer(a) EXCEPT !.subscription = sub]

Refilling(a, trigger, amount) ==
  [a EXCEPT !.auto_refill = [enabled |-> TRUE, trigger |-> trigger, amount |-> amount]]

-----------------------------------------------------------------------------
(* Calls.                                                                  *)

Plain(op, u) ==
  [op |-> op, event |-> "", user |-> u, other |-> None, amount |-> 0, id |-> None,
   subscription |-> None, reason |-> "", auto_refill |-> None, lookup |-> FALSE]

Report(u, cost, e) == [Plain("report_usage", u) EXCEPT !.amount = cost, !.id = e]

Batch(u, cost, e) == [Plain("report_usage_batch", u) EXCEPT !.amount = cost, !.id = e]

Admin(u, amount) == [Plain("admin_add_credits", u) EXCEPT !.amount = amount]

SignupOf(u, inviter) == [Plain("signup_grant", u) EXCEPT !.other = inviter]

Invite(u, inviter) == [Plain("referral_grant", u) EXCEPT !.other = inviter]

Buy(u, amount) == [Plain("purchase_credits", u) EXCEPT !.amount = amount]

CheckoutOf(u, plan) == [Plain("checkout", u) EXCEPT !.reason = plan]

Configure(u, trigger, amount) ==
  [Plain("configure_auto_refill", u) EXCEPT
     !.auto_refill = [enabled |-> TRUE, trigger |-> trigger, amount |-> amount]]

Stripe(event, u, w) == [Plain("stripe_webhook", u) EXCEPT !.event = event, !.id = w]

Purchase(u, amount, w) ==
  [Stripe("checkout.payment", u, w) EXCEPT !.amount = amount, !.reason = "paid"]

Updated(u, sub, status, w) ==
  [Stripe("subscription.updated", u, w) EXCEPT !.subscription = sub, !.reason = status]

Invoice(u, sub, reason, paid, w) ==
  [Stripe("invoice.paid", u, w) EXCEPT !.subscription = sub, !.reason = reason, !.amount = paid]

Lago(event, u, sub, w) ==
  [Plain("lago_webhook", u) EXCEPT !.event = event, !.subscription = sub, !.id = w]

ByLookup(c) == [c EXCEPT !.lookup = TRUE]

-----------------------------------------------------------------------------
(* charges: usage charged beside other usage, a refill and a bonus.        *)

ChargeAccounts ==
  [u \in User |-> IF u = alice THEN Refilling(Customer(Opened(3)), 2, 4) ELSE Opened(2)]

ChargeCalls ==
  {Report(alice, 2, e1), Report(alice, 3, e2), Batch(bob, 2, e1), Admin(alice, 1),
   Purchase(alice, 1, w1)}

\* rows: all the calls, with absent, fresh and subscribed accounts.
RowAccounts ==
  [u \in User |->
    CASE u = alice -> Refilling(Subscribed(SignedUp, Period("pro", 0, 1)), 2, 4)
      [] u = bob -> NewAccount
      [] OTHER -> None]

\* The events of a user; two of them may share no id.
Event(u, n) == <<"event", u, n>>

RowWebhooks == {Event(u, n) : u \in User, n \in 1..15}

RowCalls ==
  UNION {
    {Plain(op, u) : op \in {"get_balance", "daily_grant", "check_balance",
                            "create_account", "get_account", "delete_account",
                            "subscribe_zero_pro", "portal", "cancel_zero_pro"}}
    \cup {SignupOf(u, bob), Invite(u, bob), Admin(u, 1), Admin(u, 0), Configure(u, 2, 4),
          Configure(u, 0, 4), Buy(u, 0), Buy(u, 1), CheckoutOf(u, "pro"),
          Report(u, 2, e1), Report(u, -1, e1), Batch(u, 1, e1),
          Stripe("checkout.subscription", u, Event(u, 1)),
          Purchase(u, 1, Event(u, 2)),
          [Purchase(u, 1, Event(u, 3)) EXCEPT !.reason = "unpaid"],
          Updated(u, Period("crusader", 0, 1), "past_due", Event(u, 4)),
          Updated(u, Period("pro", 0, 1), "unpaid", Event(u, 5)),
          Stripe("subscription.deleted", u, Event(u, 6)),
          Stripe("invoice.payment_failed", u, Event(u, 7)),
          Stripe("record", u, Event(u, 8)),
          Invoice(u, Period("crusader", 0, 1), "subscription_update", 1, Event(u, 9)),
          Invoice(u, Period("mortal", 0, 1), "subscription_cycle", 1, Event(u, 10)),
          Invoice(u, Period("pro", 0, 1), "subscription_cycle", 1, Event(u, 11)),
          ByLookup(Invoice(u, Period("pro", 0, 1), "subscription_create", 1, Event(u, 12))),
          Lago("lago.started", u, Period("pro", 0, 1), Event(u, 13)),
          Lago("lago.started", u, Period("mortal", 0, 1), Event(u, 14)),
          Lago("record", u, None, Event(u, 15))}
    : u \in User}

-----------------------------------------------------------------------------
(* serial: one request at a time, over some days, with abandoned requests. *)

SerialAccounts == [u \in User |-> IF u = alice THEN Customer(Opened(1)) ELSE None]

SerialCalls ==
  {SignupOf(alice, bob), Plain("get_balance", alice), Plain("daily_grant", alice),
   Plain("check_balance", alice), Invite(alice, bob),
   Updated(alice, Period("pro", 0, 2), "active", w1), Purchase(alice, 2, w2),
   Invoice(alice, Period("pro", 0, 2), "subscription_create", 1, w3),
   Lago("lago.started", alice, Period("pro", 0, 2), w4)}

\* A renewal that may come late or never, and an upgrade within the period.
MonthAccounts ==
  [u \in User |-> Subscribed(SignedUp, Period("pro", 0, 2))]

MonthCalls ==
  {Plain("check_balance", alice),
   Invoice(alice, Period("pro", 0, 2), "subscription_create", 1, w1),
   Invoice(alice, Period("crusader", 0, 2), "subscription_update", 1, w2),
   Updated(alice, Period("crusader", 2, 4), "active", w3),
   Invoice(alice, Period("crusader", 2, 4), "subscription_cycle", 1, w4)}

-----------------------------------------------------------------------------
(* purchase: one event delivered again and again.                          *)

PurchaseAccounts == [u \in User |-> Customer(Opened(1))]

PurchaseCalls == {Purchase(alice, 2, w1)}

-----------------------------------------------------------------------------
(* The least calls that show what concurrent requests break.               *)

StaleCalls == {Configure(alice, 2, 4), Admin(alice, 1)}

DailyAccounts == [u \in User |-> SignedUp]

DailyCalls == {Plain("get_balance", alice), Plain("check_balance", alice)}

=============================================================================
