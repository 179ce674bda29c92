--------------------------- MODULE WebhookHandlers ----------------------------
(***************************************************************************)
(* handlers/webhooks.rs: events delivered by Stripe and Lago.  A delivery  *)
(* is checked against the processed events, applied, and recorded as       *)
(* processed, in separate store calls.  A delivery whose answer is an      *)
(* error is not recorded, so that the sender delivers it again.            *)
(***************************************************************************)
EXTENDS CreditHandlers

WebhookPcs == StripeEvents \cup LagoEvents \cup {
  "resolve", "checkout.create", "checkout.put", "purchase.add",
  "subscription.create", "subscription.put", "subscription.referral",
  "subscription.invitee", "subscription.inviter", "subscription.create_inviter",
  "subscription.add", "deleted.put", "failed.put", "invoice.prorate", "invoice.add",
  "invoice.reread", "invoice.mark", "lago.create", "lago.add"}

\* A handler that returns Ok, and the call that records its event.
Done(r) == Goto(r, "record")

\* Mutant of RecordEvent: the event is acknowledged and not recorded.
AcknowledgeEvent(r) == At(r, "record") /\ Answer(r, "ok") /\ UNCHANGED storeVars

RecordEvent(r) ==
  At(r, "record") /\ RecordWebhookEvent(Arg(r).id) /\ Answer(r, "ok")

\* Mutant of StripeReceive: the event is recorded before it is applied.
StripeReceiveRecord(r) ==
  /\ At(r, "stripe_webhook")
  /\ IF Arg(r).id \in processed_webhooks
     THEN Answer(r, "already_processed") /\ UNCHANGED storeVars
     ELSE /\ Goto(r, IF Arg(r).lookup THEN "resolve" ELSE Arg(r).event)
          /\ RecordWebhookEvent(Arg(r).id)

\* Replay protection; then the event type selects the handler.
StripeReceive(r) ==
  /\ At(r, "stripe_webhook")
  /\ IF Arg(r).id \in processed_webhooks THEN Answer(r, "already_processed")
     ELSE Goto(r, IF Arg(r).lookup THEN "resolve" ELSE Arg(r).event)
  /\ UNCHANGED storeVars

\* extract_user_id by the customer id saved with the account.  A query that
\* fails counts as one that found nothing: the event is passed over.
Resolve(r) ==
  /\ At(r, "resolve")
  /\ \/ /\ Exists(Arg(r).user) /\ accounts[Arg(r).user].stripe_customer
        /\ Goto(r, Arg(r).event)
     \/ Done(r)
  /\ UNCHANGED storeVars

-----------------------------------------------------------------------------
(* checkout.session.completed, for a subscription and for a purchase.      *)

CheckoutGet(r) ==
  At(r, "checkout.subscription") /\ GetOrElse(r, Arg(r).user, "checkout.create", "checkout.put")

CheckoutCreate(r) ==
  At(r, "checkout.create") /\ Create(r, Arg(r).user, "checkout.put")

CheckoutPut(r) ==
  /\ At(r, "checkout.put")
  /\ PutAccount(Arg(r).user, [Copy(r) EXCEPT !.stripe_customer = TRUE])
  /\ Done(r)

PurchaseGet(r) ==
  /\ At(r, "checkout.payment")
  /\ \/ Arg(r).reason # "paid" /\ Done(r) /\ UNCHANGED storeVars
     \/ Arg(r).reason = "paid" /\ GetOrNotFound(r, Arg(r).user, "purchase.add")

PurchaseAdd(r) ==
  At(r, "purchase.add") /\ Credit(r, Arg(r).user, Arg(r).amount, "purchase", "record")

Checkout(r) ==
  \/ CheckoutGet(r) \/ CheckoutCreate(r) \/ CheckoutPut(r) \/ PurchaseGet(r) \/ PurchaseAdd(r)

-----------------------------------------------------------------------------
(* customer.subscription.created and .updated.                             *)

\* Mutant of MappedStatus: the status is taken over as it is.
StatusAsIs(status) == status

\* A subscription that is to end with its period counts as cancelled.
MappedStatus(status) ==
  CASE status \in {"active", "trialing"} -> "active"
    [] status = "past_due" -> "past_due"
    [] OTHER -> "cancelled"

SubscriptionGet(r) ==
  /\ At(r, "subscription.updated")
  /\ GetOrElse(r, Arg(r).user, "subscription.create", "subscription.put")

SubscriptionCreate(r) ==
  At(r, "subscription.create") /\ Create(r, Arg(r).user, "subscription.put")

\* The subscription replaces the stored one, whatever either one's age.
SubscriptionPut(r) ==
  LET sub == [Arg(r).subscription EXCEPT !.status = MappedStatus(Arg(r).reason)]
      a == [Copy(r) EXCEPT !.subscription = sub, !.stripe_customer = TRUE]
  IN  /\ At(r, "subscription.put")
      /\ PutAccount(Arg(r).user, a)
      /\ IF a.referred_by = None THEN Done(r) ELSE Keep(r, a, "subscription.referral")

\* Mutant of SubscriptionReferral: every update rewards the inviter.
SubscriptionReferralAlways(r) ==
  At(r, "subscription.referral") /\ Goto(r, "subscription.invitee") /\ UNCHANGED storeVars

SubscriptionReferral(r) ==
  /\ At(r, "subscription.referral")
  /\ IF HasReferralBonus(Arg(r).user) THEN Done(r) ELSE Goto(r, "subscription.invitee")
  /\ UNCHANGED storeVars

SubscriptionInvitee(r) ==
  /\ At(r, "subscription.invitee")
  /\ Credit(r, Arg(r).user, ReferralGrant, "referral_bonus", "subscription.inviter")

\* Mutant of SubscriptionInviterGet: an inviter without an account gets nothing.
SubscriptionInviterAbsent(r) ==
  /\ At(r, "subscription.inviter")
  /\ Goto(r, IF Exists(Copy(r).referred_by) THEN "subscription.add" ELSE "record")
  /\ UNCHANGED storeVars

SubscriptionInviterGet(r) ==
  /\ At(r, "subscription.inviter")
  /\ Goto(r, IF Exists(Copy(r).referred_by)
             THEN "subscription.add" ELSE "subscription.create_inviter")
  /\ UNCHANGED storeVars

SubscriptionInviterCreate(r) ==
  /\ At(r, "subscription.create_inviter")
  /\ PutAccount(Copy(r).referred_by, NewAccount)
  /\ Goto(r, "subscription.add")

SubscriptionInviter(r) ==
  /\ At(r, "subscription.add")
  /\ Credit(r, Copy(r).referred_by, ReferralGrant, "referral_bonus", "record")

SubscriptionUpdate(r) ==
  \/ SubscriptionGet(r) \/ SubscriptionCreate(r) \/ SubscriptionPut(r)
  \/ SubscriptionReferral(r) \/ SubscriptionInvitee(r)
  \/ SubscriptionInviterGet(r) \/ SubscriptionInviterCreate(r) \/ SubscriptionInviter(r)

-----------------------------------------------------------------------------
(* customer.subscription.deleted and invoice.payment_failed.               *)

DeletedGet(r) ==
  /\ At(r, "subscription.deleted")
  /\ IF Exists(Arg(r).user) THEN Keep(r, accounts[Arg(r).user], "deleted.put") ELSE Done(r)
  /\ UNCHANGED storeVars

DeletedPut(r) ==
  /\ At(r, "deleted.put")
  /\ PutAccount(Arg(r).user, [Copy(r) EXCEPT !.subscription = None])
  /\ Done(r)

SubscriptionDeleted(r) == DeletedGet(r) \/ DeletedPut(r)

FailedGet(r) ==
  LET a == accounts[Arg(r).user]
  IN  /\ At(r, "invoice.payment_failed")
      /\ IF Exists(Arg(r).user) /\ a.subscription # None
         THEN Keep(r, a, "failed.put") ELSE Done(r)
      /\ UNCHANGED storeVars

FailedPut(r) ==
  /\ At(r, "failed.put")
  /\ PutAccount(Arg(r).user, [Copy(r) EXCEPT !.subscription.status = "past_due"])
  /\ Done(r)

PaymentFailed(r) == FailedGet(r) \/ FailedPut(r)

-----------------------------------------------------------------------------
(* invoice.paid: amount is what was paid, reason why it was billed,        *)
(* subscription.plan the plan of its line items.                           *)

Max0(n) == IF n > 0 THEN n ELSE 0

\* Mutant of ProratedUpgradeCredits: what the period was granted is forgotten.
ProratedFullCredits(plan_credits, already_granted, cycle, remaining) ==
  LET left == IF remaining > cycle THEN cycle ELSE Max0(remaining)
  IN  IF cycle <= 0 THEN 0 ELSE (2 * plan_credits * left + cycle) \div (2 * cycle)

\* prorated_upgrade_credits, with its ratio clamped and its result rounded.
ProratedUpgradeCredits(plan_credits, already_granted, cycle, remaining) ==
  LET diff == Max0(plan_credits - already_granted)
      left == IF remaining > cycle THEN cycle ELSE Max0(remaining)
  IN  IF cycle <= 0 THEN 0 ELSE (2 * diff * left + cycle) \div (2 * cycle)

FullReasons == {"subscription_create", "subscription_cycle"}

InvoiceGet(r) ==
  LET a == accounts[Arg(r).user]
      sub == Arg(r).subscription      \* None: no line resolves to a plan
      full == Arg(r).reason \in FullReasons
      prorated == /\ Arg(r).reason = "subscription_update"
                  /\ Arg(r).amount > 0
                  /\ a.subscription # None
  IN  /\ At(r, "invoice.paid")
      /\ IF Exists(Arg(r).user) /\ sub # None /\ (full \/ prorated)
         THEN IF full
              THEN KeepAndCompute(r, a, MonthlyCredits[sub.plan], "invoice.add")
              ELSE Keep(r, a, "invoice.prorate")
         ELSE Done(r)
      /\ UNCHANGED storeVars

InvoiceProrate(r) ==
  LET sub == Copy(r).subscription
      already == MonthlySince(Arg(r).user, sub.start)
  IN  /\ At(r, "invoice.prorate")
      /\ Compute(r, ProratedUpgradeCredits(MonthlyCredits[Arg(r).subscription.plan],
                                           already, sub.end - sub.start, sub.end - today),
                 "invoice.add")
      /\ UNCHANGED storeVars

InvoiceAdd(r) ==
  LET next == IF Arg(r).reason \in FullReasons THEN "invoice.reread" ELSE "record"
  IN  /\ At(r, "invoice.add")
      /\ \/ proc[r].kept <= 0 /\ Done(r) /\ UNCHANGED storeVars
         \/ proc[r].kept > 0 /\ Credit(r, Arg(r).user, proc[r].kept, "monthly_allowance", next)

InvoiceReread(r) ==
  At(r, "invoice.reread") /\ Reread(r, Arg(r).user, "invoice.mark")

\* Mutant of InvoiceMark: the monthly clock is not advanced.
InvoiceUnmarked(r) ==
  /\ At(r, "invoice.mark")
  /\ PutAccount(Arg(r).user, Copy(r))
  /\ Done(r)

InvoiceMark(r) ==
  /\ At(r, "invoice.mark")
  /\ PutAccount(Arg(r).user, [Copy(r) EXCEPT !.last_monthly = today])
  /\ Done(r)

InvoicePaid(r) ==
  \/ InvoiceGet(r) \/ InvoiceProrate(r) \/ InvoiceAdd(r) \/ InvoiceReread(r) \/ InvoiceMark(r)

-----------------------------------------------------------------------------
(* Lago: subscription.started grants a month of credits; the other types   *)
(* are only logged.                                                        *)

LagoReceive(r) ==
  /\ At(r, "lago_webhook")
  /\ IF Arg(r).id \in processed_webhooks THEN Answer(r, "already_processed")
     ELSE Goto(r, IF Arg(r).event = "lago.started" THEN "lago.started" ELSE "record")
  /\ UNCHANGED storeVars

LagoGet(r) ==
  /\ At(r, "lago.started")
  /\ \/ /\ MonthlyCredits[Arg(r).subscription.plan] = 0
        /\ Done(r)
        /\ UNCHANGED storeVars
     \/ /\ MonthlyCredits[Arg(r).subscription.plan] # 0
        /\ GetOrElse(r, Arg(r).user, "lago.create", "lago.add")

LagoCreate(r) ==
  At(r, "lago.create") /\ Create(r, Arg(r).user, "lago.add")

LagoAdd(r) ==
  /\ At(r, "lago.add")
  /\ Credit(r, Arg(r).user, MonthlyCredits[Arg(r).subscription.plan],
            "subscription_grant", "record")

LagoSubscriptionStarted(r) == LagoGet(r) \/ LagoCreate(r) \/ LagoAdd(r)

Webhooks(r) ==
  \/ StripeReceive(r) \/ Resolve(r) \/ Checkout(r) \/ SubscriptionUpdate(r)
  \/ SubscriptionDeleted(r) \/ PaymentFailed(r) \/ InvoicePaid(r)
  \/ LagoReceive(r) \/ LagoSubscriptionStarted(r) \/ RecordEvent(r)

=============================================================================
