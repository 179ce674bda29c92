---------------------------- MODULE UsageHandlers -----------------------------
(***************************************************************************)
(* handlers/usage.rs: charging a reported usage event, the balance check   *)
(* that services make before they serve a user, and the task that refills  *)
(* an account from its stored payment method.  The cost of an event is an  *)
(* argument here; how it is computed is not this module's concern.         *)
(***************************************************************************)
EXTENDS CreditHandlers

UsagePcs == {"report.create", "usage.exists", "usage.commit", "refill.pay",
             "refill.get", "refill.add", "check.create"}

-----------------------------------------------------------------------------
(* report_usage.                                                           *)

ReportGet(r) ==
  At(r, "report_usage") /\ GetOrElse(r, Arg(r).user, "report.create", "usage.exists")

ReportCreate(r) ==
  At(r, "report.create") /\ Create(r, Arg(r).user, "usage.exists")

\* One event of a batch.  The events of a batch are charged one after another
\* and independently: an order that requests of one event each have too.
BatchGet(r) ==
  At(r, "report_usage_batch") /\ GetOrNotFound(r, Arg(r).user, "usage.exists")

\* The validation of the cost, then the EXISTS query of process_usage.
UsageExists(r) ==
  /\ At(r, "usage.exists")
  /\ \/ Arg(r).amount < 0 /\ Answer(r, "bad_request")
     \/ Arg(r).amount >= 0 /\ DuplicateUsage(Arg(r).id) /\ Answer(r, "duplicate")
     \/ Arg(r).amount >= 0 /\ ~DuplicateUsage(Arg(r).id) /\ Goto(r, "usage.commit")
  /\ UNCHANGED storeVars

\* Mutant of RefillDue: a balance at the threshold is refilled.
RefillDueAtTrigger(a, balance) ==
  /\ a.auto_refill # None
  /\ a.auto_refill.enabled
  /\ balance <= a.auto_refill.trigger

\* maybe_trigger_auto_refill decides on the account read before the charge,
\* and on the balance after it.
RefillDue(a, balance) ==
  /\ a.auto_refill # None
  /\ a.auto_refill.enabled
  /\ balance < a.auto_refill.trigger

UsageCharged(r) ==
  LET balance == accounts[Arg(r).user].balance - Arg(r).amount
  IN  /\ CommitUsage(Arg(r).user, Arg(r).amount, Arg(r).id)
      /\ IF Arg(r).op = "report_usage" /\ RefillDue(Copy(r), balance)
         THEN AnswerAndGoto(r, "ok", "refill.pay")
         ELSE Answer(r, "ok")

\* Why the database transaction rolls back.
UsageError(u, cost, e) ==
  IF ~Exists(u) THEN "not_found"
  ELSE IF ~Sufficient(u, cost) THEN "insufficient_credits"
  ELSE "internal_error"

UsageRolledBack(r) ==
  /\ \/ ~Exists(Arg(r).user)
     \/ Exists(Arg(r).user) /\ ~Sufficient(Arg(r).user, Arg(r).amount)
     \/ DuplicateUsage(Arg(r).id)
  /\ Answer(r, UsageError(Arg(r).user, Arg(r).amount, Arg(r).id))
  /\ UNCHANGED storeVars

UsageCommit(r) == At(r, "usage.commit") /\ (UsageCharged(r) \/ UsageRolledBack(r))

ReportUsage(r) ==
  ReportGet(r) \/ ReportCreate(r) \/ BatchGet(r) \/ UsageExists(r) \/ UsageCommit(r)

-----------------------------------------------------------------------------
(* trigger_auto_refill, a task the request leaves behind.  The customer,   *)
(* the amount and the threshold are those of the account it had read.      *)

\* Stripe charges the customer and says so; or it charges, now or when the
\* customer confirms, and the task ends with an error, for the answer was lost
\* or the status not "succeeded"; or there is no customer, or no charge.
RefillPay(r) ==
  /\ At(r, "refill.pay")
  /\ \/ Copy(r).stripe_customer /\ AnswerAndGoto(r, "charged", "refill.get")
     \/ Copy(r).stripe_customer /\ Answer(r, "unanswered")
     \/ Answer(r, "ok")
  /\ UNCHANGED storeVars

RefillGet(r) ==
  /\ At(r, "refill.get")
  /\ IF Exists(Arg(r).user) THEN Goto(r, "refill.add") ELSE Answer(r, "charged")
  /\ UNCHANGED storeVars

RefillAdd(r) ==
  /\ At(r, "refill.add")
  /\ AddCredits(Arg(r).user, Copy(r).auto_refill.amount, "auto_refill", None)
  /\ Answer(r, "refilled")

Refill(r) == RefillPay(r) \/ RefillGet(r) \/ RefillAdd(r)

-----------------------------------------------------------------------------
(* check_balance: may grant the monthly and the daily allowance.           *)

CheckGet(r) ==
  At(r, "check_balance") /\ GetOrElse(r, Arg(r).user, "check.create", "monthly")

CheckCreate(r) ==
  At(r, "check.create") /\ Create(r, Arg(r).user, "monthly")

CheckBalance(r) == CheckGet(r) \/ CheckCreate(r)

Usage(r) == ReportUsage(r) \/ Refill(r) \/ CheckBalance(r)

=============================================================================
