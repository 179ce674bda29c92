------------------------------- MODULE Requests -------------------------------
(***************************************************************************)
(* Requests in flight.  The HTTP server runs every handler as a task of    *)
(* its own, and the tasks interleave between any two store calls.  A       *)
(* handler keeps the account it read in a local variable, and many write   *)
(* that copy back.  A request may be abandoned after any store call: the   *)
(* call failed and `?` returned early, or the process was restarted.       *)
(*                                                                         *)
(* pc names the next call of the handler.  The handlers themselves are in  *)
(* the modules that extend this one.                                       *)
(***************************************************************************)
EXTENDS BillingStore, FiniteSets

CONSTANTS
  Request,      \* one identity per request or delivery: bounds their number
  Calls,        \* the calls the environment may make
  Concurrency,  \* bound on the requests that run at the same time
  Abandons      \* bound on the requests that are abandoned

VARIABLE proc

vars == <<accounts, ledger, usage_events, processed_webhooks, today, proc>>

-----------------------------------------------------------------------------

\* The arguments of every handler in one record.
Call == [
  op : STRING,                  \* the route
  event : STRING,               \* event type of a webhook
  user : User,
  other : User \cup {None},     \* inviter, referrer
  amount : Int,                 \* credits, cost, or the sum an invoice was paid with
  id : UsageId \cup WebhookId \cup {None},
  subscription : Subscription \cup {None},  \* as a Stripe object describes it
  reason : STRING,              \* status or billing reason in a Stripe object, a plan asked for
  auto_refill : AutoRefill \cup {None},
  lookup : BOOLEAN]             \* the Stripe object carries no metadata.user_id

Routes == {"get_balance", "daily_grant", "signup_grant", "referral_grant",
           "admin_add_credits", "configure_auto_refill", "report_usage",
           "report_usage_batch", "check_balance", "create_account", "get_account",
           "delete_account", "purchase_credits", "checkout", "portal",
           "subscribe_zero_pro", "cancel_zero_pro", "stripe_webhook", "lago_webhook"}

\* "record" stands for every event type that is only logged.
StripeEvents == {"checkout.subscription", "checkout.payment", "subscription.updated",
                 "subscription.deleted", "invoice.payment_failed", "invoice.paid", "record"}

LagoEvents == {"lago.started", "record"}

\* What the extractors of a route, and the parsers of an event, make sure of;
\* the credits of a purchase are the ones its checkout session was made with.
WellFormed(c) ==
  /\ c.op \in Routes
  /\ IF c.op \in {"report_usage", "report_usage_batch"} THEN c.id \in UsageId
     ELSE IF c.op \in {"stripe_webhook", "lago_webhook"} THEN c.id \in WebhookId
     ELSE c.id = None
  /\ c.op = "stripe_webhook" => c.event \in StripeEvents
  /\ c.op = "lago_webhook" => c.event \in LagoEvents
  /\ c.op = "referral_grant" => c.other # None
  /\ c.op = "configure_auto_refill" => c.auto_refill # None
  /\ c.event \in {"subscription.updated", "lago.started"} => c.subscription # None
  /\ c.event = "checkout.payment" => c.amount \in Nat
  /\ c.lookup => c.event \in {"subscription.updated", "subscription.deleted",
                             "invoice.payment_failed", "invoice.paid"}

ASSUME CallsAssumption == Calls \subseteq Call /\ \A c \in Calls : WellFormed(c)

ASSUME BoundsAssumption == Concurrency \in Nat /\ Abandons \in Nat /\ IsFiniteSet(Request)

Response == {"ok", "granted", "already_granted", "already_processed", "duplicate",
             "not_found", "bad_request", "conflict", "insufficient_credits",
             "internal_error", "abandoned", "charged", "unanswered", "refilled"}

\* What NoneAssumption says of strings, for provers that know no STRING.
ASSUME ResponseAssumption == None \notin Response

\* kept: a number the handler computed, or the day on which it read the clock.
\* copy: the account it read.  answer: what it returned.
ProcAt(pcs) == [pc : pcs, call : Call \cup {None}, copy : Account \cup {None},
                kept : Int, answer : Response \cup {None}]

NotSent == [pc |-> "new", call |-> None, copy |-> None, kept |-> 0, answer |-> None]

\* The task that refills an account goes on after its request was answered.
Running == {r \in Request : proc[r].pc \notin {"new", "done"} /\ proc[r].answer = None}

Abandoned == {r \in Request : proc[r].pc = "done" /\ proc[r].answer \in {"abandoned", "charged"}}

-----------------------------------------------------------------------------
(* What the handlers are written with.                                     *)

At(r, pc) == proc[r].pc = pc

Arg(r) == proc[r].call

Copy(r) == proc[r].copy

Goto(r, pc) == proc' = [proc EXCEPT ![r].pc = pc]

Keep(r, a, pc) == proc' = [proc EXCEPT ![r].pc = pc, ![r].copy = a]

Compute(r, n, pc) == proc' = [proc EXCEPT ![r].pc = pc, ![r].kept = n]

KeepAndCompute(r, a, n, pc) ==
  proc' = [proc EXCEPT ![r].pc = pc, ![r].copy = a, ![r].kept = n]

Answer(r, a) ==
  proc' = [proc EXCEPT ![r].pc = "done", ![r].copy = None, ![r].kept = 0, ![r].answer = a]

\* Answers, and leaves a task behind.
AnswerAndGoto(r, a, pc) == proc' = [proc EXCEPT ![r].pc = pc, ![r].answer = a]

\* get_account(..)?.ok_or(NotFound)
GetOrNotFound(r, u, pc) ==
  /\ IF Exists(u) THEN Keep(r, accounts[u], pc) ELSE Answer(r, "not_found")
  /\ UNCHANGED storeVars

\* match get_account(..)? { Some(a) => a, None => put_account(Account::new(..)) }
GetOrElse(r, u, create, pc) ==
  /\ IF Exists(u) THEN Keep(r, accounts[u], pc) ELSE Goto(r, create)
  /\ UNCHANGED storeVars

Create(r, u, pc) == PutAccount(u, NewAccount) /\ Keep(r, NewAccount, pc)

\* get_account(..)?.unwrap_or(account)
Reread(r, u, pc) ==
  /\ Keep(r, IF Exists(u) THEN accounts[u] ELSE Copy(r), pc)
  /\ UNCHANGED storeVars

NoAccount(r, u) == ~Exists(u) /\ Answer(r, "not_found") /\ UNCHANGED storeVars

\* add_credits(..)? in the middle of a handler, and as its last call.
Credit(r, u, amount, type, pc) ==
  \/ AddCredits(u, amount, type, Arg(r).id) /\ Goto(r, pc)
  \/ NoAccount(r, u)

CreditLast(r, u, amount, type) ==
  \/ AddCredits(u, amount, type, Arg(r).id) /\ Answer(r, "granted")
  \/ NoAccount(r, u)

-----------------------------------------------------------------------------
(* The environment.                                                        *)

Send(r) ==
  /\ At(r, "new")
  /\ Cardinality(Running) < Concurrency
  /\ \E c \in Calls : proc' = [proc EXCEPT ![r].pc = c.op, ![r].call = c]
  /\ UNCHANGED storeVars

\* A refill task that dies leaves the answer of its request as it was.
Abandon(r) ==
  /\ proc[r].pc \notin {"new", "done"}
  /\ Cardinality(Abandoned) < Abandons
  /\ Answer(r, IF proc[r].answer = None THEN "abandoned" ELSE proc[r].answer)
  /\ UNCHANGED storeVars

=============================================================================
