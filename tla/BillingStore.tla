----------------------------- MODULE BillingStore -----------------------------
(***************************************************************************)
(* The PostgreSQL store of z-billing (crates/z-billing-store).  Each       *)
(* operator below is one call of the Store trait: a single statement, or   *)
(* one database transaction whose row lock or primary key makes it one     *)
(* indivisible change of the committed state.  A handler is a sequence of  *)
(* such calls and nothing ties one call to the next.                       *)
(*                                                                         *)
(* None is an absent row, an Option::None or an SQL NULL.                  *)
(***************************************************************************)
EXTENDS Integers, Sequences, FiniteSetsExt

CONSTANTS
  User,        \* user ids
  UsageId,     \* event ids chosen by the services that report usage
  WebhookId,   \* event ids of Stripe, dedup keys of Lago
  None

VARIABLES
  accounts,            \* table accounts
  ledger,              \* table credit_transactions, per user, in commit order
  usage_events,        \* primary keys of table usage_events
  processed_webhooks,  \* primary keys of table processed_webhooks
  today                \* the clock, in days

storeVars == <<accounts, ledger, usage_events, processed_webhooks, today>>

-----------------------------------------------------------------------------
(* The rows.  Amounts are credits (cents); a timestamp is its day.         *)

Plan == {"mortal", "pro", "crusader", "sage"}

Day == Nat

\* id names the subscription at Stripe.
Subscription == [id : Nat,
                 plan : Plan,
                 status : {"active", "cancelled", "past_due"},
                 start : Day,
                 end : Day]

AutoRefill == [enabled : BOOLEAN, trigger : Nat, amount : Nat]

Account == [balance : Int, purchased : Int, granted : Int, used : Int,
            subscription : Subscription \cup {None},
            auto_refill : AutoRefill \cup {None},
            stripe_customer : BOOLEAN,
            referred_by : User \cup {None},
            signup_grant : Day \cup {None},
            last_daily : Day \cup {None},
            last_monthly : Day \cup {None}]

TransactionType == {"purchase", "subscription_grant", "monthly_allowance",
                    "usage", "auto_refill", "bonus", "signup_grant",
                    "daily_grant", "referral_bonus"}

\* ref names the usage event or webhook the record was written for.
Transaction == [type : TransactionType, amount : Int, after : Int,
                ref : UsageId \cup WebhookId \cup {None}, day : Day]

ASSUME NoneAssumption ==
  /\ None \notin Int \cup STRING
  /\ None \notin User \cup UsageId \cup WebhookId
  /\ None \notin Subscription \cup AutoRefill \cup Account
  /\ UsageId \cap WebhookId = {}

NewAccount == [balance |-> 0, purchased |-> 0, granted |-> 0, used |-> 0,
               subscription |-> None, auto_refill |-> None,
               stripe_customer |-> FALSE, referred_by |-> None,
               signup_grant |-> None, last_daily |-> None,
               last_monthly |-> None]

CurrentPlan(a) ==
  IF a.subscription = None THEN "mortal" ELSE a.subscription.plan

Exists(u) == accounts[u] # None

-----------------------------------------------------------------------------
(* Single statements.                                                      *)

\* The upsert writes every column of the row, the money columns included.
PutAccount(u, a) ==
  /\ accounts' = [accounts EXCEPT ![u] = a]
  /\ UNCHANGED <<ledger, usage_events, processed_webhooks, today>>

\* Mutant of Deletable: a foreign key that cascades.
DeletableAlways(u) == Exists(u)

\* The foreign key of credit_transactions keeps an account that has any.
Deletable(u) == Exists(u) /\ ledger[u] = <<>>

DeleteAccount(u) ==
  /\ Deletable(u)
  /\ accounts' = [accounts EXCEPT ![u] = None]
  /\ UNCHANGED <<ledger, usage_events, processed_webhooks, today>>

RecordWebhookEvent(w) ==
  /\ processed_webhooks' = processed_webhooks \cup {w}
  /\ UNCHANGED <<accounts, ledger, usage_events, today>>

HasReferralBonus(u) ==
  \E i \in DOMAIN ledger[u] : ledger[u][i].type = "referral_bonus"

MonthlySince(u, since) ==
  MapThenSumSet(LAMBDA i : ledger[u][i].amount,
    {i \in DOMAIN ledger[u] : ledger[u][i].type = "monthly_allowance" /\ ledger[u][i].day >= since})

-----------------------------------------------------------------------------
(* Database transactions.                                                  *)

Record(u, type, amount, after, ref) ==
  ledger' = [ledger EXCEPT ![u] =
    Append(@, [type |-> type, amount |-> amount, after |-> after,
               ref |-> ref, day |-> today])]

\* Mutant of AddCredits: the lifetime counter is forgotten.
AddCreditsUncounted(u, amount, type, ref) ==
  /\ Exists(u)
  /\ accounts' = [accounts EXCEPT ![u].balance = @ + amount]
  /\ Record(u, type, amount, accounts[u].balance + amount, ref)
  /\ UNCHANGED <<usage_events, processed_webhooks, today>>

\* Mutant of AddCredits: the record states the balance there was before.
AddCreditsBefore(u, amount, type, ref) ==
  /\ Exists(u)
  /\ accounts' = [accounts EXCEPT ![u].balance = @ + amount,
                                  ![u].purchased = @ + amount]
  /\ Record(u, type, amount, accounts[u].balance, ref)
  /\ UNCHANGED <<usage_events, processed_webhooks, today>>

\* Every credit, whatever its type, is counted as purchased.
AddCredits(u, amount, type, ref) ==
  /\ Exists(u)
  /\ accounts' = [accounts EXCEPT ![u].balance = @ + amount,
                                  ![u].purchased = @ + amount]
  /\ Record(u, type, amount, accounts[u].balance + amount, ref)
  /\ UNCHANGED <<usage_events, processed_webhooks, today>>

\* process_usage in two parts: its EXISTS query runs before the row is
\* locked, so another transaction may commit the same event in between.
DuplicateUsage(e) == e \in usage_events

\* Mutant of Sufficient: whoever has credits may spend any number.
SufficientForAny(u, cost) == accounts[u].balance > 0

Sufficient(u, cost) == accounts[u].balance >= cost

\* Mutant of CommitUsage: an insert that ignores a conflict of the key.
CommitUsageAnyway(u, cost, e) ==
  /\ Exists(u)
  /\ Sufficient(u, cost)
  /\ accounts' = [accounts EXCEPT ![u].balance = @ - cost,
                                  ![u].used = @ + cost]
  /\ Record(u, "usage", -cost, accounts[u].balance - cost, e)
  /\ usage_events' = usage_events \cup {e}
  /\ UNCHANGED <<processed_webhooks, today>>

\* From SELECT ... FOR UPDATE to COMMIT: the row lock orders writers of the
\* account, and the primary key of usage_events refuses a second insert.
CommitUsage(u, cost, e) ==
  /\ Exists(u)
  /\ Sufficient(u, cost)
  /\ e \notin usage_events
  /\ accounts' = [accounts EXCEPT ![u].balance = @ - cost,
                                  ![u].used = @ + cost]
  /\ Record(u, "usage", -cost, accounts[u].balance - cost, e)
  /\ usage_events' = usage_events \cup {e}
  /\ UNCHANGED <<processed_webhooks, today>>

=============================================================================
