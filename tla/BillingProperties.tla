-------------------------- MODULE BillingProperties ---------------------------
(***************************************************************************)
(* What the service promises about accounts, ledgers and events.  Which of *)
(* these hold with requests running concurrently, which only when they run *)
(* one at a time, and which the code breaks, is said by the runs.          *)
(***************************************************************************)
EXTENDS Billing

TypeOK ==
  /\ accounts \in [User -> Account \cup {None}]
  /\ ledger \in [User -> Seq(Transaction)]
  /\ usage_events \in SUBSET UsageId
  /\ processed_webhooks \in SUBSET WebhookId
  /\ today \in Day
  /\ proc \in [Request -> Proc]

-----------------------------------------------------------------------------
(* Accounts and their ledgers.                                             *)

\* No charge takes a balance below zero, however many services charge the
\* account at once: process_usage checks the balance under its row lock.
NoOverdraft == \A u \in User : Exists(u) => accounts[u].balance >= 0

\* The balance is what was purchased and granted less what was used, also
\* after a handler wrote a whole row back that others had changed meanwhile.
Balanced(a) == a.balance = a.purchased + a.granted - a.used

BalanceInvariant == \A u \in User : Exists(u) => Balanced(accounts[u])

\* The balance is the one its last ledger record states: nothing changes a
\* balance without a record.  Whole-row writes of stale copies break this.
BalanceAfter(u) == IF ledger[u] = <<>> THEN 0 ELSE ledger[u][Len(ledger[u])].after

LedgerExplainsBalance ==
  \A u \in User : Exists(u) => accounts[u].balance = BalanceAfter(u)

\* Each record's balance is the one before it plus its amount, in the order
\* in which the records were committed.
RunningBalance ==
  \A u \in User : \A i \in 2..Len(ledger[u]) :
    ledger[u][i].after = ledger[u][i-1].after + ledger[u][i].amount

\* The foreign key never lets an account go while records refer to it.
LedgerKeepsAccount == \A u \in User : ledger[u] # <<>> => Exists(u)

-----------------------------------------------------------------------------
(* Usage events.                                                           *)

Charged(u, i, e) == ledger[u][i].type = "usage" /\ ledger[u][i].ref = e

\* An event id is charged once, to one account, however many requests of one
\* or several services report it at the same time.
ChargedAtMostOnce ==
  \A e \in UsageId : \A u, v \in User :
    \A i \in DOMAIN ledger[u], j \in DOMAIN ledger[v] :
      Charged(u, i, e) /\ Charged(v, j, e) => u = v /\ i = j

\* ... and the event is stored if and only if it was charged.
StoredIffCharged ==
  \A e \in UsageId :
    e \in usage_events <=> \E u \in User : \E i \in DOMAIN ledger[u] : Charged(u, i, e)

ChargedOnce == ChargedAtMostOnce /\ StoredIffCharged

-----------------------------------------------------------------------------
(* Grants.  A crash between a grant and the write that marks it allows the *)
(* retry to grant again: such grants are counted against abandoned calls.  *)

Records(u, type) == {i \in DOMAIN ledger[u] : ledger[u][i].type = type}

AbandonedCalls(u, ops) ==
  {r \in Abandoned : proc[r].call.user = u /\ proc[r].call.op \in ops}

\* Requests that run one at a time grant the signup credits once, and once
\* more at most for each signup request that was cut short.
SignupBounded ==
  \A u \in User : Cardinality(Records(u, "signup_grant"))
                    <= 1 + Cardinality(AbandonedCalls(u, {"signup_grant"}))

\* The same of the daily grant, for each day and through all three routes.
DailyBounded ==
  \A u \in User : \A d \in 0..LastDay :
    Cardinality({i \in Records(u, "daily_grant") : ledger[u][i].day = d})
      <= 1 + Cardinality(AbandonedCalls(u, {"get_balance", "daily_grant", "check_balance"}))

\* An invitee gets the referral bonus once, whether it comes from the referral
\* route or from a first subscription, and whatever was cut short.  Someone
\* who is an inviter as well gets one for each invitee.
Invites(u) == \E c \in Calls : c.other = u

ReferralOnce ==
  \A u \in User : Invites(u) \/ Cardinality(Records(u, "referral_bonus")) <= 1

\* Whoever invited someone has got a bonus for each that the invitee got, by
\* either of the two ways, also when the account of the inviter is opened for
\* it; but for one of which the payment to the invitee was made and the
\* request then cut short: who asks again is told that it was granted.
InviterPaid ==
  \A c \in Calls :
    Running = {} /\ c.other # None /\ ~Invites(c.user) =>
      Cardinality(Records(c.user, "referral_bonus"))
        <= Cardinality(Records(c.other, "referral_bonus"))
             + Cardinality(AbandonedCalls(c.user, {"referral_grant", "stripe_webhook"}))

\* The lazy allowance keeps its distance from every full month granted before,
\* its own or an invoice's, unless a request that granted one was cut short.
FullMonth(u, i) ==
  \/ ledger[u][i].ref = None
  \/ \E c \in Calls : c.id = ledger[u][i].ref /\ c.reason \in FullReasons

TooEarly(u) ==
  {j \in Records(u, "monthly_allowance") :
    /\ ledger[u][j].ref = None
    /\ \E i \in Records(u, "monthly_allowance") :
         i < j /\ FullMonth(u, i) /\ ledger[u][j].day - ledger[u][i].day < MonthDays}

BackstopApart ==
  \A u \in User :
    Cardinality(TooEarly(u))
      <= Cardinality(AbandonedCalls(u, {"get_balance", "check_balance", "stripe_webhook"}))

-----------------------------------------------------------------------------
(* The service implements the abstract ledger, where nothing writes a      *)
(* whole row: charges, credits and refills may run in any order.           *)

UsageRecords(u) == {i \in DOMAIN ledger[u] : ledger[u][i].type = "usage"}

L == INSTANCE Ledger WITH
       Event <- UsageId,
       funds <- [u \in User |-> IF Exists(u) THEN accounts[u].balance ELSE 0],
       charges <- UNION {{[event |-> ledger[u][i].ref, user |-> u,
                           cost |-> -ledger[u][i].amount] : i \in UsageRecords(u)} : u \in User}

\* Every step of every handler credits one user, charges one user for an event
\* no one was charged for, by the cost its record states, or moves no money.
LedgerImplemented == L!Spec

-----------------------------------------------------------------------------
(* Auto-refill.                                                            *)

Shortages(u) == {i \in UsageRecords(u) : ledger[u][i].after < Initial[u].auto_refill.trigger}

\* The payments that Stripe took, those the service was not told of included.
Paid(u) ==
  {r \in Request : proc[r].answer \in {"charged", "unanswered", "refilled"} /\ Arg(r).user = u}

Unanswered == {r \in Request : proc[r].answer = "unanswered"}

\* Each payment answers a shortage of its own, a charge that left the balance
\* below the trigger, however many reports run at once; and it becomes credits
\* once, unless the task is not done, was cut short, or had no answer that the
\* payment succeeded: then the user has paid and never gets the credits.
RefillsAccounted ==
  \A u \in User : Initial[u].auto_refill # None =>
    /\ Cardinality(Paid(u)) <= Cardinality(Shortages(u))
    /\ Cardinality(Records(u, "auto_refill"))
         = Cardinality({r \in Paid(u) : ~At(r, "refill.get") /\ ~At(r, "refill.add")}
                        \ (Abandoned \cup Unanswered))

-----------------------------------------------------------------------------
(* Webhooks.                                                               *)

AppliedTo(u, w) ==
  {i \in DOMAIN ledger[u] : ledger[u][i].ref = w /\ ledger[u][i].type # "referral_bonus"}

\* Deliveries of one event that run one at a time apply it once, and once more
\* at most for each delivery that was cut short before it was recorded.
AppliedOnce ==
  \A u \in User : \A w \in WebhookId :
    Cardinality(AppliedTo(u, w)) <= 1 + Cardinality({r \in Abandoned : proc[r].call.id = w})

\* Deliveries that owe credits to an account that is there for good.
OwesCredits(c) ==
  /\ OpeningLedger(Initial[c.user]) # <<>>
  /\ \/ c.op = "lago_webhook" /\ c.event = "lago.started"
        /\ MonthlyCredits[c.subscription.plan] > 0
     \/ c.op = "stripe_webhook" /\ ~c.lookup /\ c.event = "checkout.payment" /\ c.reason = "paid"
     \/ c.op = "stripe_webhook" /\ ~c.lookup /\ c.event = "invoice.paid"
        /\ c.reason \in FullReasons
        /\ c.subscription # None /\ MonthlyCredits[c.subscription.plan] > 0

OwedCalls == {c \in Calls : OwesCredits(c)}

\* An event is only recorded as processed, and so never delivered again, when
\* its credits are in the ledger, whatever ran beside it and was cut short.
RecordedApplied ==
  \A c \in OwedCalls : c.id \in processed_webhooks => AppliedTo(c.user, c.id) # {}

\* A paid purchase that is delivered until it is acknowledged is credited.
PurchaseCredited ==
  \A c \in OwedCalls :
    (\E r \in Request : Arg(r) = c) ~> (AppliedTo(c.user, c.id) # {})

-----------------------------------------------------------------------------
(* Claims of the documentation that concurrent requests break.             *)

\* A user is granted the daily credits once a day.
DailyOnce ==
  \A u \in User : \A i, j \in Records(u, "daily_grant") :
    ledger[u][i].day = ledger[u][j].day => i = j

\* An event that was delivered before is not applied a second time.
ReplayProtected ==
  \A u \in User : \A w \in WebhookId : Cardinality(AppliedTo(u, w)) <= 1

=============================================================================
