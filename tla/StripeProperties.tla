---------------------------- MODULE StripeProperties ---------------------------
(***************************************************************************)
(* What the service knows of Stripe's subscriptions and payments when it   *)
(* has answered every event.  Requests and deliveries run one at a time.   *)
(***************************************************************************)
EXTENDS StripeSide

StripeType ==
  /\ sessions \in Seq(Session)
  /\ subscriptions \in Seq(StripeSubscription)
  /\ \A i \in DOMAIN events : events[i] \in Call /\ WellFormed(events[i]) /\ events[i].id = i
  /\ late \subseteq applied /\ applied \subseteq DOMAIN events
  /\ acknowledged \subseteq DOMAIN events
  /\ proc \in [Request -> Proc]

\* Nothing is under way between Stripe and the service.
Quiet == Running = {} /\ acknowledged = DOMAIN events

Status == {i \in DOMAIN events : events[i].event \in StatusTypes}

StatusInOrder == late \cap Status = {}

Live(n) == subscriptions[n].status \in {"active", "past_due", "ending"}

-----------------------------------------------------------------------------

Mapped(s) ==
  CASE s.status = "active" -> "active"
    [] s.status = "past_due" -> "past_due"
    [] OTHER -> "cancelled"

\* Unless an event about a status came after a newer one, the account has
\* what Stripe has once all events are answered: the subscription the last of
\* them was about, with its plan, its period and its status, or none when it
\* has ended.  Deliveries fail, are repeated, and are cut short.
SubscriptionFollows ==
  \A k \in Status :
    LET u == events[k].user
        n == events[k].subscription.id
        s == subscriptions[n]
    IN  Quiet /\ StatusInOrder /\ (\A j \in Status : events[j].user = u => j <= k) =>
          accounts[u].subscription =
            IF s.status = "ended" THEN None
            ELSE [id |-> n, plan |-> s.plan, status |-> Mapped(s), start |-> s.start,
                  end |-> s.end]

\* A user who has a subscription on record is not sold another: of two that
\* are live at Stripe, the second was asked for before the service had been
\* told of the first, or after it had been told that some subscription of the
\* user's ended, for then it forgets the one on record, whichever that is.
Told(n, ids) ==
  {i \in ids : events[i].event = "subscription.updated" /\ events[i].subscription.id = n}

ForgottenSince(i, u, ids) ==
  \E j \in ids : j > i /\ events[j].event = "subscription.deleted" /\ events[j].user = u

SecondAskedEarly ==
  \A m, n \in DOMAIN subscriptions :
    LET known == subscriptions[n].known
        u == subscriptions[n].user
    IN  m < n /\ Live(m) /\ Live(n) /\ subscriptions[m].user = u /\ StatusInOrder
          => \A i \in Told(m, known) : ForgottenSince(i, u, known)

-----------------------------------------------------------------------------

CreditedBy(u, ids) ==
  MapThenSumSet(LAMBDA i : ledger[u][i].amount, {i \in DOMAIN ledger[u] : ledger[u][i].ref \in ids})

Times(u, id) == Cardinality({i \in DOMAIN ledger[u] : ledger[u][i].ref = id})

InvoicesOf(n, start) ==
  {i \in DOMAIN events : events[i].event = "invoice.paid"
                           /\ events[i].subscription.id = n /\ events[i].subscription.start = start}

\* The user began a later period, of another subscription, before event i.
BegunLater(i) ==
  \E j \in DOMAIN events : /\ j < i /\ events[j].event = "subscription.updated"
                           /\ events[j].user = events[i].user
                           /\ events[j].subscription.start > events[i].subscription.start

\* The invoices of one billing period, its first and those of its upgrades,
\* give no more credits than the best of its plans gives in a month, unless an
\* invoice came after a newer event, a delivery was cut short and repeated, or
\* the user had begun a later period of another subscription: for an upgrade is
\* set against what was granted in the period of the one on record.
PeriodCreditsBounded ==
  \A n \in DOMAIN subscriptions : \A start \in 0..LastDay :
    LET ids == InvoicesOf(n, start)
        u == subscriptions[n].user
    IN  ids # {} /\ ids \cap late = {} /\ (\A i \in ids : Times(u, i) <= 1 /\ ~BegunLater(i)) =>
          CreditedBy(u, ids) <= Max({MonthlyCredits[events[i].subscription.plan] : i \in ids})

\* When all events are answered the credits purchased are those of the
\* sessions that were paid, and of none again but once for each delivery that
\* was cut short.
PaidSessions(u) == {i \in DOMAIN sessions :
                      sessions[i].user = u /\ sessions[i].kind = "payment" /\ ~sessions[i].open}

PurchasesPaid ==
  \A u \in User :
    LET owed == MapThenSumSet(LAMBDA i : sessions[i].amount, PaidSessions(u))
        ids == {i \in DOMAIN events : events[i].event = "checkout.payment" /\ events[i].user = u}
        got == CreditedBy(u, ids)
    IN  Quiet => got >= owed /\ got <= (1 + cut) * owed

=============================================================================
