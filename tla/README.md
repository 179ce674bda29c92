# A TLA+ model of z-billing

z-billing is the credit ledger of a platform: other services report usage to it,
users buy credits and subscribe through Stripe, and Lago mirrors the usage. This
directory holds TLA+ modules of its handlers and its PostgreSQL store, runs of the
model checker TLC on small instances, and proofs that the TLA+ proof system checks
for every instance.

All paths of sources below are relative to `crates/`.

## The system

| Component | Source | State | Operations | Model |
|---|---|---|---|---|
| PostgreSQL store | `z-billing-store/src/postgres.rs`, `migrations/` | tables accounts, credit_transactions, usage_events, processed_webhooks | get, put (whole row), delete, `process_usage`, `add_credits`, webhook keys | `BillingStore`, abstractly `Ledger` |
| RocksDB store | `z-billing-store/src/rocks.rs`, `keys.rs` | column families, one of them an index by user and time | the same, without locks; scans | `RocksStore`, `Metering` |
| Account, plan, ledger types | `z-billing-core/src/account.rs`, `credits.rs`, `ids.rs` | – | – | `BillingStore`, `RocksStore` |
| Pricing | `z-billing-core/src/pricing.rs` | price tables | rate, long prompts, markup, cost, reserve | `PriceTable`, `Pricing` |
| Credit handlers | `z-billing-service/src/handlers/credits.rs` | marks in the account row | balance with lazy grants, signup, daily, referral, admin, auto-refill configuration, purchase, pages of the ledger | `CreditHandlers`, `Metering` |
| Usage handlers | `handlers/usage.rs` | – | report, batch, check, quote, refill task | `UsageHandlers`, `Metering` |
| Lago forwarding | `handlers/usage.rs`, `lago/client.rs` | a task for each charged event | attempts, retries | `LagoForward` |
| Account handlers | `handlers/accounts.rs` | – | create, get or create, delete | `AccountHandlers` |
| Subscription handlers | `handlers/subscriptions.rs` | – | checkout, portal, subscribe, cancel | `SubscriptionHandlers` |
| Webhook handlers | `handlers/webhooks.rs` | processed events | Stripe and Lago events, proration | `WebhookHandlers` |
| Stripe client, and Stripe | `stripe/client.rs` | (at Stripe) sessions, subscriptions, events | create, cancel, pay, renew, deliver | `StripeSide` |
| Authentication | `auth.rs` | key cache | validate, refresh | `KeyCache` |
| Balance stream | `handlers/ws.rs`, `state.rs` | broadcast channel of 256, sockets | publish, receive, lag | `BalanceStream` |
| Composition | `routes.rs`, `state.rs`, `main.rs`, `error.rs` | – | concurrent requests, failures | `Requests`, `Billing`, `Metering`, `Edge` |

Every handler runs as a task of its own on a multi-threaded runtime. Handlers share
the store, the key cache and the broadcast channel, and nothing else. A handler is a
sequence of store calls; each call is one SQL statement or one database transaction
(or, in RocksDB, single reads and one atomic batch), and nothing ties two calls of one
handler together. Most handlers read an account into a local variable, decide on it,
and some write the whole row back later. The service is called by browsers and services
that retry, and by Stripe and Lago, which deliver an event again until it is
acknowledged, perhaps twice at once and in any order. The process may be restarted
between any two calls.

What is hard, then: whole rows written back from stale copies; checks whose answer
no longer holds when it is acted on; a grant and its mark in two calls with a crash
in between; a delivery repeated while the first is handled; events that overtake one
another; charges that race for one balance or one event id; renewals that race the
lazy monthly allowance; keys that are withdrawn while lists of them are under way;
balances published in another order than they were committed. `PROJECT.json` lists
these hazards line by line with the properties aimed at them.

What makes each component correct:

* stores: the balance never goes below zero; it is the sum of what the account
  bought and was granted less its usage; the ledger's running balance follows its
  amounts; a usage event is charged once; the index misses no record;
* prices: a turn that uses anything costs a credit at least, more tokens never cost
  less, the names that the table has for a model cost the same, the reserve covers a short turn;
* grants: one signup grant, one daily grant per day, one referral bonus per invitee
  and one for the inviter, the monthly backstop apart from full months already granted;
* webhooks: an event is not recorded as processed before its credits are in the
  ledger, and a paid purchase is credited in the end;
* subscriptions: the account has what Stripe has; one period's invoices grant no more
  than its best plan; refills are paid for shortages only;
* accounts: none with a ledger disappears;
* keys: a published key is served, a withdrawn one dies;
* stream: a socket that has caught up shows the last balance sent;
* Lago: it gets what was charged, all of it, and nothing else.

## The modules

    Ledger                  the abstract specification: funds and charges, no handlers
    BillingStore            the tables of PostgreSQL and the Store calls
      Requests              requests in flight, the helpers of handlers, Send, Abandon
        CreditHandlers
          UsageHandlers
          WebhookHandlers
        AccountHandlers
        SubscriptionHandlers
          Billing           all of them over one database, with a clock; Spec
            BillingProperties   the properties; Ledger is instantiated here
              MCBilling         instances for TLC
              BillingSteps      what every step of a handler does (lemmas); extends SumProofs
                BillingProofs   the invariant, records and balances, the abstract ledger,
                                deliveries that owe credits
                  SerialProofs    requests that run one at a time
                    GrantProofs     grants, bonuses and refills, counted
                    StripeProofs    beside Stripe; extends StripeProperties too
            StripeSide          Billing beside Stripe
              StripeProperties
                MCStripe
    PriceTable              the default prices
      Pricing               what usage costs, in machine arithmetic
    RocksStore              the column families of RocksDB and the Store calls
      Metering              priced sessions over it; instantiates LagoForward
        MeteringProperties  the properties; Ledger is instantiated here too
          MCMetering
          MeteringProofs        extends SumProofs too
    LagoForward             the tasks that forward charged events
    KeyCache                tokens, keys, the cache
      BalanceStream         the channel and the sockets
        Edge                the two together, and their properties
          MCEdge
          EdgeProofs
    SumProofs               what the sum of a finite set is (lemmas)

**`Billing`.** `accounts[u]` is a row or `None`; `ledger[u]` the records of a user in
the order in which they were committed; `usage_events` and `processed_webhooks` are the
primary keys of those tables; `today` is the clock. `proc[r]` is the local state of
request `r`: the next store call (`pc`), the arguments, the account it holds (`copy`), a
number it computed (`kept`), and its answer.

An action is one store call of one handler, with the decisions the code makes up to
the next call; `pc` names that call: `signup.add` is the `add_credits` of
`signup_grant`. The handler operators (`Signup`, `SubscriptionUpdate`, ...) are
disjunctions of their steps, in the order of the code. The helpers in `Requests` are
the idioms of the code: `GetOrNotFound`, `GetOrElse`, `Create`, `Reread`
(`get_account(..)?.unwrap_or(account)`), `Credit` (`add_credits(..)?`).

How the data is abstracted: amounts are small integers, a timestamp is its day, ids
are model values, formatted text and metrics are left out, and the cost of a usage
event is an argument (`Metering` computes it). A store call may fail: that is
`Abandon`, which is also a restart of the process. Calls to remote services succeed or
fail nondeterministically. The payment of a refill has a third outcome: Stripe takes the
money, and the task is told of an error or of a status that is not `succeeded` (`unanswered`);
it ends without credits, as it does when there was no payment.

`process_usage` is two steps, because its EXISTS query runs before the row is locked,
and another transaction may commit the same event in between. From the row lock to
the commit it is one step: the lock orders the writers of the account, and the key
of `usage_events` refuses a second insert. `add_credits` is one UPDATE and one INSERT
in a transaction, and the UPDATE takes the row's lock: one step. A foreign key from
`credit_transactions` to `accounts` keeps an account with records from being deleted.

Events whose owner is found by the Stripe customer id (`lookup`) go through `Resolve`.
A failing query there counts as one that found nothing, and the event is passed over
and recorded.

The events of a batch are charged one after another and independently; `BatchGet`
models each of them as a request of its own, which has these orders and more.

**`StripeSide`** runs `Billing` beside a model of Stripe, which is not in this
repository: the pages a user opens through the client (`sessions`), the subscriptions
that come of them, and `events`, each of which is delivered in any order, again and again
until it is acknowledged, and sometimes after. A subscription is asked for, paid,
changed in the portal, renewed, not renewed, cancelled for its end, and ends; each change
emits the events the handlers expect. A call to Stripe may be refused, and it may act
and its answer be lost. `acknowledged`, `applied`, `late` and `cut` only record what
happened, for the properties. Requests and deliveries run one at a time here, and Stripe
moves between them: what concurrent handlers do to each other is the subject of
`rows`, and the question here is the order of events.

**`Metering`** is the service on the second store, with costs computed by `Pricing`.
`RocksStore` keeps its records as a set with the keys of the index beside it; an id is
a pair of the millisecond and the random part that order it, and the record has a time of its
own, `created`, read from the clock after the id was generated. The clock counts ticks, of which a
millisecond has `TicksPerMs`. Usage events and webhooks have their keys in one set: the key of
an event is its id, and that of a webhook is its id behind `webhook:`, so that the id of an
event is a pair that says whether it begins with `webhook:`, and the one that does may be the
key of a webhook. Nothing in the code or here keeps a service from sending such an id. The operations of that
store read, compute and write one batch, each a step. `turn` is what a session is
about: a price that is asked for first, and then what the services meter until the end.
`pager` is a client that leafs through the ledger. The other writers of rows are one action, `mark`.

**`Pricing`** computes modulo 2^w, in two halves, so that a product of a count and a rate
wraps as it does in an `i64` without leaving the integers of the model checker. The
table is complete; a name of a model is its prefix and its base.

**`Edge`** has the two sides of the service that keep state outside the store. A request
with a token looks in the cache, fetches the list of keys if it must, waits for the
answer, and then stores it, each a step: the lock is not held in between. A change of
an account is committed and published in two steps, in any order with others. A socket
reads the channel at its own pace; one that is overtaken by the capacity loses the
oldest messages and goes on.

**`Ledger`** is what the service promises of money, with none of the machinery: funds
are never negative, grow by credits, and shrink only by the charge of an event that was
never charged to anyone, by exactly the cost on record. `BillingProperties` and
`MeteringProperties` instantiate it with the balances for `funds` and the usage records
for `charges`.

## The runs

| Run | Module | Shows | Bounds |
|---|---|---|---|
| `charges` | `MCBilling` | no overdraft, no double charge, a ledger that explains every balance, refills paid for shortages only, and credited if the service is told of the payment, while reports, a batch event, a refill, a bonus and a purchase run together; all of it implements `Ledger` | 4 requests, 3 at a time, 2 users, 2 event ids that both users report, 1 cut short |
| `rows` | `MCBilling` | types, the balance equation, accounts with ledgers stay, credits before the record of the event: for every pair of all calls | 2 of 36 calls on each of 3 users (with a subscription, empty, absent), 1 cut short, 1 midnight |
| `serial` | `MCBilling` | signup, daily and referral grants, and events, are applied once each but for what was cut short; the inviter is paid as often as the invitee | 4 requests one at a time, 1 cut short at any step, 2 days |
| `months` | `MCBilling` | the lazy allowance keeps apart from full months | 4 requests one at a time, 5 days, months of 2 days, 1 cut short |
| `purchase` | `MCBilling` | a paid purchase is credited in the end | 4 deliveries, 2 at a time, 3 cut short |
| `stripe` | `MCStripe` | accounts follow Stripe's subscriptions, a second one is only sold to a user whose first is not on record, a period grants no more than its best plan, purchases are paid | 1 user, 2 pages, 4 events, 3 days, periods of 2 days, 1 delivery cut short |
| `turns` | `MCMetering` | the second store: index, counters, scans, pages, charges; prices; forwarding to Lago, in the end too; it implements `Ledger` with closing of accounts | 2 requests of 11 calls one at a time, 1 restart, 2 users, 2 event ids and a webhook that shares the key of one, 2 ticks in 2 milliseconds, 3 turns, 13 quoted turns around every threshold, 1 lost call out of 3 |
| `edge` | `MCEdge` | published keys are served, withdrawn ones die, sockets show the last message and the current balance | 2 requests, 2 keys, 2 rotations, 4 instants; 3 changes, a channel of 2 |
| `stale_row` | `MCBilling` | *violated*: a stale row undoes a committed credit | 2 requests |
| `daily_twice` | `MCBilling` | *violated*: two lazy grants on one day | 2 requests |
| `replayed` | `MCBilling` | *violated*: one event applied twice | 2 deliveries |
| `rocks_twice` | `MCMetering` | *violated*: the second store charges one event twice | 2 reports |

Why the bounds are enough for the question each run asks. In `charges` the race for
an event takes two reports past their EXISTS query and a third request that changes
the balance; the amounts are chosen so that each charge alone is covered and two are
not. Each loss by a stale row takes two requests, one that holds a copy and one that
writes in between, and `rows` runs every such pair. A grant given twice in `serial`
takes the request that was cut short, its retry, and one more to exceed the bound.
Four deliveries of a purchase leave one that nothing cuts short. In `months` two
periods and four events are a renewal before, at and after the end of a month. In
`stripe` four events are a subscription and its first invoice, and an upgrade with its
invoice or a renewal with its, in every order; two pages are two subscriptions, or one
and the portal. In `turns` a second report of an event is either the same user's or another's,
and a lost call leaves two attempts that may succeed; a page of one
record shifts with the first record that comes in. Two records of one millisecond with a tick
between them are those that the sum of the month takes in the wrong order, and one event with the
key of a webhook is refused or passes it over. A count of tokens that is no `i64` is only
quoted for a model, and reported as a count of calls; `LeastCharge` proves of charges of all
kinds what `turns` checks of one. In `edge` two requests are one that
fetched before a rotation and one that fetched after it, and three changes overflow
a channel of two.

The bounds are named: `Request` or `Caller` (how many requests in all), `Concurrency`,
`Abandons`, `Restarts`, `Losses`, `LastDay`, `FirstTick`, `LastTick`, `LastTime`, `Rotations`, `Changes`,
`MaxSessions`, `MaxEvents`, and `Overnight`, which is FALSE in `months` so that the distance
of two months is not measured across a request that began the day before. What would end
at a bound of Stripe's is not asked (`WithinBounds`), so that no bound looks like a refusal.
Two runs have a constraint, `Apart`. In `MCEdge` keys and sockets are varied one after
the other: they have no data in common but that a socket is opened for an accepted token,
and every property is about one of the two. In `MCStripe` purchases come before subscriptions
or without them: they have no data in common but the balance, which no handler of either
reads. Symmetry is over the names of requests, and in `edge` of users, which differ in
nothing else; the runs with a liveness property and `stripe` use none. Deadlock is checked
except in `edge`, which stops when its clock and its counters are at their bounds. In
`Billing` and `Metering` a system whose requests are all done stays there by `Terminating`;
in `stripe` something can always be asked or delivered. `rows` gives the smallest plan no monthly
credits, which no plan has today, because the code has a branch for it; the other runs
give each plan some.

`LedgerExplainsBalance` and `RunningBalance` are checked among the calls that change
balances by `process_usage` and `add_credits` only, and so are `RefillsAccounted` and
`LedgerImplemented`. With a call that writes a whole row they fail; `stale_row` shows the
shortest case, a configuration of the auto-refill beside a bonus. `BalanceInvariant` and
`NoOverdraft` hold there too, because a stale copy was a consistent row once.

The grants hold when requests run one at a time, with a bound on what crashes add:
the code adds credits and marks the account in two calls. At the same time they do
not hold, and `daily_twice` is the example. `ReferralOnce` leaves out users who are
inviters themselves: one gets a bonus for each invitee. `BackstopApart` leaves out
full months by invoice after a backstop: the code grants both.
`RefillsAccounted` counts three kinds of payment that do not become credits: those whose task
is not done, was cut short, or was not told that the payment succeeded. The last are lost for good,
since the code keeps no record of the payment, and its handler of `payment_intent.succeeded` only logs.
`RecordedApplied` and `PurchaseCredited` speak of deliveries that owe credits to an
account that is there for good, and name the user in their metadata.

What the properties beside Stripe leave out, and why: `SubscriptionFollows` leaves out
histories in which an older status came after a newer one, since the code keeps what came
last; `PeriodCreditsBounded` those in which an invoice came late, since an upgrade's invoice
that is applied before the creation's can grant more than the best plan together with it,
those in which one was applied twice, and those in which the user had meanwhile begun a later
period of another subscription: an upgrade is prorated over the period of the subscription on
record, whichever the invoice is of. `PurchasesPaid` lets a purchase be credited once more for
each delivery that was cut short. On the stream, `CurrentWhenQuiet`
leaves out publications that overtook each other, and changes that publish nothing:
a batch event and a refill.

`StoredExplained` does not say that the second store has a key exactly for each charge. With an
event whose id is a webhook's behind `webhook:`, whichever is second is refused as a duplicate without a
charge, or passed over as processed without its credits: `turns` reaches both. What holds is
that this is the only case. `ScansAgree` does not say that the sum of the month is exact. The scan
stops at the first record that is too old, in the order of the ids, and a record that is not too old
may come after it if its id is of the same millisecond; so the property gives the range of the
sum. It is stated for constructors that do not overlap and for a clock that is not set back; with
either, ids and times may differ by more. `AliasesAgree` does not say that all spellings of a model
cost the same. The table is looked up with the name as it is given, and the surcharge with a name
stripped of `openai/`, `xai/` or `google/` and a vendor in any case: a spelling that only the
surcharge knows, as `google/gemini-2.5-pro`, is charged the default rate, with the surcharge of the vendor.
The property says which spellings are which.

`RocksImplementsLedger` is checked for requests that run one at a time, and lets an account
be closed with its credits: that store has no foreign key. `rocks_twice` is the least case
of what concurrent requests do to it. `ForwardedInTheEnd` leaves out a restart, which drops the
tasks, and a Lago that refuses a transaction id it has: a part that arrived although its
answer was lost then stands in the way of the parts after it in every attempt.

Some details of the code that the models show and no document speaks of: a subscription
that waits for its first payment is stored as cancelled, but with a plan, and
`current_plan()` names it; a token without a key id is looked up under the empty id, so
that each one makes the service fetch the list of keys, and the branch for a default key is
never taken; a socket answers "unauthorized" also when the key provider does not
answer at all.

**Fairness.** `FairSpec` of `Billing` assumes weak fairness of each request's handler (the
runtime polls every task that can proceed) and of sending (Stripe delivers an event until
it is acknowledged). `FairSpec` of `Metering` assumes weak fairness of each forwarding task,
which the runtime polls when its timer or answer has come. Nothing forces the clock, a
restart, a lost call or a failure.

**Where the documentation and the code part.** Four runs end in a violation of what
the repository says of itself; `PROJECT.json` quotes the lines. All four are the same
gap, a check or a read whose answer is stale when it is used, at four places: the
row that is put, the mark of the daily grant, the record of a webhook, and the event that
the second store looks up before it writes.

## The proofs

For all users, calls, amounts, bounds and numbers of requests:

| Module | Theorem | States |
|---|---|---|
| `BillingProofs` | `TypeCorrect` | `Spec => []TypeOK` |
| | `NeverOverdrawn` | `Spec => []NoOverdraft` |
| | `AlwaysBalanced` | `Spec => []BalanceInvariant` |
| | `AccountsKept` | `Spec => []LedgerKeepsAccount` |
| | `EventsChargedOnce` | `Spec => []ChargedOnce` |
| | `Invariant` | `Spec => []Inv`, which the others rest on |
| | `BalancesExplained` | `NoRowWrites => (Spec => []LedgerExplainsBalance)` |
| | `RecordsAddUp` | `NoRowWrites => (Spec => []RunningBalance)` |
| | `ImplementsLedger` | `NoRowWrites => (Spec => LedgerImplemented)`, the refinement |
| | `RecordedOnlyApplied` | `DistinctEvents => (Spec => []RecordedApplied)` |
| `SerialProofs` | `CopiesStayFresh` | `OneAtATime => (Spec => []Serial)`, which the next ones rest on |
| `GrantProofs` | `SignupsBounded` | `OneAtATime => (Spec => []SignupBounded)` |
| | `DailyGrantsBounded` | `OneAtATime => (Spec => []DailyBounded)` |
| | `EventsAppliedOnce` | `OneAtATime => (Spec => []AppliedOnce)` |
| | `ReferralsOnce` | `OneAtATime /\ KnownInviters => (Spec => []ReferralOnce)` |
| | `InvitersPaid` | `OneAtATime /\ KnownInviters /\ OneInviter => (Spec => []InviterPaid)` |
| | `BackstopKeepsApart` | `OneAtATime /\ ~Overnight /\ IdsNameEvents => (Spec => []BackstopApart)` |
| | `RefillsAlwaysAccounted` | `NoRowWrites => (Spec => []RefillsAccounted)` |
| `StripeProofs` | `StripeTypeCorrect` | `StripeOnly => (StripeSpec => []StripeType)` |
| | `NoSecondSale` | `StripeOnly => (StripeSpec => []SecondAskedEarly)` |
| | `AccountFollows` | `StripeOnly => (StripeSpec => []SubscriptionFollows)` |
| | `StripeInvariant` | `StripeOnly => (StripeSpec => []StripeInv)`, which the others rest on |
| `EdgeProofs` | `PublishedKeysServed` | `Spec => []PublishedServed` |
| | `WithdrawnKeysDie` | `Spec => WithdrawnDies`, an action property |
| | `LastMessageShown` | `Spec => []DrainedShowsLast` |
| | `ShownIsCurrent` | `Spec => []CurrentWhenQuiet` |
| | `EdgeTypeCorrect` | `Spec => []EdgeType` |
| | `KeysInvariant`, `EdgeInvariant` | `Spec => []KeyInv`, `Spec => []EdgeInv` |
| `MeteringProofs` | `MeteringTypeCorrect` | `Spec => []MeteringType` |
| | `IndexAlwaysComplete` | `Spec => []IndexComplete` |
| | `OnlyChargedForwarded` | `Spec => []ForwardedCharged` |
| | `LeastCharge` | `Spec => []ChargedAtLeastOne` |
| | `OrderedPrices` | `Spec => []PricesInOrder` |
| | `SamePrice` | `Spec => []AliasesAgree` |
| | `TurnStaysAffordable` | `OneAtATime /\ (\A t \in Turns : Spelled(t)) => (Spec => []TurnAffordable)` |
| | `CountersAlwaysExplain` | `OneAtATime => (Spec => []CountersExplain)` |
| | `RocksEventsCharged` | `Spec => []StoredExplained` |
| | `RocksChargedOnce` | `OneAtATime => (Spec => []RocksEventChargedOnce)` |
| | `RocksImplements` | `OneAtATime => (Spec => RocksImplementsLedger)`, the refinement |
| | `MeteringInvariant` | `Spec => []MeteringInv`, which the others rest on |

The hypotheses say of the constants what the instance of a run also says. Without the
first and the third the properties are false, as the runs that end in a violation show:

* `NoRowWrites` (of `charges`): the calls are those that move credits and write no whole
  row, for accounts that are there from the start;
* `DistinctEvents` (of `rows`): an event that owes credits shares its id with no other
  event, as Stripe and Lago see to; its deliveries are any number;
* `OneAtATime` (of `serial`, `months` and `turns`): `Concurrency` is one at most, while the
  refills of earlier requests may still run;
* `~Overnight` (of `months`): no midnight falls into a request, as `BackstopApart` measures
  the distance of two grants by their days, and a handler by the day it read at the start;
* `IdsNameEvents` (of `months`): calls that carry the same event id carry the same event, as
  far as the reason of an invoice goes;
* `Spelled` (of `turns`): a turn names no Sonnet 5 otherwise than the table spells it. Such a
  turn is charged by the table's entry for the bare name and reserved at the default rate,
  so that it may pass the check and not be paid for;
* `KnownInviters` (of `serial`): an inviter on file from the start is one that `Invites`
  knows, and so one that `ReferralOnce` leaves out;
* `OneInviter` (of `serial`): the calls that name an inviter of a user and the row the user
  has at first name the same one. The code does not see to it: a user whose row names one
  inviter may be sent to the referral route with another, and then one of the two is paid;
* `StripeOnly` (of `stripe`): users send no events, so that every event delivered is one
  that Stripe emitted, and no account is closed, whose subscription would go with it.

### Billing: `BillingSteps`, `BillingProofs`

`NoOverdraft` and `BalanceInvariant` are not inductive: a handler writes back whatever
row it holds, so the copies that requests hold must be sound too, including those of
requests that have yet to write. `Inv` therefore says

* `StoreType`: the tables are typed;
* `RowsSound`: every account is in `Sound`, that is, typed, balanced and not negative,
  and its inviter, if any, is one that a call or the initial accounts name (`Inviters`);
* `ProcInv`: of every request, `Held`: its copy is `Sound` or `None`, and what its next
  step relies on holds of its arguments (`HoldsCall`) and its copy (`HoldsCopy`), such
  as an event id for a charge, or an inviter for a referral.

The argument has two halves. `BillingSteps` looks at the handlers, one lemma for each:
a step changes the database in one of six ways (`Effect`: nothing, put a sound row, add
a natural number of credits, commit a charge, delete, record an event) and leads to a
`pc` whose needs are met. That is the lemma `StepEffect`. The lemmas ask of a request only that
its call is `Callable`: one of `Calls` or a well-formed `Delivery`, such as Stripe makes; so
they hold beside Stripe too, while `AllSent` says that without Stripe every call is
one of `Calls`. `BillingProofs` then looks at the
six changes only: `SoundChanges` and `StoreStep` for the invariant, `KeepsAccountStep` for
`LedgerKeepsAccount`, and `ChargesAfterRecord` with `ChargedOnceStep` for `ChargedOnce`,
where a put or a bonus leaves the charges of every ledger as they were, and a charge
adds one whose event was not stored.

### The ledger, in `BillingProofs`

`Moving` says where requests can be if their calls move credits only, and that the
accounts are there; its lemmas go through the handlers once more and show that each step
is `Booked`: it changes no row, or changes one by a record that states the balance
after. `Appended` says what a record does to a ledger, and `ExplainsAfterRecord` and
`RunningAfterRecord` what that does to the two properties. For the refinement, `Money` says of a step that it
credits, charges or does neither; with `ChargedOnce`, a charge is of an event that is
not on record, which is all that the abstract `Charge` asks.

### Deliveries, in `BillingProofs`

`OwedInv` follows a delivery that owes credits through its handler: it is at one of the
steps of its kind of event (`OwedPcs`), and from the step after the credit on they are in
the ledger. An event is recorded by a delivery of it alone (`DistinctEvents`), records are
never taken back, and an account with records is never gone (`AccountsKept`), so no
branch that passes the event over is open to it.

### One request at a time: `SerialProofs`, `GrantProofs`

`Serial` is what a careful reader would like to assume of all the handlers, and what
holds if requests do not overlap: one request is busy (`OneRuns`), what it has read of the
grants in the row is still there when it writes the row back, an account it found
absent is absent, a user it found without a bonus has none, an event it found new is
new, and who is about to be sold a subscription has none (`Fresh`, `CallAt`). It has to hold although refill tasks of earlier
requests go on, which change balances and nothing that the grants go by (`SameMarks`).
`Serially` is proved of each handler's steps, and `MarksStep` says that a mark, once set, is
there for good.

The bounds on grants are one argument, four times. `Source` says of each record of a
kind which step adds it and where the handler goes on. `Within(N, C, token)` says that there are at
most as many in `N`, the grants, as in `C`, the requests that were cut short, and one more
while `token` holds: the account is marked, or a request is about to mark it. A grant is only given
when no token is there and makes one (`WithinStep`); a token is only lost when the request that
holds it is cut short, which is then counted in `C`. For the daily grant the token is
one of a day, and `DaysPast` keeps records out of the future. A referral bonus needs no
mark: the ledger is what the handler asks, so cutting short gives no second one.

`InvitersPaid` follows the bonus from the invitee to the inviter. `InviterOwed` says that once the
invitee has it, the inviter has one too, or a request is between the two (`PayPcs`), or one was
cut short there. Its last step pays the inviter on which the calls and the rows agree: `NamesKept`
says that no row and no copy ever names another, except while the referral route holds the
inviter's own row. `AllPayable` says that the inviter then has an account to be paid to,
which no request that runs beside it deletes.

`BackstopKeepsApart` has two tokens in one: a full month by the lazy route is granted when
the mark, the day of the last full month, is a month old, and a full month by an invoice when the account
has a subscription to renew. `Paths` says where a request can be by what it was called with, so that
the step that adds credits tells which mark comes next; `MonthToken` says that every full month is
marked, or about to be. `AllowanceMoves` and `LagoMoves` go through the two handlers, and
`LazyInTime` reads the lazy route's guard as a distance of days. A grant that is too early (`Premature`) then needs
a request that was cut short before its mark.

`RefillsAlwaysAccounted` counts too, at any concurrency. `SettingsKept` says that the
configuration of the refill is as it was and that a task holds it, and where its answers belong. `RefillsMatched` says
that those who are about to pay or have paid are no more than the shortages, which only grow, and that the credits on
record are exactly the tasks that have recovered; a payment that is not answered keeps its place in the first set
and never gets one in the second. A step (`RefillStep`) adds to the first set only
with a charge that leaves its user short, and to the last only with a credit.

### Beside Stripe: `StripeProofs`

`StripeSpec` interleaves the handlers, one at a time, with what Stripe does and with deliveries in
any order, and frees a request when it is answered. `StripeInv` is in four parts, and TLC finds it
true in the whole state space of `stripe`.

* What is served (`Served`): `Inv`, `Serial`, and that one request is alive. `Deliveries`
  says that a delivery is of an event that Stripe has, at a step of its kind of event.
* What is sold (`Sold`): an event names a subscription of its user's (`Owned`); the last about a
  subscription describes it as Stripe has it (`Described`); one about a failed payment comes right
  after one that says past due (`Paired`); and what was known when a page was opened or a
  subscription asked for had been applied, and settled (`KnownApplied`, `SoldAfter`): each
  subscription the service had been told of then was forgotten again.
* What was noted (`History`): what is acknowledged or recorded was applied.
* What is on the account (`Accounted`): who was told of a subscription has an account (`Opened`); the
  account has what the last applied event says (`Follows`), unless one came late; and an account
  with none on record has settled all it was told of (`Forgets`). `PutFollows` says so of an event
  that is put but not yet counted as applied, while its referral bonus is under way.

A step of the service does three things to these: it may put a row, it may count an event as
applied, it may acknowledge one (`Notes`). `AppliedSays` says that whatever step counts an
event about a status as applied leaves the account with what the event says; `SubscriptionsKept`
that every other step, of any handler, leaves all subscriptions on record as they were, which
is where `Serial` is needed: a stale row would bring an older one back. From the two, `OwnFollows`,
`OthersFollow` and `QuietFollows` carry `Follows` over a step. On Stripe's side every operation
changes one subscription and emits events that describe the change (`Tidings`), and one lemma
about an emitted list of them (`NewsSold`) serves them all. `SecondAskedEarly` is then
`Settled` of what was known, since a sale is asked for when no subscription is on
record (`SalePcs`), and nothing is applied between that question and the sale.
`SubscriptionFollows` is `Follows` of the last event, with `Described`, once all are answered.

### Edge

`PublishedServed` is not inductive: what is refused is decided by a list that was
answered earlier. `KeyInv` adds to it

* `KeyTypes`; `Timely`: a fetch under way is no older than its timeout, the cache not
  newer than the clock;
* `FreshLists`: a key in a list under way was withdrawn after the list was asked for, if
  at all, and a key in the cache at most a fetch before the cache was replaced;
* `SteadyKeys`: a list that was answered while a key was published has it.

`WithdrawnDies` adds the two durations up: `FreshLists` bounds what a list may bring back,
and `AcceptStep` shows that nothing is accepted from a cache that has expired. For the
sockets, `StreamInv` has `SocketsInOrder` (a socket reads forward, from where it joined)
and `LastRead` (what it shows is the last message of its user among those it has read
and that the channel kept), which gives `DrainedShowsLast` when nothing is left to read.
`UsersKnown`, that a request to open a socket names a user, joins the two.

`CurrentWhenQuiet` asks for more than the channel still has. `QuietInv` says that a socket that never
lagged shows the last of all it was sent since it joined (`UnlaggedRead`), and that
every change is silent, waits to be published, or is in the channel's history
(`AllPublished`). When nothing waits and the order was kept, the last sent is the last change.

### Metering

`IndexComplete` is inductive, since both writes are of one batch (`PutRecordStep`). For
`ForwardedCharged`, `TasksCharged` says of the tasks what it says of Lago: their event has a
charge on record. Both hold for any concurrency.

`MeteringInv` is the rest: `ProperRequests` (each request has the call, the copy and the
record that its step needs), `ProperStore` (rows and records are typed, no balance is
negative), `ChargesPriced` (a charge on record is a report's, at the cost that was given or
computed of its turn) and `TurnSettled`. It rests on lemmas about `Pricing`, which say of
every lookup in the price table, of the surcharges and of the two halves of a product that
they are in range, and `ChargedAtLeastOne` on the lemma that what is computed for any use
is one at least. For `StoredExplained`, `Charges` and `KeyStep` split the
steps: a charge writes a usage record and its event in one batch, a webhook is recorded when its
credits are on record (`CreditedFirst`), and nothing else adds a key. Whoever has a key has it from
one of the two (`MoreCharged`, `MoreRecorded`).

The prices rest on lemmas of their own. `OrderedPrices` compares the rates on the two sides of a
threshold for every rate of the table, and the products only where they fit into a word (`Fits`).
`SamePrice` looks each group of names up, in the table and in the lists of the surcharge, and the other
spellings to see that they are in no table. For
`TurnStaysAffordable`, the reserve of a model is shown to be no less than the charge of a short
turn (with both roundings), and what a check has seen is still there, since a balance only shrinks
by a charge, which takes the user out of `allowed`.

For requests that do not overlap, `Alone` says that the one that runs has a copy that
equals the row and an event that is still not stored. Then a charge is new and takes what the row has, which gives
`RocksEventChargedOnce` and each step of the refinement of `Ledger`, where a closed account is an
abstract `Close`.

`CountersAlwaysExplain` is a statement about a sum over the records of a user. `Counting` carries it
with what a step needs: the record that a request has built is of an id that is not in the ledger,
so that the sum grows by its amount exactly (`SumProofs`), and only a request that is asked to
delete an account does. A write then changes the balance and the counters by the same amount
(`RowExplained`), or the balance and the sum (`RecordExplained`). A row that was read a step before may
only be written back because nothing else runs (`Alone`).

### Sums: `SumProofs`

The community modules define the sum of a set by a fold that is a recursive function chosen to fit
its own equation. `SumsExist` finds that function and `SumsUnique` shows it to be the only one, both by
the least number of members for which they would fail: the theorems of induction take a predicate,
which the provers cannot instantiate, but that a set of natural numbers has a least member is a
fact about sets. What is then cited is `TotalEmpty`, `TotalType`, `TotalSame`, `TotalOfSubset`
and `TotalAdds`: one more member adds its own number.
`RecordsSummed` and `MonthlyIsNumber` of `BillingSteps` apply it to the sum that a proration queries.

### Assumptions, and what is not proved

The assumptions are those the modules name. `None` is no value of another kind, no
answer in particular (`ResponseAssumption`), and the names that `StringsAssumption` lists are
strings; the provers have to be told both. In `Billing`
usage ids are no webhook ids (they live in different tables; `RocksStore`, where
they share a column family, assumes nothing of them); calls have the shape that the extractors of their
routes ensure (`WellFormed`), among it that the credits of a purchase are those its checkout
session was made with; grants are not negative; the initial accounts are ones a signup or a
bonus has opened. In `Metering` (`MeteringAssumption`) calls and turns are typed, an account that is there from the start was
credited what it used, counts of tokens and of
calls are not negative, nothing but a report makes a usage record, and an amount that is credited is not negative: `admin_add_credits` refuses others, and a
webhook credits what was paid. `Million` is a
thousand at least, since a reserve is for thousands of tokens, and a word holds nine of them
(`PricingAssumption`). `DailyGrant` may be any integer, since it is read from the environment unchecked: the code grants it only
if it is positive. `SignupGrant` and `ReferralGrant` are assumed not to be negative; the
code reads them from the environment unchecked as well, and a negative one would make
them a charge without a check.

`PriceTable` has an `@@` of its own, defined as that of the module `TLC`, which the
provers cannot see into.

Only model-checked:

* what sorting computes: `PagesMissNothing` and `ScansAgree`, which compare pages and scans with
  the sorted records. Sorting is defined by a permutation that is chosen, and that there is one takes
  an induction over its length;
* beside Stripe the amounts of a period and of all purchases, `PeriodCreditsBounded` and `PurchasesPaid`;
* liveness under fairness (`PurchaseCredited`, `ForwardedInTheEnd`), which is out of
  the prover's reach.

## What is left, in order

1. `StripeSide` with handlers that run at the same time, for the races of two
   deliveries about one subscription.
2. The amounts beside Stripe without sums: that a paid session's event is
   credited once, of which `PurchasesPaid` is the total.

## Not modelled

Configuration, metrics, HMAC signatures, static pages and health (`config.rs`,
`mixpanel.rs`, `anthropic_cost.rs`, `crypto.rs`, `checkout_pages.rs`, `health.rs`) keep
no state that the rest reads. The client crate sends one request per call and does not
retry; the crate that generates Lago deployments writes files once. Of modelled parts:
the verification of a token's signature and claims (a library's), the formats of requests
and responses, usage statistics and the two routes that read a status, store methods that
nothing calls, the wait between two attempts to forward, pings on sockets, and the
layers that limit concurrency, which only remove interleavings.
