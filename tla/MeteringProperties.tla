-------------------------- MODULE MeteringProperties --------------------------
(***************************************************************************)
(* What holds of sessions on the RocksDB store when requests run one at a  *)
(* time, of prices, and of what reaches Lago.                              *)
(***************************************************************************)
EXTENDS Metering, FiniteSetsExt

\* The column families, the requests and the tasks are typed.
MeteringType ==
  /\ accounts \in [User -> Account \cup {None}]
  /\ transactions \subseteq Transaction
  /\ by_user \subseteq User \X TransactionId
  /\ usage_events \subseteq {UsageKey(e) : e \in UsageId} \cup {WebhookKey(w) : w \in WebhookId}
  /\ now \in FirstTick..LastTick
  /\ \A c \in Caller : call[c].pc # "new" => call[c].call \in Calls
  /\ \A c \in Caller : call[c].copy \in Account \cup {None}
  /\ \A c \in Caller : call[c].record \in Transaction \cup {None}
  /\ L!LagoType

-----------------------------------------------------------------------------
(* The store.                                                              *)

AmountsOf(records) == MapThenSumSet(LAMBDA t : t.amount, records)

UsageOf(u) == {t \in transactions : t.user = u /\ t.type = "usage"}

A == INSTANCE Ledger WITH
       Event <- UsageId,
       funds <- [u \in User |-> IF Exists(u) THEN accounts[u].balance ELSE 0],
       charges <- {[event |-> t.ref, user |-> t.user, cost |-> -t.amount]
                    : t \in {s \in transactions : s.type = "usage"}}

\* With requests that run one at a time the second store, which has no locks
\* and no foreign key, implements the same ledger as the first; it also lets
\* an account with credits be deleted.
RocksImplementsLedger == A!ClosingSpec

\* The index has an entry for each record and a record for each entry,
\* whatever was cut short: listings and sums miss nothing.
IndexComplete == by_user = {<<t.user, t.id>> : t \in transactions}

\* A charged event is stored, and what counts as stored was charged, or paid
\* for in the case of a webhook; but an event whose id is that of a webhook
\* behind "webhook:" shares its key, and each then counts for the other.
Charged(e) == \E t \in transactions : t.type = "usage" /\ t.ref = e

Credited(w) == \E t \in transactions : t.type # "usage" /\ t.ref = w

StoredExplained ==
  /\ \A e \in UsageId :
       /\ Charged(e) => HasUsageEvent(e)
       /\ HasUsageEvent(e) =>
            Charged(e) \/ \E w \in WebhookId : e = <<"webhook:", w>> /\ Credited(w)
  /\ \A w \in WebhookId : HasWebhookEvent(w) =>
       Credited(w) \/ \E e \in UsageId : e = <<"webhook:", w>> /\ Charged(e)

\* An event id that is sent twice is charged once, whoever sends it when.
RocksEventChargedOnce ==
  \A t, s \in transactions :
    t.type = "usage" /\ s.type = "usage" /\ t.ref = s.ref => t = s

\* Lifetime counters explain a balance but for the kinds of grant that this
\* store does not count, which the ledger has.
Uncounted(u) ==
  {t \in transactions : t.user = u /\ t.type \in {"monthly_allowance", "signup_grant",
                                                  "daily_grant", "referral_bonus"}}

Deletable(u) == \E k \in Calls : k.op = "delete" /\ k.user = u

CountersExplain ==
  \A u \in User : Exists(u) /\ ~Deletable(u) =>
    accounts[u].balance = accounts[u].purchased + accounts[u].granted - accounts[u].used
                            + AmountsOf(Uncounted(u))

\* A client that leafs through the ledger until it is told that there is no
\* more has seen every record there was when it began, though records come in
\* between two pages and shift them.
PagesMissNothing == pager.state = "end" => pager.owed \subseteq pager.seen

\* The scan for a referral bonus finds one if there is one.  The sum of the
\* month stops early, in the order of ids and not of times: it has no record of
\* before its time, and misses none but those that share the millisecond of
\* their ids with a record of before it.
ScansAgree ==
  \A u \in User :
    LET ofUser == {t \in transactions : t.user = u}
    IN  /\ HasReferralBonus(u) <=> \E t \in ofUser : t.type = "referral_bonus"
        /\ \A since \in 1..LastTick :
             LET recent == {t \in ofUser : t.type = "monthly_allowance" /\ t.created >= since}
                 shared == {t \in recent :
                              \E s \in ofUser : s.created < since /\ s.id[1] = t.id[1]}
             IN  SumMonthlyAllowanceSince(u, since)
                   \in AmountsOf(recent \ shared)..AmountsOf(recent)

-----------------------------------------------------------------------------
(* Prices.                                                                 *)

Short(metric) ==
  /\ metric.kind = "llm"
  /\ metric.a <= 2 * (Million \div 1000)
  /\ metric.b <= Million \div 1000

\* Whoever passed the check of a model can pay a short turn of it, as long as
\* nothing else is charged: the reserve is not below what the turn will cost.
TurnAffordable ==
  Short(turn) => \A u \in allowed : accounts[u].balance >= CalculateCost(turn)

\* A charge whose cost was computed is of one credit at least for any use,
\* though products of large counts wrap around.
ComputedOnly(e) ==
  \A k \in Calls : k.op \in {"report", "report_batch"} /\ k.id = e => k.amount = None

UsedSomething == turn.a > 0 \/ turn.b > 0 \/ turn.kind = "api"

ChargedAtLeastOne ==
  \A t \in transactions :
    t.type = "usage" /\ ComputedOnly(t.ref) /\ UsedSomething => t.amount <= -1

\* A price that is asked for is never less for more tokens, at the thresholds
\* of long prompts too, and with its markup it is not less than the vendor
\* takes, but for rounding.
Fits(tokens, credits) == credits > 0 => tokens <= MaxI64 \div credits

TokenCounts == {t.a : t \in Quotes}

PricesInOrder ==
  turn \in Quotes =>
    LET cost(in) == LlmCostForUser(turn.provider, turn.model, in, turn.b)
        rate(in) == LlmPricingForUsage(turn.provider, turn.model, in)
        fits(in) == Fits(in, MarkedUp(rate(in)).input) /\ Fits(turn.b, MarkedUp(rate(in)).output)
    IN  \A in \in TokenCounts : fits(in) =>
          /\ \A less \in TokenCounts : less <= in => cost(less) <= cost(in)
          /\ Million * (cost(in) + 2) > in * rate(in).input + turn.b * rate(in).output

\* The models whose long prompts cost more, each with the names that the
\* table has for it.
LongModels ==
  ({"openai"} \X {Gpt54, Gpt55, Gpt56Sol, Gpt56Terra, Gpt56Luna})
    \cup ({"xai"} \X {GrokBuild, Grok("grok-4.6", "aura-grok-4-6"),
                      Grok("grok-4.5", "aura-grok-4-5"), Grok("grok-4.3", "aura-grok-4-3")})
    \cup ({"google"} \X {Gemini31Pro, Gemini25Pro})

\* What the surcharge takes for a name of the same model.
VendorSpellings(vendor) ==
  {spelled \in {"openai", "OpenAI", "xai", "xAI", "google", "Google"} : Provider(spelled) = vendor}

Routed(names) == {"", "openai/", "xai/", "google/"} \X {name[2] : name \in names}

Sonnet5Names == Both("anthropic/", {"claude-sonnet-5", "aura-claude-sonnet-5"})

\* The price of a model that is in no table, with the vendor's surcharge.
UnlistedCost(vendor) ==
  LET d == DefaultLlmPricing
      rate ==
        CASE vendor = "xai" /\ turn.a >= XaiThreshold ->
               [input |-> 2 * d.input, output |-> 2 * d.output]
          [] \/ vendor = "openai" /\ turn.a > OpenAiThreshold
             \/ vendor = "google" /\ turn.a > GoogleThreshold ->
               [input |-> 2 * d.input, output |-> (3 * d.output) \div 2]
          [] OTHER -> d
  IN  LlmCost(MarkedUp(rate), turn.a, turn.b)

QuotedCost(provider, name) == LlmCostForUser(provider, name, turn.a, turn.b)

\* The names that the table has for one model are quoted the same price, for
\* prompts of any length, and so is every spelling of Sonnet 5.  A spelling
\* that only the surcharge knows, as google/gemini-2.5-pro, xai/aura-grok-4-6
\* or a vendor with a capital, is not: it costs what an unlisted model does.
AliasesAgree ==
  turn \in Quotes =>
    /\ \A model \in LongModels : \A m, n \in model[2] :
         QuotedCost(model[1], m) = QuotedCost(model[1], n)
    /\ \A p, q \in {"anthropic", "Anthropic"} : \A m, n \in Sonnet5Names :
         QuotedCost(p, m) = QuotedCost(q, n)
    /\ \A model \in LongModels :
         \A p \in VendorSpellings(model[1]) : \A m \in Routed(model[2]) :
           p # model[1] \/ m \notin model[2] => QuotedCost(p, m) = UnlistedCost(model[1])

-----------------------------------------------------------------------------
(* Lago.                                                                   *)

\* Lago never has more than was charged: what is refused, repeated or cut
\* short before its commit is not forwarded.
ForwardedCharged == \A part \in lago : Charged(part[1])

Forwarded(e) ==
  \A i \in DOMAIN L!Parts(turn) : <<e, L!Parts(turn)[i]>> \in lago

\* A charged report is in Lago in the end, all parts of it, although calls
\* are lost, unless the process stops; or, if Lago refuses what it has, some
\* part of it is: a part that is sent again then stands in the way of the rest.
ForwardedInTheEnd ==
  \A e \in UsageId :
    L!Sending(e) ~>
      \/ Forwarded(e)
      \/ restarts > 0
      \/ refusing /\ \E part \in lago : part[1] = e

=============================================================================
