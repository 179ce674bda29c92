---------------------------- MODULE MeteringProofs ----------------------------
(***************************************************************************)
(* What holds of the RocksDB store and of Lago for any requests, however   *)
(* many run at once and wherever the process restarts.                     *)
(***************************************************************************)
EXTENDS MeteringProperties, SumProofs, SequenceTheorems

LEMMA PutRecordStep == ASSUME IndexComplete, NEW t, PutRecord(t) PROVE IndexComplete'
  BY DEF PutRecord, IndexComplete

LEMMA HandlerIndexStep ==
  ASSUME IndexComplete, NEW c \in Caller, Handler(c)
  PROVE  IndexComplete' \/ UNCHANGED <<transactions, by_user>>
<1>1. CASE Check(c)
  BY <1>1 DEF Check, CheckGet, CheckCreate, CheckAnswer, GetOrCreate, Create, PutAccount, storeVars
<1>2. CASE Report(c)
  <2>1. CASE UsageWrite(c)
    BY <2>1, PutRecordStep DEF UsageWrite, WriteUsage
  <2> QED
    BY <1>2, <2>1 DEF Report, ReportGet, ReportCreate, BatchGet, ReportCost, UsageExists, UsageGet,
       GetOrCreate, GetOrNotFound, Create, Build, PutAccount, storeVars
<1>3. CASE Credit(c)
  <2>1. CASE CreditWrite(c)
    BY <2>1, PutRecordStep DEF CreditWrite, WriteCredits
  <2> QED
    BY <1>3, <2>1 DEF Credit, WebhookReceive, CreditGet, CreditBuild, CreditRead, WebhookRecord,
       GetOrNotFound, Build, RecordWebhookEvent, storeVars
<1>4. CASE Rows(c)
  BY <1>4 DEF Rows, MarkGet, MarkPut, DeleteGet, DeleteWrite, GetOrNotFound, PutAccount,
     DeleteAccount, storeVars
<1> QED
  BY <1>1, <1>2, <1>3, <1>4 DEF Handler

\* Whatever requests interleave and restarts cut short, listings and sums find
\* every record and nothing else: the two writes are of one batch.
THEOREM IndexAlwaysComplete == Spec => []IndexComplete
<1>1. Init => IndexComplete
  BY DEF Init, IndexComplete
<1>2. ASSUME IndexComplete, [Next]_vars PROVE IndexComplete'
  <2>1. CASE \E c \in Caller : Handler(c)
    BY <1>2, <2>1, HandlerIndexStep DEF IndexComplete
  <2>2. CASE UNCHANGED <<transactions, by_user>>
    BY <1>2, <2>2 DEF IndexComplete
  <2> QED
    BY <1>2, <2>1, <2>2
    DEF Next, vars, storeVars, Send, Forwarding, QuoteUsage, OpenPages, ReadPage, Restart, Terminating
<1> QED
  BY <1>1, <1>2, PTL DEF Spec

-----------------------------------------------------------------------------
(* Prices and costs.                                                       *)

Rates(list) == \A k \in DOMAIN list : list[k] \in LlmPricing

LEMMA MergedKeys ==
  ASSUME NEW f, NEW g, NEW key
  PROVE  /\ key \in DOMAIN (f @@ g) <=> key \in DOMAIN f \/ key \in DOMAIN g
         /\ key \in DOMAIN f => (f @@ g)[key] = f[key]
         /\ key \notin DOMAIN f /\ key \in DOMAIN g => (f @@ g)[key] = g[key]
BY Zenon DEF @@

LEMMA MergedRates == ASSUME NEW f, NEW g, Rates(f), Rates(g) PROVE Rates(f @@ g)
  BY MergedKeys DEF Rates

LEMMA PricedRates ==
  \A provider, names : \A in, out \in Nat : Rates(Priced(provider, names, in, out))
  BY DEF Rates, Priced, LlmPricing

LEMMA TableRates == Rates(LlmPrices)
<1> USE PricedRates, MergedRates
<1>1. Rates(AnthropicCurrent) /\ Rates(AnthropicLegacy)
  BY DEF AnthropicCurrent, AnthropicLegacy
<1>2. Rates(OpenAi)
  BY DEF OpenAi
<1>3. Rates(Xai)
  BY DEF Xai
<1>4. Rates(Google)
  BY DEF Google
<1>5. Rates(DeepSeekHosted) /\ Rates(DeepSeek) /\ Rates(Moonshot)
  BY DEF DeepSeekHosted, DeepSeek, Moonshot
<1>6. Rates(FireworksFirst) /\ Rates(FireworksKimi)
  BY DEF FireworksFirst, FireworksKimi
<1>7. Rates(FireworksOthers)
  BY DEF FireworksOthers
<1> QED
  BY <1>1, <1>2, <1>3, <1>4, <1>5, <1>6, <1>7 DEF LlmPrices

LEMMA TableRateType ==
  ASSUME NEW provider, NEW model PROVE TableRate(provider, model) \in LlmPricing
  BY TableRates DEF TableRate, Rates, DefaultLlmPricing, LlmPricing

LEMMA UsageRateType ==
  ASSUME NEW provider, NEW model, NEW input
  PROVE  LlmPricingForUsage(provider, model, input) \in LlmPricing
<1> DEFINE rate == IF Provider(provider) = "anthropic" /\ IsSonnet5(model)
                   THEN Sonnet5Pricing ELSE TableRate(provider, model)
<1>1. rate \in LlmPricing
  BY TableRateType DEF Sonnet5Pricing, LlmPricing
<1> HIDE DEF rate
<1>2. /\ [input |-> 2 * rate.input, output |-> 2 * rate.output] \in LlmPricing
      /\ [input |-> 2 * rate.input, output |-> (3 * rate.output) \div 2] \in LlmPricing
  BY <1>1 DEF LlmPricing
<1> QED
  BY <1>1, <1>2 DEF LlmPricingForUsage, rate

LEMMA MarkedUpType == ASSUME NEW rate \in LlmPricing PROVE MarkedUp(rate) \in LlmPricing
  BY DEF MarkedUp, LlmPricing, LlmMarkupPercent

LEMMA MachineNumbers ==
  MaxI64 \in Nat /\ MaxI64 > 0 /\ Half * Half \in Nat /\ Half * Half > 1
  BY PricingAssumption DEF MaxI64

LEMMA ProductType == ASSUME NEW n \in Int, NEW rate \in Nat PROVE Product(n, rate) \in Int
<1>1. WrappingMul(n, rate) \in Int
  BY PricingAssumption, MachineNumbers DEF WrappingMul, AsI64
<1> QED
  BY <1>1 DEF Product

LEMMA TruncatedType == ASSUME NEW n \in Int, NEW d \in Nat \ {0} PROVE Truncated(n, d) \in Int
  BY DEF Truncated

LEMMA RoundedType == ASSUME NEW n \in Int, NEW d \in Nat \ {0} PROVE Rounded(n, d) \in Int
<1>1. 2 * n + d \in Int /\ -2 * n + d \in Int /\ 2 * d \in Nat \ {0}
  OBVIOUS
<1>2. (2 * n + d) \div (2 * d) \in Int /\ (-2 * n + d) \div (2 * d) \in Int
  BY <1>1
<1> QED
  BY <1>2 DEF Rounded

LEMMA PartCostType == ASSUME NEW n \in Int, NEW rate \in Nat PROVE PartCost(n, rate) \in Int
<1>1. Tokens64(n) \in Int
  BY MachineNumbers DEF Tokens64
<1> QED
  BY <1>1, ProductType, TruncatedType, PricingAssumption DEF PartCost

\* What is reported has a cost, and one of a credit at least where anything
\* was used, unless a product has wrapped to less than nothing.
LEMMA LlmCostType ==
  ASSUME NEW rate \in LlmPricing, NEW in \in Int, NEW out \in Int
  PROVE  /\ LlmCost(rate, in, out) \in Int
         /\ (in > 0 \/ out > 0) /\ LlmCost(rate, in, out) >= 0 => LlmCost(rate, in, out) >= 1
<1>1. PartCost(in, rate.input) \in Int /\ PartCost(out, rate.output) \in Int
  BY PartCostType DEF LlmPricing
<1> QED
  BY <1>1 DEF LlmCost, AtLeastOne

Used(metric) == metric.a > 0 \/ metric.b > 0 \/ metric.kind = "api"

LEMMA CostType ==
  ASSUME NEW metric \in Metric
  PROVE  /\ CalculateCost(metric) \in Int
         /\ Used(metric) /\ CalculateCost(metric) >= 0 => CalculateCost(metric) >= 1
<1>1. metric.kind \in {"llm", "compute", "api"} /\ metric.a \in Int /\ metric.b \in Int
  BY DEF Metric
<1>2. CASE metric.kind = "llm"
  <2>1. MarkedUp(LlmPricingForUsage(metric.provider, metric.model, metric.a)) \in LlmPricing
    BY UsageRateType, MarkedUpType
  <2> QED
    BY <1>1, <1>2, <2>1, LlmCostType DEF CalculateCost, LlmCostForUser, Used
<1>3. CASE metric.kind = "compute"
  <2>1. /\ Rounded(metric.a * CpuHourCredits, 100) \in Int
        /\ Rounded(metric.b * MemoryGbHourCredits, 100) \in Int
    BY <1>1, RoundedType DEF CpuHourCredits, MemoryGbHourCredits
  <2> QED
    BY <1>1, <1>3, <2>1 DEF CalculateCost, ComputeCost, AtLeastOne, Used
<1>4. CASE metric.kind = "api"
  <2>1. AsI64(metric.a) \in Int
    BY <1>1, MachineNumbers DEF AsI64
  <2>2. Truncated(AsI64(metric.a), ApiCallsPerCredit) \in Int
    BY <2>1, TruncatedType DEF ApiCallsPerCredit
  <2> QED
    BY <1>4, <2>2 DEF CalculateCost, ApiCallsCost, Larger
<1> QED
  BY <1>1, <1>2, <1>3, <1>4

-----------------------------------------------------------------------------
(* Requests and records.                                                   *)

\* What a report is charged where metric is reported.
CostOf(k, metric) == IF k.amount = None THEN CalculateCost(metric) ELSE k.amount

Reports == {k \in Calls : k.op \in {"report", "report_batch"}}

Credits == {k \in Calls : k.op \in {"credit", "webhook"}}

ReportPcs == {"report", "report.create", "report_batch", "report.cost", "usage.exists",
              "usage.get", "usage.write"}

CreditPcs == {"credit", "credit.build", "credit.get", "credit.write"}

EventPcs == {"webhook", "webhook.record"}

CopyPcs == {"check.answer", "report.cost", "usage.exists", "usage.get", "usage.write",
            "credit.build", "credit.get", "credit.write", "mark.put"}

\* t is the charge that k makes.
IsCharge(t, k, metric) ==
  /\ t.user = k.user /\ t.type = "usage" /\ t.ref = k.id
  /\ t.amount = -CostOf(k, metric) /\ CostOf(k, metric) >= 0

IsCredit(t, k) == t.user = k.user /\ t.type = k.type /\ t.amount = k.amount /\ t.ref = k.id

\* A request at pc has the call that its step belongs to, a copy once it has
\* read its account, and the record that it will write.
Proper(pc, k, copy, record, metric) ==
  /\ k \in Calls \cup {None} /\ copy \in Account \cup {None}
  /\ record \in Transaction \cup {None}
  /\ pc # "new" => k \in Calls
  /\ pc \in ReportPcs => k \in Reports
  /\ pc \in CreditPcs \cup EventPcs => k \in Credits
  /\ pc \in EventPcs => k.op = "webhook"
  /\ pc \in CopyPcs => copy \in Account /\ copy.balance >= 0
  /\ pc \in {"usage.exists", "usage.get", "usage.write"} =>
       record \in Transaction /\ IsCharge(record, k, metric)
  /\ pc = "usage.write" => copy.balance >= CostOf(k, metric)
  /\ pc \in {"credit.get", "credit.write"} => record \in Transaction /\ IsCredit(record, k)

ProperProc(p, metric) ==
  /\ p = [pc |-> p.pc, call |-> p.call, copy |-> p.copy, record |-> p.record,
          answer |-> p.answer]
  /\ Proper(p.pc, p.call, p.copy, p.record, metric)

ProperRequests == DOMAIN call = Caller /\ \A c \in Caller : ProperProc(call[c], turn)

Keys == {UsageKey(e) : e \in UsageId} \cup {WebhookKey(w) : w \in WebhookId}

\* Balances are not negative: what is charged was there when it was read.
ProperStore ==
  /\ accounts \in [User -> Account \cup {None}]
  /\ \A u \in User : Exists(u) => accounts[u].balance >= 0
  /\ transactions \subseteq Transaction
  /\ usage_events \subseteq Keys
  /\ now \in FirstTick..LastTick

\* Every charge on record is of a report, at its cost.
ChargesPriced ==
  \A t \in transactions : t.type = "usage" => \E k \in Reports : IsCharge(t, k, turn)

\* The price is settled before anything is charged.
TurnSettled ==
  /\ turn \in Turns \cup Quotes
  /\ turn \notin Turns =>
       /\ \A c \in Caller : call[c].pc = "new"
       /\ \A t \in transactions : t.type # "usage"

MeteringInv == ProperRequests /\ ProperStore /\ ChargesPriced /\ TurnSettled

-----------------------------------------------------------------------------

\* Request c has gone on to pc, with copy a, record t and answer x.
Becomes(c, pc, a, t, x) ==
  /\ DOMAIN call' = Caller
  /\ call'[c] = [pc |-> pc, call |-> call[c].call, copy |-> a, record |-> t, answer |-> x]
  /\ \A d \in Caller \ {c} : call'[d] = call[d]

Built(c, id, created, type, amount, ref) ==
  [id |-> id, user |-> Arg(c).user, type |-> type, amount |-> amount,
   after |-> call[c].copy.balance + amount, created |-> created, ref |-> ref]

\* What is built gets an id that is new and a time, which is now the last.
Stamped(id, created) ==
  /\ \E tick \in now..LastTick : created \in tick..LastTick /\ id \in FreshIds(tick)
  /\ now' = created

LEMMA Locals ==
  ASSUME ProperRequests, NEW c \in Caller
  PROVE  /\ \A pc : Goto(c, pc) =>
              Becomes(c, pc, call[c].copy, call[c].record, call[c].answer)
         /\ \A a, pc : Keep(c, a, pc) => Becomes(c, pc, a, call[c].record, call[c].answer)
         /\ \A x : Answer(c, x) => Becomes(c, "done", None, None, x)
         /\ \A type, amount, ref, pc : Build(c, type, amount, ref, pc) =>
              \E id, created :
                /\ Stamped(id, created)
                /\ Becomes(c, pc, call[c].copy, Built(c, id, created, type, amount, ref),
                           call[c].answer)
<1>1. /\ call[c] = [pc |-> call[c].pc, call |-> call[c].call, copy |-> call[c].copy,
                    record |-> call[c].record, answer |-> call[c].answer]
      /\ DOMAIN call = Caller
  BY DEF ProperRequests, ProperProc
<1>2. \A pc : Goto(c, pc) => Becomes(c, pc, call[c].copy, call[c].record, call[c].answer)
  BY <1>1 DEF Goto, Becomes
<1>3. \A a, pc : Keep(c, a, pc) => Becomes(c, pc, a, call[c].record, call[c].answer)
  BY <1>1 DEF Keep, Becomes
<1>4. \A x : Answer(c, x) => Becomes(c, "done", None, None, x)
  BY <1>1 DEF Answer, Becomes
<1>5. ASSUME NEW type, NEW amount, NEW ref, NEW pc, Build(c, type, amount, ref, pc)
      PROVE  \E id, created :
               /\ Stamped(id, created)
               /\ Becomes(c, pc, call[c].copy, Built(c, id, created, type, amount, ref),
                          call[c].answer)
  <2>0. PICK tick \in now..LastTick :
          \E created \in tick..LastTick : \E id \in FreshIds(tick) :
            /\ now' = created
            /\ call' = [call EXCEPT ![c].pc = pc,
                                    ![c].record = Built(c, id, created, type, amount, ref)]
    BY <1>5 DEF Build, Built
  <2>1. PICK created \in tick..LastTick, id \in FreshIds(tick) :
          /\ now' = created
          /\ call' = [call EXCEPT ![c].pc = pc,
                                  ![c].record = Built(c, id, created, type, amount, ref)]
    BY <2>0
  <2> DEFINE t == Built(c, id, created, type, amount, ref)
  <2> HIDE DEF t
  <2>2. call' = [call EXCEPT ![c].pc = pc, ![c].record = t]
    BY <2>1 DEF t
  <2>3. Becomes(c, pc, call[c].copy, t, call[c].answer)
    BY <1>1, <2>2 DEF Becomes
  <2>4. Stamped(id, created)
    BY <2>1 DEF Stamped
  <2> QED
    BY <2>3, <2>4 DEF t
<1> QED
  BY <1>2, <1>3, <1>4, <1>5

LEMMA ProperStep ==
  ASSUME ProperRequests, NEW c \in Caller, NEW pc, NEW a, NEW t, NEW x, Becomes(c, pc, a, t, x),
         UNCHANGED turn, Proper(pc, call[c].call, a, t, turn)
  PROVE  ProperRequests'
BY DEF ProperRequests, ProperProc, Becomes

LEMMA Callers ==
  ASSUME ProperRequests, NEW c \in Caller, call[c].pc # "new"
  PROVE  /\ Proper(call[c].pc, call[c].call, call[c].copy, call[c].record, turn)
         /\ Arg(c) = call[c].call
         /\ Arg(c) \in Calls /\ Arg(c) \in Call /\ Arg(c).user \in User
         /\ Arg(c).id \in UsageId \cup WebhookId \cup {None}
         /\ Arg(c).type \in TransactionType
         /\ Arg(c) \in Reports => Arg(c).id \in UsageId
         /\ Arg(c) \in Credits => Arg(c).type # "usage" /\ Arg(c).amount \in Nat
         /\ Arg(c) \in Credits /\ Arg(c).op = "webhook" => Arg(c).id \in WebhookId
BY MeteringAssumption DEF ProperRequests, ProperProc, Proper, Arg, Call, Reports, Credits

\* The rows.
LEMMA PutStep ==
  ASSUME ProperStore, NEW u \in User, NEW a \in Account \cup {None},
         a = None \/ a.balance >= 0, accounts' = [accounts EXCEPT ![u] = a],
         UNCHANGED usage_events, now' \in FirstTick..LastTick,
         UNCHANGED transactions \/ \E t \in Transaction : transactions' = transactions \cup {t}
  PROVE  ProperStore'
BY DEF ProperStore, Exists

LEMMA SameStore ==
  ASSUME ProperStore, ChargesPriced, UNCHANGED <<accounts, transactions, usage_events, turn>>,
         now' \in FirstTick..LastTick
  PROVE  ProperStore' /\ ChargesPriced'
BY DEF ProperStore, ChargesPriced, Exists

LEMMA MoreStored ==
  ASSUME ProperStore, NEW key \in Keys,
         usage_events' = usage_events \cup {key}, UNCHANGED <<accounts, transactions, now>>
  PROVE  ProperStore'
BY DEF ProperStore, Exists

LEMMA SameCharges ==
  ASSUME ChargesPriced, UNCHANGED turn,
         UNCHANGED transactions \/ \E t : t.type # "usage" /\ transactions' = transactions \cup {t}
  PROVE  ChargesPriced'
BY DEF ChargesPriced

LEMMA NewAccountProper == NewAccount \in Account /\ NewAccount.balance = 0
BY DEF NewAccount, Account

LEMMA StampType ==
  ASSUME ProperStore, NEW id, NEW created, Stamped(id, created)
  PROVE  id \in TransactionId /\ created \in Nat /\ now' \in FirstTick..LastTick
<1>1. PICK tick \in now..LastTick : created \in tick..LastTick /\ id \in FreshIds(tick)
  BY DEF Stamped
<1>2. now \in FirstTick..LastTick /\ FirstTick \in Nat /\ LastTick \in Nat
  BY MeteringAssumption DEF ProperStore
<1>3. tick \in Nat /\ created \in Nat /\ created \in FirstTick..LastTick
  BY <1>1, <1>2
<1>4. PICK r \in Random : id = <<tick \div TicksPerMs, r>>
  BY <1>1 DEF FreshIds
<1>5. tick \div TicksPerMs \in Nat
  BY <1>3, MeteringAssumption
<1>6. r \in Nat
  BY MeteringAssumption
<1> QED
  BY <1>3, <1>4, <1>5, <1>6 DEF TransactionId, Stamped

\* Where a request goes that reads its account, and that finds none.
Reads(op, pc) ==
  \/ op = "check" /\ pc = "check.answer"
  \/ op = "report" /\ pc = "report.cost"
  \/ op = "report_batch" /\ pc = "report.cost"
  \/ op = "credit" /\ pc = "credit.build"
  \/ op = "credit.get" /\ pc = "credit.write"
  \/ op = "mark" /\ pc = "mark.put"
  \/ op = "delete" /\ pc = "delete.write"

LEMMA KeepStep ==
  ASSUME MeteringInv, NEW c \in Caller, NEW op, NEW pc, At(c, op), Reads(op, pc),
         Keep(c, accounts[Arg(c).user], pc), Exists(Arg(c).user), UNCHANGED turn
  PROVE  ProperRequests'
<1> DEFINE a == accounts[Arg(c).user]
           p == call[c]
<1>1. p.pc = op /\ op # "new"
  BY DEF At, Reads
<1>2. Proper(op, p.call, p.copy, p.record, turn) /\ Arg(c).user \in User
  BY <1>1, Callers DEF MeteringInv
<1>3. a \in Account /\ a.balance >= 0
  BY <1>2 DEF MeteringInv, ProperStore, Exists
<1>4. Becomes(c, pc, a, p.record, p.answer)
  BY Locals DEF MeteringInv
<1> HIDE DEF a, p
<1>5. Proper(pc, p.call, a, p.record, turn)
  BY <1>2, <1>3 DEF Proper, Reads, ReportPcs, CreditPcs, EventPcs, CopyPcs
<1> QED
  BY <1>4, <1>5, ProperStep DEF MeteringInv, p

LEMMA AnswerStep ==
  ASSUME MeteringInv, NEW c \in Caller, call[c].pc # "new", NEW x, Answer(c, x),
         UNCHANGED turn
  PROVE  ProperRequests'
<1>1. Becomes(c, "done", None, None, x) /\ call[c].call \in Calls
  BY Locals, Callers DEF MeteringInv
<1>2. Proper("done", call[c].call, None, None, turn)
  BY <1>1 DEF Proper, ReportPcs, CreditPcs, EventPcs, CopyPcs
<1> QED
  BY <1>1, <1>2, ProperStep DEF MeteringInv

\* A step that keeps what the request has.
Goes(op, pc) ==
  \/ op = "check" /\ pc = "check.create"
  \/ op = "report" /\ pc = "report.create"
  \/ op = "usage.exists" /\ pc = "usage.get"
  \/ op = "webhook" /\ pc = "credit"

LEMMA GotoStep ==
  ASSUME MeteringInv, NEW c \in Caller, NEW op, NEW pc, At(c, op), Goes(op, pc), Goto(c, pc),
         UNCHANGED turn
  PROVE  ProperRequests'
<1> DEFINE p == call[c]
<1>1. p.pc = op /\ op # "new"
  BY DEF At, Goes
<1>2. Proper(op, p.call, p.copy, p.record, turn)
  BY <1>1, Callers DEF MeteringInv
<1>3. Becomes(c, pc, p.copy, p.record, p.answer)
  BY Locals DEF MeteringInv
<1> HIDE DEF p
<1>4. Proper(pc, p.call, p.copy, p.record, turn)
  BY <1>2 DEF Proper, Goes, ReportPcs, CreditPcs, EventPcs, CopyPcs
<1> QED
  BY <1>3, <1>4, ProperStep DEF MeteringInv, p

\* The other steps of a request, whose facts are given by the step.
LEMMA OtherStep ==
  ASSUME MeteringInv, NEW c \in Caller, NEW pc, NEW a, NEW t, NEW x,
         Becomes(c, pc, a, t, x), UNCHANGED turn, Proper(pc, call[c].call, a, t, turn)
  PROVE  ProperRequests'
BY ProperStep DEF MeteringInv

LEMMA BuildStep ==
  ASSUME MeteringInv, NEW c \in Caller, NEW type \in TransactionType, NEW amount \in Int,
         NEW pc, call[c].pc # "new", call[c].copy \in Account, call[c].copy.balance >= 0,
         Build(c, type, amount, Arg(c).id, pc),
         \/ /\ pc = "usage.exists" /\ type = "usage" /\ Arg(c) \in Reports
            /\ CostOf(Arg(c), turn) >= 0 /\ amount = -CostOf(Arg(c), turn)
         \/ /\ pc = "credit.get" /\ type = Arg(c).type /\ amount = Arg(c).amount
            /\ Arg(c) \in Credits
  PROVE  MeteringInv'
<1> DEFINE p == call[c]
           k == p.call
<1> USE DEF MeteringInv
<1>1. UNCHANGED <<accounts, transactions, usage_events, turn>>
  BY DEF Build, Rest
<1>2. PICK id, created :
        /\ Stamped(id, created)
        /\ Becomes(c, pc, p.copy, Built(c, id, created, type, amount, Arg(c).id), p.answer)
  BY Locals
<1> DEFINE t == Built(c, id, created, type, amount, Arg(c).id)
<1>3. id \in TransactionId /\ created \in Nat /\ now' \in FirstTick..LastTick
  BY <1>2, StampType
<1>4. p.copy.balance + amount \in Int
  BY DEF Account
<1>5. /\ t \in Transaction /\ t.user = k.user /\ t.type = type /\ t.ref = k.id
      /\ t.amount = amount
  BY <1>3, <1>4, Callers DEF Built, Transaction, Arg
<1>6. Proper(p.pc, k, p.copy, p.record, turn) /\ k \in Calls /\ Arg(c) = k
  BY Callers
<1> HIDE DEF t, p, k
<1>7. Proper(pc, k, p.copy, t, turn)
  BY <1>5, <1>6 DEF Proper, IsCharge, IsCredit, ReportPcs, CreditPcs, EventPcs, CopyPcs, p
<1>8. ProperRequests'
  BY <1>1, <1>2, <1>7, OtherStep DEF p, k, t
<1>9. ProperStore' /\ ChargesPriced'
  BY <1>1, <1>2, <1>3, SameStore
<1>10. TurnSettled'
  BY <1>1 DEF TurnSettled, p
<1> QED
  BY <1>8, <1>9, <1>10

\* No request is under way before the price is settled.
LEMMA Settled ==
  ASSUME MeteringInv, NEW c \in Caller, call[c].pc # "new"
  PROVE  turn \in Turns
BY DEF MeteringInv, TurnSettled

LEMMA StaysSettled ==
  ASSUME MeteringInv, turn \in Turns, UNCHANGED turn PROVE TurnSettled'
BY DEF TurnSettled

\* Reads and answers change no row.
LEMMA QuietStep ==
  ASSUME MeteringInv, NEW c \in Caller, call[c].pc # "new", UNCHANGED storeVars, UNCHANGED turn,
         \/ \E x : Answer(c, x)
         \/ \E op, pc : At(c, op) /\ Goes(op, pc) /\ Goto(c, pc)
         \/ \E op, pc : /\ At(c, op) /\ Reads(op, pc) /\ Exists(Arg(c).user)
                        /\ Keep(c, accounts[Arg(c).user], pc)
  PROVE  MeteringInv'
<1>1. ProperRequests'
  BY AnswerStep, GotoStep, KeepStep
<1>2. ProperStore' /\ ChargesPriced'
  BY SameStore DEF MeteringInv, storeVars, ProperStore
<1> QED
  BY <1>1, <1>2, Settled, StaysSettled DEF MeteringInv

LEMMA CreateStep ==
  ASSUME MeteringInv, NEW c \in Caller, NEW op, NEW pc, Create(c, op, pc),
         \/ op = "check.create" /\ pc = "check.answer"
         \/ op = "report.create" /\ pc = "report.cost"
  PROVE  MeteringInv'
<1> DEFINE p == call[c]
<1>1. p.pc = op /\ p.pc # "new" /\ UNCHANGED turn
  BY DEF Create, At, Rest
<1>2. /\ Becomes(c, pc, NewAccount, p.record, p.answer)
      /\ Proper(op, p.call, p.copy, p.record, turn) /\ Arg(c).user \in User
  BY <1>1, Locals, Callers DEF MeteringInv, Create
<1> HIDE DEF p
<1>3. Proper(pc, p.call, NewAccount, p.record, turn)
  BY <1>2, NewAccountProper DEF Proper, ReportPcs, CreditPcs, EventPcs, CopyPcs
<1>4. ProperRequests'
  BY <1>1, <1>2, <1>3, OtherStep DEF p
<1>5. /\ accounts' = [accounts EXCEPT ![Arg(c).user] = NewAccount]
      /\ UNCHANGED <<transactions, usage_events>> /\ now' \in FirstTick..LastTick
  BY DEF Create, PutAccount, MeteringInv, ProperStore
<1>6. ProperStore'
  <2>1. NewAccount.balance >= 0 /\ NewAccount \in Account \cup {None}
    BY NewAccountProper
  <2> QED
    BY <1>2, <1>5, <2>1, PutStep DEF MeteringInv
<1>7. ChargesPriced'
  BY <1>1, <1>5, SameCharges DEF MeteringInv
<1> QED
  BY <1>1, <1>4, <1>6, <1>7, Settled, StaysSettled DEF MeteringInv, p

LEMMA CheckProper == ASSUME MeteringInv, NEW c \in Caller, Check(c) PROVE MeteringInv'
<1>1. CASE CheckGet(c)
  <2>1. call[c].pc = "check" /\ UNCHANGED storeVars /\ UNCHANGED turn
    BY <1>1 DEF CheckGet, GetOrCreate, At, Rest
  <2>2. \/ Exists(Arg(c).user) /\ Keep(c, accounts[Arg(c).user], "check.answer")
        \/ Goto(c, "check.create")
    BY <1>1 DEF CheckGet, GetOrCreate
  <2> QED
    BY <2>1, <2>2, QuietStep DEF Reads, Goes, At
<1>2. CASE CheckCreate(c)
  BY <1>2, CreateStep DEF CheckCreate
<1>3. CASE CheckAnswer(c)
  <2>1. call[c].pc # "new" /\ UNCHANGED storeVars /\ UNCHANGED turn /\ \E x : Answer(c, x)
    BY <1>3 DEF CheckAnswer, At
  <2> QED
    BY <2>1, QuietStep
<1> QED
  BY <1>1, <1>2, <1>3 DEF Check

LEMMA ReportProper == ASSUME MeteringInv, NEW c \in Caller, Report(c) PROVE MeteringInv'
<1> DEFINE p == call[c]
           k == p.call
<1>1. p.pc \in ReportPcs /\ p.pc # "new"
  BY DEF Report, ReportGet, ReportCreate, BatchGet, ReportCost, UsageExists, UsageGet, UsageWrite,
         GetOrCreate, GetOrNotFound, Create, At, ReportPcs
<1>2. /\ Proper(p.pc, k, p.copy, p.record, turn) /\ Arg(c) = k
      /\ k \in Reports /\ k \in Call /\ k.user \in User /\ k.id \in UsageId /\ turn \in Turns
  BY <1>1, Callers, Settled DEF MeteringInv, Proper
<1>3. CASE ReportGet(c)
  <2>1. /\ p.pc = "report" /\ UNCHANGED storeVars /\ UNCHANGED turn
        /\ \/ Exists(Arg(c).user) /\ Keep(c, accounts[Arg(c).user], "report.cost")
           \/ Goto(c, "report.create")
    BY <1>3 DEF ReportGet, GetOrCreate, At, Rest
  <2> QED
    BY <2>1, QuietStep DEF Reads, Goes, At
<1>4. CASE ReportCreate(c)
  BY <1>4, CreateStep DEF ReportCreate
<1>5. CASE BatchGet(c)
  <2>1. /\ p.pc = "report_batch" /\ UNCHANGED storeVars /\ UNCHANGED turn
        /\ \/ Exists(Arg(c).user) /\ Keep(c, accounts[Arg(c).user], "report.cost")
           \/ Answer(c, "not_found")
    BY <1>5 DEF BatchGet, GetOrNotFound, At, Rest
  <2> QED
    BY <2>1, QuietStep DEF Reads, At
<1>6. CASE ReportCost(c)
  <2>1. Cost(c) = CostOf(Arg(c), turn)
    BY DEF Cost, CostOf
  <2>2. CostOf(k, turn) \in Int
    <3>1. CalculateCost(turn) \in Int
      BY <1>2, CostType, MeteringAssumption
    <3> QED
      BY <1>2, <3>1 DEF CostOf, Call
  <2>3. p.copy \in Account /\ p.copy.balance >= 0
    BY <1>2, <1>6 DEF ReportCost, At, Proper, CopyPcs
  <2>4. CASE Cost(c) < 0
    BY <1>1, <1>6, <2>4, QuietStep DEF ReportCost, Rest
  <2>5. CASE ~(Cost(c) < 0)
    <3>1. Build(c, "usage", -CostOf(k, turn), k.id, "usage.exists")
      BY <1>2, <1>6, <2>1, <2>5 DEF ReportCost
    <3>2. /\ "usage" \in TransactionType /\ -CostOf(k, turn) \in Int /\ CostOf(k, turn) >= 0
      BY <1>2, <2>1, <2>2, <2>5 DEF TransactionType
    <3> QED
      BY <1>1, <1>2, <2>3, <3>1, <3>2, BuildStep
  <2> QED
    BY <2>4, <2>5
<1>7. CASE UsageExists(c)
  <2>1. /\ p.pc = "usage.exists" /\ UNCHANGED storeVars /\ UNCHANGED turn
        /\ \/ Answer(c, "duplicate")
           \/ Goto(c, "usage.get")
    BY <1>7 DEF UsageExists, At, Rest
  <2> QED
    BY <2>1, QuietStep DEF Goes, At
<1>8. CASE UsageGet(c)
  <2>1. p.pc = "usage.get" /\ UNCHANGED storeVars /\ UNCHANGED turn
    BY <1>8 DEF UsageGet, At, Rest
  <2>2. CASE \E x : Answer(c, x)
    BY <2>1, <2>2, QuietStep
  <2>3. CASE ~\E x : Answer(c, x)
    <3> DEFINE a == accounts[k.user]
    <3>1. /\ Exists(k.user) /\ a.balance >= CostOf(k, turn)
          /\ Keep(c, a, "usage.write")
      BY <1>2, <1>8, <2>3 DEF UsageGet, Cost, CostOf
    <3>2. a \in Account /\ a.balance >= 0
      BY <1>2, <3>1 DEF MeteringInv, ProperStore, Exists
    <3>3. Becomes(c, "usage.write", a, p.record, p.answer)
      BY <3>1, Locals DEF MeteringInv
    <3> HIDE DEF a, p, k
    <3>4. Proper("usage.write", k, a, p.record, turn)
      BY <1>2, <2>1, <3>1, <3>2 DEF Proper, ReportPcs, CreditPcs, EventPcs, CopyPcs
    <3>5. ProperRequests'
      BY <2>1, <3>3, <3>4, OtherStep DEF p, k
    <3>6. ProperStore' /\ ChargesPriced'
      BY <2>1, SameStore DEF MeteringInv, storeVars, ProperStore
    <3> QED
      BY <1>2, <2>1, <3>5, <3>6, StaysSettled DEF MeteringInv
  <2> QED
    BY <2>2, <2>3
<1>9. CASE UsageWrite(c)
  <2>1. p.pc = "usage.write" /\ Answer(c, "ok") /\ UNCHANGED turn
    BY <1>9 DEF UsageWrite, At
  <2> DEFINE a == p.copy
             t == p.record
             cost == CostOf(k, turn)
             b == [a EXCEPT !.balance = @ - cost, !.used = @ + cost]
  <2>2. /\ a \in Account /\ a.balance >= cost /\ t \in Transaction /\ IsCharge(t, k, turn)
    BY <1>2, <2>1 DEF Proper, CopyPcs
  <2>3. cost \in Int
    <3>1. CalculateCost(turn) \in Int
      BY <1>2, CostType, MeteringAssumption
    <3> QED
      BY <1>2, <3>1 DEF CostOf, Call
  <2>4. /\ accounts' = [accounts EXCEPT ![k.user] = b]
        /\ transactions' = transactions \cup {t}
        /\ usage_events' = usage_events \cup {UsageKey(k.id)} /\ now' = now
    BY <1>2, <1>9 DEF UsageWrite, WriteUsage, PutRecord, Cost, CostOf
  <2> HIDE DEF cost, t, a
  <2>5. b \in Account /\ b.balance >= 0
    <3> DEFINE less == a.balance - cost
               more == a.used + cost
    <3>1. less \in Int /\ less >= 0 /\ more \in Int
      BY <2>2, <2>3 DEF Account
    <3> HIDE DEF less, more
    <3>2. [a EXCEPT !.balance = less, !.used = more] \in [balance : Int, purchased : Int, granted : Int, used : Int, marked : BOOLEAN]
      BY <2>2, <3>1 DEF Account
    <3>3. [a EXCEPT !.balance = less, !.used = more].balance = less
      BY <2>2 DEF Account
    <3> QED
      BY <3>1, <3>2, <3>3 DEF less, more, Account
  <2> HIDE DEF b, p, k
  <2>6. ProperStore'
    <3>1. UsageKey(k.id) \in Keys
      BY <1>2 DEF Keys
    <3> QED
      BY <1>2, <2>2, <2>4, <2>5, <3>1 DEF MeteringInv, ProperStore, Exists
  <2>7. ChargesPriced'
    BY <1>2, <2>1, <2>2, <2>4 DEF MeteringInv, ChargesPriced
  <2>8. ProperRequests'
    BY <1>1, <2>1, AnswerStep DEF p
  <2> QED
    BY <1>2, <2>1, <2>6, <2>7, <2>8, StaysSettled DEF MeteringInv
<1> QED
  BY <1>3, <1>4, <1>5, <1>6, <1>7, <1>8, <1>9 DEF Report

LEMMA CreditProper == ASSUME MeteringInv, NEW c \in Caller, Credit(c) PROVE MeteringInv'
<1> DEFINE p == call[c]
           k == p.call
<1>1. p.pc \in CreditPcs \cup EventPcs /\ p.pc # "new"
  BY DEF Credit, WebhookReceive, CreditGet, CreditBuild, CreditRead, CreditWrite, WebhookRecord,
         GetOrNotFound, At, CreditPcs, EventPcs
<1>2. /\ Proper(p.pc, k, p.copy, p.record, turn) /\ Arg(c) = k
      /\ k \in Credits /\ k \in Calls /\ k.user \in User /\ k.amount \in Nat
      /\ k.type \in TransactionType /\ k.type # "usage" /\ turn \in Turns
      /\ k.op = "webhook" => k.id \in WebhookId
  <2>1. Proper(p.pc, k, p.copy, p.record, turn) /\ Arg(c) = k /\ turn \in Turns
    BY <1>1, Callers, Settled DEF MeteringInv
  <2>2. k \in Credits
    BY <1>1, <2>1 DEF Proper
  <2> QED
    BY <1>1, <2>1, <2>2, Callers DEF MeteringInv
<1>3. CASE WebhookReceive(c)
  <2>1. /\ p.pc = "webhook" /\ UNCHANGED storeVars /\ UNCHANGED turn
        /\ \/ Answer(c, "already_processed")
           \/ Goto(c, "credit")
    BY <1>3 DEF WebhookReceive, At, Rest
  <2> QED
    BY <2>1, QuietStep DEF Goes, At
<1>4. CASE CreditGet(c) \/ CreditRead(c)
  <2>1. UNCHANGED storeVars /\ UNCHANGED turn
    BY <1>4 DEF CreditGet, CreditRead, GetOrNotFound, Rest
  <2>2. CASE \E x : Answer(c, x)
    BY <1>1, <2>1, <2>2, QuietStep
  <2>3. CASE ~\E x : Answer(c, x)
    <3>1. \E op, pc : /\ At(c, op) /\ Reads(op, pc) /\ Exists(Arg(c).user)
                      /\ Keep(c, accounts[Arg(c).user], pc)
      BY <1>4, <2>3 DEF CreditGet, CreditRead, GetOrNotFound, Reads
    <3> QED
      BY <1>1, <2>1, <3>1, QuietStep
  <2> QED
    BY <2>2, <2>3
<1>5. CASE CreditBuild(c)
  <2>1. Build(c, k.type, k.amount, k.id, "credit.get") /\ p.pc = "credit.build"
    BY <1>2, <1>5 DEF CreditBuild, At
  <2>2. p.copy \in Account /\ p.copy.balance >= 0
    BY <1>2, <2>1 DEF Proper, CopyPcs
  <2>3. k.amount \in Int
    BY <1>2
  <2> HIDE DEF k
  <2> QED
    BY <1>1, <1>2, <2>1, <2>2, <2>3, BuildStep
<1>6. CASE CreditWrite(c)
  <2> DEFINE a == p.copy
             t == p.record
             b == [a EXCEPT !.balance = @ + k.amount]
  <2>1. p.pc = "credit.write" /\ UNCHANGED turn
    BY <1>6 DEF CreditWrite, At, Rest
  <2>2. /\ a \in Account /\ a.balance >= 0 /\ t \in Transaction /\ IsCredit(t, k)
    BY <1>2, <2>1 DEF Proper, CopyPcs
  <2>3. /\ accounts' = [accounts EXCEPT ![k.user] = Counted(b, k.amount, t.type)]
        /\ transactions' = transactions \cup {t}
        /\ UNCHANGED <<usage_events, now>>
    BY <1>2, <1>6 DEF CreditWrite, WriteCredits, PutRecord
  <2> DEFINE n == k.amount
  <2>4. n \in Nat
    BY <1>2
  <2> HIDE DEF a, n
  <2>5. b \in Account /\ b.balance >= 0
    BY <2>2, <2>4 DEF Account, n
  <2> HIDE DEF b
  <2>6. Counted(b, n, t.type) \in Account /\ Counted(b, n, t.type).balance = b.balance
    BY <2>4, <2>5 DEF Counted, Account
  <2>7. ProperStore'
    BY <1>2, <2>2, <2>3, <2>5, <2>6 DEF MeteringInv, ProperStore, Exists, n
  <2>8. ChargesPriced'
    BY <1>2, <2>1, <2>2, <2>3, SameCharges DEF MeteringInv, IsCredit
  <2>9. ProperRequests'
    <3>1. CASE Answer(c, "ok")
      BY <1>1, <2>1, <3>1, AnswerStep
    <3>2. CASE ~Answer(c, "ok")
      <4>1. k.op = "webhook" /\ Becomes(c, "webhook.record", p.copy, p.record, p.answer)
        BY <1>2, <1>6, <3>2, Locals DEF CreditWrite, MeteringInv
      <4> HIDE DEF p, k
      <4>2. Proper("webhook.record", k, p.copy, p.record, turn)
        BY <1>2, <4>1 DEF Proper, ReportPcs, CreditPcs, EventPcs, CopyPcs
      <4> QED
        BY <2>1, <4>1, <4>2, OtherStep DEF p, k
    <3> QED
      BY <3>1, <3>2
  <2> QED
    BY <1>2, <2>1, <2>7, <2>8, <2>9, StaysSettled DEF MeteringInv
<1>7. CASE WebhookRecord(c)
  <2>1. /\ p.pc = "webhook.record" /\ Answer(c, "ok") /\ UNCHANGED turn
        /\ usage_events' = usage_events \cup {WebhookKey(k.id)}
        /\ UNCHANGED <<accounts, transactions, now>>
    BY <1>2, <1>7 DEF WebhookRecord, RecordWebhookEvent, At, Rest
  <2>2. k.id \in WebhookId
    BY <1>2, <2>1 DEF Proper, EventPcs
  <2>3. WebhookKey(k.id) \in Keys
    BY <2>2 DEF Keys
  <2>4. ProperRequests'
    BY <1>1, <2>1, AnswerStep
  <2> QED
    BY <1>2, <2>1, <2>3, <2>4, MoreStored, SameCharges, StaysSettled DEF MeteringInv
<1> QED
  BY <1>3, <1>4, <1>5, <1>6, <1>7 DEF Credit

LEMMA RowsProper == ASSUME MeteringInv, NEW c \in Caller, Rows(c) PROVE MeteringInv'
<1> DEFINE p == call[c]
           k == p.call
<1>1. p.pc \in {"mark", "mark.put", "delete", "delete.write"} /\ p.pc # "new" /\ UNCHANGED turn
  BY DEF Rows, MarkGet, MarkPut, DeleteGet, DeleteWrite, GetOrNotFound, At, Rest
<1>2. /\ Proper(p.pc, k, p.copy, p.record, turn) /\ Arg(c) = k
      /\ k.user \in User /\ turn \in Turns
  BY <1>1, Callers, Settled DEF MeteringInv
<1>3. CASE MarkGet(c) \/ DeleteGet(c)
  <2>1. UNCHANGED storeVars
    BY <1>3 DEF MarkGet, DeleteGet, GetOrNotFound
  <2>2. CASE \E x : Answer(c, x)
    BY <1>1, <2>1, <2>2, QuietStep
  <2>3. CASE ~\E x : Answer(c, x)
    <3>1. \E op, pc : /\ At(c, op) /\ Reads(op, pc) /\ Exists(Arg(c).user)
                      /\ Keep(c, accounts[Arg(c).user], pc)
      BY <1>3, <2>3 DEF MarkGet, DeleteGet, GetOrNotFound, Reads
    <3> QED
      BY <1>1, <2>1, <3>1, QuietStep
  <2> QED
    BY <2>2, <2>3
<1>4. ASSUME NEW a \in Account \cup {None}, a = None \/ a.balance >= 0, Answer(c, "ok"),
             PutAccount(k.user, a)
      PROVE  MeteringInv'
  <2>1. /\ UNCHANGED <<transactions, usage_events>> /\ now' \in FirstTick..LastTick
        /\ accounts' = [accounts EXCEPT ![k.user] = a]
    BY <1>4 DEF PutAccount, MeteringInv, ProperStore
  <2>2. ProperStore'
    BY <1>2, <1>4, <2>1, PutStep DEF MeteringInv
  <2>3. ChargesPriced'
    BY <1>1, <2>1, SameCharges DEF MeteringInv
  <2>4. ProperRequests'
    BY <1>1, <1>4, AnswerStep
  <2> QED
    BY <1>1, <1>2, <2>2, <2>3, <2>4, StaysSettled DEF MeteringInv
<1>5. CASE MarkPut(c)
  <2> DEFINE a == p.copy
             b == [a EXCEPT !.marked = TRUE]
  <2>1. a \in Account /\ a.balance >= 0
    BY <1>2, <1>5 DEF MarkPut, At, Proper, CopyPcs
  <2>2. b \in Account /\ b.balance >= 0
    BY <2>1 DEF Account
  <2>3. PutAccount(k.user, b) /\ Answer(c, "ok")
    BY <1>2, <1>5 DEF MarkPut
  <2> QED
    BY <1>4, <2>2, <2>3
<1>6. CASE DeleteWrite(c)
  <2>1. PutAccount(k.user, None) /\ Answer(c, "ok")
    BY <1>2, <1>6 DEF DeleteWrite, DeleteAccount, PutAccount
  <2> QED
    BY <1>4, <2>1
<1> QED
  BY <1>3, <1>5, <1>6 DEF Rows

LEMMA SendProper == ASSUME MeteringInv, NEW c \in Caller, Send(c) PROVE MeteringInv'
<1>1. PICK k \in Calls : call' = [call EXCEPT ![c].pc = k.op, ![c].call = k]
  BY DEF Send
<1>2. turn \in Turns /\ UNCHANGED turn /\ UNCHANGED storeVars
  BY DEF Send, Rest
<1> DEFINE p == call[c]
           op == k.op
<1>3. /\ p = [pc |-> p.pc, call |-> p.call, copy |-> p.copy, record |-> p.record,
              answer |-> p.answer]
      /\ Proper(p.pc, p.call, p.copy, p.record, turn)
      /\ DOMAIN call = Caller
  BY DEF MeteringInv, ProperRequests, ProperProc
<1>4. /\ call'[c] = [pc |-> op, call |-> k, copy |-> p.copy, record |-> p.record,
                     answer |-> p.answer]
      /\ DOMAIN call' = Caller /\ \A d \in Caller \ {c} : call'[d] = call[d]
  BY <1>1, <1>3
<1>5. op \in {"check", "report", "report_batch", "credit", "mark", "delete", "webhook"}
  BY MeteringAssumption DEF Call
<1>6. /\ op \in ReportPcs => k \in Reports
      /\ op \in CreditPcs \cup EventPcs => k \in Credits
      /\ op \in EventPcs => op = "webhook"
      /\ op \notin CopyPcs
      /\ op \notin {"usage.exists", "usage.get", "usage.write", "credit.get", "credit.write"}
  BY <1>5 DEF Reports, Credits, ReportPcs, CreditPcs, EventPcs, CopyPcs
<1> HIDE DEF p
<1>7. Proper(op, k, p.copy, p.record, turn)
  BY <1>3, <1>6 DEF Proper
<1> HIDE DEF op
<1>8. ProperProc(call'[c], turn)
  BY <1>4, <1>7 DEF ProperProc
<1>9. ProperRequests'
  BY <1>2, <1>4, <1>8 DEF MeteringInv, ProperRequests
<1>10. ProperStore' /\ ChargesPriced'
  BY <1>2, SameStore DEF MeteringInv, storeVars, ProperStore
<1> QED
  BY <1>2, <1>9, <1>10, StaysSettled DEF MeteringInv

LEMMA RestartProper == ASSUME MeteringInv, Restart PROVE MeteringInv'
<1> DEFINE Stopped(c) == [Idle EXCEPT !.pc = "done", !.call = Arg(c), !.answer = "abandoned"]
<1>1. /\ call' = [c \in Caller |-> IF c \in Running THEN Stopped(c) ELSE call[c]]
      /\ UNCHANGED storeVars /\ UNCHANGED turn
  BY DEF Restart
<1>2. ASSUME NEW c \in Caller, c \in Running PROVE ProperProc(Stopped(c), turn)
  <2>1. Stopped(c) \in [pc : {"done"}, call : {Arg(c)}, copy : {None}, record : {None},
                        answer : {"abandoned"}]
    BY DEF Idle
  <2>2. Arg(c) \in Calls
    BY <1>2, Callers DEF Running, MeteringInv
  <2> HIDE DEF Stopped
  <2> QED
    BY <2>1, <2>2 DEF ProperProc, Proper, ReportPcs, CreditPcs, EventPcs, CopyPcs
<1>3. ProperRequests'
  <2> HIDE DEF Stopped
  <2> QED
    BY <1>1, <1>2 DEF MeteringInv, ProperRequests
<1>4. ProperStore' /\ ChargesPriced'
  BY <1>1, SameStore DEF MeteringInv, storeVars, ProperStore
<1>5. TurnSettled'
  <2>1. \A c \in Caller : call[c].pc = "new" => call'[c].pc = "new"
    BY <1>1 DEF Running
  <2> QED
    BY <1>1, <2>1 DEF MeteringInv, TurnSettled, storeVars
<1> QED
  BY <1>3, <1>4, <1>5 DEF MeteringInv

\* What changes no request and no row.
LEMMA RestProper ==
  ASSUME MeteringInv, UNCHANGED <<storeVars, call>>, UNCHANGED turn \/ QuoteUsage
  PROVE  MeteringInv'
<1>1. CASE UNCHANGED turn
  <2>1. ProperStore' /\ ChargesPriced'
    BY <1>1, SameStore DEF MeteringInv, storeVars, ProperStore
  <2> QED
    BY <1>1, <2>1 DEF MeteringInv, ProperRequests, TurnSettled, storeVars
<1>2. CASE QuoteUsage
  <2>1. turn \notin Turns /\ turn' \in Turns
    BY <1>2 DEF QuoteUsage
  <2>2. ProperRequests'
    BY <2>1 DEF MeteringInv, ProperRequests, ProperProc, Proper, TurnSettled, ReportPcs, CreditPcs,
                EventPcs, CopyPcs
  <2>3. ProperStore'
    BY DEF storeVars, MeteringInv, ProperStore, Exists
  <2>4. ChargesPriced'
    BY <2>1 DEF storeVars, MeteringInv, ChargesPriced, TurnSettled
  <2> QED
    BY <2>1, <2>2, <2>3, <2>4 DEF MeteringInv, TurnSettled
<1> QED
  BY <1>1, <1>2

LEMMA MeteringInit == ASSUME Init PROVE MeteringInv
<1>1. ProperProc(Idle, turn)
  BY DEF Idle, ProperProc, Proper, ReportPcs, CreditPcs, EventPcs, CopyPcs
<1>2. ProperRequests
  BY <1>1 DEF Init, ProperRequests
<1>3. ASSUME NEW u \in User, Initial[u] # None
      PROVE  Opened(u) \in Transaction /\ Opened(u).type # "usage"
  <2> DEFINE n == Initial[u].balance
  <2>1. n \in Int
    BY <1>3, MeteringAssumption DEF Account
  <2>2. <<0, 0>> \in TransactionId
    BY DEF TransactionId
  <2>3. "monthly_allowance" \in TransactionType /\ "monthly_allowance" # "usage"
    BY DEF TransactionType
  <2> HIDE DEF n
  <2> QED
    BY <2>1, <2>2, <2>3 DEF Opened, Transaction, n
<1>4. ProperStore
  BY <1>3, MeteringAssumption DEF Init, ProperStore, Exists
<1>5. ChargesPriced /\ TurnSettled
  <2>1. \A c \in Caller : call[c].pc = "new"
    BY DEF Init, Idle
  <2> QED
    BY <1>3, <2>1 DEF Init, ChargesPriced, TurnSettled
<1> QED
  BY <1>2, <1>4, <1>5 DEF MeteringInv

\* Whatever interleaves and restarts, a request has the call, the copy and the
\* record that its step needs, no balance is negative, and every charge on
\* record is that of a report at its cost.
THEOREM MeteringInvariant == Spec => []MeteringInv
<1>1. MeteringInv /\ [Next]_vars => MeteringInv'
  BY CheckProper, ReportProper, CreditProper, RowsProper, SendProper, RestartProper, RestProper
  DEF Next, Handler, Forwarding, QuoteUsage, OpenPages, ReadPage, Terminating, vars, meterVars
<1> QED
  BY <1>1, MeteringInit, PTL DEF Spec

-----------------------------------------------------------------------------
(* Types.                                                                  *)

LEMMA HandlerLago ==
  ASSUME MeteringInv, NEW c \in Caller, Handler(c)
  PROVE  UNCHANGED lagoVars \/ \E e \in UsageId : L!Forward(e)
<1>1. CASE UsageWrite(c)
  <2>1. Arg(c).id \in UsageId
    BY <1>1, Callers DEF UsageWrite, At, MeteringInv, Proper, ReportPcs
  <2> QED
    BY <1>1, <2>1 DEF UsageWrite
<1> QED
  BY <1>1 DEF Handler, Check, Report, Credit, Rows, CheckGet, CheckCreate, CheckAnswer, ReportGet,
     ReportCreate, BatchGet, ReportCost, UsageExists, UsageGet, WebhookReceive, CreditGet,
     CreditBuild, CreditRead, CreditWrite, WebhookRecord, MarkGet, MarkPut, DeleteGet, DeleteWrite,
     GetOrCreate, GetOrNotFound, Create, Build, Rest

LEMMA PartsFew ==
  ASSUME NEW metric
  PROVE  /\ L!Parts(metric) \in Seq(L!Part) /\ Len(L!Parts(metric)) \in 0..2
         /\ DOMAIN L!Parts(metric) = 1..Len(L!Parts(metric))
<1>1. ASSUME NEW a \in L!Part, NEW b \in L!Part
      PROVE  L!Both(a, b, metric) \in Seq(L!Part) /\ Len(L!Both(a, b, metric)) \in 0..2
  <2> DEFINE first == IF metric.a > 0 THEN <<a>> ELSE <<>>
             second == IF metric.b > 0 THEN <<b>> ELSE <<>>
  <2>1. /\ first \in Seq(L!Part) /\ Len(first) \in 0..1
        /\ second \in Seq(L!Part) /\ Len(second) \in 0..1
    OBVIOUS
  <2>2. L!Both(a, b, metric) = first \o second
    BY DEF L!Both
  <2> HIDE DEF first, second
  <2> QED
    BY <2>1, <2>2, ConcatProperties
<1>2. <<>> \in Seq(L!Part) /\ Len(<<>>) \in 0..2
  OBVIOUS
<1>3. /\ "input" \in L!Part /\ "output" \in L!Part /\ "cpu" \in L!Part /\ "memory" \in L!Part
  BY DEF L!Part
<1>4. L!Parts(metric) \in Seq(L!Part) /\ Len(L!Parts(metric)) \in 0..2
  BY <1>1, <1>2, <1>3 DEF L!Parts
<1> QED
  BY <1>4

LEMMA TaskTypes ==
  /\ L!NoTask \in L!Task /\ [L!NoTask EXCEPT !.state = "sending"] \in L!Task
  /\ \A task \in L!Task : \A state \in {"none", "sending", "sent", "gave_up", "lost"} :
       [task EXCEPT !.state = state] \in L!Task
  /\ \A task \in L!Task : \A next \in 1..3 : [task EXCEPT !.next = next] \in L!Task
  /\ \A task \in L!Task : \A attempt \in 0..(LagoMaxRetries - 1) :
       [task EXCEPT !.attempt = attempt, !.next = 1] \in L!Task
<1>1. 0 \in 0..(LagoMaxRetries - 1) /\ 1 \in 1..3
  BY MeteringAssumption
<1> QED
  BY <1>1 DEF L!Task, L!NoTask

LEMMA LagoStepType ==
  ASSUME L!LagoType, NEW e \in UsageId, L!LagoStep(e, turn)
  PROVE  L!LagoType'
<1>1. /\ forwards \in [UsageId -> L!Task] /\ forwards[e] \in L!Task
      /\ lago \subseteq UsageId \X L!Part /\ losses \in 0..Losses
  BY DEF L!LagoType
<1>2. CASE L!SendPart(e, turn)
  <2> DEFINE id == <<e, L!Parts(turn)[forwards[e].next]>>
  <2>1. forwards[e].next \in 1..Len(L!Parts(turn)) /\ forwards[e].next + 1 \in 1..3
    <3>1. forwards[e].next \in 1..3 /\ forwards[e].next <= Len(L!Parts(turn))
      BY <1>1, <1>2 DEF L!SendPart, L!Task
    <3>2. PICK len \in 0..2 : len = Len(L!Parts(turn))
      BY PartsFew
    <3>3. PICK next \in 1..3 : next = forwards[e].next
      BY <3>1
    <3>4. next \in 1..len /\ next + 1 \in 1..3
      BY <3>1, <3>2, <3>3
    <3> QED
      BY <3>2, <3>3, <3>4
  <2>2. id \in UsageId \X L!Part
    BY <2>1, PartsFew
  <2>3. L!Advance(e) => forwards' \in [UsageId -> L!Task]
    BY <1>1, <2>1, TaskTypes DEF L!Advance
  <2>4. L!Retry(e) => forwards' \in [UsageId -> L!Task]
    <3> DEFINE more == forwards[e].attempt + 1
    <3>1. L!Retry(e) =>
            forwards' = [forwards EXCEPT ![e] =
              IF more >= LagoMaxRetries THEN [forwards[e] EXCEPT !.state = "gave_up"]
              ELSE [forwards[e] EXCEPT !.attempt = more, !.next = 1]]
      BY DEF L!Retry
    <3>2. /\ forwards[e].attempt \in Nat /\ LagoMaxRetries \in Nat
          /\ ~(more >= LagoMaxRetries) => more \in 0..(LagoMaxRetries - 1)
      BY <1>1, MeteringAssumption DEF L!Task
    <3> HIDE DEF more
    <3>3. \/ more >= LagoMaxRetries
          \/ [forwards[e] EXCEPT !.attempt = more, !.next = 1] \in L!Task
      BY <1>1, <3>2, TaskTypes
    <3>4. [forwards[e] EXCEPT !.state = "gave_up"] \in L!Task
      BY <1>1, TaskTypes
    <3> QED
      BY <1>1, <3>1, <3>3, <3>4
  <2>5. forwards' \in [UsageId -> L!Task]
    BY <1>2, <2>3, <2>4 DEF L!SendPart
  <2>6. lago' \subseteq UsageId \X L!Part
    BY <1>1, <1>2, <2>2 DEF L!SendPart
  <2>7. losses' \in 0..Losses
    BY <1>1, <1>2, MeteringAssumption DEF L!SendPart
  <2>8. refusing' \in BOOLEAN
    BY <1>2 DEF L!SendPart, L!LagoType
  <2> QED
    BY <2>5, <2>6, <2>7, <2>8 DEF L!LagoType
<1>3. CASE L!SendDone(e, turn)
  BY <1>1, <1>3, TaskTypes DEF L!SendDone, L!LagoType
<1> QED
  BY <1>2, <1>3 DEF L!LagoStep

LEMMA LagoTypeStep == ASSUME MeteringInv, L!LagoType, [Next]_vars PROVE L!LagoType'
<1>1. CASE UNCHANGED lagoVars
  BY <1>1 DEF lagoVars, L!LagoType
<1>2. ASSUME NEW e \in UsageId, L!Forward(e) PROVE L!LagoType'
  BY <1>2, TaskTypes DEF L!Forward, L!LagoType
<1>3. CASE Restart
  BY <1>3, TaskTypes DEF Restart, L!LoseTasks, L!LagoType
<1> QED
  BY <1>1, <1>2, <1>3, HandlerLago, LagoStepType
  DEF Next, Forwarding, Send, QuoteUsage, OpenPages, ReadPage, Terminating, Rest, vars

\* The rows, the records, the requests and the tasks keep their types: costs
\* are whole numbers for all prices and counts, and no attempt at Lago is one
\* too many.
THEOREM MeteringTypeCorrect == Spec => []MeteringType
<1>1. Init => L!LagoType
  <2> SUFFICES ASSUME Init PROVE L!LagoType
    OBVIOUS
  <2>1. 0 \in 0..Losses
    BY MeteringAssumption
  <2> QED
    BY <2>1, TaskTypes DEF Init, L!LagoInit, L!LagoType
<1>2. MeteringInv /\ IndexComplete /\ L!LagoType => MeteringType
  <2> SUFFICES ASSUME MeteringInv, IndexComplete, L!LagoType PROVE MeteringType
    OBVIOUS
  <2>1. \A t \in transactions : t.user \in User /\ t.id \in TransactionId
    BY DEF MeteringInv, ProperStore, Transaction
  <2>2. by_user \subseteq User \X TransactionId
    BY <2>1 DEF IndexComplete
  <2>3. \A c \in Caller : /\ call[c].pc # "new" => call[c].call \in Calls
                          /\ call[c].copy \in Account \cup {None}
                          /\ call[c].record \in Transaction \cup {None}
    BY DEF MeteringInv, ProperRequests, ProperProc, Proper
  <2> QED
    BY <2>2, <2>3 DEF MeteringType, MeteringInv, ProperStore, Keys
<1>3. MeteringInv /\ L!LagoType /\ [Next]_vars => L!LagoType'
  BY LagoTypeStep
<1> QED
  BY <1>1, <1>2, <1>3, MeteringInvariant, IndexAlwaysComplete, PTL DEF Spec

\* A charge whose cost was computed is of a credit at least for any use, for
\* all prices, counts and word lengths: what wraps around below nothing is
\* refused, and what rounds or wraps to nothing is charged one.
THEOREM LeastCharge == Spec => []ChargedAtLeastOne
<1>1. ASSUME MeteringInv PROVE ChargedAtLeastOne
  <2> SUFFICES ASSUME NEW t \in transactions, t.type = "usage", ComputedOnly(t.ref),
                      UsedSomething
               PROVE  t.amount <= -1
    BY DEF ChargedAtLeastOne
  <2>1. PICK k \in Reports : IsCharge(t, k, turn)
    BY <1>1 DEF MeteringInv, ChargesPriced
  <2>2. k.amount = None
    BY <2>1 DEF Reports, ComputedOnly, IsCharge
  <2>3. t.amount = -CalculateCost(turn) /\ CalculateCost(turn) >= 0
    BY <2>1, <2>2 DEF IsCharge, CostOf
  <2>4. turn \in Metric
    BY <1>1, MeteringAssumption DEF MeteringInv, TurnSettled
  <2>5. CalculateCost(turn) \in Int /\ CalculateCost(turn) >= 1
    BY <2>3, <2>4, CostType DEF UsedSomething, Used
  <2> QED
    BY <2>3, <2>5
<1> QED
  BY <1>1, MeteringInvariant, PTL

-----------------------------------------------------------------------------
(* Events and charges.                                                     *)

\* What a step of a request does to charges: nothing, or it stores the event
\* of a report together with its record.
Charges(c) ==
  LET k == call[c].call
  IN  /\ call[c].pc = "usage.write"
      /\ k \in Reports /\ IsCharge(call[c].record, k, turn)
      /\ call[c].record \in Transaction
      /\ transactions' = transactions \cup {call[c].record}
      /\ usage_events' = usage_events \cup {UsageKey(k.id)}

KeepsCharges ==
  /\ \/ UNCHANGED transactions
     \/ \E t : t.type # "usage" /\ transactions' = transactions \cup {t}
  /\ \/ UNCHANGED usage_events
     \/ \E w : usage_events' = usage_events \cup {WebhookKey(w)}

LEMMA HandlerCharges ==
  ASSUME MeteringInv, NEW c \in Caller, Handler(c)
  PROVE  KeepsCharges \/ Charges(c)
<1>1. call[c].pc # "new" => Proper(call[c].pc, call[c].call, call[c].copy, call[c].record, turn)
                              /\ Arg(c) = call[c].call
  BY Callers DEF MeteringInv
<1>2. CASE UsageWrite(c)
  <2>1. /\ call[c].pc = "usage.write"
        /\ transactions' = transactions \cup {call[c].record}
        /\ usage_events' = usage_events \cup {UsageKey(Arg(c).id)}
    BY <1>2 DEF UsageWrite, WriteUsage, PutRecord, At
  <2> QED
    BY <1>1, <2>1 DEF Charges, Proper, ReportPcs
<1>3. CASE CreditWrite(c)
  <2>1. /\ call[c].pc = "credit.write" /\ UNCHANGED usage_events
        /\ transactions' = transactions \cup {call[c].record}
    BY <1>3 DEF CreditWrite, WriteCredits, PutRecord, At
  <2>2. call[c].record.type = Arg(c).type /\ Arg(c).type # "usage"
    BY <1>1, <2>1, MeteringAssumption DEF Proper, IsCredit, CreditPcs, Credits
  <2> QED
    BY <2>1, <2>2 DEF KeepsCharges
<1>4. CASE WebhookRecord(c)
  BY <1>4 DEF WebhookRecord, RecordWebhookEvent, KeepsCharges
<1>5. CASE Check(c) \/ Rows(c)
  BY <1>5 DEF Check, CheckGet, CheckCreate, CheckAnswer, Rows, MarkGet, MarkPut, DeleteGet,
     DeleteWrite, GetOrCreate, GetOrNotFound, Create, PutAccount, DeleteAccount, storeVars,
     KeepsCharges
<1>6. CASE ReportGet(c) \/ ReportCreate(c) \/ BatchGet(c) \/ ReportCost(c)
  BY <1>6 DEF ReportGet, ReportCreate, BatchGet, ReportCost, GetOrCreate, GetOrNotFound, Create,
     Build, PutAccount, storeVars, KeepsCharges
<1>7. CASE UsageExists(c) \/ UsageGet(c)
  BY <1>7 DEF UsageExists, UsageGet, storeVars, KeepsCharges
<1>8. CASE WebhookReceive(c) \/ CreditGet(c) \/ CreditBuild(c) \/ CreditRead(c)
  BY <1>8 DEF WebhookReceive, CreditGet, CreditBuild, CreditRead, GetOrNotFound, Build, storeVars,
     KeepsCharges
<1> QED
  BY <1>2, <1>3, <1>4, <1>5, <1>6, <1>7, <1>8 DEF Handler, Report, Credit

LEMMA OtherCharges ==
  ASSUME [Next]_vars, ~\E c \in Caller : Handler(c)
  PROVE  UNCHANGED storeVars
BY DEF Next, Forwarding, Send, QuoteUsage, OpenPages, ReadPage, Terminating, Restart, vars

\* A handler is a step of its own request.
LEMMA OthersStay ==
  ASSUME MeteringInv, NEW c \in Caller, Handler(c)
  PROVE  \A d \in Caller \ {c} : call'[d] = call[d]
<1>1. \/ \E pc : Goto(c, pc)
      \/ \E a, pc : Keep(c, a, pc)
      \/ \E x : Answer(c, x)
      \/ \E type, amount, ref, pc : Build(c, type, amount, ref, pc)
  BY DEF Handler, Check, CheckGet, CheckCreate, CheckAnswer, Report, ReportGet, ReportCreate,
         BatchGet, ReportCost, UsageExists, UsageGet, UsageWrite, Credit, WebhookReceive,
         CreditGet, CreditBuild, CreditRead, CreditWrite, WebhookRecord, Rows, MarkGet, MarkPut,
         DeleteGet, DeleteWrite, GetOrCreate, GetOrNotFound, Create
<1> QED
  BY <1>1, Locals DEF Becomes, MeteringInv

\* A webhook is recorded when it has been credited.
CreditedFirst == \A c \in Caller : call[c].pc = "webhook.record" => Credited(call[c].call.id)

StoredInv == StoredExplained /\ CreditedFirst

LEMMA CreditedStep ==
  ASSUME MeteringInv, CreditedFirst, [Next]_vars PROVE CreditedFirst'
<1>1. transactions \subseteq transactions'
  BY HandlerCharges, OtherCharges DEF KeepsCharges, Charges, storeVars
<1>3. ASSUME NEW c \in Caller, Handler(c) PROVE CreditedFirst'
  <2>1. CASE CreditWrite(c)
    <3>1. PICK t : t = call[c].record
      OBVIOUS
    <3>2. PICK id : id = call[c].call.id
      OBVIOUS
    <3>3. call[c].pc = "credit.write" /\ t \in transactions'
      BY <2>1, <3>1 DEF CreditWrite, WriteCredits, PutRecord, At
    <3>4. call'[c].call.id = id
      <4>1. PICK pc, a, s, x : Becomes(c, pc, a, s, x)
        BY <2>1, Locals DEF CreditWrite, MeteringInv
      <4>2. call'[c] = [pc |-> pc, call |-> call[c].call, copy |-> a,
                      record |-> s, answer |-> x]
        BY <4>1 DEF Becomes
      <4> QED
        BY <3>2, <4>2
    <3>5. t.type # "usage" /\ t.ref = id
      BY <3>1, <3>2, <3>3, Callers DEF MeteringInv, Proper, IsCredit, CreditPcs
    <3>6. \E s \in transactions' : s.type # "usage" /\ s.ref = id
      BY <3>3, <3>5
    <3>7. \A d \in Caller \ {c} : call'[d] = call[d]
      BY <1>3, OthersStay
    <3> QED
      BY <1>1, <3>4, <3>6, <3>7 DEF CreditedFirst, Credited
  <2>2. CASE ~CreditWrite(c)
    <3>1. call'[c].pc # "webhook.record"
      <4>1. \/ \E pc : pc # "webhook.record" /\ Goto(c, pc)
            \/ \E a, pc : pc # "webhook.record" /\ Keep(c, a, pc)
            \/ \E x : Answer(c, x)
            \/ \E type, amount, ref, pc :
                 pc # "webhook.record" /\ Build(c, type, amount, ref, pc)
        BY <1>3, <2>2
        DEF Handler, Check, CheckGet, CheckCreate, CheckAnswer, Report, ReportGet, ReportCreate,
            BatchGet, ReportCost, UsageExists, UsageGet, UsageWrite, Credit, WebhookReceive,
            CreditGet, CreditBuild, CreditRead, WebhookRecord, Rows, MarkGet, MarkPut,
            DeleteGet, DeleteWrite, GetOrCreate, GetOrNotFound, Create
      <4>2. \E pc, a, t, x : pc # "webhook.record" /\ Becomes(c, pc, a, t, x)
        BY <4>1, Locals DEF MeteringInv
      <4> QED
        BY <4>2 DEF Becomes
    <3>2. \A d \in Caller \ {c} : call'[d] = call[d]
      BY <1>3, OthersStay
    <3> QED
      BY <1>1, <3>1, <3>2 DEF CreditedFirst, Credited
  <2> QED
    BY <2>1, <2>2
<1>4. ASSUME NEW c \in Caller, Send(c) PROVE CreditedFirst'
  <2>1. PICK k \in Calls : call' = [call EXCEPT ![c].pc = k.op, ![c].call = k]
    BY <1>4 DEF Send
  <2>2. k.op # "webhook.record"
    BY MeteringAssumption DEF Call
  <2>3. /\ \A d \in Caller \ {c} : call'[d] = call[d]
        /\ call'[c].pc = k.op
    BY <2>1 DEF MeteringInv, ProperRequests, ProperProc
  <2> QED
    BY <1>1, <2>2, <2>3 DEF CreditedFirst, Credited
<1>5. CASE Restart
  <2>1. \A c \in Caller : call'[c].pc = "done" \/ call'[c] = call[c]
    BY <1>5 DEF Restart, Idle
  <2> QED
    BY <1>1, <2>1 DEF CreditedFirst, Credited
<1>6. CASE UNCHANGED call
  BY <1>1, <1>6 DEF CreditedFirst, Credited
<1> QED
  BY <1>3, <1>4, <1>5, <1>6
  DEF Next, Forwarding, QuoteUsage, OpenPages, ReadPage, Terminating, vars, meterVars

\* The keys that a step adds.
LEMMA KeyStep ==
  ASSUME MeteringInv, NEW c \in Caller, Handler(c)
  PROVE  \/ UNCHANGED usage_events
         \/ Charges(c)
         \/ /\ call[c].pc = "webhook.record"
            /\ usage_events' = usage_events \cup {WebhookKey(call[c].call.id)}
            /\ UNCHANGED transactions
<1>1. CASE WebhookRecord(c)
  BY <1>1 DEF WebhookRecord, RecordWebhookEvent, At, Arg
<1>2. CASE UsageWrite(c)
  <2>1. /\ call[c].pc = "usage.write" /\ Arg(c) = call[c].call
        /\ transactions' = transactions \cup {call[c].record}
        /\ usage_events' = usage_events \cup {UsageKey(Arg(c).id)}
    BY <1>2 DEF UsageWrite, WriteUsage, PutRecord, At, Arg
  <2> QED
    BY <2>1, Callers DEF MeteringInv, Charges, Proper, ReportPcs
<1>3. CASE ~WebhookRecord(c) /\ ~UsageWrite(c)
  BY <1>3
  DEF Handler, Check, CheckGet, CheckCreate, CheckAnswer, Report, ReportGet, ReportCreate,
      BatchGet, ReportCost, UsageExists, UsageGet, Credit, WebhookReceive, CreditGet, CreditBuild,
      CreditRead, CreditWrite, Rows, MarkGet, MarkPut, DeleteGet, DeleteWrite, GetOrCreate,
      GetOrNotFound, Create, Build, PutAccount, DeleteAccount, WriteCredits, storeVars
<1> QED
  BY <1>1, <1>2, <1>3

\* One more event is charged, one more webhook recorded, or neither.
LEMMA MoreCharged ==
  ASSUME StoredExplained, NEW e \in UsageId,
         \E t \in transactions' : t.type = "usage" /\ t.ref = e,
         transactions \subseteq transactions',
         \A t \in transactions' \ transactions : t.type = "usage" => t.ref = e,
         usage_events' = usage_events \cup {e}
  PROVE  StoredExplained'
BY DEF StoredExplained, Charged, Credited, HasUsageEvent, HasWebhookEvent, UsageKey, WebhookKey

LEMMA MoreRecorded ==
  ASSUME StoredExplained, NEW w \in WebhookId, UNCHANGED transactions,
         \E t \in transactions : t.type # "usage" /\ t.ref = w,
         usage_events' = usage_events \cup {<<"webhook:", w>>}
  PROVE  StoredExplained'
BY DEF StoredExplained, Charged, Credited, HasUsageEvent, HasWebhookEvent, UsageKey, WebhookKey

LEMMA SameCharged ==
  ASSUME StoredExplained, UNCHANGED usage_events, KeepsCharges
  PROVE  StoredExplained'
BY DEF StoredExplained, Charged, Credited, HasUsageEvent, HasWebhookEvent, KeepsCharges

LEMMA StoredStep ==
  ASSUME MeteringInv, StoredInv, [Next]_vars PROVE StoredInv'
<1>1. CreditedFirst'
  BY CreditedStep DEF StoredInv
<1>2. ASSUME NEW c \in Caller, Charges(c) PROVE StoredExplained'
  <2>1. PICK t, e : t = call[c].record /\ e = call[c].call.id
    OBVIOUS
  <2>2. /\ t.type = "usage" /\ t.ref = e /\ e \in UsageId
        /\ transactions' = transactions \cup {t}
        /\ usage_events' = usage_events \cup {e}
    BY <1>2, <2>1, MeteringAssumption DEF Charges, IsCharge, UsageKey, Reports
  <2> QED
    BY <2>2, MoreCharged DEF StoredInv
<1>3. ASSUME NEW c \in Caller, call[c].pc = "webhook.record", UNCHANGED transactions,
             usage_events' = usage_events \cup {WebhookKey(call[c].call.id)}
      PROVE  StoredExplained'
  <2>1. PICK w : w = call[c].call.id
    OBVIOUS
  <2>2. w \in WebhookId /\ usage_events' = usage_events \cup {<<"webhook:", w>>}
    BY <1>3, <2>1, Callers DEF MeteringInv, Proper, EventPcs, WebhookKey
  <2>3. \E t \in transactions : t.type # "usage" /\ t.ref = w
    BY <1>3, <2>1 DEF StoredInv, CreditedFirst, Credited
  <2> QED
    BY <1>3, <2>2, <2>3, MoreRecorded DEF StoredInv
<1>4. ASSUME UNCHANGED storeVars PROVE StoredExplained'
  BY <1>4, SameCharged DEF StoredInv, storeVars, KeepsCharges
<1>5. ASSUME NEW c \in Caller, Handler(c), UNCHANGED usage_events, ~Charges(c)
      PROVE  StoredExplained'
  BY <1>5, HandlerCharges, SameCharged DEF StoredInv
<1> QED
  BY <1>1, <1>2, <1>3, <1>4, <1>5, KeyStep, OtherCharges DEF StoredInv

\* Whatever runs at once and is cut short, a charged event is stored, and what
\* is stored was charged, or credited in the case of a webhook, unless the id
\* of an event is that of a webhook behind "webhook:": each of the two then
\* counts for the other.
THEOREM RocksEventsCharged == Spec => []StoredExplained
<1>1. Init => StoredInv
  BY DEF Init, Idle, Opened, StoredInv, StoredExplained, CreditedFirst, Charged, HasUsageEvent,
         HasWebhookEvent
<1>2. StoredInv => StoredExplained
  BY DEF StoredInv
<1> QED
  BY <1>1, <1>2, StoredStep, MeteringInvariant, PTL DEF Spec

-----------------------------------------------------------------------------
(* Forwarding.                                                             *)

\* A task is left behind only by a charge.
TasksCharged ==
  /\ DOMAIN forwards = UsageId
  /\ \A e \in UsageId : L!Sending(e) => Charged(e)

ForwardInv == TasksCharged /\ ForwardedCharged

\* What a step may do to charges and tasks: records are never taken back, and
\* a task is started with the charge of its event.
ChargeOrForward ==
  /\ transactions \subseteq transactions'
  /\ \/ UNCHANGED lagoVars
     \/ \E e : Charged(e)' /\ L!Forward(e)

LEMMA HandlerForwardStep ==
  ASSUME MeteringInv, NEW c \in Caller, Handler(c) PROVE ChargeOrForward
<1>1. transactions \subseteq transactions'
  BY HandlerCharges DEF KeepsCharges, Charges
<1>2. CASE UsageWrite(c)
  <2>1. PICK t, e : t = call[c].record /\ e = call[c].call.id
    OBVIOUS
  <2>2. /\ call[c].pc = "usage.write" /\ t \in transactions'
        /\ UNCHANGED lagoVars \/ L!Forward(e)
    BY <1>2, <2>1 DEF UsageWrite, WriteUsage, PutRecord, At, Arg
  <2>3. t.type = "usage" /\ t.ref = e
    BY <2>1, <2>2, Callers DEF MeteringInv, Proper, IsCharge
  <2>4. Charged(e)'
    BY <2>2, <2>3 DEF Charged
  <2> QED
    BY <1>1, <2>2, <2>4 DEF ChargeOrForward
<1>3. CASE ~UsageWrite(c)
  <2>1. UNCHANGED lagoVars
    BY <1>3
    DEF Handler, Check, CheckGet, CheckCreate, CheckAnswer, Report, ReportGet, ReportCreate,
        BatchGet, ReportCost, UsageExists, UsageGet, Credit, WebhookReceive, CreditGet, CreditBuild,
        CreditRead, CreditWrite, WebhookRecord, Rows, MarkGet, MarkPut, DeleteGet, DeleteWrite,
        GetOrCreate, GetOrNotFound, Create, Build, Rest
  <2> QED
    BY <1>1, <2>1 DEF ChargeOrForward
<1> QED
  BY <1>2, <1>3

LEMMA LagoSends ==
  ASSUME ForwardInv, NEW e \in UsageId, Forwarding(e)
  PROVE  ForwardInv'
<1>1. L!Sending(e) /\ Charged(e) /\ UNCHANGED transactions
  BY DEF Forwarding, L!LagoStep, L!SendPart, L!SendDone, storeVars, ForwardInv, TasksCharged
<1>2. \E part : lago' \subseteq lago \cup {<<e, part>>}
  BY DEF Forwarding, L!LagoStep, L!SendPart, L!SendDone
<1>3. DOMAIN forwards' = DOMAIN forwards /\ \A x \in UsageId \ {e} : forwards'[x] = forwards[x]
  BY DEF Forwarding, L!LagoStep, L!SendPart, L!SendDone, L!Advance, L!Retry, ForwardInv, TasksCharged
<1>4. \A x : Charged(x)' <=> Charged(x)
  BY <1>1 DEF Charged
<1>5. TasksCharged'
  BY <1>1, <1>3, <1>4 DEF ForwardInv, TasksCharged, L!Sending
<1>6. ForwardedCharged'
  BY <1>1, <1>2, <1>4 DEF ForwardInv, ForwardedCharged
<1> QED
  BY <1>5, <1>6 DEF ForwardInv

\* Nothing reaches Lago that was not charged, whatever reports run at once,
\* are repeated, refused or cut short.
THEOREM OnlyChargedForwarded == Spec => []ForwardedCharged
<1>1. Init => ForwardInv
  BY DEF Init, L!LagoInit, L!NoTask, L!Sending, ForwardInv, TasksCharged, ForwardedCharged
<1>2. ASSUME MeteringInv, ForwardInv, [Next]_vars PROVE ForwardInv'
  <2>1. ASSUME ChargeOrForward PROVE ForwardInv'
    <3>1. \A e : Charged(e) => Charged(e)'
      BY <2>1 DEF ChargeOrForward, Charged
    <3>2. CASE UNCHANGED lagoVars
      BY <1>2, <3>1, <3>2 DEF lagoVars, ForwardInv, TasksCharged, ForwardedCharged, L!Sending
    <3>3. ASSUME NEW e, Charged(e)', L!Forward(e) PROVE ForwardInv'
      BY <1>2, <3>1, <3>3 DEF L!Forward, ForwardInv, TasksCharged, ForwardedCharged, L!Sending
    <3> QED
      BY <2>1, <3>2, <3>3 DEF ChargeOrForward
  <2>2. CASE Restart
    <3>1. \A e : Charged(e)' <=> Charged(e)
      BY <2>2 DEF Restart, storeVars, Charged
    <3> QED
      BY <1>2, <2>2, <3>1 DEF Restart, L!LoseTasks, ForwardInv, TasksCharged, ForwardedCharged,
                              L!Sending
  <2>3. CASE UNCHANGED <<transactions, lagoVars>>
    BY <2>1, <2>3 DEF ChargeOrForward
  <2> QED
    BY <1>2, <2>1, <2>2, <2>3, HandlerForwardStep, LagoSends
    DEF Next, vars, storeVars, Send, Rest, QuoteUsage, OpenPages, ReadPage, Terminating
<1>3. ForwardInv => ForwardedCharged
  BY DEF ForwardInv
<1> QED
  BY <1>1, <1>2, <1>3, MeteringInvariant, PTL DEF Spec

-----------------------------------------------------------------------------
(* Requests one at a time.                                                 *)

OneAtATime == Concurrency <= 1

\* What one request has read is still so: it has the row, there is none to
\* read, or its event is not stored.
FreshPcs == {"check.answer", "usage.write", "credit.write", "mark.put"}

CreatePcs == {"check.create", "report.create"}

Fresh(pc, k, copy, rows, events) ==
  /\ pc \in FreshPcs => copy = rows[k.user]
  /\ pc \in CreatePcs => rows[k.user] = None
  /\ pc \in {"usage.get", "usage.write"} => UsageKey(k.id) \notin events

Alone ==
  /\ \A c, d \in Running : c = d
  /\ \A c \in Running : Fresh(call[c].pc, call[c].call, call[c].copy, accounts, usage_events)

LEMMA NoneRuns ==
  ASSUME OneAtATime, Cardinality(Running) < Concurrency
  PROVE  Running = {}
<1>1. IsFiniteSet(Running)
  BY MeteringAssumption, FS_Subset DEF Running
<1>2. Cardinality(Running) \in Nat
  BY <1>1, FS_CardinalityType
<1>3. Cardinality(Running) = 0
  BY <1>2, MeteringAssumption DEF OneAtATime
<1> QED
  BY <1>1, <1>3, FS_EmptySet

LEMMA AloneStep ==
  ASSUME ProperRequests, Alone, NEW c \in Caller, c \in Running,
         NEW pc, NEW a, NEW t, NEW x, Becomes(c, pc, a, t, x),
         pc \notin {"new", "done"} => Fresh(pc, call[c].call, a, accounts', usage_events')
  PROVE  Alone'
<1>1. Running' \subseteq {c}
  BY DEF Alone, Running, Becomes
<1>2. call'[c].pc = pc /\ call'[c].call = call[c].call /\ call'[c].copy = a
  BY DEF Becomes
<1> QED
  BY <1>1, <1>2 DEF Alone, Running, Fresh

\* A step from op to pc that reads the row of its user, or that needs nothing.
LEMMA AloneReads ==
  ASSUME MeteringInv, Alone, NEW c \in Caller, NEW op, NEW pc, At(c, op),
         op \notin {"new", "done"}, UNCHANGED <<accounts, usage_events>>,
         Keep(c, accounts[Arg(c).user], pc), pc \notin CreatePcs,
         pc \in {"usage.get", "usage.write"} => ~HasUsageEvent(Arg(c).id)
  PROVE  Alone'
<1>1. Becomes(c, pc, accounts[Arg(c).user], call[c].record, call[c].answer)
  BY Locals DEF MeteringInv
<1>2. c \in Running
  BY DEF Running, At
<1>3. Fresh(pc, call[c].call, accounts[Arg(c).user], accounts', usage_events')
  BY DEF Fresh, FreshPcs, CreatePcs, Arg, HasUsageEvent
<1> QED
  BY <1>1, <1>2, <1>3, AloneStep DEF MeteringInv

LEMMA AloneGoes ==
  ASSUME MeteringInv, Alone, NEW c \in Caller, NEW pc, c \in Running, Goto(c, pc),
         UNCHANGED <<accounts, usage_events>>, pc \notin FreshPcs,
         pc \in CreatePcs => ~Exists(Arg(c).user),
         pc \in {"usage.get", "usage.write"} => ~HasUsageEvent(Arg(c).id)
  PROVE  Alone'
<1>1. Becomes(c, pc, call[c].copy, call[c].record, call[c].answer)
  BY Locals DEF MeteringInv
<1>2. Fresh(pc, call[c].call, call[c].copy, accounts', usage_events')
  BY DEF Fresh, FreshPcs, CreatePcs, Arg, HasUsageEvent, Exists
<1> QED
  BY <1>1, <1>2, AloneStep DEF MeteringInv

\* The other steps are to where nothing that was read is needed.
Unneeding == {"report.cost", "usage.exists", "credit.get", "webhook.record",
              "credit", "done"}

LEMMA AloneOther ==
  ASSUME MeteringInv, Alone, NEW c \in Caller, NEW pc, NEW a, NEW t, NEW x, c \in Running,
         Becomes(c, pc, a, t, x), pc \in Unneeding
  PROVE  Alone'
<1>1. Fresh(pc, call[c].call, a, accounts', usage_events')
  BY DEF Fresh, FreshPcs, CreatePcs, Unneeding
<1> QED
  BY <1>1, AloneStep DEF MeteringInv

LEMMA AloneAnswers ==
  ASSUME MeteringInv, Alone, NEW c \in Caller, c \in Running, NEW x, Answer(c, x)
  PROVE  Alone'
<1>1. Becomes(c, "done", None, None, x)
  BY Locals DEF MeteringInv
<1> QED
  BY <1>1, AloneOther DEF Unneeding

LEMMA AloneHandler ==
  ASSUME MeteringInv, Alone, NEW c \in Caller, Handler(c)
  PROVE  c \in Running /\ Alone'
<1>1. c \in Running
  BY DEF Handler, Check, CheckGet, CheckCreate, CheckAnswer, Report, ReportGet, ReportCreate,
         BatchGet, ReportCost, UsageExists, UsageGet, UsageWrite, Credit, WebhookReceive,
         CreditGet, CreditBuild, CreditRead, CreditWrite, WebhookRecord, Rows, MarkGet, MarkPut,
         DeleteGet, DeleteWrite, GetOrCreate, GetOrNotFound, Create, At, Running
<1>2. CASE \E x : Answer(c, x)
  BY <1>1, <1>2, AloneAnswers
<1>3. CASE ~\E x : Answer(c, x)
  <2>1. ASSUME NEW op, NEW create, NEW pc, GetOrCreate(c, op, create, pc),
               op \notin {"new", "done"}, create \in CreatePcs,
               pc \notin CreatePcs \cup {"usage.get", "usage.write"}
        PROVE  Alone'
    <3>1. UNCHANGED <<accounts, usage_events>> /\ At(c, op)
      BY <2>1 DEF GetOrCreate, storeVars
    <3>2. CASE Exists(Arg(c).user)
      BY <2>1, <3>1, <3>2, AloneReads DEF GetOrCreate
    <3>3. CASE ~Exists(Arg(c).user)
      <4>1. Goto(c, create) /\ create \notin FreshPcs \cup {"usage.get", "usage.write"}
        BY <2>1, <3>3 DEF GetOrCreate, CreatePcs, FreshPcs
      <4> QED
        BY <1>1, <3>1, <3>3, <4>1, AloneGoes
    <3> QED
      BY <3>2, <3>3
  <2>2. ASSUME NEW op, NEW pc, GetOrNotFound(c, op, pc), op \notin {"new", "done"},
               pc \notin CreatePcs \cup {"usage.get", "usage.write"}
        PROVE  Alone'
    <3>1. UNCHANGED <<accounts, usage_events>> /\ At(c, op) /\ Exists(Arg(c).user)
          /\ Keep(c, accounts[Arg(c).user], pc)
      BY <1>3, <2>2 DEF GetOrNotFound, storeVars
    <3> QED
      BY <2>2, <3>1, AloneReads
  <2>3. CASE CheckGet(c) \/ ReportGet(c)
    BY <1>1, <2>1, <2>3 DEF CheckGet, ReportGet, CreatePcs
  <2>4. CASE BatchGet(c) \/ CreditGet(c) \/ CreditRead(c) \/ MarkGet(c) \/ DeleteGet(c)
    BY <1>1, <2>2, <2>4 DEF BatchGet, CreditGet, CreditRead, MarkGet, DeleteGet, CreatePcs
  <2>5. CASE CheckCreate(c) \/ ReportCreate(c)
    <3>1. PICK pc \in {"check.answer", "report.cost"} :
            Keep(c, NewAccount, pc) /\ PutAccount(Arg(c).user, NewAccount)
      BY <2>5 DEF CheckCreate, ReportCreate, Create
    <3>2. Becomes(c, pc, NewAccount, call[c].record, call[c].answer)
      BY <3>1, Locals DEF MeteringInv
    <3>3. Arg(c).user \in User /\ Arg(c) = call[c].call
      BY <1>1, Callers DEF Running, MeteringInv
    <3>4. accounts'[Arg(c).user] = NewAccount
      BY <3>1, <3>3 DEF PutAccount, MeteringInv, ProperStore
    <3>5. Fresh(pc, call[c].call, NewAccount, accounts', usage_events')
      BY <3>3, <3>4 DEF Fresh, CreatePcs
    <3> QED
      BY <1>1, <3>2, <3>5, AloneStep DEF MeteringInv
  <2>6. CASE ReportCost(c) \/ CreditBuild(c)
    <3>1. \E type, amount, ref : \E pc \in Unneeding : Build(c, type, amount, ref, pc)
      BY <1>3, <2>6 DEF ReportCost, CreditBuild, Unneeding
    <3> QED
      BY <1>1, <3>1, Locals, AloneOther DEF MeteringInv
  <2>7. CASE UsageExists(c)
    <3>1. /\ ~HasUsageEvent(Arg(c).id) /\ Goto(c, "usage.get")
          /\ UNCHANGED <<accounts, usage_events>>
      BY <1>3, <2>7 DEF UsageExists, storeVars
    <3> QED
      BY <1>1, <3>1, AloneGoes DEF FreshPcs, CreatePcs
  <2>8. CASE UsageGet(c)
    <3>1. /\ At(c, "usage.get") /\ Keep(c, accounts[Arg(c).user], "usage.write")
          /\ UNCHANGED <<accounts, usage_events>>
      BY <1>3, <2>8 DEF UsageGet, storeVars
    <3>2. ~HasUsageEvent(Arg(c).id)
      BY <1>1, <3>1 DEF Alone, Fresh, At, Arg, HasUsageEvent
    <3> QED
      BY <1>1, <3>1, <3>2, AloneReads DEF CreatePcs, At
  <2>9. CASE WebhookReceive(c) \/ CreditWrite(c)
    <3>1. \E pc \in Unneeding : Goto(c, pc)
      BY <1>3, <2>9 DEF WebhookReceive, CreditWrite, Unneeding
    <3> QED
      BY <1>1, <3>1, Locals, AloneOther DEF MeteringInv
  <2> QED
    BY <1>3, <2>3, <2>4, <2>5, <2>6, <2>7, <2>8, <2>9
    DEF Handler, Check, Report, Credit, Rows, CheckAnswer, UsageWrite, WebhookRecord, MarkPut,
        DeleteWrite
<1> QED
  BY <1>1, <1>2, <1>3

LEMMA AloneSend ==
  ASSUME OneAtATime, MeteringInv, Alone, NEW c \in Caller, Send(c)
  PROVE  Alone'
<1>1. Running = {}
  BY NoneRuns DEF Send
<1>2. PICK k \in Calls : call' = [call EXCEPT ![c].pc = k.op, ![c].call = k]
  BY DEF Send
<1> DEFINE p == call[c]
           op == k.op
<1>3. /\ p = [pc |-> p.pc, call |-> p.call, copy |-> p.copy, record |-> p.record,
              answer |-> p.answer]
      /\ DOMAIN call = Caller
  BY DEF MeteringInv, ProperRequests, ProperProc
<1>4. call'[c].pc = op /\ \A d \in Caller \ {c} : call'[d] = call[d]
  BY <1>2, <1>3
<1>5. op \in {"check", "report", "report_batch", "credit", "mark", "delete", "webhook"}
  BY MeteringAssumption DEF Call
<1>6. Running' \subseteq {c}
  BY <1>1, <1>4 DEF Running
<1> HIDE DEF op
<1>7. \A j, copy : Fresh(op, j, copy, accounts', usage_events')
  BY <1>5 DEF Fresh, FreshPcs, CreatePcs
<1> QED
  BY <1>4, <1>6, <1>7 DEF Alone, Running, Fresh

LEMMA AloneRest ==
  ASSUME MeteringInv, Alone, [Next]_vars, ~\E c \in Caller : Handler(c) \/ Send(c)
  PROVE  Alone'
<1>1. CASE Restart
  <2>1. Running' = {}
    <3>1. ASSUME NEW c \in Running PROVE call'[c].pc = "done"
      BY <1>1, <3>1 DEF Restart, Running, Idle
    <3>2. \A c \in Caller \ Running : call'[c] = call[c]
      BY <1>1 DEF Restart
    <3> QED
      BY <3>1, <3>2 DEF Running
  <2> QED
    BY <2>1 DEF Alone
<1>2. CASE UNCHANGED <<call, storeVars>>
  BY <1>2 DEF Alone, Running, Fresh, Exists, HasUsageEvent, storeVars
<1> QED
  BY <1>1, <1>2
  DEF Next, Forwarding, QuoteUsage, OpenPages, ReadPage, Terminating, vars, meterVars

LEMMA RunsAlone == OneAtATime => (Spec => []Alone)
<1> SUFFICES ASSUME OneAtATime PROVE Spec => []Alone
  OBVIOUS
<1>1. Init => Alone
  BY DEF Init, Idle, Alone, Running
<1>2. MeteringInv /\ Alone /\ [Next]_vars => Alone'
  BY AloneHandler, AloneSend, AloneRest
<1> QED
  BY <1>1, <1>2, MeteringInvariant, PTL DEF Spec

\* An event that is sent again is charged once, if requests do not overlap.
THEOREM RocksChargedOnce == OneAtATime => (Spec => []RocksEventChargedOnce)
<1> SUFFICES ASSUME OneAtATime PROVE Spec => []RocksEventChargedOnce
  OBVIOUS
<1>1. Init => RocksEventChargedOnce
  BY DEF Init, Opened, RocksEventChargedOnce
<1>2. ASSUME MeteringInv, Alone, StoredExplained, RocksEventChargedOnce, [Next]_vars
      PROVE  RocksEventChargedOnce'
  <2>1. CASE KeepsCharges \/ UNCHANGED storeVars
    BY <1>2, <2>1 DEF KeepsCharges, RocksEventChargedOnce, storeVars
  <2>2. ASSUME NEW c \in Caller, Handler(c), Charges(c) PROVE RocksEventChargedOnce'
    <3> DEFINE t == call[c].record
               id == call[c].call.id
    <3>1. /\ t.type = "usage" /\ t.ref = id /\ id \in UsageId
          /\ transactions' = transactions \cup {t}
      BY <2>2, MeteringAssumption DEF Charges, IsCharge, Reports
    <3>2. ~HasUsageEvent(id)
      BY <1>2, <2>2, AloneHandler DEF Charges, Alone, Fresh, HasUsageEvent
    <3> HIDE DEF t, id
    <3>3. \A s \in transactions : s.type = "usage" => s.ref # id
      BY <1>2, <3>1, <3>2 DEF StoredExplained, Charged
    <3> QED
      BY <1>2, <3>1, <3>3 DEF RocksEventChargedOnce
  <2> QED
    BY <1>2, <2>1, <2>2, HandlerCharges, OtherCharges
<1> QED
  BY <1>1, <1>2, MeteringInvariant, RunsAlone, RocksEventsCharged, PTL DEF Spec

-----------------------------------------------------------------------------
(* The store implements Ledger.                                            *)

Funds == [u \in User |-> IF Exists(u) THEN accounts[u].balance ELSE 0]

OnRecord == {[event |-> t.ref, user |-> t.user, cost |-> -t.amount]
               : t \in {s \in transactions : s.type = "usage"}}

LEMMA FundsNatural ==
  (MeteringInv => Funds \in [User -> Nat]) /\ (MeteringInv' => Funds' \in [User -> Nat])
<1>1. \A a \in Account : a.balance >= 0 => a.balance \in Nat
  BY DEF Account
<1>2. MeteringInv => Funds \in [User -> Nat]
  BY <1>1 DEF Funds, MeteringInv, ProperStore, Exists
<1>3. MeteringInv' => Funds' \in [User -> Nat]
  BY <1>1 DEF Funds, MeteringInv, ProperStore, Exists
<1> QED
  BY <1>2, <1>3

LEMMA SameRecords ==
  ASSUME \/ UNCHANGED transactions
         \/ \E t : t.type # "usage" /\ transactions' = transactions \cup {t}
  PROVE  UNCHANGED OnRecord
BY DEF OnRecord

\* The row of one user is put back; what it held before is gone.
LEMMA RowPut ==
  ASSUME MeteringInv, NEW u \in User, NEW a \in Account \cup {None},
         accounts' = [accounts EXCEPT ![u] = a]
  PROVE  /\ Funds'[u] = IF a = None THEN 0 ELSE a.balance
         /\ \A v \in User \ {u} : Funds'[v] = Funds[v]
         /\ Funds[u] = IF accounts[u] = None THEN 0 ELSE accounts[u].balance
BY DEF Funds, Exists, MeteringInv, ProperStore

\* A request that writes the row it has read.
LEMMA ReadRow ==
  ASSUME MeteringInv, Alone, NEW c \in Caller, c \in Running, call[c].pc \in FreshPcs
  PROVE  /\ Arg(c) = call[c].call /\ Arg(c).user \in User
         /\ call[c].copy \in Account /\ call[c].copy # None
         /\ call[c].copy = accounts[Arg(c).user]
         /\ Proper(call[c].pc, call[c].call, call[c].copy, call[c].record, turn)
<1>1. /\ Arg(c) = call[c].call /\ Arg(c).user \in User
      /\ Proper(call[c].pc, call[c].call, call[c].copy, call[c].record, turn)
  BY Callers DEF Running, MeteringInv
<1>2. call[c].copy \in Account
  BY <1>1 DEF Proper, FreshPcs, CopyPcs
<1>3. call[c].copy = accounts[call[c].call.user]
  BY DEF Alone, Fresh
<1> QED
  BY <1>1, <1>2, <1>3, MeteringAssumption

LEMMA MappedCharge ==
  ASSUME MeteringInv, MeteringInv', Alone, StoredExplained,
         NEW c \in Caller, UsageWrite(c), c \in Running
  PROVE  [A!Next]_<<Funds, OnRecord>>
<1> DEFINE k == call[c].call
           a == call[c].copy
           t == call[c].record
           cost == CostOf(k, turn)
           b == [a EXCEPT !.balance = @ - cost, !.used = @ + cost]
<1>1. /\ call[c].pc = "usage.write"
      /\ accounts' = [accounts EXCEPT ![k.user] = b]
      /\ transactions' = transactions \cup {t}
  BY DEF UsageWrite, WriteUsage, PutRecord, Cost, CostOf, At, Arg
<1>2. /\ Arg(c) = k /\ k.user \in User /\ a \in Account /\ a # None /\ a = accounts[k.user]
      /\ Proper("usage.write", k, a, t, turn)
  BY <1>1, ReadRow DEF FreshPcs
<1>3. /\ k \in Reports /\ k.id \in UsageId /\ IsCharge(t, k, turn) /\ a.balance >= cost
      /\ ~HasUsageEvent(k.id) /\ turn \in Metric /\ k.amount \in Int \cup {None}
  <2>1. turn \in Turns
    BY <1>1, Settled
  <2>2. k \in Reports /\ IsCharge(t, k, turn) /\ a.balance >= cost
    BY <1>2 DEF Proper, ReportPcs
  <2>3. ~HasUsageEvent(k.id)
    BY <1>1 DEF Alone, Fresh, HasUsageEvent
  <2> QED
    BY <2>1, <2>2, <2>3, MeteringAssumption DEF Reports, Call
<1>4. cost \in Int
  BY <1>3, CostType DEF CostOf
<1> HIDE DEF cost
<1>5. t.user = k.user /\ t.type = "usage" /\ t.ref = k.id /\ t.amount = -cost /\ cost >= 0
  BY <1>3 DEF IsCharge, cost
<1> HIDE DEF k, a, t
<1>6. b.balance = a.balance - cost /\ b \in Account
  <2> DEFINE less == a.balance - cost
             more == a.used + cost
  <2>1. less \in Int /\ more \in Int
    BY <1>2, <1>4 DEF Account
  <2> HIDE DEF less, more
  <2>2. [a EXCEPT !.balance = less, !.used = more] \in Account
    BY <1>2, <2>1 DEF Account
  <2>3. [a EXCEPT !.balance = less, !.used = more].balance = less
    BY <1>2 DEF Account
  <2> QED
    BY <2>2, <2>3 DEF less, more
<1> HIDE DEF b
<1>7. /\ Funds'[k.user] = a.balance - cost /\ Funds[k.user] = a.balance
      /\ \A v \in User \ {k.user} : Funds'[v] = Funds[v]
  <2>1. /\ Funds'[k.user] = IF b = None THEN 0 ELSE b.balance
        /\ \A v \in User \ {k.user} : Funds'[v] = Funds[v]
        /\ Funds[k.user] = IF accounts[k.user] = None THEN 0 ELSE accounts[k.user].balance
    BY <1>1, <1>2, <1>6, RowPut
  <2>2. b # None
    BY <1>6, MeteringAssumption
  <2> QED
    BY <1>2, <1>6, <2>1, <2>2
<1>8. Funds[k.user] - Funds'[k.user] = cost /\ cost \in Nat
  <2>1. a.balance \in Int
    BY <1>2 DEF Account
  <2> QED
    BY <1>4, <1>5, <1>7, <2>1
<1>9. OnRecord' = OnRecord \cup {[event |-> k.id, user |-> k.user, cost |-> cost]}
  <2>1. -t.amount = cost
    BY <1>4, <1>5
  <2> QED
    BY <1>1, <1>5, <2>1 DEF OnRecord
<1>10. \A r \in OnRecord : r.event # k.id
  BY <1>3 DEF OnRecord, StoredExplained, Charged
<1>11. PICK u \in User, e \in UsageId : u = k.user /\ e = k.id
  BY <1>2, <1>3
<1>12. A!Charge(u, e)
  BY <1>7, <1>8, <1>9, <1>10, <1>11 DEF A!Charge, A!Only, Funds, OnRecord
<1> QED
  BY <1>12, FundsNatural DEF A!Next, Funds

\* A credit of nothing moves nothing.
LEMMA MappedCredit ==
  ASSUME MeteringInv, MeteringInv', Alone, NEW c \in Caller, CreditWrite(c), c \in Running
  PROVE  [A!Next]_<<Funds, OnRecord>>
<1> DEFINE k == call[c].call
           a == call[c].copy
           t == call[c].record
           n == k.amount
           b == [a EXCEPT !.balance = @ + n]
<1>1. /\ call[c].pc = "credit.write"
      /\ accounts' = [accounts EXCEPT ![k.user] = Counted(b, n, t.type)]
      /\ transactions' = transactions \cup {t}
  BY DEF CreditWrite, WriteCredits, PutRecord, At, Arg
<1>2. /\ Arg(c) = k /\ k.user \in User /\ a \in Account /\ a # None /\ a = accounts[k.user]
      /\ Proper("credit.write", k, a, t, turn)
  BY <1>1, ReadRow DEF FreshPcs
<1>3. n \in Nat /\ t.type # "usage"
  BY <1>2, MeteringAssumption DEF Proper, CreditPcs, Credits, IsCredit
<1> HIDE DEF k, a, n
<1>4. b \in Account /\ b.balance = a.balance + n
  BY <1>2, <1>3 DEF Account
<1> HIDE DEF b
<1>5. Counted(b, n, t.type) \in Account /\ Counted(b, n, t.type).balance = b.balance
  BY <1>3, <1>4 DEF Counted, Account
<1>6. /\ Funds'[k.user] = a.balance + n /\ Funds[k.user] = a.balance
      /\ \A v \in User \ {k.user} : Funds'[v] = Funds[v]
  <2> DEFINE d == Counted(b, n, t.type)
  <2>1. d \in Account /\ d.balance = a.balance + n /\ accounts' = [accounts EXCEPT ![k.user] = d]
    BY <1>1, <1>4, <1>5
  <2> HIDE DEF d
  <2>2. /\ Funds'[k.user] = IF d = None THEN 0 ELSE d.balance
        /\ \A v \in User \ {k.user} : Funds'[v] = Funds[v]
        /\ Funds[k.user] = IF accounts[k.user] = None THEN 0 ELSE accounts[k.user].balance
    BY <1>2, <2>1, RowPut
  <2>3. d # None
    BY <2>1, MeteringAssumption
  <2> QED
    BY <1>2, <2>1, <2>2, <2>3
<1>7. OnRecord' = OnRecord
  BY <1>1, <1>3, SameRecords
<1>8. Funds \in [User -> Nat] /\ Funds' \in [User -> Nat]
  BY FundsNatural
<1>9. CASE n = 0
  <2>1. Funds' = Funds
    BY <1>2, <1>6, <1>8, <1>9
  <2> QED
    BY <1>7, <2>1
<1>10. CASE n # 0
  <2>1. Funds'[k.user] > Funds[k.user]
    BY <1>2, <1>3, <1>6, <1>8, <1>10
  <2>2. PICK u \in User : u = k.user
    BY <1>2
  <2>3. A!Credit(u)
    BY <1>6, <1>7, <2>1, <2>2 DEF A!Credit, A!Only, Funds, OnRecord
  <2> QED
    BY <1>8, <2>3 DEF A!Next, Funds
<1> QED
  BY <1>9, <1>10

\* An account that is deleted takes its credits with it.
LEMMA MappedDelete ==
  ASSUME MeteringInv, NEW c \in Caller, DeleteWrite(c), c \in Running
  PROVE  \E u \in User : A!Close(u)
<1>1. PICK u \in User : u = Arg(c).user
  BY Callers DEF Running, MeteringInv
<1>2. accounts' = [accounts EXCEPT ![u] = None] /\ UNCHANGED transactions
  BY <1>1 DEF DeleteWrite, DeleteAccount
<1>3. Funds'[u] = 0 /\ \A v \in User \ {u} : Funds'[v] = Funds[v]
  BY <1>1, <1>2, RowPut
<1>4. OnRecord' = OnRecord
  BY <1>2, SameRecords
<1>5. A!Close(u)
  BY <1>3, <1>4 DEF A!Close, A!Only, Funds, OnRecord
<1> QED
  BY <1>1, <1>5

\* Rows that are made or put back hold what there was.
LEMMA MappedRow ==
  ASSUME MeteringInv, MeteringInv', Alone, NEW c \in Caller, c \in Running,
         CheckCreate(c) \/ ReportCreate(c) \/ MarkPut(c)
  PROVE  UNCHANGED <<Funds, OnRecord>>
<1> DEFINE u == Arg(c).user
<1>1. u \in User /\ Arg(c) = call[c].call
  BY Callers DEF Running, MeteringInv
<1>2. UNCHANGED OnRecord
  BY SameRecords DEF CheckCreate, ReportCreate, MarkPut, Create, PutAccount
<1>3. ASSUME NEW a \in Account, accounts' = [accounts EXCEPT ![u] = a],
             a.balance = IF accounts[u] = None THEN 0 ELSE accounts[u].balance
      PROVE  UNCHANGED <<Funds, OnRecord>>
  <2> HIDE DEF u
  <2>1. Funds'[u] = Funds[u] /\ \A v \in User \ {u} : Funds'[v] = Funds[v]
    BY <1>1, <1>3, RowPut, MeteringAssumption
  <2>2. Funds' = Funds
    BY <2>1, FundsNatural
  <2> QED
    BY <1>2, <2>2
<1>4. CASE CheckCreate(c) \/ ReportCreate(c)
  <2>1. call[c].pc \in CreatePcs /\ accounts' = [accounts EXCEPT ![u] = NewAccount]
    BY <1>4 DEF CheckCreate, ReportCreate, Create, PutAccount, At, CreatePcs
  <2>2. accounts[u] = None
    BY <1>1, <2>1 DEF Alone, Fresh
  <2> QED
    BY <1>3, <2>1, <2>2, NewAccountProper
<1>5. CASE MarkPut(c)
  <2> DEFINE a == call[c].copy
             b == [a EXCEPT !.marked = TRUE]
  <2>1. call[c].pc = "mark.put" /\ accounts' = [accounts EXCEPT ![u] = b]
    BY <1>5 DEF MarkPut, PutAccount, At
  <2>2. a \in Account /\ a # None /\ a = accounts[u]
    BY <1>1, <2>1, ReadRow DEF FreshPcs
  <2> HIDE DEF a
  <2>3. b \in Account /\ b.balance = a.balance
    BY <2>2 DEF Account
  <2> HIDE DEF b
  <2> QED
    BY <1>3, <2>1, <2>2, <2>3
<1> QED
  BY <1>4, <1>5

\* Everything else moves no credits and charges nothing.
LEMMA MappedQuiet ==
  ASSUME NEW c \in Caller, Handler(c), ~UsageWrite(c), ~CreditWrite(c), ~DeleteWrite(c),
         ~(CheckCreate(c) \/ ReportCreate(c) \/ MarkPut(c))
  PROVE  UNCHANGED <<accounts, transactions>>
<1>1. CASE Check(c) \/ Rows(c)
  BY <1>1 DEF Check, CheckGet, CheckAnswer, Rows, MarkGet, DeleteGet, GetOrCreate, GetOrNotFound,
     storeVars
<1>2. CASE Report(c)
  BY <1>2 DEF Report, ReportGet, BatchGet, ReportCost, UsageExists, UsageGet, GetOrCreate,
     GetOrNotFound, Build, storeVars
<1>3. CASE Credit(c)
  BY <1>3 DEF Credit, WebhookReceive, CreditGet, CreditBuild, CreditRead, WebhookRecord,
     RecordWebhookEvent, GetOrNotFound, Build, storeVars
<1> QED
  BY <1>1, <1>2, <1>3 DEF Handler

LEMMA MappedMetering ==
  ASSUME MeteringInv, MeteringInv', Alone, StoredExplained, [Next]_vars
  PROVE  [A!Next \/ \E u \in User : A!Close(u)]_<<Funds, OnRecord>>
<1>1. ASSUME UNCHANGED <<accounts, transactions>> PROVE UNCHANGED <<Funds, OnRecord>>
  BY <1>1 DEF Funds, Exists, OnRecord
<1>2. ASSUME NEW c \in Caller, Handler(c)
      PROVE  [A!Next \/ \E u \in User : A!Close(u)]_<<Funds, OnRecord>>
  <2>1. c \in Running
    BY <1>2, AloneHandler
  <2> QED
    BY <1>1, <1>2, <2>1, MappedCharge, MappedCredit, MappedDelete, MappedRow, MappedQuiet
<1> QED
  BY <1>1, <1>2, OtherCharges DEF storeVars

LEMMA MappedOpening == ASSUME Init PROVE A!Init
<1>1. Funds \in [User -> Nat]
  BY MeteringInit, FundsNatural
<1>2. OnRecord = {}
  BY DEF Init, Opened, OnRecord
<1> QED
  BY <1>1, <1>2 DEF A!Init, Funds, OnRecord

\* The refinement: where requests do not overlap, the second store keeps the
\* promise of the first though it has no locks, but that an account may be
\* deleted with the credits it has.
THEOREM RocksImplements == OneAtATime => (Spec => RocksImplementsLedger)
<1> SUFFICES ASSUME OneAtATime PROVE Spec => RocksImplementsLedger
  OBVIOUS
<1>1. Spec => A!Init /\ [][A!Next \/ \E u \in User : A!Close(u)]_<<Funds, OnRecord>>
  BY MappedOpening, MappedMetering, MeteringInvariant, RunsAlone, RocksEventsCharged, PTL DEF Spec
<1> QED
  BY <1>1, PTL DEF RocksImplementsLedger, A!ClosingSpec, Funds, OnRecord

-----------------------------------------------------------------------------
(* Products and quotients, and prices of more tokens.                      *)

LEMMA MillionType == Million \in Nat \ {0}
BY PricingAssumption

LEMMA Divides ==
  ASSUME NEW n \in Nat, NEW d \in Nat \ {0}
  PROVE  n \div d \in Nat /\ d * (n \div d) <= n /\ n < d * (n \div d) + d
OBVIOUS

LEMMA Quotient == ASSUME NEW n \in Int, NEW d \in Nat \ {0}, NEW q \in Int, d * q <= n PROVE q <= n \div d
<1> DEFINE m == n \div d
<1>1. m \in Int /\ n < d * m + d
  OBVIOUS
<1> HIDE DEF m
<1> SUFFICES ASSUME q > m PROVE FALSE
  BY <1>1 DEF m
<1>2. q >= m + 1
  BY <1>1
<1>3. d * q >= d * (m + 1)
  BY <1>1, <1>2
<1> QED
  BY <1>1, <1>3

LEMMA TimesMonotone ==
  ASSUME NEW a \in Nat, NEW b \in Nat, NEW c \in Nat, NEW d \in Nat, a <= b, c <= d
  PROVE  a * c <= b * d /\ a * c \in Nat /\ b * d \in Nat
<1>1. a * c <= b * c
  OBVIOUS
<1>2. b * c <= b * d
  OBVIOUS
<1> QED
  BY <1>1, <1>2
LEMMA DivideMonotone ==
  ASSUME NEW m \in Nat, NEW n \in Nat, NEW d \in Nat \ {0}, m <= n
  PROVE  m \div d <= n \div d
OBVIOUS
LEMMA ProductFits ==
  ASSUME NEW n \in Nat, NEW rate \in Nat, Fits(n, rate)
  PROVE  Product(n, rate) = n * rate /\ (rate > 0 => n * rate <= MaxI64 /\ n <= MaxI64)
<1>1. CASE rate = 0
  BY <1>1 DEF Product
<1>2. CASE rate > 0
  <2> DEFINE q == MaxI64 \div rate
  <2>1. q \in Nat /\ rate * q <= MaxI64 /\ n <= q
    BY <1>2, MachineNumbers DEF Fits
  <2>2. Product(n, rate) = n * rate
    BY <1>2, <2>1 DEF Product
  <2> HIDE DEF q
  <2>3. rate * n <= rate * q
    BY <2>1, TimesMonotone
  <2>4. n <= rate * n
    BY <1>2
  <2> QED
    BY <2>1, <2>2, <2>3, <2>4, MachineNumbers
<1> QED
  BY <1>1, <1>2
LEMMA MarkupUp ==
  ASSUME NEW rate \in LlmPricing
  PROVE  MarkedUp(rate).input >= rate.input /\ MarkedUp(rate).output >= rate.output
BY DEF MarkedUp, LlmPricing, LlmMarkupPercent
LEMMA MarkupMonotone ==
  ASSUME NEW low \in LlmPricing, NEW high \in LlmPricing, low.input <= high.input, low.output <= high.output
  PROVE  MarkedUp(low).input <= MarkedUp(high).input /\ MarkedUp(low).output <= MarkedUp(high).output
BY DEF MarkedUp, LlmPricing, LlmMarkupPercent

LEMMA PartCostFits ==
  ASSUME NEW n \in Nat, NEW rate \in Nat, Fits(n, rate)
  PROVE  PartCost(n, rate) = (n * rate) \div Million /\ (n * rate) \div Million \in Nat
<1>1. Product(Tokens64(n), rate) = n * rate
  <2>1. CASE rate = 0
    BY <2>1 DEF Product
  <2>2. CASE rate > 0
    <3>1. Tokens64(n) = n
      BY <2>2, ProductFits, MachineNumbers DEF Tokens64
    <3> QED
      BY <3>1, ProductFits
  <2> QED
    BY <2>1, <2>2
<1> DEFINE x == n * rate
<1>2. x \in Nat
  BY TimesMonotone
<1> HIDE DEF x
<1>3. Truncated(x, Million) = x \div Million /\ x \div Million \in Nat
  BY <1>2, MillionType, Divides DEF Truncated
<1> QED
  BY <1>1, <1>3 DEF PartCost, x

LEMMA FitsLess ==
  ASSUME NEW n \in Nat, NEW many \in Nat, NEW rate \in Nat, NEW high \in Nat,
         n <= many, rate <= high, Fits(many, high)
  PROVE  Fits(n, rate)
<1> SUFFICES ASSUME rate > 0 PROVE n <= MaxI64 \div rate
  BY DEF Fits
<1>1. many * high <= MaxI64
  BY ProductFits
<1>2. n * rate <= many * high /\ n * rate \in Nat /\ many * high \in Nat
  BY TimesMonotone
<1>3. rate * n <= MaxI64
  BY <1>1, <1>2, MachineNumbers
<1> QED
  BY <1>3, Quotient, MachineNumbers

LEMMA PartCostMonotone ==
  ASSUME NEW n \in Nat, NEW many \in Nat, NEW rate \in Nat, NEW high \in Nat,
         n <= many, rate <= high, Fits(many, high)
  PROVE  /\ PartCost(n, rate) <= PartCost(many, high)
         /\ PartCost(n, rate) \in Nat /\ PartCost(many, high) \in Nat
<1>1. Fits(n, rate)
  BY FitsLess
<1>2. n * rate <= many * high /\ n * rate \in Nat /\ many * high \in Nat
  BY TimesMonotone
<1>3. /\ PartCost(n, rate) = (n * rate) \div Million
      /\ PartCost(many, high) = (many * high) \div Million
      /\ PartCost(n, rate) \in Nat /\ PartCost(many, high) \in Nat
  BY <1>1, PartCostFits
<1>4. (n * rate) \div Million <= (many * high) \div Million
  BY <1>2, DivideMonotone, MillionType
<1> QED
  BY <1>3, <1>4

LEMMA LlmCostMonotone ==
  ASSUME NEW rate \in LlmPricing, NEW high \in LlmPricing, NEW in \in Nat, NEW more \in Nat,
         NEW out \in Nat, in <= more, rate.input <= high.input, rate.output <= high.output,
         Fits(more, high.input), Fits(out, high.output)
  PROVE  LlmCost(rate, in, out) <= LlmCost(high, more, out)
<1> DEFINE x == PartCost(in, rate.input)
           y == PartCost(out, rate.output)
           x2 == PartCost(more, high.input)
           y2 == PartCost(out, high.output)
<1>1. x \in Nat /\ x2 \in Nat /\ x <= x2
  BY PartCostMonotone DEF LlmPricing
<1>2. y \in Nat /\ y2 \in Nat /\ y <= y2
  BY PartCostMonotone DEF LlmPricing
<1> HIDE DEF x, y, x2, y2
<1>3. AtLeastOne(x + y, in > 0 \/ out > 0) <= AtLeastOne(x2 + y2, more > 0 \/ out > 0)
  BY <1>1, <1>2 DEF AtLeastOne
<1> QED
  BY <1>3 DEF LlmCost, x, y, x2, y2

\* What is left of a cost that is rounded down twice.
LEMMA LlmCostCovers ==
  ASSUME NEW rate \in LlmPricing, NEW in \in Nat, NEW out \in Nat,
         Fits(in, rate.input), Fits(out, rate.output)
  PROVE  /\ LlmCost(rate, in, out) \in Nat
         /\ Million * (LlmCost(rate, in, out) + 2) > in * rate.input + out * rate.output
<1> DEFINE x == in * rate.input
           y == out * rate.output
           p == x \div Million
           q == y \div Million
           cost == LlmCost(rate, in, out)
<1>1. /\ x \in Nat /\ y \in Nat /\ PartCost(in, rate.input) = p
      /\ PartCost(out, rate.output) = q
  BY PartCostFits, TimesMonotone DEF LlmPricing
<1> HIDE DEF x, y
<1>2. p \in Nat /\ q \in Nat /\ x < Million * p + Million /\ y < Million * q + Million
  BY <1>1, MillionType, Divides
<1> HIDE DEF p, q
<1>3. cost \in Nat /\ cost >= p + q
  BY <1>1, <1>2 DEF LlmCost, AtLeastOne
<1> HIDE DEF cost
<1>4. Million * (cost + 2) >= Million * (p + q + 2)
  BY <1>2, <1>3, MillionType
<1>5. Million * (p + q + 2) = (Million * p + Million) + (Million * q + Million)
  BY <1>2, MillionType
<1>6. Million * p \in Nat /\ Million * q \in Nat /\ Million * (cost + 2) \in Nat
  BY <1>2, <1>3, MillionType, TimesMonotone
<1>7. Million * (cost + 2) > x + y
  BY <1>1, <1>2, <1>4, <1>5, <1>6, MillionType
<1> QED
  BY <1>3, <1>7 DEF x, y, cost

\* The rate of a longer prompt is not lower.
LEMMA RateMonotone ==
  ASSUME NEW provider, NEW model, NEW in \in Nat, NEW more \in Nat, in <= more
  PROVE  /\ LlmPricingForUsage(provider, model, in).input
              <= LlmPricingForUsage(provider, model, more).input
         /\ LlmPricingForUsage(provider, model, in).output
              <= LlmPricingForUsage(provider, model, more).output
<1> DEFINE rate == IF Provider(provider) = "anthropic" /\ IsSonnet5(model)
                   THEN Sonnet5Pricing ELSE TableRate(provider, model)
<1>1. rate \in LlmPricing
  BY TableRateType DEF Sonnet5Pricing, LlmPricing
<1>2. XaiThreshold \in Int /\ OpenAiThreshold \in Int /\ GoogleThreshold \in Int
  BY MillionType DEF XaiThreshold, OpenAiThreshold, GoogleThreshold
<1>3. /\ XaiLong(provider, model, in) => XaiLong(provider, model, more)
      /\ OpenAiLong(provider, model, in) => OpenAiLong(provider, model, more)
      /\ GoogleLong(provider, model, in) => GoogleLong(provider, model, more)
  BY <1>2 DEF XaiLong, OpenAiLong, GoogleLong
<1>4. XaiLong(provider, model, more) =>
        ~OpenAiLong(provider, model, in) /\ ~GoogleLong(provider, model, in)
  BY DEF XaiLong, OpenAiLong, GoogleLong
<1>5. \A n : LlmPricingForUsage(provider, model, n) =
        IF XaiLong(provider, model, n)
        THEN [input |-> 2 * rate.input, output |-> 2 * rate.output]
        ELSE IF OpenAiLong(provider, model, n) \/ GoogleLong(provider, model, n)
        THEN [input |-> 2 * rate.input, output |-> (3 * rate.output) \div 2]
        ELSE rate
  BY DEF LlmPricingForUsage
<1>6. rate.input \in Nat /\ rate.output \in Nat
  BY <1>1 DEF LlmPricing
<1> HIDE DEF rate
<1> QED
  BY <1>3, <1>4, <1>5, <1>6

\* More tokens never cost less, and no price is below what the vendor takes
\* for what was used, but for two roundings, as long as the products fit in a
\* word: over the thresholds of long prompts too, for any rates in the table.
THEOREM OrderedPrices == Spec => []PricesInOrder
<1>1. ASSUME MeteringInv PROVE PricesInOrder
  <2> SUFFICES ASSUME turn \in Quotes, NEW in \in TokenCounts,
                      LET rate == LlmPricingForUsage(turn.provider, turn.model, in)
                      IN  Fits(in, MarkedUp(rate).input) /\ Fits(turn.b, MarkedUp(rate).output)
               PROVE  LET cost(n) == LlmCostForUser(turn.provider, turn.model, n, turn.b)
                          rate == LlmPricingForUsage(turn.provider, turn.model, in)
                      IN  /\ \A less \in TokenCounts : less <= in => cost(less) <= cost(in)
                          /\ Million * (cost(in) + 2) > in * rate.input + turn.b * rate.output
    BY DEF PricesInOrder
  <2> DEFINE rate(n) == LlmPricingForUsage(turn.provider, turn.model, n)
             b == turn.b
  <2>1. TokenCounts \subseteq Nat /\ b \in Nat
    BY MeteringAssumption DEF TokenCounts, Metric
  <2>2. \A n : rate(n) \in LlmPricing /\ MarkedUp(rate(n)) \in LlmPricing
    BY UsageRateType, MarkedUpType
  <2>3. \A n : LlmCostForUser(turn.provider, turn.model, n, b) = LlmCost(MarkedUp(rate(n)), n, b)
    BY DEF LlmCostForUser
  <2>4. in \in Nat /\ Fits(in, MarkedUp(rate(in)).input) /\ Fits(b, MarkedUp(rate(in)).output)
    BY <2>1
  <2>5. ASSUME NEW less \in TokenCounts, less <= in
        PROVE  LlmCost(MarkedUp(rate(less)), less, b) <= LlmCost(MarkedUp(rate(in)), in, b)
    <3>1. rate(less).input <= rate(in).input /\ rate(less).output <= rate(in).output
      BY <2>1, <2>5, RateMonotone
    <3>2. /\ MarkedUp(rate(less)).input <= MarkedUp(rate(in)).input
          /\ MarkedUp(rate(less)).output <= MarkedUp(rate(in)).output
      BY <2>2, <3>1, MarkupMonotone
    <3> HIDE DEF rate, b
    <3> QED
      BY <2>1, <2>2, <2>4, <2>5, <3>2, LlmCostMonotone
  <2>6. LET cost == LlmCost(MarkedUp(rate(in)), in, b)
        IN  Million * (cost + 2) > in * rate(in).input + b * rate(in).output
    <3> DEFINE up == MarkedUp(rate(in))
               r == rate(in)
               cost == LlmCost(up, in, b)
               i == in
    <3>1. up.input >= r.input /\ up.output >= r.output /\ up \in LlmPricing /\ r \in LlmPricing
      BY <2>2, MarkupUp
    <3>2. cost \in Nat /\ Million * (cost + 2) > i * up.input + b * up.output
      BY <2>1, <2>2, <2>4, LlmCostCovers
    <3>3. i \in Nat
      BY <2>4
    <3> HIDE DEF up, r, cost, b, i
    <3>4. /\ i * r.input <= i * up.input /\ b * r.output <= b * up.output
          /\ i * r.input \in Nat /\ i * up.input \in Nat /\ b * r.output \in Nat /\ b * up.output \in Nat
      BY <2>1, <3>1, <3>3, TimesMonotone DEF LlmPricing
    <3>5. Million * (cost + 2) \in Nat
      BY <3>2, MillionType, TimesMonotone
    <3>6. Million * (cost + 2) > i * r.input + b * r.output
      BY <3>2, <3>4, <3>5
    <3> QED
      BY <3>6 DEF up, r, cost, i
  <2> QED
    BY <2>3, <2>5, <2>6
<1> QED
  BY <1>1, MeteringInvariant, PTL

-----------------------------------------------------------------------------
(* Names of one model.                                                     *)

Rated(list, provider, name, rate) ==
  <<provider, name>> \in DOMAIN list /\ list[<<provider, name>>] = rate

Sells(list, provider) == \A key \in DOMAIN list : key[1] = provider

LEMMA MergedSells ==
  ASSUME NEW f, NEW g, NEW provider, Sells(f, provider), Sells(g, provider)
  PROVE  Sells(f @@ g, provider)
BY MergedKeys DEF Sells

LEMMA PricedSells ==
  \A provider, names, in, out : Sells(Priced(provider, names, in, out), provider)
BY DEF Sells, Priced

LEMMA ListSells ==
  /\ Sells(AnthropicCurrent, "anthropic") /\ Sells(AnthropicLegacy, "anthropic")
  /\ Sells(OpenAi, "openai") /\ Sells(Xai, "xai") /\ Sells(Google, "google")
  /\ Sells(DeepSeekHosted, "deepseek") /\ Sells(DeepSeek, "deepseek")
  /\ Sells(Moonshot, "moonshot") /\ Sells(FireworksFirst, "fireworks")
  /\ Sells(FireworksKimi, "fireworks") /\ Sells(FireworksOthers, "fireworks")
<1> USE MergedSells, PricedSells
<1>1. Sells(AnthropicCurrent, "anthropic") /\ Sells(AnthropicLegacy, "anthropic")
  BY DEF AnthropicCurrent, AnthropicLegacy
<1>2. Sells(OpenAi, "openai")
  BY DEF OpenAi
<1>3. Sells(Xai, "xai")
  BY DEF Xai
<1>4. Sells(Google, "google")
  BY DEF Google
<1>5. Sells(DeepSeekHosted, "deepseek") /\ Sells(DeepSeek, "deepseek")
  BY DEF DeepSeekHosted, DeepSeek
<1>6. Sells(Moonshot, "moonshot") /\ Sells(FireworksFirst, "fireworks")
  BY DEF Moonshot, FireworksFirst
<1>7. Sells(FireworksKimi, "fireworks")
  BY DEF FireworksKimi
<1>8. Sells(FireworksOthers, "fireworks")
  BY DEF FireworksOthers
<1> QED
  BY <1>1, <1>2, <1>3, <1>4, <1>5, <1>6, <1>7, <1>8

\* The entry of a list that is looked up first, and of one before which the
\* name is not found.
LEMMA ChargedFirst ==
  ASSUME NEW f, NEW g, NEW provider, NEW name, NEW rate, Rated(f, provider, name, rate)
  PROVE  Rated(f @@ g, provider, name, rate)
BY MergedKeys DEF Rated

LEMMA ChargedAfter ==
  ASSUME NEW f, NEW g, NEW provider, NEW name, NEW rate,
         <<provider, name>> \notin DOMAIN f, Rated(g, provider, name, rate)
  PROVE  Rated(f @@ g, provider, name, rate)
BY MergedKeys DEF Rated

LEMMA ChargedNowhere ==
  ASSUME NEW f, NEW g, NEW key, key \notin DOMAIN f, key \notin DOMAIN g
  PROVE  key \notin DOMAIN (f @@ g)
BY MergedKeys

\* A list of one vendor's stands behind the lists of others.
LEMMA TableCharges ==
  ASSUME NEW name, NEW rate
  PROVE  /\ Rated(OpenAi, "openai", name, rate) => TableRate("openai", name) = rate
         /\ Rated(Xai, "xai", name, rate) => TableRate("xai", name) = rate
         /\ Rated(Google, "google", name, rate) => TableRate("google", name) = rate
<1>1. ASSUME NEW provider \in {"openai", "xai", "google"}, Rated(LlmPrices, provider, name, rate)
      PROVE  TableRate(provider, name) = rate
  BY <1>1 DEF Rated, TableRate
<1>2. \A provider \in {"openai", "xai", "google"} :
        <<provider, name>> \notin DOMAIN (AnthropicCurrent @@ AnthropicLegacy)
  <2>1. Sells(AnthropicCurrent @@ AnthropicLegacy, "anthropic")
    BY ListSells, MergedSells
  <2> QED
    BY <2>1 DEF Sells
<1>3. ASSUME Rated(OpenAi, "openai", name, rate) PROVE Rated(LlmPrices, "openai", name, rate)
  BY <1>2, <1>3, ChargedFirst, ChargedAfter DEF LlmPrices
<1>4. \A provider \in {"xai", "google"} :
        <<provider, name>> \notin DOMAIN (AnthropicCurrent @@ AnthropicLegacy @@ OpenAi)
  BY <1>2, ListSells, ChargedNowhere DEF Sells
<1>5. ASSUME Rated(Xai, "xai", name, rate) PROVE Rated(LlmPrices, "xai", name, rate)
  BY <1>4, <1>5, ChargedFirst, ChargedAfter DEF LlmPrices
<1>6. <<"google", name>> \notin DOMAIN (AnthropicCurrent @@ AnthropicLegacy @@ OpenAi @@ Xai)
  BY <1>4, ListSells, ChargedNowhere DEF Sells
<1>7. ASSUME Rated(Google, "google", name, rate) PROVE Rated(LlmPrices, "google", name, rate)
  BY <1>6, <1>7, ChargedFirst, ChargedAfter DEF LlmPrices
<1> QED
  BY <1>1, <1>3, <1>5, <1>7

LEMMA OpenAiBases ==
  /\ \A name \in Gpt54 : name[2] \in {"gpt-5.4", "aura-gpt-5-4"}
  /\ \A name \in Gpt55 : name[2] \in {"gpt-5.5", "aura-gpt-5-5"}
  /\ \A name \in Gpt56Sol : name[2] \in {"gpt-5.6", "gpt-5.6-sol", "aura-gpt-5-6-sol"}
  /\ \A name \in Gpt56Terra : name[2] \in {"gpt-5.6-terra", "aura-gpt-5-6-terra"}
  /\ \A name \in Gpt56Luna : name[2] \in {"gpt-5.6-luna", "aura-gpt-5-6-luna"}
<1> USE DEF Both, Bare, Gpt56
<1>1. \A name \in Gpt54 : name[2] \in {"gpt-5.4", "aura-gpt-5-4"}
  BY DEF Gpt54
<1>2. \A name \in Gpt55 : name[2] \in {"gpt-5.5", "aura-gpt-5-5"}
  BY DEF Gpt55
<1>3. \A name \in Gpt56Sol : name[2] \in {"gpt-5.6", "gpt-5.6-sol", "aura-gpt-5-6-sol"}
  BY DEF Gpt56Sol
<1>4. \A name \in Gpt56Terra : name[2] \in {"gpt-5.6-terra", "aura-gpt-5-6-terra"}
  BY DEF Gpt56Terra
<1>5. \A name \in Gpt56Luna : name[2] \in {"gpt-5.6-luna", "aura-gpt-5-6-luna"}
  BY DEF Gpt56Luna
<1> QED
  BY <1>1, <1>2, <1>3, <1>4, <1>5

OpenAiNamed(name) ==
  /\ name \in Gpt54 => Rated(OpenAi, "openai", name, [input |-> 250, output |-> 1500])
  /\ name \in Gpt55 => Rated(OpenAi, "openai", name, [input |-> 500, output |-> 3000])
  /\ name \in Gpt56Sol => Rated(OpenAi, "openai", name, [input |-> 500, output |-> 3000])
  /\ name \in Gpt56Terra => Rated(OpenAi, "openai", name, [input |-> 200, output |-> 1200])
  /\ name \in Gpt56Luna => Rated(OpenAi, "openai", name, [input |-> 20, output |-> 120])
  /\ <<"openai", name>> \in DOMAIN OpenAi =>
       \/ name \in Gpt54 \cup Gpt55 \cup Gpt56Sol \cup Gpt56Terra \cup Gpt56Luna
       \/ name[2] \in {"gpt-4o", "gpt-4o-mini", "gpt-5.4-mini", "aura-gpt-5-4-mini",
                       "gpt-5.4-nano", "aura-gpt-5-4-nano"}

LEMMA OpenAiNames == ASSUME NEW name PROVE OpenAiNamed(name)
<1> DEFINE key == <<"openai", name>>
           g4o == Priced("openai", Bare({"gpt-4o"}), 250, 1000)
           g4o_mini == Priced("openai", Bare({"gpt-4o-mini"}), 15, 60)
           sol == Priced("openai", Gpt56Sol, 500, 3000)
           terra == Priced("openai", Gpt56Terra, 200, 1200)
           luna == Priced("openai", Gpt56Luna, 20, 120)
           g54 == Priced("openai", Gpt54, 250, 1500)
           g55 == Priced("openai", Gpt55, 500, 3000)
           mini == Priced("openai", Bare({"gpt-5.4-mini", "aura-gpt-5-4-mini"}), 75, 450)
           nano == Priced("openai", Bare({"gpt-5.4-nano", "aura-gpt-5-4-nano"}), 20, 125)
<1>1. OpenAi = g4o @@ g4o_mini @@ sol @@ terra @@ luna @@ g54 @@ g55 @@ mini @@ nano
  BY DEF OpenAi
<1>2. /\ key \in DOMAIN g4o => name[2] = "gpt-4o"
      /\ key \in DOMAIN g4o_mini => name[2] = "gpt-4o-mini"
      /\ key \in DOMAIN mini => name[2] \in {"gpt-5.4-mini", "aura-gpt-5-4-mini"}
      /\ key \in DOMAIN nano => name[2] \in {"gpt-5.4-nano", "aura-gpt-5-4-nano"}
  BY DEF Priced, Bare
<1>3. /\ key \in DOMAIN sol <=> name \in Gpt56Sol
      /\ key \in DOMAIN sol => sol[key] = [input |-> 500, output |-> 3000]
      /\ key \in DOMAIN terra <=> name \in Gpt56Terra
      /\ key \in DOMAIN terra => terra[key] = [input |-> 200, output |-> 1200]
      /\ key \in DOMAIN luna <=> name \in Gpt56Luna
      /\ key \in DOMAIN luna => luna[key] = [input |-> 20, output |-> 120]
  BY DEF Priced
<1>4. /\ key \in DOMAIN g54 <=> name \in Gpt54
      /\ key \in DOMAIN g54 => g54[key] = [input |-> 250, output |-> 1500]
      /\ key \in DOMAIN g55 <=> name \in Gpt55
      /\ key \in DOMAIN g55 => g55[key] = [input |-> 500, output |-> 3000]
  BY DEF Priced
<1>5. /\ name \in Gpt54 \cup Gpt55 \cup Gpt56Sol \cup Gpt56Terra \cup Gpt56Luna =>
           key \notin DOMAIN g4o /\ key \notin DOMAIN g4o_mini
      /\ name \in Gpt54 \cup Gpt55 => name \notin Gpt56Sol /\ name \notin Gpt56Terra /\ name \notin Gpt56Luna
      /\ name \in Gpt55 => name \notin Gpt54
      /\ name \in Gpt56Terra => name \notin Gpt56Sol
      /\ name \in Gpt56Luna => name \notin Gpt56Sol /\ name \notin Gpt56Terra
  BY <1>2, OpenAiBases
<1> HIDE DEF key, g4o, g4o_mini, sol, terra, luna, g54, g55, mini, nano
<1>6. /\ name \in Gpt54 \cup Gpt55 \cup Gpt56Sol => key \in DOMAIN OpenAi
      /\ name \in Gpt54 => OpenAi[key] = [input |-> 250, output |-> 1500]
      /\ name \in Gpt55 => OpenAi[key] = [input |-> 500, output |-> 3000]
      /\ name \in Gpt56Sol => OpenAi[key] = [input |-> 500, output |-> 3000]
  BY <1>1, <1>3, <1>4, <1>5, MergedKeys
<1>7. /\ name \in Gpt56Terra \cup Gpt56Luna => key \in DOMAIN OpenAi
      /\ name \in Gpt56Terra => OpenAi[key] = [input |-> 200, output |-> 1200]
      /\ name \in Gpt56Luna => OpenAi[key] = [input |-> 20, output |-> 120]
  BY <1>1, <1>3, <1>5, MergedKeys
<1>8. key \in DOMAIN OpenAi =>
        \/ key \in DOMAIN g4o \/ key \in DOMAIN g4o_mini \/ key \in DOMAIN sol
        \/ key \in DOMAIN terra \/ key \in DOMAIN luna \/ key \in DOMAIN g54
        \/ key \in DOMAIN g55 \/ key \in DOMAIN mini \/ key \in DOMAIN nano
  BY <1>1, MergedKeys
<1>9. key \in DOMAIN OpenAi =>
        \/ name \in Gpt54 \cup Gpt55 \cup Gpt56Sol \cup Gpt56Terra \cup Gpt56Luna
        \/ name[2] \in {"gpt-4o", "gpt-4o-mini", "gpt-5.4-mini", "aura-gpt-5-4-mini",
                        "gpt-5.4-nano", "aura-gpt-5-4-nano"}
  BY <1>2, <1>3, <1>4, <1>8
<1> QED
  BY <1>6, <1>7, <1>9 DEF OpenAiNamed, Rated, key

XaiGroups ==
  {GrokBuild, Grok("grok-4.6", "aura-grok-4-6"), Grok("grok-4.5", "aura-grok-4-5"),
   Grok("grok-4.3", "aura-grok-4-3")}

LEMMA XaiBases ==
  /\ \A name \in Grok("grok-4.6", "aura-grok-4-6") : name[2] \in {"grok-4.6", "aura-grok-4-6"}
  /\ \A name \in Grok("grok-4.5", "aura-grok-4-5") : name[2] \in {"grok-4.5", "aura-grok-4-5"}
  /\ \A name \in Grok("grok-4.3", "aura-grok-4-3") : name[2] \in {"grok-4.3", "aura-grok-4-3"}
  /\ \A name \in GrokBuild :
       name[2] \in {"grok-build-0.1", "aura-grok-build-0-1", "grok-code-fast",
                   "grok-code-fast-1", "grok-code-fast-1-0825"}
<1>1. \A base, aura : \A name \in Grok(base, aura) : name[2] \in {base, aura}
  BY DEF Grok, Both, Bare
<1>2. \A name \in Both("xai/", {"grok-code-fast", "grok-code-fast-1", "grok-code-fast-1-0825"}) :
        name[2] \in {"grok-code-fast", "grok-code-fast-1", "grok-code-fast-1-0825"}
  BY DEF Both
<1> QED
  BY <1>1, <1>2 DEF GrokBuild

XaiNamed(name) ==
  /\ name \in Grok("grok-4.6", "aura-grok-4-6") =>
       Rated(Xai, "xai", name, [input |-> 200, output |-> 600])
  /\ name \in Grok("grok-4.5", "aura-grok-4-5") =>
       Rated(Xai, "xai", name, [input |-> 200, output |-> 600])
  /\ name \in Grok("grok-4.3", "aura-grok-4-3") =>
       Rated(Xai, "xai", name, [input |-> 125, output |-> 250])
  /\ name \in GrokBuild => Rated(Xai, "xai", name, [input |-> 100, output |-> 200])
  /\ <<"xai", name>> \in DOMAIN Xai => \E group \in XaiGroups : name \in group

LEMMA XaiNames == ASSUME NEW name PROVE XaiNamed(name)
<1> DEFINE key == <<"xai", name>>
           four6 == Grok("grok-4.6", "aura-grok-4-6")
           four5 == Grok("grok-4.5", "aura-grok-4-5")
           four3 == Grok("grok-4.3", "aura-grok-4-3")
           g46 == Priced("xai", four6, 200, 600)
           g45 == Priced("xai", four5, 200, 600)
           g43 == Priced("xai", four3, 125, 250)
           build == Priced("xai", GrokBuild, 100, 200)
<1>1. Xai = g46 @@ g45 @@ g43 @@ build
  BY DEF Xai
<1>2. /\ name \in four5 => name \notin four6
      /\ name \in four3 => name \notin four6 /\ name \notin four5
      /\ name \in GrokBuild => name \notin four6 /\ name \notin four5 /\ name \notin four3
  BY XaiBases
<1>3. /\ key \in DOMAIN g46 <=> name \in four6
      /\ key \in DOMAIN g46 => g46[key] = [input |-> 200, output |-> 600]
      /\ key \in DOMAIN g45 <=> name \in four5
      /\ key \in DOMAIN g45 => g45[key] = [input |-> 200, output |-> 600]
  BY DEF Priced
<1>4. /\ key \in DOMAIN g43 <=> name \in four3
      /\ key \in DOMAIN g43 => g43[key] = [input |-> 125, output |-> 250]
      /\ key \in DOMAIN build <=> name \in GrokBuild
      /\ key \in DOMAIN build => build[key] = [input |-> 100, output |-> 200]
  BY DEF Priced
<1>5. name \in four6 \/ name \in four5 \/ name \in four3 \/ name \in GrokBuild
        => \E group \in XaiGroups : name \in group
  BY DEF XaiGroups
<1> HIDE DEF key, g46, g45, g43, build, four6, four5, four3
<1>6. key \in DOMAIN Xai =>
        key \in DOMAIN g46 \/ key \in DOMAIN g45 \/ key \in DOMAIN g43 \/ key \in DOMAIN build
  BY <1>1, MergedKeys
<1>7. /\ name \in four6 => key \in DOMAIN Xai /\ Xai[key] = g46[key]
      /\ name \in four5 => key \in DOMAIN Xai /\ Xai[key] = g45[key]
      /\ name \in four3 => key \in DOMAIN Xai /\ Xai[key] = g43[key]
      /\ name \in GrokBuild => key \in DOMAIN Xai /\ Xai[key] = build[key]
  BY <1>1, <1>2, <1>3, <1>4, MergedKeys
<1> QED
  BY <1>3, <1>4, <1>5, <1>6, <1>7 DEF XaiNamed, Rated, key, four6, four5, four3

GoogleNamed(name) ==
  /\ name \in Gemini31Pro => Rated(Google, "google", name, [input |-> 200, output |-> 1200])
  /\ name \in Gemini25Pro => Rated(Google, "google", name, [input |-> 125, output |-> 1000])
  /\ <<"google", name>> \in DOMAIN Google =>
       \/ name \in Gemini31Pro \cup Gemini25Pro
       \/ name[2] \notin {"aura-gemini-3-1-pro", "gemini-3.1-pro-preview",
                          "aura-gemini-2-5-pro", "gemini-2.5-pro"}

LEMMA GoogleNames == ASSUME NEW name PROVE GoogleNamed(name)
<1> DEFINE key == <<"google", name>>
           pro31 == Priced("google", Gemini31Pro, 200, 1200)
           flash35 == Priced("google", Bare({"aura-gemini-3-5-flash", "gemini-3.5-flash"}), 150, 900)
           flash3 == Priced("google", Bare({"aura-gemini-3-flash", "gemini-3-flash-preview"}), 50, 300)
           lite31 ==
             Priced("google", Bare({"aura-gemini-3-1-flash-lite", "gemini-3.1-flash-lite"}), 25, 150)
           pro25 == Priced("google", Gemini25Pro, 125, 1000)
           flash25 == Priced("google", Bare({"aura-gemini-2-5-flash", "gemini-2.5-flash"}), 30, 250)
           lite25 ==
             Priced("google", Bare({"aura-gemini-2-5-flash-lite", "gemini-2.5-flash-lite"}), 10, 40)
<1>1. Google = pro31 @@ flash35 @@ flash3 @@ lite31 @@ pro25 @@ flash25 @@ lite25
  BY DEF Google
<1>2. /\ key \in DOMAIN flash35 => name[2] \in {"aura-gemini-3-5-flash", "gemini-3.5-flash"}
      /\ key \in DOMAIN flash3 => name[2] \in {"aura-gemini-3-flash", "gemini-3-flash-preview"}
      /\ key \in DOMAIN lite31 => name[2] \in {"aura-gemini-3-1-flash-lite", "gemini-3.1-flash-lite"}
      /\ key \in DOMAIN flash25 => name[2] \in {"aura-gemini-2-5-flash", "gemini-2.5-flash"}
      /\ key \in DOMAIN lite25 => name[2] \in {"aura-gemini-2-5-flash-lite", "gemini-2.5-flash-lite"}
  BY DEF Priced, Bare
<1>3. /\ name \in Gemini31Pro => name[2] \in {"aura-gemini-3-1-pro", "gemini-3.1-pro-preview"}
      /\ name \in Gemini25Pro => name[2] \in {"aura-gemini-2-5-pro", "gemini-2.5-pro"}
  BY DEF Gemini31Pro, Gemini25Pro, Bare
<1>4. /\ key \in DOMAIN pro31 <=> name \in Gemini31Pro
      /\ key \in DOMAIN pro31 => pro31[key] = [input |-> 200, output |-> 1200]
      /\ key \in DOMAIN pro25 <=> name \in Gemini25Pro
      /\ key \in DOMAIN pro25 => pro25[key] = [input |-> 125, output |-> 1000]
  BY DEF Priced
<1>5. name \in Gemini25Pro => /\ key \notin DOMAIN pro31 /\ key \notin DOMAIN flash35
                              /\ key \notin DOMAIN flash3 /\ key \notin DOMAIN lite31
  BY <1>2, <1>3, <1>4
<1> HIDE DEF key, pro31, flash35, flash3, lite31, pro25, flash25, lite25
<1>6. /\ name \in Gemini31Pro => key \in DOMAIN Google /\ Google[key] = pro31[key]
      /\ name \in Gemini25Pro => key \in DOMAIN Google /\ Google[key] = pro25[key]
  BY <1>1, <1>4, <1>5, MergedKeys
<1>7. key \in DOMAIN Google =>
        \/ key \in DOMAIN pro31 \/ key \in DOMAIN flash35 \/ key \in DOMAIN flash3
        \/ key \in DOMAIN lite31 \/ key \in DOMAIN pro25 \/ key \in DOMAIN flash25
        \/ key \in DOMAIN lite25
  BY <1>1, MergedKeys
<1>8. key \in DOMAIN Google =>
        \/ name \in Gemini31Pro \cup Gemini25Pro
        \/ name[2] \notin {"aura-gemini-3-1-pro", "gemini-3.1-pro-preview",
                           "aura-gemini-2-5-pro", "gemini-2.5-pro"}
  BY <1>2, <1>4, <1>7
<1> QED
  BY <1>4, <1>6, <1>8 DEF GoogleNamed, Rated, key

OpenAiGroups == {Gpt54, Gpt55, Gpt56Sol, Gpt56Terra, Gpt56Luna}

GoogleGroups == {Gemini31Pro, Gemini25Pro}

\* Two names of a group have one rate.
LEMMA SameTableRate ==
  /\ \A group \in OpenAiGroups : \A m, n \in group : TableRate("openai", m) = TableRate("openai", n)
  /\ \A group \in XaiGroups : \A m, n \in group : TableRate("xai", m) = TableRate("xai", n)
  /\ \A group \in GoogleGroups : \A m, n \in group : TableRate("google", m) = TableRate("google", n)
<1>1. ASSUME NEW name
      PROVE  /\ name \in Gpt54 => TableRate("openai", name) = [input |-> 250, output |-> 1500]
             /\ name \in Gpt55 => TableRate("openai", name) = [input |-> 500, output |-> 3000]
             /\ name \in Gpt56Sol => TableRate("openai", name) = [input |-> 500, output |-> 3000]
             /\ name \in Gpt56Terra => TableRate("openai", name) = [input |-> 200, output |-> 1200]
             /\ name \in Gpt56Luna => TableRate("openai", name) = [input |-> 20, output |-> 120]
  <2>1. OpenAiNamed(name)
    BY OpenAiNames
  <2>2. /\ name \in Gpt54 => Rated(OpenAi, "openai", name, [input |-> 250, output |-> 1500])
        /\ name \in Gpt55 => Rated(OpenAi, "openai", name, [input |-> 500, output |-> 3000])
        /\ name \in Gpt56Sol => Rated(OpenAi, "openai", name, [input |-> 500, output |-> 3000])
        /\ name \in Gpt56Terra => Rated(OpenAi, "openai", name, [input |-> 200, output |-> 1200])
        /\ name \in Gpt56Luna => Rated(OpenAi, "openai", name, [input |-> 20, output |-> 120])
    BY <2>1 DEF OpenAiNamed
  <2> QED
    BY <2>2, TableCharges
<1>2. ASSUME NEW name
      PROVE  /\ name \in Grok("grok-4.6", "aura-grok-4-6") =>
                  TableRate("xai", name) = [input |-> 200, output |-> 600]
             /\ name \in Grok("grok-4.5", "aura-grok-4-5") =>
                  TableRate("xai", name) = [input |-> 200, output |-> 600]
             /\ name \in Grok("grok-4.3", "aura-grok-4-3") =>
                  TableRate("xai", name) = [input |-> 125, output |-> 250]
             /\ name \in GrokBuild => TableRate("xai", name) = [input |-> 100, output |-> 200]
  <2>1. XaiNamed(name)
    BY XaiNames
  <2>2. /\ name \in Grok("grok-4.6", "aura-grok-4-6") =>
             Rated(Xai, "xai", name, [input |-> 200, output |-> 600])
        /\ name \in Grok("grok-4.5", "aura-grok-4-5") =>
             Rated(Xai, "xai", name, [input |-> 200, output |-> 600])
        /\ name \in Grok("grok-4.3", "aura-grok-4-3") =>
             Rated(Xai, "xai", name, [input |-> 125, output |-> 250])
        /\ name \in GrokBuild => Rated(Xai, "xai", name, [input |-> 100, output |-> 200])
    BY <2>1 DEF XaiNamed
  <2> QED
    BY <2>2, TableCharges
<1>3. ASSUME NEW name
      PROVE  /\ name \in Gemini31Pro => TableRate("google", name) = [input |-> 200, output |-> 1200]
             /\ name \in Gemini25Pro => TableRate("google", name) = [input |-> 125, output |-> 1000]
  <2>1. GoogleNamed(name)
    BY GoogleNames
  <2>2. /\ name \in Gemini31Pro =>
             Rated(Google, "google", name, [input |-> 200, output |-> 1200])
        /\ name \in Gemini25Pro =>
             Rated(Google, "google", name, [input |-> 125, output |-> 1000])
    BY <2>1 DEF GoogleNamed
  <2> QED
    BY <2>2, TableCharges
<1>4. \A group \in OpenAiGroups : \A m, n \in group : TableRate("openai", m) = TableRate("openai", n)
  BY <1>1 DEF OpenAiGroups
<1>5. \A group \in XaiGroups : \A m, n \in group : TableRate("xai", m) = TableRate("xai", n)
  BY <1>2 DEF XaiGroups
<1>6. \A group \in GoogleGroups : \A m, n \in group : TableRate("google", m) = TableRate("google", n)
  BY <1>3 DEF GoogleGroups
<1> QED
  BY <1>4, <1>5, <1>6

\* A name of the same model that is not in its group is in no list.
LEMMA OpenAiElsewhere ==
  ASSUME NEW group \in OpenAiGroups, NEW m \in Routed(group), <<"openai", m>> \in DOMAIN OpenAi
  PROVE  m \in group
<1>1. PICK n \in group : m[2] = n[2]
  BY DEF Routed
<1>2. m \in Gpt54 \cup Gpt55 \cup Gpt56Sol \cup Gpt56Terra \cup Gpt56Luna
  BY <1>1, OpenAiNames, OpenAiBases DEF OpenAiNamed, OpenAiGroups
<1> QED
  BY <1>1, <1>2, OpenAiBases DEF OpenAiGroups

LEMMA XaiElsewhere ==
  ASSUME NEW group \in XaiGroups, NEW m \in Routed(group), <<"xai", m>> \in DOMAIN Xai
  PROVE  m \in group
<1>1. PICK n \in group : m[2] = n[2]
  BY DEF Routed
<1>2. \E other \in XaiGroups : m \in other
  BY XaiNames DEF XaiNamed
<1> QED
  BY <1>1, <1>2, XaiBases DEF XaiGroups

LEMMA GoogleElsewhere ==
  ASSUME NEW group \in GoogleGroups, NEW m \in Routed(group), <<"google", m>> \in DOMAIN Google
  PROVE  m \in group
<1>1. PICK n \in group : m[2] = n[2]
  BY DEF Routed
<1>2. /\ \A name \in Gemini31Pro : name[2] \in {"aura-gemini-3-1-pro", "gemini-3.1-pro-preview"}
      /\ \A name \in Gemini25Pro : name[2] \in {"aura-gemini-2-5-pro", "gemini-2.5-pro"}
  BY DEF Gemini31Pro, Gemini25Pro, Bare
<1>3. m \in Gemini31Pro \cup Gemini25Pro
  BY <1>1, <1>2, GoogleNames DEF GoogleNamed, GoogleGroups
<1> QED
  BY <1>1, <1>2, <1>3 DEF GoogleGroups

\* Every vendor has one list, but for three that no long prompt is of.
LEMMA TableVendors ==
  ASSUME NEW provider, NEW name, <<provider, name>> \in DOMAIN LlmPrices
  PROVE  \/ provider = "openai" /\ <<provider, name>> \in DOMAIN OpenAi
         \/ provider = "xai" /\ <<provider, name>> \in DOMAIN Xai
         \/ provider = "google" /\ <<provider, name>> \in DOMAIN Google
         \/ provider \in {"anthropic", "deepseek", "moonshot", "fireworks"}
<1> DEFINE key == <<provider, name>>
<1>1. \/ key \in DOMAIN AnthropicCurrent \/ key \in DOMAIN AnthropicLegacy \/ key \in DOMAIN OpenAi
      \/ key \in DOMAIN Xai \/ key \in DOMAIN Google \/ key \in DOMAIN DeepSeekHosted
      \/ key \in DOMAIN DeepSeek \/ key \in DOMAIN Moonshot \/ key \in DOMAIN FireworksFirst
      \/ key \in DOMAIN FireworksKimi \/ key \in DOMAIN FireworksOthers
  BY MergedKeys DEF LlmPrices
<1> QED
  BY <1>1, ListSells DEF Sells

VendorGroups == ({"openai"} \X OpenAiGroups) \cup ({"xai"} \X XaiGroups) \cup ({"google"} \X GoogleGroups)

LEMMA Elsewhere ==
  ASSUME NEW model \in VendorGroups, NEW p \in VendorSpellings(model[1]), NEW m \in Routed(model[2]),
         p # model[1] \/ m \notin model[2]
  PROVE  TableRate(p, m) = DefaultLlmPricing
<1>1. <<p, m>> \notin DOMAIN LlmPrices
  <2> SUFFICES ASSUME <<p, m>> \in DOMAIN LlmPrices PROVE FALSE
    OBVIOUS
  <2>1. p \in {"openai", "OpenAI", "xai", "xAI", "google", "Google"} /\ Provider(p) = model[1]
    BY DEF VendorSpellings
  <2>2. \/ p = "openai" /\ <<p, m>> \in DOMAIN OpenAi
        \/ p = "xai" /\ <<p, m>> \in DOMAIN Xai
        \/ p = "google" /\ <<p, m>> \in DOMAIN Google
    BY <2>1, TableVendors
  <2>3. p = model[1]
    BY <2>1, <2>2 DEF Provider
  <2>4. m \in model[2]
    BY <2>2, <2>3, OpenAiElsewhere, XaiElsewhere, GoogleElsewhere DEF VendorGroups
  <2> QED
    BY <2>3, <2>4
<1> QED
  BY <1>1 DEF TableRate

\* The surcharge knows all spellings.
LEMMA RoutedListed ==
  ASSUME NEW names, NEW bases, \A n \in names : n[2] \in bases, NEW m \in Routed(names)
  PROVE  Listed(m, bases)
BY DEF Routed, Listed, Stripped, Bare

LEMMA LongBases ==
  /\ \A group \in OpenAiGroups : \A n \in group : n[2] \in OpenAiLongModels
  /\ \A group \in XaiGroups : \A n \in group : n[2] \in XaiLongModels
  /\ \A group \in GoogleGroups : \A n \in group : n[2] \in GoogleLongModels
<1>1. \A group \in OpenAiGroups : \A n \in group : n[2] \in OpenAiLongModels
  BY DEF OpenAiGroups, OpenAiLongModels
<1>2. \A group \in XaiGroups : \A n \in group : <<"xai", n>> \in DOMAIN Xai
  <2>1. ASSUME NEW n,
               \/ n \in GrokBuild
               \/ n \in Grok("grok-4.6", "aura-grok-4-6")
               \/ n \in Grok("grok-4.5", "aura-grok-4-5")
               \/ n \in Grok("grok-4.3", "aura-grok-4-3")
        PROVE  <<"xai", n>> \in DOMAIN Xai
    BY <2>1, XaiNames DEF XaiNamed, Rated
  <2> QED
    BY <2>1 DEF XaiGroups
<1>3. \A n : <<"xai", n>> \in DOMAIN Xai => n[2] \in XaiLongModels
  BY DEF XaiLongModels
<1>4. \A group \in GoogleGroups : \A n \in group : n[2] \in GoogleLongModels
  BY DEF GoogleGroups, GoogleLongModels
<1> QED
  BY <1>1, <1>2, <1>3, <1>4

LEMMA RoutedPair ==
  ASSUME NEW group, NEW n \in group, NEW prefixes, NEW bases, n \in prefixes \X bases,
         prefixes \subseteq {"", "openai/", "xai/", "google/"}
  PROVE  n \in Routed(group)
<1>1. n \in {"", "openai/", "xai/", "google/"} \X {m[2] : m \in group}
  OBVIOUS
<1> QED
  BY <1>1 DEF Routed

LEMMA OwnNamesRouted ==
  ASSUME NEW group \in OpenAiGroups \cup XaiGroups \cup GoogleGroups, NEW n \in group
  PROVE  n \in Routed(group)
<1>1. ASSUME NEW bases, NEW prefix \in {"openai/", "xai/", "google/"},
             n \in Both(prefix, bases) \/ n \in Bare(bases)
      PROVE  n \in Routed(group)
  <2>1. CASE n \in {"", prefix} \X bases
    <3>1. {"", prefix} \subseteq {"", "openai/", "xai/", "google/"}
      OBVIOUS
    <3> QED
      BY <2>1, <3>1, RoutedPair
  <2>2. CASE n \in {""} \X bases
    <3>1. {""} \subseteq {"", "openai/", "xai/", "google/"}
      OBVIOUS
    <3> QED
      BY <2>2, <3>1, RoutedPair
  <2> QED
    BY <1>1, <2>1, <2>2 DEF Both, Bare
<1>2. CASE group \in OpenAiGroups
  <2>1. \E bases : n \in Both("openai/", bases) \/ n \in Bare(bases)
    BY <1>2 DEF OpenAiGroups, Gpt54, Gpt55, Gpt56Sol, Gpt56Terra, Gpt56Luna, Gpt56
  <2> QED
    BY <1>1, <2>1
<1>3. CASE group \in XaiGroups
  <2>1. \E bases : n \in Both("xai/", bases) \/ n \in Bare(bases)
    BY <1>3 DEF XaiGroups, GrokBuild, Grok
  <2> QED
    BY <1>1, <2>1
<1>4. CASE group \in GoogleGroups
  <2>1. \E bases : n \in Bare(bases)
    BY <1>4 DEF GoogleGroups, Gemini31Pro, Gemini25Pro
  <2> QED
    BY <1>1, <2>1
<1> QED
  BY <1>2, <1>3, <1>4

\* The surcharge depends on the vendor and on the prompt alone.
Surcharged(vendor, rate, in) ==
  IF vendor = "xai" /\ in >= XaiThreshold
  THEN [input |-> 2 * rate.input, output |-> 2 * rate.output]
  ELSE IF \/ vendor = "openai" /\ in > OpenAiThreshold
          \/ vendor = "google" /\ in > GoogleThreshold
  THEN [input |-> 2 * rate.input, output |-> (3 * rate.output) \div 2]
  ELSE rate

LEMMA LongRate ==
  ASSUME NEW model \in VendorGroups, NEW p, Provider(p) = model[1], NEW m \in Routed(model[2]), NEW in
  PROVE  LlmPricingForUsage(p, m, in) = Surcharged(model[1], TableRate(p, m), in)
<1>1. /\ model[1] = "openai" => Listed(m, OpenAiLongModels)
      /\ model[1] = "xai" => Listed(m, XaiLongModels)
      /\ model[1] = "google" => Listed(m, GoogleLongModels)
  BY RoutedListed, LongBases DEF VendorGroups
<1>2. model[1] \in {"openai", "xai", "google"}
  BY DEF VendorGroups
<1> DEFINE rate == TableRate(p, m)
<1>3. LlmPricingForUsage(p, m, in) =
        IF XaiLong(p, m, in) THEN [input |-> 2 * rate.input, output |-> 2 * rate.output]
        ELSE IF OpenAiLong(p, m, in) \/ GoogleLong(p, m, in)
        THEN [input |-> 2 * rate.input, output |-> (3 * rate.output) \div 2]
        ELSE rate
  BY <1>2 DEF LlmPricingForUsage
<1>4. /\ XaiLong(p, m, in) <=> model[1] = "xai" /\ in >= XaiThreshold
      /\ OpenAiLong(p, m, in) <=> model[1] = "openai" /\ in > OpenAiThreshold
      /\ GoogleLong(p, m, in) <=> model[1] = "google" /\ in > GoogleThreshold
  BY <1>1, <1>2 DEF XaiLong, OpenAiLong, GoogleLong
<1> HIDE DEF rate
<1>5. LlmPricingForUsage(p, m, in) = Surcharged(model[1], rate, in)
  BY <1>3, <1>4 DEF Surcharged
<1> QED
  BY <1>5 DEF rate

LEMMA Sonnet5Rate ==
  ASSUME NEW p \in {"anthropic", "Anthropic"}, NEW m \in Sonnet5Names, NEW in
  PROVE  LlmPricingForUsage(p, m, in) = Sonnet5Pricing
<1>1. Provider(p) = "anthropic"
  BY DEF Provider
<1>2. IsSonnet5(m)
  BY DEF IsSonnet5, Sonnet5Names, Both
<1> QED
  BY <1>1, <1>2 DEF LlmPricingForUsage, XaiLong, OpenAiLong, GoogleLong

\* The names that the table has for one model cost the same, and the spellings
\* that it has not cost what an unlisted model does, for any number of tokens,
\* whatever a million is and however wide a word.
THEOREM SamePrice == Spec => []AliasesAgree
<1>1. LongModels = VendorGroups
  BY DEF LongModels, VendorGroups, OpenAiGroups, XaiGroups, GoogleGroups
<1>2. \A model \in VendorGroups : Provider(model[1]) = model[1]
  BY DEF VendorGroups, Provider
<1>3. ASSUME NEW model \in VendorGroups, NEW m \in model[2], NEW n \in model[2], NEW in
      PROVE  LlmPricingForUsage(model[1], m, in) = LlmPricingForUsage(model[1], n, in)
  <2>1. m \in Routed(model[2]) /\ n \in Routed(model[2])
    BY OwnNamesRouted DEF VendorGroups
  <2>2. TableRate(model[1], m) = TableRate(model[1], n)
    BY SameTableRate DEF VendorGroups
  <2> QED
    BY <1>2, <2>1, <2>2, LongRate
<1>4. ASSUME NEW model \in VendorGroups, NEW p \in VendorSpellings(model[1]),
             NEW m \in Routed(model[2]), p # model[1] \/ m \notin model[2]
      PROVE  QuotedCost(p, m) = UnlistedCost(model[1])
  <2>1. LlmPricingForUsage(p, m, turn.a) = Surcharged(model[1], DefaultLlmPricing, turn.a)
    BY <1>4, LongRate, Elsewhere DEF VendorSpellings
  <2>2. UnlistedCost(model[1])
          = LlmCost(MarkedUp(Surcharged(model[1], DefaultLlmPricing, turn.a)), turn.a, turn.b)
    BY DEF UnlistedCost, Surcharged
  <2> QED
    BY <2>1, <2>2 DEF QuotedCost, LlmCostForUser
<1>5. AliasesAgree
  BY <1>1, <1>3, <1>4, Sonnet5Rate DEF AliasesAgree, QuotedCost, LlmCostForUser
<1> QED
  BY <1>5, PTL

-----------------------------------------------------------------------------
(* What a short turn costs.                                                *)

Cheap(list) == \A k \in DOMAIN list : list[k].input <= 1500 /\ list[k].output <= 7500

LEMMA MergedCheap == ASSUME NEW f, NEW g, Cheap(f), Cheap(g) PROVE Cheap(f @@ g)
BY MergedKeys DEF Cheap

LEMMA PricedCheap ==
  \A provider, names : \A in, out \in Nat :
    in <= 1500 /\ out <= 7500 => Cheap(Priced(provider, names, in, out))
BY DEF Cheap, Priced

LEMMA TableCheap == Cheap(LlmPrices)
<1> USE PricedCheap, MergedCheap
<1>1. Cheap(AnthropicCurrent) /\ Cheap(AnthropicLegacy)
  BY DEF AnthropicCurrent, AnthropicLegacy
<1>2. Cheap(OpenAi)
  BY DEF OpenAi
<1>3. Cheap(Xai)
  BY DEF Xai
<1>4. Cheap(Google)
  BY DEF Google
<1>5. Cheap(DeepSeekHosted) /\ Cheap(DeepSeek) /\ Cheap(Moonshot)
  BY DEF DeepSeekHosted, DeepSeek, Moonshot
<1>6. Cheap(FireworksFirst) /\ Cheap(FireworksKimi)
  BY DEF FireworksFirst, FireworksKimi
<1>7. Cheap(FireworksOthers)
  BY DEF FireworksOthers
<1> QED
  BY <1>1, <1>2, <1>3, <1>4, <1>5, <1>6, <1>7 DEF LlmPrices

Thousands == Million \div 1000

LEMMA ThousandsType ==
  /\ Thousands \in Nat \ {0} /\ 1000 * Thousands <= Million
  /\ Million \div 1000 = Thousands
BY PricingAssumption DEF Thousands

\* Two thousand tokens in, and one thousand out, fit a word at any rate.
LEMMA ShortFits ==
  ASSUME NEW provider, NEW model, NEW a \in Nat, NEW b \in Nat,
         a <= 2 * Thousands, b <= Thousands
  PROVE  LET up == MarkedUp(TableRate(provider, model))
         IN  up \in LlmPricing /\ Fits(a, up.input) /\ Fits(b, up.output)
<1> DEFINE rate == TableRate(provider, model)
           up == MarkedUp(rate)
<1>1. rate \in LlmPricing /\ rate.input <= 1500 /\ rate.output <= 7500
  BY TableRateType, TableCheap DEF Cheap, TableRate, DefaultLlmPricing
<1>2. up \in LlmPricing
  BY <1>1, MarkedUpType
<1>3. up.input <= 1800 /\ up.output <= 9000
  <2> HIDE DEF rate
  <2> QED
    BY <1>1 DEF MarkedUp, LlmPricing, LlmMarkupPercent
<1> HIDE DEF up
<1>4. Fits(a, up.input)
  <2> DEFINE i == up.input
  <2>1. i \in Nat /\ i <= 1800
    BY <1>2, <1>3 DEF LlmPricing
  <2> HIDE DEF i
  <2>2. i * a <= 1800 * (2 * Thousands) /\ i * a \in Nat
    BY <2>1, ThousandsType, TimesMonotone
  <2>3. i * a <= MaxI64
    BY <2>2, ThousandsType, PricingAssumption, MachineNumbers
  <2>4. i > 0 => a <= MaxI64 \div i
    BY <2>1, <2>3, Quotient, MachineNumbers
  <2> QED
    BY <2>4 DEF Fits, i
<1>5. Fits(b, up.output)
  <2> DEFINE o == up.output
  <2>1. o \in Nat /\ o <= 9000
    BY <1>2, <1>3 DEF LlmPricing
  <2> HIDE DEF o
  <2>2. o * b <= 9000 * Thousands /\ o * b \in Nat
    BY <2>1, ThousandsType, TimesMonotone
  <2>3. o * b <= MaxI64
    BY <2>2, ThousandsType, PricingAssumption, MachineNumbers
  <2>4. o > 0 => b <= MaxI64 \div o
    BY <2>1, <2>3, Quotient, MachineNumbers
  <2> QED
    BY <2>4 DEF Fits, o
<1> QED
  BY <1>2, <1>4, <1>5 DEF up

LEMMA ReserveCovers ==
  ASSUME NEW up \in LlmPricing, NEW a \in Nat, NEW b \in Nat,
         a <= 2 * Thousands, b <= Thousands, Fits(a, up.input), Fits(b, up.output)
  PROVE  LlmCost(up, a, b) <= Reserve(up) /\ LlmCost(up, a, b) \in Int /\ Reserve(up) \in Int
<1> DEFINE i == up.input
           o == up.output
           p == (a * i) \div Million
           q == (b * o) \div Million
           full == 2 * Thousands * i + Thousands * o
           reserve == (full + Million - 1) \div Million
<1>1. i \in Nat /\ o \in Nat
  BY DEF LlmPricing
<1>2. PartCost(a, i) = p /\ PartCost(b, o) = q
  BY <1>1, PartCostFits
<1> HIDE DEF i, o
<1>3. /\ a * i \in Nat /\ b * o \in Nat
      /\ a * i <= (2 * Thousands) * i /\ b * o <= Thousands * o
      /\ (2 * Thousands) * i \in Nat /\ Thousands * o \in Nat
  BY <1>1, ThousandsType, TimesMonotone
<1>4. /\ p \in Nat /\ q \in Nat
      /\ Million * p <= a * i /\ Million * q <= b * o
  BY <1>3, MillionType, Divides
<1> HIDE DEF p, q
<1>5. full \in Nat /\ Million * p + Million * q <= full
  BY <1>3, <1>4, MillionType, TimesMonotone
<1> HIDE DEF full
<1>6. Million * (p + q) <= full + Million - 1
  BY <1>4, <1>5, MillionType
<1>7. p + q <= reserve /\ reserve \in Int
  <2> DEFINE n == full + Million - 1
  <2>1. n \in Int /\ Million * (p + q) <= n /\ p + q \in Int
    BY <1>4, <1>5, <1>6, MillionType
  <2> HIDE DEF n
  <2>2. p + q <= n \div Million /\ n \div Million \in Int
    BY <2>1, MillionType, Quotient
  <2> QED
    BY <2>2 DEF n
<1>8. Reserve(up) = Larger(1, reserve)
  BY ThousandsType DEF Reserve, reserve, full, i, o
<1> HIDE DEF reserve
<1> QED
  BY <1>2, <1>4, <1>7, <1>8 DEF LlmCost, AtLeastOne, Larger, i, o

\* The names of the models of turns, and their providers, are spelled as in
\* the table.  A turn of Sonnet 5 that is spelled otherwise is charged that
\* model's rate, but the check reserves what an unknown model takes.
Spelled(metric) ==
  metric.kind = "llm" =>
    LlmPricingForUsage(metric.provider, metric.model, 0) = TableRate(metric.provider, metric.model)

LEMMA ShortTurnCovered ==
  ASSUME NEW metric \in Metric, Spelled(metric), Short(metric)
  PROVE  /\ CalculateCost(metric) <= Required(metric)
         /\ CalculateCost(metric) \in Int /\ Required(metric) \in Int
<1> DEFINE provider == metric.provider
           model == metric.model
           rate == TableRate(provider, model)
           up == MarkedUp(rate)
           a == metric.a
           b == metric.b
<1>1. metric.kind = "llm" /\ a \in Nat /\ b \in Nat /\ a <= 2 * Thousands /\ b <= Thousands
  BY ThousandsType DEF Short, Metric
<1>2. LlmPricingForUsage(provider, model, a) = rate
  <2>1. /\ XaiThreshold > 2 * Thousands /\ OpenAiThreshold > 2 * Thousands
        /\ GoogleThreshold > 2 * Thousands
        /\ XaiThreshold \in Int /\ OpenAiThreshold \in Int /\ GoogleThreshold \in Int
    BY ThousandsType DEF XaiThreshold, OpenAiThreshold, GoogleThreshold
  <2>2. \A n \in {0, a} : /\ ~XaiLong(provider, model, n) /\ ~OpenAiLong(provider, model, n)
                          /\ ~GoogleLong(provider, model, n)
    BY <1>1, <2>1, ThousandsType DEF XaiLong, OpenAiLong, GoogleLong
  <2>3. LlmPricingForUsage(provider, model, a) = LlmPricingForUsage(provider, model, 0)
    BY <2>2 DEF LlmPricingForUsage
  <2> QED
    BY <1>1, <2>3 DEF Spelled
<1>3. CalculateCost(metric) = LlmCost(up, a, b)
  BY <1>1, <1>2 DEF CalculateCost, LlmCostForUser
<1>4. Required(metric) = Reserve(up)
  BY <1>1 DEF Required, MinimumLlmReserve
<1>5. up \in LlmPricing /\ Fits(a, up.input) /\ Fits(b, up.output)
  BY <1>1, ShortFits
<1> HIDE DEF up, a, b
<1> QED
  BY <1>1, <1>3, <1>4, <1>5, ReserveCovers

\* Who passed the check still has what the check asked for.
Reserved ==
  /\ \A u \in allowed : u \in User /\ Exists(u) /\ accounts[u].balance >= Required(turn)
  /\ turn \notin Turns => allowed = {}

LEMMA ReservedWithout ==
  ASSUME Reserved, MeteringInv, NEW u \in User, NEW a, accounts' = [accounts EXCEPT ![u] = a],
         allowed' = allowed \ {u}, UNCHANGED turn
  PROVE  Reserved'
<1>1. \A v \in User \ {u} : accounts'[v] = accounts[v]
  BY DEF MeteringInv, ProperStore
<1> QED
  BY <1>1 DEF Reserved, Exists, Required

LEMMA RequiredType == Required(turn) \in Int
<1>1. \A provider, model : MarkedUp(TableRate(provider, model)) \in LlmPricing
  BY TableRateType, MarkedUpType
<1>2. ASSUME NEW rate \in LlmPricing PROVE Reserve(rate) \in Int
  <2> DEFINE n == 2 * (Million \div 1000) * rate.input
                    + (Million \div 1000) * rate.output + Million - 1
  <2>1. n \in Int
    BY ThousandsType, MillionType, TimesMonotone DEF LlmPricing
  <2> HIDE DEF n
  <2>2. n \div Million \in Int
    BY <2>1, MillionType
  <2> QED
    BY <2>2 DEF Reserve, Larger, n
<1> QED
  BY <1>1, <1>2 DEF Required, MinimumLlmReserve

LEMMA ReservedMore ==
  ASSUME Reserved, MeteringInv, NEW u \in User, NEW a \in Account, UNCHANGED <<allowed, turn>>,
         accounts' = [accounts EXCEPT ![u] = a],
         accounts[u] # None => a.balance >= accounts[u].balance
  PROVE  Reserved'
<1>1. accounts'[u] = a /\ \A v \in User \ {u} : accounts'[v] = accounts[v]
  BY DEF MeteringInv, ProperStore
<1>2. Required(turn)' = Required(turn)
  BY DEF Required
<1>3. ASSUME NEW v \in allowed' PROVE v \in User /\ Exists(v)' /\ accounts'[v].balance >= Required(turn)'
  <2>1. v \in User /\ accounts[v] # None /\ accounts[v].balance >= Required(turn)
    BY <1>3 DEF Reserved, Exists
  <2>2. CASE v # u
    BY <1>1, <1>2, <2>1, <2>2 DEF Exists
  <2>3. CASE v = u
    <3>1. accounts[u].balance \in Int /\ a.balance \in Int /\ Required(turn) \in Int
      <4>1. accounts[u] \in Account
        BY <2>1, <2>3 DEF MeteringInv, ProperStore
      <4>2. turn \in Metric
        BY MeteringAssumption DEF MeteringInv, TurnSettled
      <4>3. Required(turn) \in Int
        BY RequiredType
      <4> QED
        BY <4>1, <4>3 DEF Account
    <3>2. a # None
      BY MeteringAssumption
    <3> QED
      BY <1>1, <1>2, <2>1, <2>3, <3>1, <3>2 DEF Exists
  <2> QED
    BY <2>2, <2>3
<1> QED
  BY <1>3 DEF Reserved

LEMMA ReservedHandler ==
  ASSUME Reserved, MeteringInv, Alone, NEW c \in Caller, Handler(c)
  PROVE  Reserved'
<1>1. c \in Running /\ Arg(c) = call[c].call /\ Arg(c).user \in User /\ Arg(c) \in Calls
  <2>1. c \in Running
    BY AloneHandler
  <2> QED
    BY <2>1, Callers DEF Running, MeteringInv
<1>2. CASE CheckAnswer(c)
  <2>1. /\ call[c].pc = "check.answer" /\ UNCHANGED <<accounts, turn>>
        /\ IF call[c].copy.balance >= Required(turn) THEN allowed' = allowed \cup {Arg(c).user}
           ELSE allowed' = allowed \ {Arg(c).user}
    BY <1>2 DEF CheckAnswer, At, storeVars
  <2>2. call[c].copy = accounts[Arg(c).user] /\ call[c].copy # None
    BY <1>1, <2>1, ReadRow DEF FreshPcs
  <2>3. turn \in Turns
    BY <2>1 DEF MeteringInv, TurnSettled
  <2> QED
    BY <1>1, <2>1, <2>2, <2>3 DEF Reserved, Exists, Required
<1>3. CASE UsageWrite(c)
  <2>1. /\ allowed' = allowed \ {Arg(c).user} /\ UNCHANGED turn
        /\ \E a : accounts' = [accounts EXCEPT ![Arg(c).user] = a]
    BY <1>3 DEF UsageWrite, WriteUsage
  <2> QED
    BY <1>1, <2>1, ReservedWithout
<1>4. CASE DeleteWrite(c)
  <2>1. /\ allowed' = allowed \ {Arg(c).user} /\ UNCHANGED turn
        /\ accounts' = [accounts EXCEPT ![Arg(c).user] = None]
    BY <1>4 DEF DeleteWrite, DeleteAccount
  <2> QED
    BY <1>1, <2>1, ReservedWithout
<1>5. CASE CreditWrite(c)
  <2> DEFINE n == Arg(c).amount
             a == call[c].copy
             b == [a EXCEPT !.balance = @ + n]
             d == Counted(b, n, call[c].record.type)
  <2>1. /\ call[c].pc = "credit.write" /\ UNCHANGED <<allowed, turn>>
        /\ accounts' = [accounts EXCEPT ![Arg(c).user] = d]
    BY <1>5 DEF CreditWrite, WriteCredits, At, Rest
  <2>2. /\ a \in Account /\ a = accounts[Arg(c).user]
        /\ Proper("credit.write", call[c].call, a, call[c].record, turn)
    BY <1>1, <2>1, ReadRow DEF FreshPcs
  <2>3. n \in Nat
    BY <1>1, <2>2, MeteringAssumption DEF Proper, CreditPcs, Credits
  <2> HIDE DEF n, a
  <2>4. b \in Account /\ b.balance = a.balance + n
    BY <2>2, <2>3 DEF Account
  <2> HIDE DEF b
  <2>5. d \in Account /\ d.balance = b.balance
    BY <2>3, <2>4 DEF Counted, Account
  <2> HIDE DEF d
  <2>6. d.balance >= a.balance
    BY <2>2, <2>3, <2>4, <2>5 DEF Account
  <2> QED
    BY <1>1, <2>1, <2>2, <2>5, <2>6, ReservedMore
<1>6. CASE CheckCreate(c) \/ ReportCreate(c)
  <2>1. /\ call[c].pc \in CreatePcs /\ accounts' = [accounts EXCEPT ![Arg(c).user] = NewAccount]
        /\ UNCHANGED <<allowed, turn>>
    BY <1>6 DEF CheckCreate, ReportCreate, Create, PutAccount, At, CreatePcs, Rest
  <2>2. accounts[Arg(c).user] = None
    BY <1>1, <2>1 DEF Alone, Fresh
  <2> QED
    BY <1>1, <2>1, <2>2, NewAccountProper, ReservedMore
<1>7. CASE MarkPut(c)
  <2> DEFINE a == call[c].copy
             b == [a EXCEPT !.marked = TRUE]
  <2>1. /\ call[c].pc = "mark.put" /\ accounts' = [accounts EXCEPT ![Arg(c).user] = b]
        /\ UNCHANGED <<allowed, turn>>
    BY <1>7 DEF MarkPut, PutAccount, At, Rest
  <2>2. a \in Account /\ a = accounts[Arg(c).user]
    BY <1>1, <2>1, ReadRow DEF FreshPcs
  <2> HIDE DEF a
  <2>3. b \in Account /\ b.balance = a.balance /\ a.balance \in Int
    BY <2>2 DEF Account
  <2> HIDE DEF b
  <2>4. b.balance >= a.balance
    BY <2>3
  <2> QED
    BY <1>1, <2>1, <2>2, <2>3, <2>4, ReservedMore
<1>8. CASE ~(\/ CheckAnswer(c) \/ UsageWrite(c) \/ DeleteWrite(c) \/ CreditWrite(c)
             \/ CheckCreate(c) \/ ReportCreate(c) \/ MarkPut(c))
  <2>1. UNCHANGED accounts
    BY <1>8, MappedQuiet
  <2>2. UNCHANGED <<allowed, turn>>
    BY <1>8 DEF Handler, Check, Report, Credit, Rows, CheckGet, ReportGet, BatchGet, ReportCost,
       UsageExists, UsageGet, WebhookReceive, CreditGet, CreditBuild, CreditRead, WebhookRecord,
       MarkGet, DeleteGet, GetOrCreate, GetOrNotFound, Build, Rest
  <2> QED
    BY <2>1, <2>2 DEF Reserved, Exists, Required
<1> QED
  BY <1>2, <1>3, <1>4, <1>5, <1>6, <1>7, <1>8

\* A turn that was checked can be paid: where requests do not overlap, the
\* account of whoever passed the check and did not report since has what a
\* short turn of the model costs, for any table and any rounding, if the model
\* is spelled as the table spells it.
THEOREM TurnStaysAffordable ==
  OneAtATime /\ (\A t \in Turns : Spelled(t)) => (Spec => []TurnAffordable)
<1> SUFFICES ASSUME OneAtATime, \A t \in Turns : Spelled(t) PROVE Spec => []TurnAffordable
  OBVIOUS
<1>1. Init => Reserved
  BY DEF Init, Reserved
<1>2. ASSUME Reserved, MeteringInv, Alone, [Next]_vars PROVE Reserved'
  <2>1. CASE \E c \in Caller : Handler(c)
    BY <1>2, <2>1, ReservedHandler
  <2>2. CASE QuoteUsage
    BY <1>2, <2>2 DEF QuoteUsage, Reserved
  <2>3. CASE UNCHANGED <<accounts, turn, allowed>>
    BY <1>2, <2>3 DEF Reserved, Exists, Required
  <2> QED
    BY <1>2, <2>1, <2>2, <2>3
    DEF Next, vars, storeVars, meterVars, Send, Rest, Forwarding, OpenPages, ReadPage, Restart, Terminating
<1>3. ASSUME Reserved, MeteringInv PROVE TurnAffordable
  <2> SUFFICES ASSUME Short(turn), NEW u \in allowed
               PROVE  accounts[u].balance >= CalculateCost(turn)
    BY DEF TurnAffordable
  <2>1. turn \in Turns /\ turn \in Metric
    BY <1>3, MeteringAssumption DEF Reserved
  <2>2. /\ CalculateCost(turn) <= Required(turn)
        /\ CalculateCost(turn) \in Int /\ Required(turn) \in Int
    BY <2>1, ShortTurnCovered
  <2>3. accounts[u].balance >= Required(turn) /\ accounts[u] \in Account
    BY <1>3 DEF Reserved, Exists, MeteringInv, ProperStore
  <2> QED
    BY <2>2, <2>3 DEF Account
<1> QED
  BY <1>1, <1>2, <1>3, MeteringInvariant, RunsAlone, PTL DEF Spec

-----------------------------------------------------------------------------
(* The counters of the store.                                              *)

RecordPcs == {"usage.exists", "usage.get", "usage.write", "credit.get", "credit.write"}

Amount == [t \in Transaction |-> t.amount]

UncountedTypes == {"monthly_allowance", "signup_grant", "daily_grant", "referral_bonus"}

Counters(a) == a.purchased + a.granted - a.used

Explained(u) ==
  /\ IsFiniteSet(Uncounted(u))
  /\ Exists(u) => accounts[u].balance = Counters(accounts[u]) + Total(Amount, Uncounted(u))
  /\ ~Exists(u) => Uncounted(u) = {}

\* Counters and records explain a balance, a record that is built is of a new
\* id, and only who is asked to deletes.
Counting ==
  /\ \A u \in User : ~Deletable(u) => Explained(u)
  /\ \A c \in Running :
       /\ call[c].pc \in RecordPcs => \A t \in transactions : t.id # call[c].record.id
       /\ call[c].pc \in {"delete", "delete.write"} => Arg(c).op = "delete"

LEMMA AmountsSummed ==
  ASSUME NEW S, S \subseteq Transaction
  PROVE  MapThenSumSet(LAMBDA t : t.amount, S) = Total(Amount, S)
BY DEF MapThenSumSet, MapThenFoldSet, Total, Amount

LEMMA AmountsWhole == ASSUME NEW S, S \subseteq Transaction PROVE Whole(Amount, S)
BY DEF Whole, Amount, Transaction

LEMMA CountersType == ASSUME NEW a \in Account PROVE Counters(a) \in Int /\ a.balance \in Int
BY DEF Counters, Account

\* The users of whom nothing is written.
LEMMA OthersExplained ==
  ASSUME NEW u, Explained(u), accounts'[u] = accounts[u],
         UNCHANGED transactions \/ \E t : t.user # u /\ transactions' = transactions \cup {t}
  PROVE  Explained(u)'
<1>1. Uncounted(u)' = Uncounted(u)
  BY DEF Uncounted
<1> QED
  BY <1>1 DEF Explained, Exists

\* A row is put back, with or without a record.
LEMMA RowExplained ==
  ASSUME MeteringInv, NEW u \in User, Explained(u), NEW a \in Account,
         accounts' = [accounts EXCEPT ![u] = a],
         \/ UNCHANGED transactions
         \/ \E t : t.type \notin UncountedTypes /\ transactions' = transactions \cup {t},
         IF Exists(u) THEN a.balance - Counters(a) = accounts[u].balance - Counters(accounts[u])
         ELSE a.balance = Counters(a)
  PROVE  Explained(u)'
<1>1. Uncounted(u)' = Uncounted(u)
  BY DEF Uncounted, UncountedTypes
<1>2. accounts'[u] = a /\ a # None
  BY MeteringAssumption DEF MeteringInv, ProperStore
<1>3. Uncounted(u) \subseteq Transaction
  BY DEF Uncounted, MeteringInv, ProperStore
<1> DEFINE n == Total(Amount, Uncounted(u))
<1>4. n \in Int
  BY <1>3, AmountsWhole, TotalType DEF Explained
<1>5. a.balance = Counters(a) + n
  <2>1. Counters(a) \in Int /\ a.balance \in Int
    BY CountersType
  <2>2. CASE Exists(u)
    <3>1. accounts[u] \in Account
      BY <2>2 DEF Exists, MeteringInv, ProperStore
    <3>2. /\ Counters(accounts[u]) \in Int /\ accounts[u].balance \in Int
          /\ accounts[u].balance = Counters(accounts[u]) + n
      BY <2>2, <3>1, CountersType DEF Explained
    <3> HIDE DEF n
    <3> QED
      BY <1>4, <2>1, <2>2, <3>2
  <2>3. CASE ~Exists(u)
    <3>1. n = 0
      BY <2>3, TotalEmpty DEF Explained
    <3> HIDE DEF n
    <3> QED
      BY <2>1, <2>3, <3>1
  <2> QED
    BY <2>2, <2>3
<1> QED
  BY <1>1, <1>2, <1>5 DEF Explained, Exists

\* A record that no counter has.
LEMMA RecordExplained ==
  ASSUME MeteringInv, NEW u \in User, Explained(u), Exists(u), NEW a \in Account,
         NEW t \in Transaction, t.user = u, t.type \in UncountedTypes,
         \A s \in transactions : s.id # t.id,
         accounts' = [accounts EXCEPT ![u] = a], transactions' = transactions \cup {t},
         Counters(a) = Counters(accounts[u]), a.balance = accounts[u].balance + t.amount
  PROVE  Explained(u)'
<1> DEFINE S == Uncounted(u)
<1>1. Uncounted(u)' = S \cup {t} /\ t \notin S
  BY DEF Uncounted, UncountedTypes
<1>2. accounts'[u] = a /\ a # None
  BY MeteringAssumption DEF MeteringInv, ProperStore
<1>3. S \cup {t} \subseteq Transaction
  BY DEF Uncounted, MeteringInv, ProperStore
<1>4. IsFiniteSet(S) /\ IsFiniteSet(S \cup {t})
  BY FS_AddElement DEF Explained
<1>5. Total(Amount, S \cup {t}) = Total(Amount, S) + t.amount /\ Total(Amount, S) \in Int
  <2>1. Whole(Amount, S \cup {t}) /\ Whole(Amount, S)
    BY <1>3, AmountsWhole
  <2>2. Amount[t] = t.amount
    BY DEF Amount
  <2> HIDE DEF S
  <2>3. Total(Amount, S) \in Int
    BY <1>4, <2>1, TotalType
  <2>4. Total(Amount, S \cup {t}) = Total(Amount, S) + Amount[t]
    BY <1>1, <1>4, <2>1, TotalAdds
  <2> QED
    BY <2>2, <2>3, <2>4
<1> DEFINE n == Total(Amount, S)
           b == accounts[u]
<1>6. b \in Account /\ b.balance = Counters(b) + n
  BY DEF Explained, Exists, MeteringInv, ProperStore
<1>7. a.balance = Counters(a) + (n + t.amount)
  <2>1. Counters(b) \in Int /\ b.balance \in Int /\ t.amount \in Int
    BY <1>6, CountersType DEF Transaction
  <2>2. Counters(a) = Counters(b) /\ a.balance = b.balance + t.amount
    OBVIOUS
  <2> HIDE DEF n, b
  <2> QED
    BY <1>5, <1>6, <2>1, <2>2 DEF n
<1> QED
  BY <1>1, <1>2, <1>4, <1>5, <1>7 DEF Explained, Exists

\* A charge is counted as used.
LEMMA ChargeExplained ==
  ASSUME MeteringInv, Alone, Counting, NEW c \in Caller, c \in Running, UsageWrite(c),
         NEW u \in User, ~Deletable(u)
  PROVE  Explained(u)'
<1> DEFINE k == call[c].call
           a == call[c].copy
           t == call[c].record
           cost == CostOf(k, turn)
           less == a.balance - cost
           more == a.used + cost
           b == [a EXCEPT !.balance = less, !.used = more]
<1>1. /\ call[c].pc = "usage.write"
      /\ accounts' = [accounts EXCEPT ![k.user] = b]
      /\ transactions' = transactions \cup {t}
  BY DEF UsageWrite, WriteUsage, PutRecord, Cost, CostOf, At, Arg
<1>2. /\ Arg(c) = k /\ k.user \in User /\ a \in Account /\ a # None /\ a = accounts[k.user]
      /\ Proper("usage.write", k, a, t, turn)
  BY <1>1, ReadRow DEF FreshPcs
<1>3. /\ k \in Reports /\ IsCharge(t, k, turn) /\ turn \in Metric /\ k.amount \in Int \cup {None}
  <2>1. turn \in Turns
    BY <1>1, Settled
  <2>2. k \in Reports /\ IsCharge(t, k, turn)
    BY <1>2 DEF Proper, ReportPcs
  <2> QED
    BY <2>1, <2>2, MeteringAssumption DEF Reports, Call
<1>4. cost \in Int /\ t.user = k.user /\ t.type = "usage"
  BY <1>3, CostType DEF CostOf, IsCharge
<1> HIDE DEF cost, k, t
<1>5. b \in Account /\ b.balance - Counters(b) = a.balance - Counters(a)
  <2>1. less \in Int /\ more \in Int
    BY <1>2, <1>4 DEF Account
  <2> HIDE DEF less, more
  <2>2. /\ b \in Account /\ b.balance = less /\ b.used = more
        /\ b.purchased = a.purchased /\ b.granted = a.granted
    BY <1>2, <2>1 DEF Account
  <2>3. a.balance \in Int /\ a.purchased \in Int /\ a.granted \in Int /\ a.used \in Int
    BY <1>2 DEF Account
  <2> HIDE DEF b, a
  <2> QED
    BY <1>4, <2>2, <2>3 DEF Counters, less, more
<1>6. Explained(u)
  BY DEF Counting
<1> HIDE DEF b, a
<1>7. CASE u = k.user
  BY <1>1, <1>2, <1>4, <1>5, <1>6, <1>7, RowExplained DEF Exists, UncountedTypes
<1>8. CASE u # k.user
  BY <1>1, <1>4, <1>6, <1>8, OthersExplained DEF MeteringInv, ProperStore
<1> QED
  BY <1>7, <1>8

\* A credit is counted by its type, or has a record that is.
LEMMA CreditExplained ==
  ASSUME MeteringInv, Alone, Counting, NEW c \in Caller, c \in Running, CreditWrite(c),
         NEW u \in User, ~Deletable(u)
  PROVE  Explained(u)'
<1> DEFINE k == call[c].call
           a == call[c].copy
           t == call[c].record
           n == k.amount
           sum == a.balance + n
           b == [a EXCEPT !.balance = sum]
           d == Counted(b, n, t.type)
<1>1. /\ call[c].pc = "credit.write"
      /\ accounts' = [accounts EXCEPT ![k.user] = d]
      /\ transactions' = transactions \cup {t}
  BY DEF CreditWrite, WriteCredits, PutRecord, At, Arg
<1>2. /\ Arg(c) = k /\ k.user \in User /\ a \in Account /\ a # None /\ a = accounts[k.user]
      /\ Proper("credit.write", k, a, t, turn)
  BY <1>1, ReadRow DEF FreshPcs
<1>3. /\ n \in Nat /\ t.type # "usage" /\ t \in Transaction /\ t.user = k.user /\ t.amount = n
      /\ \A s \in transactions : s.id # t.id
  BY <1>1, <1>2, MeteringAssumption DEF Proper, CreditPcs, Credits, IsCredit, Counting, RecordPcs
<1>4. t.type \in TransactionType
  BY <1>3 DEF Transaction
<1>5. Explained(u)
  BY DEF Counting
<1> HIDE DEF k, t, n
<1>6. /\ a.balance \in Int /\ a.purchased \in Int /\ a.granted \in Int /\ a.used \in Int /\ sum \in Int
  BY <1>2, <1>3 DEF Account
<1> DEFINE p == a.purchased + n
           g == a.granted + n
<1>7. /\ b \in Account /\ b.balance = sum /\ b.purchased = a.purchased /\ b.granted = a.granted
      /\ b.used = a.used
  <2> HIDE DEF sum
  <2> QED
    BY <1>2, <1>6 DEF Account
<1>8. /\ d \in Account /\ d.balance = sum
      /\ Counters(d) = IF t.type \in UncountedTypes THEN Counters(a) ELSE Counters(a) + n
  <2> HIDE DEF b, sum
  <2>1. CASE t.type \in {"purchase", "auto_refill"}
    <3>1. d = [b EXCEPT !.purchased = p]
      BY <1>7, <2>1 DEF Counted
    <3>2. p \in Int
      BY <1>3, <1>6
    <3> HIDE DEF p, d
    <3>3. d \in Account /\ d.balance = sum /\ d.purchased = p /\ d.granted = a.granted /\ d.used = a.used
      BY <1>7, <3>1, <3>2 DEF Account
    <3>4. t.type \notin UncountedTypes
      BY <2>1 DEF UncountedTypes
    <3> HIDE DEF a
    <3> QED
      BY <1>3, <1>6, <3>3, <3>4 DEF Counters, p
  <2>2. CASE t.type \in {"subscription_grant", "bonus"}
    <3>1. d = [b EXCEPT !.granted = g]
      BY <1>7, <2>2 DEF Counted
    <3>2. g \in Int
      BY <1>3, <1>6
    <3> HIDE DEF g, d
    <3>3. d \in Account /\ d.balance = sum /\ d.purchased = a.purchased /\ d.granted = g /\ d.used = a.used
      BY <1>7, <3>1, <3>2 DEF Account
    <3>4. t.type \notin UncountedTypes
      BY <2>2 DEF UncountedTypes
    <3> HIDE DEF a
    <3> QED
      BY <1>3, <1>6, <3>3, <3>4 DEF Counters, g
  <2>3. CASE t.type \notin {"purchase", "auto_refill", "subscription_grant", "bonus"}
    <3>1. t.type \in UncountedTypes
      BY <1>3, <1>4, <2>3 DEF TransactionType, UncountedTypes
    <3>2. d = b
      BY <2>3 DEF Counted
    <3> HIDE DEF d, a
    <3> QED
      BY <1>7, <3>1, <3>2 DEF Counters
  <2> QED
    BY <2>1, <2>2, <2>3
<1> HIDE DEF d, b
<1>9. CASE u = k.user /\ t.type \in UncountedTypes
  <2>1. d.balance = accounts[u].balance + t.amount /\ Counters(d) = Counters(accounts[u]) /\ Exists(u)
    BY <1>2, <1>3, <1>8, <1>9 DEF Exists
  <2> HIDE DEF a
  <2> QED
    BY <1>1, <1>3, <1>5, <1>8, <1>9, <2>1, RecordExplained
<1>10. CASE u = k.user /\ t.type \notin UncountedTypes
  <2>1. Counters(a) \in Int
    BY <1>2, CountersType
  <2>2. d.balance - Counters(d) = a.balance - Counters(a)
    <3> HIDE DEF a
    <3> QED
      BY <1>3, <1>6, <1>8, <1>10, <2>1
  <2>3. Exists(u) /\ a = accounts[u]
    BY <1>2, <1>10 DEF Exists
  <2> HIDE DEF a
  <2> QED
    BY <1>1, <1>5, <1>8, <1>10, <2>2, <2>3, RowExplained
<1>11. CASE u # k.user
  BY <1>1, <1>3, <1>5, <1>11, OthersExplained DEF MeteringInv, ProperStore
<1> QED
  BY <1>9, <1>10, <1>11

\* Rows that are made or put back count what there was.
LEMMA RowsExplained ==
  ASSUME MeteringInv, Alone, Counting, NEW c \in Caller, c \in Running,
         CheckCreate(c) \/ ReportCreate(c) \/ MarkPut(c) \/ DeleteWrite(c),
         NEW v \in User, ~Deletable(v)
  PROVE  Explained(v)'
<1> DEFINE u == Arg(c).user
<1>1. u \in User /\ Arg(c) = call[c].call /\ Arg(c) \in Calls /\ Explained(v)
  BY Callers DEF Running, MeteringInv, Counting
<1>2. UNCHANGED transactions
  BY DEF CheckCreate, ReportCreate, MarkPut, DeleteWrite, Create, PutAccount, DeleteAccount
<1>3. \E a : accounts' = [accounts EXCEPT ![u] = a]
  BY DEF CheckCreate, ReportCreate, MarkPut, DeleteWrite, Create, PutAccount, DeleteAccount
<1>4. CASE v # u
  <2>1. accounts'[v] = accounts[v]
    BY <1>3, <1>4 DEF MeteringInv, ProperStore
  <2> QED
    BY <1>1, <1>2, <2>1, OthersExplained
<1>5. CASE v = u /\ (CheckCreate(c) \/ ReportCreate(c))
  <2>1. call[c].pc \in CreatePcs /\ accounts' = [accounts EXCEPT ![u] = NewAccount]
    BY <1>5 DEF CheckCreate, ReportCreate, Create, PutAccount, At, CreatePcs
  <2>2. ~Exists(u)
    BY <1>1, <2>1 DEF Alone, Fresh, Exists
  <2>3. NewAccount.balance = Counters(NewAccount) /\ NewAccount \in Account
    BY NewAccountProper DEF NewAccount, Counters
  <2> HIDE DEF u
  <2> QED
    BY <1>1, <1>2, <1>5, <2>1, <2>2, <2>3, RowExplained
<1>6. CASE v = u /\ MarkPut(c)
  <2> DEFINE a == call[c].copy
             b == [a EXCEPT !.marked = TRUE]
  <2>1. call[c].pc = "mark.put" /\ accounts' = [accounts EXCEPT ![u] = b]
    BY <1>6 DEF MarkPut, PutAccount, At
  <2>2. a \in Account /\ a # None /\ a = accounts[u]
    BY <1>1, <2>1, ReadRow DEF FreshPcs
  <2> HIDE DEF a, u
  <2>3. b \in Account /\ b.balance = a.balance /\ Counters(b) = Counters(a)
    BY <2>2 DEF Account, Counters
  <2> HIDE DEF b
  <2>4. Exists(u) /\ b.balance - Counters(b) = accounts[u].balance - Counters(accounts[u])
    BY <2>2, <2>3 DEF Exists
  <2> QED
    BY <1>1, <1>2, <1>6, <2>1, <2>3, <2>4, RowExplained
<1>7. CASE v = u /\ DeleteWrite(c)
  <2>1. Arg(c).op = "delete"
    BY <1>7 DEF DeleteWrite, At, Counting
  <2> QED
    BY <1>1, <1>7, <2>1 DEF Deletable
<1> QED
  BY <1>4, <1>5, <1>6, <1>7

\* The record of a request is of an id that is new, until it is written.
LEMMA NewIds ==
  ASSUME MeteringInv, Alone, Counting, NEW c \in Caller, c \in Running, Handler(c), c \in Running'
  PROVE  /\ call'[c].call = call[c].call
         /\ call'[c].pc \in RecordPcs => \A t \in transactions' : t.id # call'[c].record.id
         /\ call'[c].pc \in {"delete", "delete.write"} => call[c].pc = "delete"
<1> DEFINE Good(pc, t) == /\ pc \in RecordPcs => \A s \in transactions' : s.id # t.id
                          /\ pc \in {"delete", "delete.write"} => call[c].pc = "delete"
<1>0. call[c].pc \in RecordPcs => \A t \in transactions : t.id # call[c].record.id
  BY DEF Counting
<1>1. ASSUME NEW pc, NEW a, NEW t, NEW x, Becomes(c, pc, a, t, x), Good(pc, t)
      PROVE  /\ call'[c].call = call[c].call
             /\ call'[c].pc \in RecordPcs => \A s \in transactions' : s.id # call'[c].record.id
             /\ call'[c].pc \in {"delete", "delete.write"} => call[c].pc = "delete"
  <2>1. call'[c].pc = pc /\ call'[c].record = t /\ call'[c].call = call[c].call
    BY <1>1 DEF Becomes
  <2> QED
    BY <1>1, <2>1
<1>2. ASSUME NEW x, Answer(c, x) PROVE FALSE
  <2>1. Becomes(c, "done", None, None, x)
    BY <1>2, Locals DEF MeteringInv
  <2> QED
    BY <2>1 DEF Becomes, Running
<1>3. ASSUME NEW pc, Goto(c, pc), Good(pc, call[c].record)
      PROVE  \E a, t, x : Becomes(c, pc, a, t, x) /\ Good(pc, t)
  <2>1. Becomes(c, pc, call[c].copy, call[c].record, call[c].answer)
    BY <1>3, Locals DEF MeteringInv
  <2> HIDE DEF Good
  <2> QED
    BY <1>3, <2>1
<1>4. ASSUME NEW pc, NEW a, Keep(c, a, pc), Good(pc, call[c].record)
      PROVE  \E b, t, x : Becomes(c, pc, b, t, x) /\ Good(pc, t)
  BY <1>4, Locals DEF MeteringInv
<1>5. ASSUME NEW type, NEW amount, NEW ref, NEW pc, Build(c, type, amount, ref, pc),
             pc \notin {"delete", "delete.write"}
      PROVE  \E b, t, x : Becomes(c, pc, b, t, x) /\ Good(pc, t)
  <2>1. PICK id, created :
          /\ Stamped(id, created)
          /\ Becomes(c, pc, call[c].copy, Built(c, id, created, type, amount, ref), call[c].answer)
    BY <1>5, Locals DEF MeteringInv
  <2>2. Built(c, id, created, type, amount, ref).id = id /\ UNCHANGED transactions
    BY <1>5 DEF Built, Build
  <2>3. \A s \in transactions : s.id # id
    BY <2>1 DEF Stamped, FreshIds
  <2>4. Good(pc, Built(c, id, created, type, amount, ref))
    BY <1>5, <2>2, <2>3
  <2> HIDE DEF Good
  <2> QED
    BY <2>1, <2>4
<1>6. \E pc, a, t, x : Becomes(c, pc, a, t, x) /\ Good(pc, t)
  <2>1. CASE Check(c)
    <3>1. \/ \E pc \in {"check.create"} : Goto(c, pc)
          \/ \E pc \in {"check.answer"} : \E a : Keep(c, a, pc)
      BY <1>2, <2>1 DEF Check, CheckGet, CheckCreate, CheckAnswer, GetOrCreate, Create
    <3>2. \A pc \in {"check.create", "check.answer"} : Good(pc, call[c].record)
      BY DEF RecordPcs
    <3> HIDE DEF Good
    <3> QED
      BY <1>3, <1>4, <3>1, <3>2
  <2>2. CASE Rows(c)
    <3>1. \E pc \in {"mark.put", "delete.write"} : \E a : Keep(c, a, pc) /\ (pc = "delete.write" => call[c].pc = "delete")
      BY <1>2, <2>2 DEF Rows, MarkGet, MarkPut, DeleteGet, DeleteWrite, GetOrNotFound, At
    <3> QED
      BY <1>4, <3>1 DEF RecordPcs
  <2>3. CASE ReportGet(c) \/ ReportCreate(c) \/ BatchGet(c)
    <3>1. \/ \E pc \in {"report.create"} : Goto(c, pc)
          \/ \E pc \in {"report.cost"} : \E a : Keep(c, a, pc)
      BY <1>2, <2>3 DEF ReportGet, ReportCreate, BatchGet, GetOrCreate, GetOrNotFound, Create
    <3>2. \A pc \in {"report.create", "report.cost"} : Good(pc, call[c].record)
      BY DEF RecordPcs
    <3> HIDE DEF Good
    <3> QED
      BY <1>3, <1>4, <3>1, <3>2
  <2>4. CASE ReportCost(c) \/ CreditBuild(c)
    <3>1. \E type, amount, ref : \E pc \in {"usage.exists", "credit.get"} : Build(c, type, amount, ref, pc)
      BY <1>2, <2>4 DEF ReportCost, CreditBuild
    <3> HIDE DEF Good
    <3> QED
      BY <1>5, <3>1
  <2>5. CASE UsageExists(c) \/ UsageGet(c) \/ CreditRead(c)
    <3>1. /\ call[c].pc \in RecordPcs /\ UNCHANGED transactions
          /\ \/ \E pc \in {"usage.get"} : Goto(c, pc)
             \/ \E pc \in {"usage.write", "credit.write"} : \E a : Keep(c, a, pc)
      BY <1>2, <2>5 DEF UsageExists, UsageGet, CreditRead, GetOrNotFound, At, RecordPcs, storeVars
    <3>2. \A pc \in {"usage.get", "usage.write", "credit.write"} : Good(pc, call[c].record)
      BY <1>0, <3>1
    <3> HIDE DEF Good
    <3> QED
      BY <1>3, <1>4, <3>1, <3>2
  <2>6. CASE WebhookReceive(c) \/ CreditGet(c) \/ CreditWrite(c)
    <3>1. \/ \E pc \in {"credit", "webhook.record"} : Goto(c, pc)
          \/ \E pc \in {"credit.build"} : \E a : Keep(c, a, pc)
      BY <1>2, <2>6 DEF WebhookReceive, CreditGet, CreditWrite, GetOrNotFound
    <3>2. \A pc \in {"credit", "webhook.record", "credit.build"} : Good(pc, call[c].record)
      BY DEF RecordPcs
    <3> HIDE DEF Good
    <3> QED
      BY <1>3, <1>4, <3>1, <3>2
  <2> QED
    BY <1>2, <2>1, <2>2, <2>3, <2>4, <2>5, <2>6 DEF Handler, Report, Credit, UsageWrite, WebhookRecord
<1> HIDE DEF Good
<1> QED
  BY <1>1, <1>6

LEMMA CountingHandler ==
  ASSUME MeteringInv, Alone, Counting, NEW c \in Caller, Handler(c)
  PROVE  Counting'
<1>1. c \in Running /\ Alone'
  BY AloneHandler
<1>2. ASSUME NEW u \in User, ~Deletable(u) PROVE Explained(u)'
  <2>1. CASE UNCHANGED <<accounts, transactions>>
    BY <1>2, <2>1, OthersExplained DEF Counting
  <2> QED
    BY <1>1, <1>2, <2>1, MappedQuiet, ChargeExplained, CreditExplained, RowsExplained
<1>3. Running' \subseteq {c}
  <2>1. \A d \in Caller \ {c} : d \notin Running /\ call'[d] = call[d]
    BY <1>1, OthersStay DEF Alone
  <2> QED
    BY <2>1 DEF Running
<1>4. ASSUME c \in Running'
      PROVE  /\ call'[c].pc \in RecordPcs => \A t \in transactions' : t.id # call'[c].record.id
             /\ call'[c].pc \in {"delete", "delete.write"} => Arg(c)'.op = "delete"
  BY <1>1, <1>4, NewIds DEF Counting, Arg
<1> QED
  BY <1>2, <1>3, <1>4 DEF Counting, Deletable

\* Requests come when none runs, and a restart leaves none.
LEMMA CountingSend ==
  ASSUME OneAtATime, MeteringInv, Alone, Counting, NEW c \in Caller, Send(c)
  PROVE  Counting'
<1>1. Running = {}
  BY NoneRuns DEF Send
<1>2. PICK k \in Calls : call' = [call EXCEPT ![c].pc = k.op, ![c].call = k]
  BY DEF Send
<1> DEFINE p == call[c]
           op == k.op
<1>3. /\ p = [pc |-> p.pc, call |-> p.call, copy |-> p.copy, record |-> p.record,
              answer |-> p.answer]
      /\ DOMAIN call = Caller
  BY DEF MeteringInv, ProperRequests, ProperProc
<1>4. call'[c].pc = op /\ call'[c].call = k /\ \A d \in Caller \ {c} : call'[d] = call[d]
  BY <1>2, <1>3
<1>5. op \in {"check", "report", "report_batch", "credit", "mark", "delete", "webhook"}
  BY MeteringAssumption DEF Call
<1>6. Running' \subseteq {c}
  BY <1>1, <1>4 DEF Running
<1>7. op \notin RecordPcs /\ (op \in {"delete", "delete.write"} => k.op = "delete")
  <2> HIDE DEF op
  <2>1. op \notin RecordPcs /\ (op \in {"delete", "delete.write"} => op = "delete")
    BY <1>5 DEF RecordPcs
  <2> QED
    BY <2>1 DEF op
<1>8. \A u \in User : ~Deletable(u) => Explained(u)'
  <2>1. UNCHANGED <<accounts, transactions>>
    BY DEF Send, storeVars
  <2> QED
    BY <2>1, OthersExplained DEF Counting
<1> HIDE DEF op
<1> QED
  BY <1>4, <1>6, <1>7, <1>8 DEF Counting, Deletable, Arg

LEMMA CountingRest ==
  ASSUME Counting, [Next]_vars, ~\E c \in Caller : Handler(c) \/ Send(c)
  PROVE  Counting'
<1>1. UNCHANGED <<accounts, transactions>> /\ (UNCHANGED call \/ Restart)
  BY DEF Next, Forwarding, QuoteUsage, OpenPages, ReadPage, Restart, Terminating, vars, meterVars,
     storeVars
<1>2. Running' = {} \/ UNCHANGED call
  <2>1. CASE Restart
    <3>1. ASSUME NEW c \in Running PROVE call'[c].pc = "done"
      BY <2>1, <3>1 DEF Restart, Running, Idle
    <3>2. \A c \in Caller \ Running : call'[c] = call[c]
      BY <2>1 DEF Restart
    <3> QED
      BY <3>1, <3>2 DEF Running
  <2> QED
    BY <1>1, <2>1
<1>3. \A u \in User : ~Deletable(u) => Explained(u)'
  BY <1>1, OthersExplained DEF Counting
<1> QED
  BY <1>1, <1>2, <1>3 DEF Counting, Deletable, Running, Arg

LEMMA CountingInit == ASSUME Init PROVE Counting
<1>1. Running = {}
  BY DEF Init, Idle, Running
<1>2. ASSUME NEW u \in User, accounts[u] # None PROVE Explained(u)
  <2> DEFINE a == Initial[u]
  <2>1. a \in Account /\ accounts[u] = a /\ a.purchased + a.granted = a.used
    BY <1>2, MeteringAssumption DEF Init
  <2>2. Uncounted(u) = {} \cup {Opened(u)}
    <3>1. \A v \in User : Opened(v).user = v /\ Opened(v).type = "monthly_allowance"
      BY DEF Opened
    <3> QED
      BY <1>2, <3>1 DEF Init, Uncounted
  <2>3. IsFiniteSet({}) /\ IsFiniteSet({} \cup {Opened(u)})
    BY FS_EmptySet, FS_AddElement
  <2>4. Opened(u) \in Transaction /\ Opened(u).amount = a.balance
    BY <1>2, MeteringInit DEF Init, Opened, MeteringInv, ProperStore
  <2>5. Whole(Amount, {} \cup {Opened(u)}) /\ Amount[Opened(u)] = a.balance
    BY <2>4, AmountsWhole DEF Amount
  <2>6. Total(Amount, {} \cup {Opened(u)}) = 0 + a.balance
    BY <2>3, <2>5, TotalAdds, TotalEmpty
  <2>7. a.balance = Counters(a) + (0 + a.balance)
    <3> HIDE DEF a
    <3> QED
      BY <2>1 DEF Counters, Account
  <2> HIDE DEF a
  <2> QED
    BY <1>2, <2>1, <2>2, <2>3, <2>6, <2>7 DEF Explained, Exists
<1>3. ASSUME NEW u \in User, accounts[u] = None PROVE Explained(u)
  <2>1. Uncounted(u) = {}
    BY <1>3 DEF Init, Uncounted, Opened
  <2> QED
    BY <1>3, <2>1, FS_EmptySet DEF Explained, Exists
<1> QED
  BY <1>1, <1>2, <1>3 DEF Counting

\* Lifetime counters and the grants that this store does not count make up the
\* balance, for each user that is not deleted, if requests do not overlap.
THEOREM CountersAlwaysExplain == OneAtATime => (Spec => []CountersExplain)
<1> SUFFICES ASSUME OneAtATime PROVE Spec => []CountersExplain
  OBVIOUS
<1>1. Init => Counting
  BY CountingInit
<1>2. MeteringInv /\ Alone /\ Counting /\ [Next]_vars => Counting'
  BY CountingHandler, CountingSend, CountingRest
<1>3. MeteringInv /\ Counting => CountersExplain
  <2> SUFFICES ASSUME MeteringInv, Counting, NEW u \in User, Exists(u), ~Deletable(u)
               PROVE  accounts[u].balance = accounts[u].purchased + accounts[u].granted
                        - accounts[u].used + MapThenSumSet(LAMBDA t : t.amount, Uncounted(u))
    BY DEF CountersExplain, AmountsOf
  <2>1. Uncounted(u) \subseteq Transaction
    BY DEF Uncounted, MeteringInv, ProperStore
  <2> QED
    BY <2>1, AmountsSummed DEF Counting, Explained, Counters
<1> QED
  BY <1>1, <1>2, <1>3, MeteringInvariant, RunsAlone, PTL DEF Spec
=============================================================================
