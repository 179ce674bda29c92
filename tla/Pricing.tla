-------------------------------- MODULE Pricing --------------------------------
(***************************************************************************)
(* What a usage event costs (crates/z-billing-core/src/pricing.rs and      *)
(* calculate_cost of handlers/usage.rs): vendor rates, the surcharge on    *)
(* long prompts, the markup, and the balance that a turn needs to start.   *)
(*                                                                         *)
(* Arithmetic is that of i64 in a release build: products wrap around.     *)
(* Compute time is counted in hundredths of an hour.                       *)
(***************************************************************************)
EXTENDS PriceTable

CONSTANTS
  Million,   \* tokens a rate is for: 10^6
  Half       \* the square root of the number of machine integers: 2^32

MaxI64 == (Half * Half) \div 2 - 1

\* A word is much longer than a million.
ASSUME PricingAssumption ==
  /\ Million \in Nat /\ Million >= 1000
  /\ Half \in Nat \ {0, 1}
  /\ 9 * Million <= MaxI64

-----------------------------------------------------------------------------
(* Machine arithmetic.                                                     *)

Larger(m, n) == IF m > n THEN m ELSE n

\* as i64, of a natural number below twice the range.
AsI64(n) == IF n > MaxI64 THEN n - Half * Half ELSE n

\* n * rate modulo the number of machine integers, by the two halves of n:
\* no intermediate result is much larger than the word.
WrappingMul(n, rate) ==
  LET high == (((n \div Half) * rate) % Half) * Half
      low == (n % Half) * rate
  IN  AsI64((high + low) % (Half * Half))

Product(n, rate) ==
  IF rate = 0 THEN 0
  ELSE IF n <= MaxI64 \div rate THEN n * rate
  ELSE WrappingMul(n, rate)

\* Integer division truncates towards zero.
Truncated(n, d) == IF n >= 0 THEN n \div d ELSE -((-n) \div d)

\* f64::round goes away from zero at halves.
Rounded(n, d) ==
  IF n >= 0 THEN (2 * n + d) \div (2 * d) ELSE -((-2 * n + d) \div (2 * d))

-----------------------------------------------------------------------------
(* Rates.                                                                  *)

TableRate(provider, model) ==
  IF <<provider, model>> \in DOMAIN LlmPrices
  THEN LlmPrices[<<provider, model>>] ELSE DefaultLlmPricing

\* Providers are compared without case here, and with case in the table.
Provider(spelled) ==
  CASE spelled = "OpenAI" -> "openai"
    [] spelled = "Anthropic" -> "anthropic"
    [] spelled = "xAI" -> "xai"
    [] spelled = "Google" -> "google"
    [] OTHER -> spelled

IsSonnet5(model) ==
  /\ model[1] \in {"", "anthropic/"}
  /\ model[2] \in {"claude-sonnet-5", "aura-claude-sonnet-5"}

Sonnet5Pricing == [input |-> 200, output |-> 1000]

\* Mutant of Stripped: only a name without a prefix is known.
Unstripped(model) == model

Stripped(model) ==
  IF model[1] \in {"", "openai/", "xai/", "google/"} THEN <<"", model[2]>> ELSE model

OpenAiLongModels ==
  {name[2] : name \in Gpt54 \cup Gpt55 \cup Gpt56Sol \cup Gpt56Terra \cup Gpt56Luna}
    \cup {"gpt-5.6-preview"}     \* any other name that starts with gpt-5.6

XaiLongModels ==
  {key[2][2] : key \in DOMAIN Xai} \cup {"grok-preview"}     \* any other that starts with grok-

GoogleLongModels == {name[2] : name \in Gemini31Pro \cup Gemini25Pro}

OpenAiThreshold == 272 * (Million \div 1000)

XaiThreshold == 200 * (Million \div 1000)

GoogleThreshold == 200 * (Million \div 1000)

Listed(model, bases) == Stripped(model) \in Bare(bases)

OpenAiLong(provider, model, input) ==
  Provider(provider) = "openai" /\ input > OpenAiThreshold /\ Listed(model, OpenAiLongModels)

\* Mutant of XaiLong: the surcharge is on the short prompts.
XaiLongBelow(provider, model, input) ==
  Provider(provider) = "xai" /\ input < XaiThreshold /\ Listed(model, XaiLongModels)

XaiLong(provider, model, input) ==
  Provider(provider) = "xai" /\ input >= XaiThreshold /\ Listed(model, XaiLongModels)

GoogleLong(provider, model, input) ==
  Provider(provider) = "google" /\ input > GoogleThreshold /\ Listed(model, GoogleLongModels)

LlmPricingForUsage(provider, model, input) ==
  LET rate == IF Provider(provider) = "anthropic" /\ IsSonnet5(model)
              THEN Sonnet5Pricing ELSE TableRate(provider, model)
  IN  IF XaiLong(provider, model, input)
      THEN [input |-> 2 * rate.input, output |-> 2 * rate.output]
      ELSE IF OpenAiLong(provider, model, input) \/ GoogleLong(provider, model, input)
      THEN [input |-> 2 * rate.input, output |-> (3 * rate.output) \div 2]
      ELSE rate

LlmMarkupPercent == 20

MarkedUp(rate) ==
  LET up(credits) == (credits * (100 + LlmMarkupPercent) + 50) \div 100
  IN  [input |-> up(rate.input), output |-> up(rate.output)]

-----------------------------------------------------------------------------
(* Costs.                                                                  *)

\* A token count that is no i64 counts as the largest one.
Tokens64(n) == IF n > MaxI64 THEN MaxI64 ELSE n

PartCost(tokens, credits) == Truncated(Product(Tokens64(tokens), credits), Million)

\* Mutant of AtLeastOne: what rounds to nothing is free.
AtLeastZero(total, used) == total

AtLeastOne(total, used) == IF total = 0 /\ used THEN 1 ELSE total

LlmCost(rate, input, output) ==
  AtLeastOne(PartCost(input, rate.input) + PartCost(output, rate.output),
             input > 0 \/ output > 0)

\* calculate_llm_cost_for_zero_pro_user, whose markup is the same for everyone.
LlmCostForUser(provider, model, input, output) ==
  LlmCost(MarkedUp(LlmPricingForUsage(provider, model, input)), input, output)

\* A short turn: two thousand tokens in, one thousand out, rounded up.
Reserve(rate) ==
  Larger(1, (2 * (Million \div 1000) * rate.input
               + (Million \div 1000) * rate.output + Million - 1) \div Million)

\* Mutant of MinimumLlmReserve: what the vendor takes.
VendorReserve(provider, model) == Reserve(TableRate(provider, model))

MinimumLlmReserve(provider, model) == Reserve(MarkedUp(TableRate(provider, model)))

CpuHourCredits == 6

MemoryGbHourCredits == 2

ComputeCost(cpu, memory) ==
  AtLeastOne(Rounded(cpu * CpuHourCredits, 100) + Rounded(memory * MemoryGbHourCredits, 100),
             cpu > 0 \/ memory > 0)

ApiCallsPerCredit == 1000

ApiCallsCost(count) == Larger(1, Truncated(AsI64(count), ApiCallsPerCredit))

-----------------------------------------------------------------------------
(* Usage metrics.                                                          *)

\* a and b: tokens in and out, hours of CPU and memory, or a count of calls.
Metric ==
  {t \in [kind : {"llm", "compute", "api"}, provider : STRING, model : STRING \X STRING,
          a : Int, b : Int] : t.kind \in {"llm", "api"} => t.a >= 0 /\ t.b >= 0}

CalculateCost(metric) ==
  CASE metric.kind = "llm" ->
         LlmCostForUser(metric.provider, metric.model, metric.a, metric.b)
    [] metric.kind = "compute" -> ComputeCost(metric.a, metric.b)
    [] OTHER -> ApiCallsCost(metric.a)

=============================================================================
