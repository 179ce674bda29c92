------------------------------ MODULE MCMetering ------------------------------
(***************************************************************************)
(* Small instances of Metering for TLC.  Tokens are counted in thousands.  *)
(***************************************************************************)
EXTENDS MeteringProperties

CONSTANTS alice, bob, evt

\* Two events of services, and a webhook whose key is that of the second.
own == <<"", evt>>

clash == <<"webhook:", evt>>

MCUsageId == {own, clash}

Llm(provider, prefix, base, in, out) ==
  [kind |-> "llm", provider |-> provider, model |-> <<prefix, base>>, a |-> in, b |-> out]

\* Around the thresholds, below one credit, unlisted names, other spellings,
\* the dearest and the cheapest rates.
MCQuotes ==
  {Llm("openai", "openai/", "gpt-5.4", 272, 1), Llm("openai", "", "gpt-5.6-preview", 273, 0),
   Llm("OpenAI", "", "gpt-5.5", 2, 1), Llm("openai", "", "gpt-4o-mini", 1, 0),
   Llm("xai", "xai/", "grok-4.3", 200, 0), Llm("xai", "", "grok-4.3", 199, 0),
   Llm("google", "", "gemini-2.5-pro", 201, 1), Llm("google", "", "gemini-2.5-pro", 200, 1),
   Llm("google", "google/", "gemini-2.5-pro", 201, 1), Llm("xAI", "", "grok-4.5", 200, 1),
   Llm("anthropic", "", "claude-3-opus", 2, 1), Llm("openai", "", "gpt-4o", MaxI64 + 5, 2),
   Llm("Anthropic", "anthropic/", "claude-sonnet-5", 2, 1)}

\* A short turn, and usage that is no turn of a model: below one credit, and
\* of a count that is no i64.
MCTurns ==
  {Llm("anthropic", "", "claude-fable-5", 2, 1),
   [kind |-> "compute", provider |-> "", model |-> <<"", "">>, a |-> 5, b |-> 0],
   [kind |-> "api", provider |-> "", model |-> <<"", "">>, a |-> MaxI64 + 5, b |-> 0]}

MCAccounts ==
  [u \in User |-> IF u = alice THEN [NewAccount EXCEPT !.balance = 10] ELSE None]

Request(op, u, id, type, amount) ==
  [op |-> op, user |-> u, id |-> id, type |-> type, amount |-> amount]

MCCalls ==
  {Request("check", alice, None, "usage", None),
   Request("check", bob, None, "usage", None),
   Request("report", alice, own, "usage", None), Request("report", bob, own, "usage", None),
   Request("report_batch", alice, clash, "usage", 3), Request("report", alice, clash, "usage", -1),
   Request("credit", alice, None, "monthly_allowance", 4),
   Request("credit", bob, None, "referral_bonus", 1), Request("mark", alice, None, "usage", None),
   Request("delete", bob, None, "usage", None), Request("webhook", alice, evt, "purchase", 3)}

\* Two reports of one event at the same time.
TwiceTurns == {Llm("openai", "", "gpt-5.5", 2, 1)}

TwiceCalls == {Request("report", alice, own, "usage", None)}

=============================================================================
