------------------------------ MODULE PriceTable ------------------------------
(***************************************************************************)
(* PricingConfig::default(): vendor prices of language models, in credits  *)
(* per million tokens.  A model name is <<prefix, base>>, the prefix being *)
(* the "openai/" of "openai/gpt-5.4" that some routers put before it.      *)
(* The table is looked up by the exact provider and name.                  *)
(***************************************************************************)
EXTENDS Integers

LlmPricing == [input : Nat, output : Nat]

Bare(bases) == {""} \X bases

\* Names known with and without the prefix.
Both(prefix, bases) == {"", prefix} \X bases

\* HashMap::insert of the entries on the right first: those on the left replace
\* them.  (TLC's operator of this name means the same, but no prover knows it.)
f @@ g == [key \in DOMAIN f \cup DOMAIN g |-> IF key \in DOMAIN f THEN f[key] ELSE g[key]]

Priced(provider, names, in, out) ==
  [key \in {provider} \X names |-> [input |-> in, output |-> out]]

-----------------------------------------------------------------------------

Opus == Bare({"claude-opus-5", "claude-opus-4-6", "claude-opus-4-7", "claude-opus-4-8",
              "aura-claude-opus-4-7", "aura-claude-opus-4-8", "aura-claude-opus-5",
              "aura-claude-opus-4-6"})

Sonnet == Bare({"claude-sonnet-4-6", "aura-claude-sonnet-4-6", "claude-3-5-sonnet",
                "claude-3-5-sonnet-20241022"})

AnthropicCurrent ==
  Priced("anthropic", Sonnet, 300, 1500)
    @@ Priced("anthropic", Bare({"claude-sonnet-5", "aura-claude-sonnet-5"}), 200, 1000)
    @@ Priced("anthropic", Bare({"claude-fable-5", "aura-claude-fable-5"}), 1000, 5000)
    @@ Priced("anthropic", Opus, 500, 2500)
    @@ Priced("anthropic", Bare({"claude-haiku-4-5-20251001", "claude-haiku-4-5",
                                 "aura-claude-haiku-4-5"}), 100, 500)

AnthropicLegacy ==
  Priced("anthropic", Bare({"claude-3-haiku"}), 25, 125)
    @@ Priced("anthropic", Bare({"claude-3-opus"}), 1500, 7500)

Gpt54 == Both("openai/", {"gpt-5.4"}) \cup Bare({"aura-gpt-5-4"})

Gpt55 == Both("openai/", {"gpt-5.5"}) \cup Bare({"aura-gpt-5-5"})

Gpt56(variants, aura) == Both("openai/", variants) \cup Bare({aura})

Gpt56Sol == Gpt56({"gpt-5.6", "gpt-5.6-sol"}, "aura-gpt-5-6-sol")

Gpt56Terra == Gpt56({"gpt-5.6-terra"}, "aura-gpt-5-6-terra")

Gpt56Luna == Gpt56({"gpt-5.6-luna"}, "aura-gpt-5-6-luna")

OpenAi ==
  Priced("openai", Bare({"gpt-4o"}), 250, 1000)
    @@ Priced("openai", Bare({"gpt-4o-mini"}), 15, 60)
    @@ Priced("openai", Gpt56Sol, 500, 3000)
    @@ Priced("openai", Gpt56Terra, 200, 1200)
    @@ Priced("openai", Gpt56Luna, 20, 120)
    @@ Priced("openai", Gpt54, 250, 1500)
    @@ Priced("openai", Gpt55, 500, 3000)
    @@ Priced("openai", Bare({"gpt-5.4-mini", "aura-gpt-5-4-mini"}), 75, 450)
    @@ Priced("openai", Bare({"gpt-5.4-nano", "aura-gpt-5-4-nano"}), 20, 125)

Grok(base, aura) == Both("xai/", {base}) \cup Bare({aura})

GrokBuild ==
  Grok("grok-build-0.1", "aura-grok-build-0-1")
    \cup Both("xai/", {"grok-code-fast", "grok-code-fast-1", "grok-code-fast-1-0825"})

Xai ==
  Priced("xai", Grok("grok-4.6", "aura-grok-4-6"), 200, 600)
    @@ Priced("xai", Grok("grok-4.5", "aura-grok-4-5"), 200, 600)
    @@ Priced("xai", Grok("grok-4.3", "aura-grok-4-3"), 125, 250)
    @@ Priced("xai", GrokBuild, 100, 200)

Gemini31Pro == Bare({"aura-gemini-3-1-pro", "gemini-3.1-pro-preview"})

Gemini25Pro == Bare({"aura-gemini-2-5-pro", "gemini-2.5-pro"})

Google ==
  Priced("google", Gemini31Pro, 200, 1200)
    @@ Priced("google", Bare({"aura-gemini-3-5-flash", "gemini-3.5-flash"}), 150, 900)
    @@ Priced("google", Bare({"aura-gemini-3-flash", "gemini-3-flash-preview"}), 50, 300)
    @@ Priced("google", Bare({"aura-gemini-3-1-flash-lite", "gemini-3.1-flash-lite"}), 25, 150)
    @@ Priced("google", Gemini25Pro, 125, 1000)
    @@ Priced("google", Bare({"aura-gemini-2-5-flash", "gemini-2.5-flash"}), 30, 250)
    @@ Priced("google", Bare({"aura-gemini-2-5-flash-lite", "gemini-2.5-flash-lite"}), 10, 40)

\* Aura's aliases were first priced as DeepSeek's own, and then, for routers
\* that name the maker instead of the host, as what Fireworks charges.
DeepSeekHosted ==
  Priced("deepseek", Bare({"aura-deepseek-v4-pro"}), 174, 348)
    @@ Priced("deepseek", Bare({"aura-deepseek-v4-flash"}), 14, 28)

DeepSeek ==
  Priced("deepseek", Both("deepseek/", {"deepseek-v4-pro"})
                       \cup Bare({"aura-deepseek-v4-pro"}), 44, 87)
    @@ Priced("deepseek", Both("deepseek/", {"deepseek-v4-flash"})
                            \cup Bare({"aura-deepseek-v4-flash", "deepseek-chat",
                                       "deepseek-reasoner"}), 14, 28)

Moonshot ==
  Priced("moonshot", Both("moonshot/", {"kimi-k3"}) \cup Bare({"aura-kimi-k3"}), 300, 1500)

Accounts(models) == {"accounts/fireworks/models/"} \X models

Turbo(model) ==
  {"accounts/fireworks/models/", "accounts/fireworks/routers/"} \X {model}

FireworksFirst ==
  Priced("fireworks", Bare({"aura-deepseek-v4-pro"}) \cup Accounts({"deepseek-v4-pro"}), 174, 348)
    @@ Priced("fireworks", Bare({"aura-deepseek-v4-flash"})
                             \cup Accounts({"deepseek-v4-flash"}), 14, 28)

FireworksKimi ==
  Priced("fireworks", Bare({"aura-kimi-k2-5"}) \cup Accounts({"kimi-k2p5"}), 60, 300)
    @@ Priced("fireworks", Turbo("kimi-k2p5-turbo"), 99, 494)
    @@ Priced("fireworks", Bare({"aura-kimi-k2-6", "aura-kimi-k2-7-code"})
                             \cup Accounts({"kimi-k2p6", "kimi-k2p7-code"}), 95, 400)
    @@ Priced("fireworks", Turbo("kimi-k2p6-turbo"), 200, 800)
    @@ Priced("fireworks", Accounts({"kimi-k2-thinking", "kimi-k2-instruct-0905"}), 60, 250)
    @@ Priced("fireworks", Bare({"aura-oss-120b"}) \cup Accounts({"gpt-oss-120b"}), 15, 60)

FireworksOthers ==
  Priced("fireworks", Bare({"aura-minimax-m3", "aura-minimax-m2-7"})
                        \cup Accounts({"minimax-m3", "minimax-m2p7"}), 30, 120)
    @@ Priced("fireworks", Bare({"aura-glm-5-1", "aura-glm-5-2"})
                             \cup Accounts({"glm-5p1", "glm-5p2"}), 140, 440)
    @@ Priced("fireworks", Bare({"aura-qwen3-6-plus"}) \cup Accounts({"qwen3p6-plus"}), 50, 300)
    @@ Priced("fireworks", Bare({"aura-qwen3-7-plus"}) \cup Accounts({"qwen3p7-plus"}), 40, 160)
    @@ Priced("fireworks", Bare({"aura-gemma-4-31b"}) \cup Accounts({"gemma-4-31b-it"}), 90, 90)
    @@ Priced("fireworks", Bare({"aura-gemma-4-26b-a4b"})
                             \cup Accounts({"gemma-4-26b-a4b-it"}), 50, 50)

\* An entry that is inserted again replaces the one before it.
LlmPrices ==
  AnthropicCurrent @@ AnthropicLegacy @@ OpenAi @@ Xai @@ Google @@ DeepSeekHosted @@ DeepSeek
    @@ Moonshot @@ FireworksFirst @@ FireworksKimi @@ FireworksOthers

DefaultLlmPricing == [input |-> 100, output |-> 300]

=============================================================================
