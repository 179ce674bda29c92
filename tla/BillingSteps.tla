----------------------------- MODULE BillingSteps -----------------------------
(***************************************************************************)
(* What the steps of Billing do, for all users, requests, calls and bounds. *)
(*                                                                         *)
(* Every step of a handler is one of six changes of the database (Effect), *)
(* and hands the handler's next step what that one relies on (Held): that  *)
(* is the lemma StepEffect, and it takes the invariant Inv.  BillingProofs *)
(* then looks at the six changes, and at no handler.                       *)
(***************************************************************************)
EXTENDS BillingProperties, SumProofs

\* The calls, and what Stripe may deliver: so that what follows holds of the
\* service beside Stripe too, where deliveries are not among the calls.
Delivery == {c \in Call : WellFormed(c) /\ c.op = "stripe_webhook" /\ c.other = None}

Callable == Calls \cup Delivery

\* Who an account may name as its inviter: whom a call or an account did.
Inviters == {None} \cup {c.other : c \in Calls}
              \cup {Initial[u].referred_by : u \in {v \in User : Initial[v] # None}}

\* What every account a handler holds or writes is: so that no write of a
\* stale copy can overdraw an account, unbalance it or change its inviter.
Sound == {a \in Account : a.balance >= 0 /\ Balanced(a) /\ a.referred_by \in Inviters}

RowsSound == \A u \in User : Exists(u) => accounts[u] \in Sound

Pcs == {"new", "done"} \cup Routes \cup CreditPcs \cup UsagePcs \cup AccountPcs
         \cup SubscribePcs \cup WebhookPcs

ReferralPcs == {"subscription.referral", "subscription.invitee", "subscription.inviter",
                "subscription.create_inviter", "subscription.add"}

RefillPcs == {"refill.pay", "refill.get", "refill.add"}

CopyPcs == ReferralPcs \cup RefillPcs \cup {
  "monthly", "monthly.add", "monthly.reread", "monthly.mark", "monthly.refresh",
  "daily", "daily.reread", "daily.mark", "signup.add", "signup.reread", "signup.mark",
  "configure.put", "usage.exists", "usage.commit", "create.put", "checkout.put",
  "subscribe.customer", "subscribe.put",
  "subscription.put", "deleted.put", "failed.put", "invoice.prorate", "invoice.add",
  "invoice.reread", "invoice.mark"}

\* What a handler knows of its arguments c when its next step is pc.
HoldsCall(pc, c) ==
  /\ pc \in {"report_usage", "report_usage_batch", "report.create", "usage.exists",
             "usage.commit"} => c.id \in UsageId
  /\ pc \in {"referral_grant", "referral.create", "referral.check", "referral.invitee",
             "referral.inviter", "referral.create_inviter", "referral.add"} => c.other \in User
  /\ pc \in {"stripe_webhook", "lago_webhook"} \cup WebhookPcs => c.id \in WebhookId
  /\ pc \in {"stripe_webhook", "resolve"} => c.event \in StripeEvents
  /\ pc = "lago_webhook" => c.event \in LagoEvents
  /\ pc = "usage.commit" => c.amount \in Nat
  /\ pc \in {"admin.add", "purchase.session"} => c.amount \in Nat
  /\ pc = "checkout.session" => c.reason \in PaidPlan
  /\ pc \in {"checkout.payment", "purchase.add"} => c.amount \in Nat
  /\ pc \in {"subscription.updated", "subscription.create", "subscription.put",
             "invoice.prorate", "lago.started", "lago.create", "lago.add"}
       => c.subscription \in Subscription

\* ... of the account a it has read, and of the number n it keeps.
HoldsCopy(pc, a, n) ==
  /\ pc \in CopyPcs => a \in Sound
  /\ pc \in ReferralPcs => a.referred_by \in User
  /\ pc \in RefillPcs => a.auto_refill \in AutoRefill
  /\ pc \in {"invoice.prorate", "failed.put"} => a.subscription \in Subscription
  /\ pc \in {"monthly.add", "monthly.reread", "monthly.mark"} => n \in Nat

Held(p) ==
  /\ p.pc # "new" => p.call \in Callable
  /\ p.copy \in Sound \cup {None}
  /\ HoldsCall(p.pc, p.call)
  /\ HoldsCopy(p.pc, p.copy, p.kept)

ProcInv == proc \in [Request -> Proc] /\ \A r \in Request : Held(proc[r])

StoreType ==
  /\ accounts \in [User -> Account \cup {None}]
  /\ ledger \in [User -> Seq(Transaction)]
  /\ usage_events \in SUBSET UsageId
  /\ processed_webhooks \in SUBSET WebhookId
  /\ today \in Day

Inv == StoreType /\ RowsSound /\ ProcInv

\* The changes of the database.
Effect ==
  \/ UNCHANGED storeVars
  \/ \E u \in User, a \in Sound : PutAccount(u, a)
  \/ \E u \in User, n \in Nat, type \in TransactionType \ {"usage"},
       ref \in UsageId \cup WebhookId \cup {None} : AddCredits(u, n, type, ref)
  \/ \E u \in User, cost \in Nat, e \in UsageId : CommitUsage(u, cost, e)
  \/ \E u \in User : DeleteAccount(u)
  \/ \E w \in WebhookId : RecordWebhookEvent(w)

-----------------------------------------------------------------------------
(* The local state of a request.                                           *)

\* Only the request that steps changes, and to what its next step relies on.
LEMMA ProcStep ==
  ASSUME ProcInv, NEW r \in Request, NEW p \in Proc, Held(p), proc' = [proc EXCEPT ![r] = p]
  PROVE  ProcInv'
BY DEF ProcInv

\* Each field a handler assigns keeps the record in its type.
LEMMA ProcFields ==
  ASSUME NEW p \in Proc
  PROVE  /\ \A pc \in Pcs : [p EXCEPT !.pc = pc] \in Proc
         /\ \A a \in Account \cup {None} : [p EXCEPT !.copy = a] \in Proc
         /\ \A n \in Int : [p EXCEPT !.kept = n] \in Proc
         /\ \A x \in Response : [p EXCEPT !.answer = x] \in Proc
         /\ \A c \in Callable : [p EXCEPT !.call = c] \in Proc
BY CallsAssumption DEF Proc, ProcAt, Pcs, Callable, Delivery

LEMMA AnswerStep ==
  ASSUME ProcInv, NEW r \in Request, proc[r].pc # "new", NEW x \in Response, Answer(r, x)
  PROVE  ProcInv'
<1> DEFINE p1 == [proc[r] EXCEPT !.pc = "done"]
           p2 == [p1 EXCEPT !.copy = None]
           p3 == [p2 EXCEPT !.kept = 0]
           p == [p3 EXCEPT !.answer = x]
<1>1. proc[r] \in Proc /\ Held(proc[r])
  BY DEF ProcInv
<1>2. p1 \in Proc /\ p1.pc = "done" /\ p1.call = proc[r].call
  BY <1>1, ProcFields DEF Pcs, Proc, ProcAt
<1>3. proc' = [proc EXCEPT ![r] = p]
  BY <1>1 DEF Answer, ProcInv
<1> HIDE DEF p1
<1>4. p2 \in Proc /\ p2.pc = "done" /\ p2.call = proc[r].call /\ p2.copy = None
  BY <1>2, ProcFields DEF Proc, ProcAt
<1> HIDE DEF p2
<1>5. p3 \in Proc /\ p3.pc = "done" /\ p3.call = proc[r].call /\ p3.copy = None
  BY <1>4, ProcFields DEF Proc, ProcAt
<1> HIDE DEF p3
<1>6. p \in Proc /\ p.pc = "done" /\ p.call = proc[r].call /\ p.copy = None
  BY <1>5, ProcFields DEF Proc, ProcAt
<1>7. proc[r].call \in Callable
  BY <1>1 DEF Held
<1>8. Held(p)
  BY <1>6, <1>7 DEF Held, HoldsCall, HoldsCopy, CopyPcs, ReferralPcs, RefillPcs, WebhookPcs,
             StripeEvents, LagoEvents
<1> HIDE DEF p
<1> QED
  BY <1>3, <1>6, <1>8, ProcStep

LEMMA GotoStep ==
  ASSUME ProcInv, NEW r \in Request, proc[r].pc # "new", NEW pc \in Pcs, Goto(r, pc),
         HoldsCall(pc, proc[r].call), HoldsCopy(pc, proc[r].copy, proc[r].kept)
  PROVE  ProcInv'
<1> DEFINE p == [proc[r] EXCEPT !.pc = pc]
<1>1. proc[r] \in Proc /\ Held(proc[r])
  BY DEF ProcInv
<1>2. p \in Proc
  BY <1>1, ProcFields
<1>3. proc' = [proc EXCEPT ![r] = p]
  BY <1>1 DEF Goto, ProcInv
<1>4. /\ p.pc = pc /\ p.copy = proc[r].copy /\ p.call = proc[r].call
      /\ p.kept = proc[r].kept
  BY <1>1 DEF Proc, ProcAt
<1>5. Held(p)
  BY <1>1, <1>4 DEF Held
<1> HIDE DEF p
<1> QED
  BY <1>2, <1>3, <1>5, ProcStep

LEMMA KeepStep ==
  ASSUME ProcInv, NEW r \in Request, proc[r].pc # "new", NEW pc \in Pcs, NEW a \in Sound,
         Keep(r, a, pc), HoldsCall(pc, proc[r].call), HoldsCopy(pc, a, proc[r].kept)
  PROVE  ProcInv'
<1> DEFINE p1 == [proc[r] EXCEPT !.pc = pc]
           p == [p1 EXCEPT !.copy = a]
<1>1. proc[r] \in Proc /\ Held(proc[r])
  BY DEF ProcInv
<1>2. p1 \in Proc
  BY <1>1, ProcFields
<1>3. p \in Proc
  BY <1>2, ProcFields DEF Sound
<1>4. proc' = [proc EXCEPT ![r] = p]
  BY <1>1 DEF Keep, ProcInv
<1>5. p.pc = pc /\ p.copy = a /\ p.call = proc[r].call /\ p.kept = proc[r].kept
  BY <1>1 DEF Proc, ProcAt
<1>6. Held(p)
  BY <1>1, <1>5 DEF Held
<1> HIDE DEF p
<1> QED
  BY <1>3, <1>4, <1>6, ProcStep

\* The handlers that keep a number: with the copy they had, and with a new one.
LEMMA ComputeStep ==
  ASSUME ProcInv, NEW r \in Request, proc[r].pc # "new", NEW pc \in Pcs, NEW n \in Int,
         Compute(r, n, pc),
         HoldsCall(pc, proc[r].call), HoldsCopy(pc, proc[r].copy, n)
  PROVE  ProcInv'
<1> DEFINE p1 == [proc[r] EXCEPT !.pc = pc]
           p == [p1 EXCEPT !.kept = n]
<1>1. proc[r] \in Proc /\ Held(proc[r])
  BY DEF ProcInv
<1>2. p1 \in Proc /\ p1.pc = pc /\ p1.call = proc[r].call /\ p1.copy = proc[r].copy
  BY <1>1, ProcFields DEF Proc, ProcAt
<1>3. proc' = [proc EXCEPT ![r] = p]
  BY <1>1 DEF ProcInv, Compute
<1> HIDE DEF p1
<1>4. /\ p \in Proc /\ p.pc = pc /\ p.call = proc[r].call
      /\ p.copy = proc[r].copy /\ p.kept = n
  BY <1>2, ProcFields DEF Proc, ProcAt
<1>5. Held(p)
  BY <1>1, <1>4 DEF Held
<1> HIDE DEF p
<1> QED
  BY <1>3, <1>4, <1>5, ProcStep

LEMMA KeepAndComputeStep ==
  ASSUME ProcInv, NEW r \in Request, proc[r].pc # "new", NEW pc \in Pcs,
         NEW a \in Sound, NEW n \in Int,
         KeepAndCompute(r, a, n, pc),
         HoldsCall(pc, proc[r].call), HoldsCopy(pc, a, n)
  PROVE  ProcInv'
<1> DEFINE p1 == [proc[r] EXCEPT !.pc = pc]
           p2 == [p1 EXCEPT !.copy = a]
           p == [p2 EXCEPT !.kept = n]
<1>1. proc[r] \in Proc /\ Held(proc[r])
  BY DEF ProcInv
<1>2. p1 \in Proc /\ p1.pc = pc /\ p1.call = proc[r].call
  BY <1>1, ProcFields DEF Proc, ProcAt
<1>3. proc' = [proc EXCEPT ![r] = p]
  BY <1>1 DEF ProcInv, KeepAndCompute
<1> HIDE DEF p1
<1>4. p2 \in Proc /\ p2.pc = pc /\ p2.call = proc[r].call /\ p2.copy = a
  BY <1>2, ProcFields DEF Proc, ProcAt, Sound
<1> HIDE DEF p2
<1>5. p \in Proc /\ p.pc = pc /\ p.call = proc[r].call /\ p.copy = a /\ p.kept = n
  BY <1>4, ProcFields DEF Proc, ProcAt
<1>6. Held(p)
  BY <1>1, <1>5 DEF Held
<1> HIDE DEF p
<1> QED
  BY <1>3, <1>5, <1>6, ProcStep

\* The refill task goes on after its request was answered.
LEMMA AnswerAndGotoStep ==
  ASSUME ProcInv, NEW r \in Request, proc[r].pc # "new", NEW pc \in Pcs, NEW x \in Response,
         AnswerAndGoto(r, x, pc),
         HoldsCall(pc, proc[r].call), HoldsCopy(pc, proc[r].copy, proc[r].kept)
  PROVE  ProcInv'
<1> DEFINE p1 == [proc[r] EXCEPT !.pc = pc]
           p == [p1 EXCEPT !.answer = x]
<1>1. proc[r] \in Proc /\ Held(proc[r])
  BY DEF ProcInv
<1>2. /\ p1 \in Proc /\ p1.pc = pc /\ p1.call = proc[r].call
      /\ p1.copy = proc[r].copy /\ p1.kept = proc[r].kept
  BY <1>1, ProcFields DEF Proc, ProcAt
<1>3. proc' = [proc EXCEPT ![r] = p]
  BY <1>1 DEF ProcInv, AnswerAndGoto
<1> HIDE DEF p1
<1>4. /\ p \in Proc /\ p.pc = pc /\ p.call = proc[r].call
      /\ p.copy = proc[r].copy /\ p.kept = proc[r].kept
  BY <1>2, ProcFields DEF Proc, ProcAt
<1>5. Held(p)
  BY <1>1, <1>4 DEF Held
<1> HIDE DEF p
<1> QED
  BY <1>3, <1>4, <1>5, ProcStep

\* What is known of a request that was sent.
LEMMA Sent ==
  ASSUME ProcInv, NEW r \in Request, proc[r].pc # "new"
  PROVE  /\ proc[r].call \in Callable /\ proc[r].call \in Call /\ WellFormed(proc[r].call)
         /\ proc[r].pc \in Pcs /\ proc[r].kept \in Int
         /\ proc[r].copy \in Sound \cup {None}
         /\ HoldsCall(proc[r].pc, proc[r].call)
         /\ HoldsCopy(proc[r].pc, proc[r].copy, proc[r].kept)
BY CallsAssumption DEF ProcInv, Held, Proc, ProcAt, Pcs, Callable, Delivery

-----------------------------------------------------------------------------
(* Sound accounts, and the changes of the database.                        *)

LEMMA NewAccountSound == NewAccount \in Sound
BY DEF NewAccount, Sound, Account, Balanced, Inviters

\* No handler assigns a money field of the copy it writes back.
LEMMA SoundEdits ==
  ASSUME NEW a \in Sound
  PROVE  /\ \A s \in Subscription \cup {None} : [a EXCEPT !.subscription = s] \in Sound
         /\ \A x \in AutoRefill \cup {None} : [a EXCEPT !.auto_refill = x] \in Sound
         /\ \A b \in BOOLEAN : [a EXCEPT !.stripe_customer = b] \in Sound
         /\ \A v \in (User \cup {None}) \cap Inviters : [a EXCEPT !.referred_by = v] \in Sound
         /\ \A d \in Nat : /\ [a EXCEPT !.signup_grant = d] \in Sound
                          /\ [a EXCEPT !.last_daily = d] \in Sound
                          /\ [a EXCEPT !.last_monthly = d] \in Sound
BY DEF Sound, Account, Balanced, Day

LEMMA PutEffect ==
  ASSUME NEW u \in User, NEW a \in Sound, PutAccount(u, a)
  PROVE  Effect
BY DEF Effect

LEMMA AddEffect ==
  ASSUME NEW u \in User, NEW n \in Nat, NEW type \in TransactionType \ {"usage"},
         NEW ref \in UsageId \cup WebhookId \cup {None}, AddCredits(u, n, type, ref)
  PROVE  Effect
BY DEF Effect

LEMMA NoEffect == ASSUME UNCHANGED storeVars PROVE Effect
BY DEF Effect

LEMMA Row ==
  ASSUME Inv, NEW u \in User, Exists(u)
  PROVE  accounts[u] \in Sound
BY DEF Inv, RowsSound

-----------------------------------------------------------------------------
(* The helpers that the handlers are written with.                         *)

LEMMA GetOrNotFoundStep ==
  ASSUME Inv, NEW r \in Request, proc[r].pc # "new", NEW u \in User, NEW pc \in Pcs,
         GetOrNotFound(r, u, pc), HoldsCall(pc, proc[r].call),
         \A a \in Sound : HoldsCopy(pc, a, proc[r].kept)
  PROVE  Effect /\ ProcInv'
<1>1. Effect
  BY NoEffect DEF GetOrNotFound
<1>2. CASE Exists(u)
  BY <1>1, <1>2, Row, KeepStep DEF GetOrNotFound, Inv
<1>3. CASE ~Exists(u)
  BY <1>1, <1>3, AnswerStep DEF GetOrNotFound, Inv, Response
<1> QED
  BY <1>2, <1>3

LEMMA GetOrElseStep ==
  ASSUME Inv, NEW r \in Request, proc[r].pc # "new", NEW u \in User,
         NEW create \in Pcs, NEW pc \in Pcs, GetOrElse(r, u, create, pc),
         HoldsCall(pc, proc[r].call), HoldsCall(create, proc[r].call),
         HoldsCopy(create, proc[r].copy, proc[r].kept),
         \A a \in Sound : HoldsCopy(pc, a, proc[r].kept)
  PROVE  Effect /\ ProcInv'
<1>1. Effect
  BY NoEffect DEF GetOrElse
<1>2. CASE Exists(u)
  BY <1>1, <1>2, Row, KeepStep DEF GetOrElse, Inv
<1>3. CASE ~Exists(u)
  BY <1>1, <1>3, GotoStep DEF GetOrElse, Inv
<1> QED
  BY <1>2, <1>3

LEMMA CreateStep ==
  ASSUME Inv, NEW r \in Request, proc[r].pc # "new", NEW u \in User, NEW pc \in Pcs,
         Create(r, u, pc), HoldsCall(pc, proc[r].call),
         HoldsCopy(pc, NewAccount, proc[r].kept)
  PROVE  Effect /\ ProcInv'
BY NewAccountSound, PutEffect, KeepStep DEF Create, Inv

LEMMA RereadStep ==
  ASSUME Inv, NEW r \in Request, proc[r].pc # "new", NEW u \in User, NEW pc \in Pcs,
         Reread(r, u, pc), proc[r].copy \in Sound, HoldsCall(pc, proc[r].call),
         \A a \in Sound : HoldsCopy(pc, a, proc[r].kept)
  PROVE  Effect /\ ProcInv'
<1>1. Effect
  BY NoEffect DEF Reread
<1> DEFINE a == IF Exists(u) THEN accounts[u] ELSE Copy(r)
<1>2. a \in Sound
  BY Row DEF Copy
<1>3. Keep(r, a, pc)
  BY DEF Reread
<1> HIDE DEF a
<1> QED
  BY <1>1, <1>2, <1>3, KeepStep DEF Inv

LEMMA NoAccountStep ==
  ASSUME Inv, NEW r \in Request, proc[r].pc # "new", NEW u \in User, NoAccount(r, u)
  PROVE  Effect /\ ProcInv'
BY NoEffect, AnswerStep DEF NoAccount, Inv, Response

LEMMA CreditStep ==
  ASSUME Inv, NEW r \in Request, proc[r].pc # "new", NEW u \in User, NEW n \in Nat,
         NEW type \in TransactionType \ {"usage"}, NEW pc \in Pcs,
         Credit(r, u, n, type, pc), HoldsCall(pc, proc[r].call),
         HoldsCopy(pc, proc[r].copy, proc[r].kept)
  PROVE  Effect /\ ProcInv'
<1>1. proc[r].call.id \in UsageId \cup WebhookId \cup {None}
  BY Sent DEF Inv, Call
<1>2. CASE AddCredits(u, n, type, Arg(r).id) /\ Goto(r, pc)
  BY <1>1, <1>2, AddEffect, GotoStep DEF Arg, Inv
<1> QED
  BY <1>2, NoAccountStep DEF Credit

LEMMA CreditLastStep ==
  ASSUME Inv, NEW r \in Request, proc[r].pc # "new", NEW u \in User, NEW n \in Nat,
         NEW type \in TransactionType \ {"usage"}, CreditLast(r, u, n, type)
  PROVE  Effect /\ ProcInv'
<1>1. proc[r].call.id \in UsageId \cup WebhookId \cup {None}
  BY Sent DEF Inv, Call
<1>2. CASE AddCredits(u, n, type, Arg(r).id) /\ Answer(r, "granted")
  BY <1>1, <1>2, AddEffect, AnswerStep DEF Arg, Inv, Response
<1> QED
  BY <1>2, NoAccountStep DEF CreditLast

-----------------------------------------------------------------------------
(* What the next step relies on, for the steps that rely on little.        *)

LEMMA NothingHeld ==
  ASSUME NEW pc \in {"signup.create", "check.create", "get_account.create", "create.customer",
                     "portal.session"},
         NEW c, NEW a, NEW n
  PROVE  pc \in Pcs /\ HoldsCall(pc, c) /\ HoldsCopy(pc, a, n)
BY DEF HoldsCall, HoldsCopy, Pcs, CreditPcs, UsagePcs, AccountPcs, SubscribePcs, WebhookPcs,
   StripeEvents, LagoEvents, CopyPcs, ReferralPcs, RefillPcs

LEMMA CopyHeld ==
  ASSUME NEW pc \in {"monthly", "monthly.refresh", "daily", "daily.reread", "daily.mark",
                     "signup.add", "signup.reread", "signup.mark", "configure.put",
                     "create.put", "cancel.end"},
         NEW c, NEW n
  PROVE  pc \in Pcs /\ HoldsCall(pc, c) /\ \A a \in Sound : HoldsCopy(pc, a, n)
BY DEF HoldsCall, HoldsCopy, Pcs, CreditPcs, UsagePcs, AccountPcs, SubscribePcs, WebhookPcs,
   StripeEvents, LagoEvents, CopyPcs, ReferralPcs, RefillPcs

LEMMA CopyAndDayHeld ==
  ASSUME NEW pc \in {"monthly.add", "monthly.reread", "monthly.mark"},
         NEW c, NEW n \in Nat
  PROVE  pc \in Pcs /\ HoldsCall(pc, c) /\ \A a \in Sound : HoldsCopy(pc, a, n)
BY DEF HoldsCall, HoldsCopy, Pcs, CreditPcs, WebhookPcs, StripeEvents,
   LagoEvents, CopyPcs, ReferralPcs, RefillPcs

\* What a handler has when it steps from pc.
LEMMA Stepping ==
  ASSUME Inv, NEW r \in Request, proc[r].pc # "new"
  PROVE  /\ ProcInv /\ today \in Nat
         /\ proc[r].call \in Call /\ proc[r].call.user \in User
         /\ WellFormed(proc[r].call)
         /\ proc[r].kept \in Int
         /\ HoldsCall(proc[r].pc, proc[r].call)
         /\ HoldsCopy(proc[r].pc, proc[r].copy, proc[r].kept)
         /\ proc[r].pc \in CopyPcs => proc[r].copy \in Sound
<1>1. ProcInv /\ today \in Nat
  BY DEF Inv, StoreType, Day
<1>2. proc[r].call \in Call /\ proc[r].call.user \in User
  BY <1>1, Sent DEF Call
<1> QED
  BY <1>1, <1>2, Sent DEF HoldsCopy

LEMMA PlanAmounts ==
  ASSUME NEW a \in Sound
  PROVE  MonthlyCredits[CurrentPlan(a)] \in Nat /\ DailyGrant[CurrentPlan(a)] \in Int
BY GrantAssumption DEF CurrentPlan, Sound, Account, Subscription, Plan

-----------------------------------------------------------------------------
(* handlers/credits.rs.                                                    *)

LEMMA MonthlyStep ==
  ASSUME Inv, NEW r \in Request, TryMonthlyAllowance(r)
  PROVE  Effect /\ ProcInv'
<1> USE DEF At, Arg, Copy
<1>1. CASE MonthlyCheck(r)
  <2>1. proc[r].pc = "monthly" /\ Effect
    BY <1>1, NoEffect DEF MonthlyCheck
  <2>2. ProcInv /\ today \in Nat /\ proc[r].copy \in Sound
    BY <2>1, Stepping DEF CopyPcs
  <2>3. CASE Goto(r, "daily")
    BY <2>1, <2>2, <2>3, CopyHeld, GotoStep
  <2>4. CASE Compute(r, today, "monthly.add")
    <3>1. /\ "monthly.add" \in Pcs /\ HoldsCall("monthly.add", proc[r].call)
          /\ HoldsCopy("monthly.add", proc[r].copy, today)
      BY <2>2, CopyAndDayHeld
    <3> QED
      BY <2>1, <2>2, <2>4, <3>1, ComputeStep
  <2> QED
    BY <1>1, <2>3, <2>4 DEF MonthlyCheck
<1>2. CASE MonthlyAdd(r)
  <2>1. proc[r].pc = "monthly.add"
    BY <1>2 DEF MonthlyAdd
  <2>2. proc[r].copy \in Sound /\ proc[r].kept \in Nat /\ proc[r].call.user \in User
    BY <2>1, Stepping DEF CopyPcs, HoldsCopy
  <2> QED
    BY <1>2, <2>1, <2>2, PlanAmounts, CopyAndDayHeld, CreditStep
    DEF MonthlyAdd, TransactionType
<1>3. CASE MonthlyReread(r)
  <2>1. proc[r].pc = "monthly.reread"
    BY <1>3 DEF MonthlyReread
  <2>2. proc[r].copy \in Sound /\ proc[r].kept \in Nat /\ proc[r].call.user \in User
    BY <2>1, Stepping DEF CopyPcs, HoldsCopy
  <2> QED
    BY <1>3, <2>1, <2>2, CopyAndDayHeld, RereadStep DEF MonthlyReread
<1>4. CASE MonthlyMark(r)
  <2>1. proc[r].pc = "monthly.mark"
    BY <1>4 DEF MonthlyMark
  <2>2. /\ ProcInv /\ proc[r].copy \in Sound
        /\ proc[r].kept \in Nat /\ proc[r].call.user \in User
    BY <2>1, Stepping DEF CopyPcs, HoldsCopy
  <2>3. Effect
    BY <1>4, <2>2, SoundEdits, PutEffect DEF MonthlyMark
  <2> QED
    BY <1>4, <2>1, <2>2, <2>3, CopyHeld, GotoStep DEF MonthlyMark
<1>5. CASE MonthlyRefresh(r)
  <2>1. proc[r].pc = "monthly.refresh"
    BY <1>5 DEF MonthlyRefresh
  <2>2. proc[r].copy \in Sound /\ proc[r].call.user \in User
    BY <2>1, Stepping DEF CopyPcs
  <2> QED
    BY <1>5, <2>1, <2>2, CopyHeld, RereadStep DEF MonthlyRefresh
<1> QED
  BY <1>1, <1>2, <1>3, <1>4, <1>5 DEF TryMonthlyAllowance

LEMMA DailyStep ==
  ASSUME Inv, NEW r \in Request, TryDailyGrant(r)
  PROVE  Effect /\ ProcInv'
<1> USE DEF At, Arg, Copy
<1>1. CASE DailyAdd(r)
  <2>1. proc[r].pc = "daily"
    BY <1>1 DEF DailyAdd
  <2>2. ProcInv /\ proc[r].copy \in Sound /\ proc[r].call.user \in User
    BY <2>1, Stepping DEF CopyPcs
  <2>3. CASE Answer(r, "ok") /\ UNCHANGED storeVars
    BY <2>1, <2>2, <2>3, NoEffect, AnswerStep DEF Response
  <2>4. CASE /\ DailyDue(proc[r].copy)
             /\ Credit(r, proc[r].call.user, DailyGrant[CurrentPlan(proc[r].copy)],
                       "daily_grant", "daily.reread")
    <3>1. DailyGrant[CurrentPlan(proc[r].copy)] \in Nat
      BY <2>2, <2>4, PlanAmounts DEF DailyDue
    <3> QED
      BY <2>1, <2>2, <2>4, <3>1, CopyHeld, CreditStep DEF TransactionType
  <2> QED
    BY <1>1, <2>3, <2>4 DEF DailyAdd
<1>2. CASE DailyReread(r)
  <2>1. proc[r].pc = "daily.reread"
    BY <1>2 DEF DailyReread
  <2>2. proc[r].copy \in Sound /\ proc[r].call.user \in User
    BY <2>1, Stepping DEF CopyPcs
  <2> QED
    BY <1>2, <2>1, <2>2, CopyHeld, RereadStep DEF DailyReread
<1>3. CASE DailyMark(r)
  <2>1. proc[r].pc = "daily.mark"
    BY <1>3 DEF DailyMark
  <2>2. /\ ProcInv /\ today \in Nat
        /\ proc[r].copy \in Sound /\ proc[r].call.user \in User
    BY <2>1, Stepping DEF CopyPcs
  <2>3. Effect
    BY <1>3, <2>2, SoundEdits, PutEffect DEF DailyMark
  <2> QED
    BY <1>3, <2>1, <2>2, <2>3, AnswerStep DEF DailyMark, Response
<1> QED
  BY <1>1, <1>2, <1>3 DEF TryDailyGrant

LEMMA SignupStep ==
  ASSUME Inv, NEW r \in Request, Signup(r)
  PROVE  Effect /\ ProcInv'
<1> USE DEF At, Arg, Copy
<1>1. CASE SignupGet(r)
  <2>1. proc[r].pc = "signup_grant"
    BY <1>1 DEF SignupGet
  <2>2. /\ proc[r].call.user \in User
        /\ GetOrElse(r, proc[r].call.user, "signup.create", "signup.add")
    BY <1>1, <2>1, Stepping DEF SignupGet
  <2>3. /\ "signup.create" \in Pcs /\ HoldsCall("signup.create", proc[r].call)
        /\ HoldsCopy("signup.create", proc[r].copy, proc[r].kept)
    BY NothingHeld
  <2>4. /\ "signup.add" \in Pcs /\ HoldsCall("signup.add", proc[r].call)
        /\ \A a \in Sound : HoldsCopy("signup.add", a, proc[r].kept)
    BY CopyHeld
  <2> QED
    BY <2>1, <2>2, <2>3, <2>4, GetOrElseStep
<1>2. CASE SignupCreate(r)
  <2>1. proc[r].pc = "signup.create"
    BY <1>2 DEF SignupCreate
  <2> QED
    BY <1>2, <2>1, Stepping, NewAccountSound, CopyHeld, CreateStep DEF SignupCreate
<1>3. CASE SignupAdd(r)
  <2>1. proc[r].pc = "signup.add"
    BY <1>3 DEF SignupAdd
  <2>2. ProcInv /\ proc[r].copy \in Sound /\ proc[r].call.user \in User
    BY <2>1, Stepping DEF CopyPcs
  <2>3. CASE Answer(r, "already_granted") /\ UNCHANGED storeVars
    BY <2>1, <2>2, <2>3, NoEffect, AnswerStep DEF Response
  <2>4. CASE Credit(r, proc[r].call.user, SignupGrant, "signup_grant", "signup.reread")
    BY <2>1, <2>2, <2>4, GrantAssumption, CopyHeld, CreditStep DEF TransactionType
  <2> QED
    BY <1>3, <2>3, <2>4 DEF SignupAdd
<1>4. CASE SignupReread(r)
  <2>1. proc[r].pc = "signup.reread"
    BY <1>4 DEF SignupReread
  <2>2. proc[r].copy \in Sound /\ proc[r].call.user \in User
    BY <2>1, Stepping DEF CopyPcs
  <2> QED
    BY <1>4, <2>1, <2>2, CopyHeld, RereadStep DEF SignupReread
<1>5. CASE SignupMark(r)
  <2>1. proc[r].pc = "signup.mark"
    BY <1>5 DEF SignupMark
  <2>2. /\ ProcInv /\ today \in Nat /\ proc[r].call \in Call
        /\ proc[r].copy \in Sound /\ proc[r].call.user \in User
        /\ proc[r].call.other \in Inviters
    BY <2>1, Stepping, Sent DEF CopyPcs, Inviters, Callable, Delivery
  <2> DEFINE a1 == [proc[r].copy EXCEPT !.signup_grant = today]
             a2 == [a1 EXCEPT !.referred_by = proc[r].call.other]
  <2>3. a1 \in Sound
    BY <2>2, SoundEdits
  <2>4. PutAccount(proc[r].call.user, a2)
    BY <1>5 DEF SignupMark
  <2> HIDE DEF a1
  <2>5. a2 \in Sound
    BY <2>2, <2>3, SoundEdits DEF Call
  <2> HIDE DEF a2
  <2>6. Effect
    BY <2>2, <2>4, <2>5, PutEffect
  <2> QED
    BY <1>5, <2>1, <2>2, <2>6, AnswerStep DEF SignupMark, Response
<1> QED
  BY <1>1, <1>2, <1>3, <1>4, <1>5 DEF Signup

LEMMA ReferralHeld ==
  ASSUME NEW pc \in {"referral.create", "referral.check", "referral.invitee",
                     "referral.inviter", "referral.create_inviter", "referral.add"},
         NEW c, c.other \in User, NEW n
  PROVE  pc \in Pcs /\ HoldsCall(pc, c) /\ \A a : HoldsCopy(pc, a, n)
BY DEF HoldsCall, HoldsCopy, Pcs, CreditPcs, WebhookPcs, StripeEvents, LagoEvents,
   CopyPcs, ReferralPcs, RefillPcs

LEMMA ReferralStep ==
  ASSUME Inv, NEW r \in Request, Referral(r)
  PROVE  Effect /\ ProcInv'
<1> USE DEF At, Arg, Copy
<1>1. proc[r].pc \in {"referral_grant", "referral.create", "referral.check",
        "referral.invitee", "referral.inviter", "referral.create_inviter", "referral.add"}
  BY DEF Referral, ReferralGet, ReferralCreate, ReferralCheck, ReferralInvitee,
     ReferralInviterGet, ReferralInviterCreate, ReferralInviter
<1>2. proc[r].pc # "new"
  BY <1>1
<1>3. /\ ProcInv /\ proc[r].call.user \in User /\ proc[r].call.other \in User
  BY <1>1, <1>2, Stepping DEF HoldsCall
<1>4. ReferralGrant \in Nat /\ "referral_bonus" \in TransactionType \ {"usage"}
  BY GrantAssumption DEF TransactionType
<1>5. CASE ReferralGet(r)
  <2>1. CASE Answer(r, "bad_request") /\ UNCHANGED storeVars
    BY <1>2, <1>3, <2>1, NoEffect, AnswerStep DEF Response
  <2>2. CASE GetOrElse(r, proc[r].call.user, "referral.create", "referral.check")
    BY <1>2, <1>3, <2>2, ReferralHeld, GetOrElseStep
  <2> QED
    BY <1>5, <2>1, <2>2 DEF ReferralGet
<1>6. CASE ReferralCreate(r)
  BY <1>2, <1>3, <1>6, ReferralHeld, CreateStep DEF ReferralCreate
<1>7. CASE ReferralCheck(r)
  <2>1. Effect
    BY <1>7, NoEffect DEF ReferralCheck
  <2>2. CASE Answer(r, "already_granted")
    BY <1>2, <1>3, <2>1, <2>2, AnswerStep DEF Response
  <2>3. CASE Goto(r, "referral.invitee")
    BY <1>2, <1>3, <2>1, <2>3, ReferralHeld, GotoStep
  <2> QED
    BY <1>7, <2>2, <2>3 DEF ReferralCheck
<1>8. CASE ReferralInvitee(r)
  BY <1>2, <1>3, <1>4, <1>8, ReferralHeld, CreditStep DEF ReferralInvitee
<1>9. CASE ReferralInviterGet(r)
  BY <1>2, <1>3, <1>9, ReferralHeld, GetOrElseStep DEF ReferralInviterGet
<1>10. CASE ReferralInviterCreate(r)
  BY <1>2, <1>3, <1>10, ReferralHeld, CreateStep DEF ReferralInviterCreate
<1>11. CASE ReferralInviter(r)
  BY <1>2, <1>3, <1>4, <1>11, CreditLastStep DEF ReferralInviter
<1> QED
  BY <1>5, <1>6, <1>7, <1>8, <1>9, <1>10, <1>11 DEF Referral

\* The handlers with one read and at most one write.
LEMMA BalanceStep ==
  ASSUME Inv, NEW r \in Request, GetBalance(r) \/ DailyGrantHandler(r)
  PROVE  Effect /\ ProcInv'
<1> USE DEF At, Arg
<1>1. proc[r].pc # "new"
  BY DEF GetBalance, DailyGrantHandler
<1>2. proc[r].call.user \in User
  BY <1>1, Stepping
<1>3. CASE GetBalance(r)
  BY <1>1, <1>2, <1>3, CopyHeld, GetOrNotFoundStep DEF GetBalance
<1>4. CASE DailyGrantHandler(r)
  BY <1>1, <1>2, <1>4, CopyHeld, GetOrNotFoundStep DEF DailyGrantHandler
<1> QED
  BY <1>3, <1>4

LEMMA AdminStep ==
  ASSUME Inv, NEW r \in Request, AdminAddCredits(r)
  PROVE  Effect /\ ProcInv'
<1> USE DEF At, Arg
<1>1. proc[r].pc # "new"
  BY DEF AdminAddCredits, AdminGet, AdminAdd
<1>2. ProcInv /\ proc[r].call.user \in User /\ proc[r].call.amount \in Int
  BY <1>1, Stepping DEF Call
<1>3. CASE AdminGet(r)
  <2>1. CASE Answer(r, "bad_request") /\ UNCHANGED storeVars
    BY <1>1, <1>2, <2>1, NoEffect, AnswerStep DEF Response
  <2>2. CASE /\ proc[r].call.amount > 0
             /\ GetOrNotFound(r, proc[r].call.user, "admin.add")
    <3>1. /\ "admin.add" \in Pcs /\ HoldsCall("admin.add", proc[r].call)
          /\ \A a \in Sound : HoldsCopy("admin.add", a, proc[r].kept)
      BY <1>2, <2>2 DEF HoldsCall, HoldsCopy, Pcs, CreditPcs, WebhookPcs, StripeEvents,
         LagoEvents, CopyPcs, ReferralPcs, RefillPcs
    <3> QED
      BY <1>1, <1>2, <2>2, <3>1, GetOrNotFoundStep
  <2> QED
    BY <1>3, <2>1, <2>2 DEF AdminGet
<1>4. CASE AdminAdd(r)
  <2>1. proc[r].call.amount \in Nat
    BY <1>1, <1>4, Stepping DEF AdminAdd, HoldsCall
  <2> QED
    BY <1>1, <1>2, <1>4, <2>1, CreditLastStep DEF AdminAdd, TransactionType
<1> QED
  BY <1>3, <1>4 DEF AdminAddCredits

LEMMA ConfigureStep ==
  ASSUME Inv, NEW r \in Request, ConfigureAutoRefill(r)
  PROVE  Effect /\ ProcInv'
<1> USE DEF At, Arg, Copy
<1>1. proc[r].pc # "new"
  BY DEF ConfigureAutoRefill, ConfigureGet, ConfigurePut
<1>2. ProcInv /\ proc[r].call \in Call /\ proc[r].call.user \in User
  BY <1>1, Stepping
<1>3. CASE ConfigureGet(r)
  BY <1>1, <1>2, <1>3, CopyHeld, GetOrNotFoundStep DEF ConfigureGet
<1>4. CASE ConfigurePut(r)
  <2>1. CASE Answer(r, "bad_request") /\ UNCHANGED storeVars
    BY <1>1, <1>2, <2>1, NoEffect, AnswerStep DEF Response
  <2>2. CASE /\ PutAccount(proc[r].call.user,
                   [proc[r].copy EXCEPT !.auto_refill = proc[r].call.auto_refill])
             /\ Answer(r, "ok")
    <3>1. proc[r].copy \in Sound
      BY <1>1, <1>4, Stepping DEF ConfigurePut, CopyPcs
    <3>2. [proc[r].copy EXCEPT !.auto_refill = proc[r].call.auto_refill] \in Sound
      BY <1>2, <3>1, SoundEdits DEF Call
    <3> QED
      BY <1>1, <1>2, <2>2, <3>2, PutEffect, AnswerStep DEF Response
  <2> QED
    BY <1>4, <2>1, <2>2 DEF ConfigurePut
<1> QED
  BY <1>3, <1>4 DEF ConfigureAutoRefill

LEMMA AskHeld ==
  ASSUME NEW c, NEW n
  PROVE  /\ {"purchase.session", "checkout.session"} \subseteq Pcs
         /\ c.amount \in Nat => HoldsCall("purchase.session", c)
         /\ c.reason \in PaidPlan => HoldsCall("checkout.session", c)
         /\ \A a : HoldsCopy("purchase.session", a, n) /\ HoldsCopy("checkout.session", a, n)
BY DEF HoldsCall, HoldsCopy, Pcs, CreditPcs, SubscribePcs, WebhookPcs, StripeEvents, LagoEvents,
   CopyPcs, ReferralPcs, RefillPcs

LEMMA PurchaseStep ==
  ASSUME Inv, NEW r \in Request, PurchaseCredits(r)
  PROVE  Effect /\ ProcInv'
<1> USE DEF At, Arg
<1>1. proc[r].pc # "new"
  BY DEF PurchaseCredits, PurchaseAsk, PurchaseSession
<1>2. ProcInv /\ proc[r].call.user \in User
  BY <1>1, Stepping
<1>3. CASE PurchaseAsk(r)
  <2>1. CASE Answer(r, "bad_request") /\ UNCHANGED storeVars
    BY <1>1, <1>2, <2>1, NoEffect, AnswerStep DEF Response
  <2>2. CASE /\ proc[r].call.amount \in MinPurchase..MaxPurchase
             /\ GetOrNotFound(r, proc[r].call.user, "purchase.session")
    <3>1. proc[r].call.amount \in Nat
      BY <2>2, GrantAssumption
    <3> QED
      BY <1>1, <1>2, <2>2, <3>1, AskHeld, GetOrNotFoundStep
  <2> QED
    BY <1>3, <2>1, <2>2 DEF PurchaseAsk
<1>4. CASE PurchaseSession(r)
  BY <1>1, <1>2, <1>4, NoEffect, AnswerStep DEF PurchaseSession, Response
<1> QED
  BY <1>3, <1>4 DEF PurchaseCredits

LEMMA CreditsStep ==
  ASSUME Inv, NEW r \in Request, Credits(r)
  PROVE  Effect /\ ProcInv'
BY BalanceStep, MonthlyStep, DailyStep, SignupStep, ReferralStep, AdminStep, ConfigureStep,
   PurchaseStep
DEF Credits

-----------------------------------------------------------------------------
(* handlers/usage.rs.                                                      *)

LEMMA UsageHeld ==
  ASSUME NEW c, c.id \in UsageId, NEW n
  PROVE  /\ "report.create" \in Pcs /\ HoldsCall("report.create", c)
         /\ \A a : HoldsCopy("report.create", a, n)
         /\ "usage.exists" \in Pcs /\ HoldsCall("usage.exists", c)
         /\ \A a \in Sound : HoldsCopy("usage.exists", a, n)
         /\ "usage.commit" \in Pcs /\ (c.amount \in Nat => HoldsCall("usage.commit", c))
         /\ \A a \in Sound : HoldsCopy("usage.commit", a, n)
BY DEF HoldsCall, HoldsCopy, Pcs, UsagePcs, WebhookPcs, StripeEvents, LagoEvents,
   CopyPcs, ReferralPcs, RefillPcs

LEMMA RefillHeld ==
  ASSUME NEW pc \in RefillPcs, NEW c, NEW a \in Sound, a.auto_refill \in AutoRefill, NEW n
  PROVE  pc \in Pcs /\ HoldsCall(pc, c) /\ HoldsCopy(pc, a, n)
BY DEF HoldsCall, HoldsCopy, Pcs, UsagePcs, WebhookPcs, StripeEvents, LagoEvents,
   CopyPcs, ReferralPcs, RefillPcs

LEMMA UsageCommitStep ==
  ASSUME Inv, NEW r \in Request, UsageCommit(r)
  PROVE  Effect /\ ProcInv'
<1> USE DEF At, Arg, Copy
<1>1. proc[r].pc = "usage.commit"
  BY DEF UsageCommit
<1>2. /\ ProcInv /\ proc[r].call.user \in User /\ proc[r].call.id \in UsageId
      /\ proc[r].call.amount \in Nat /\ proc[r].copy \in Sound
  BY <1>1, Stepping DEF HoldsCall, CopyPcs
<1>3. CASE UsageCharged(r)
  <2>1. Effect
    BY <1>2, <1>3 DEF UsageCharged, Effect
  <2>2. CASE Answer(r, "ok")
    BY <1>1, <1>2, <2>1, <2>2, AnswerStep DEF Response
  <2>3. CASE /\ RefillDue(proc[r].copy, accounts[proc[r].call.user].balance - proc[r].call.amount)
             /\ AnswerAndGoto(r, "ok", "refill.pay")
    <3>1. proc[r].copy.auto_refill \in AutoRefill
      BY <1>2, <2>3 DEF RefillDue, Sound, Account
    <3>2. /\ "refill.pay" \in Pcs /\ HoldsCall("refill.pay", proc[r].call)
          /\ HoldsCopy("refill.pay", proc[r].copy, proc[r].kept)
      BY <1>2, <3>1, RefillHeld DEF RefillPcs
    <3> QED
      BY <1>1, <1>2, <2>1, <2>3, <3>2, AnswerAndGotoStep DEF Response
  <2> QED
    BY <1>3, <2>2, <2>3 DEF UsageCharged
<1>4. CASE UsageRolledBack(r)
  <2> DEFINE x == UsageError(proc[r].call.user, proc[r].call.amount, proc[r].call.id)
  <2>1. Effect /\ Answer(r, x)
    BY <1>4, NoEffect DEF UsageRolledBack
  <2>2. x \in Response
    BY DEF UsageError, Response
  <2> HIDE DEF x
  <2> QED
    BY <1>1, <1>2, <2>1, <2>2, AnswerStep
<1> QED
  BY <1>3, <1>4 DEF UsageCommit

LEMMA ReportStep ==
  ASSUME Inv, NEW r \in Request, ReportUsage(r)
  PROVE  Effect /\ ProcInv'
<1> USE DEF At, Arg
<1>1. proc[r].pc \in {"report_usage", "report_usage_batch", "report.create", "usage.exists",
                      "usage.commit"}
  BY DEF ReportUsage, ReportGet, ReportCreate, BatchGet, UsageExists, UsageCommit
<1>2. proc[r].pc # "new"
  BY <1>1
<1>3. /\ ProcInv /\ proc[r].call.user \in User /\ proc[r].call.id \in UsageId
      /\ proc[r].call.amount \in Int
  BY <1>1, <1>2, Stepping DEF HoldsCall, Call
<1>4. CASE ReportGet(r)
  BY <1>2, <1>3, <1>4, UsageHeld, GetOrElseStep DEF ReportGet
<1>5. CASE ReportCreate(r)
  BY <1>2, <1>3, <1>5, UsageHeld, NewAccountSound, CreateStep DEF ReportCreate
<1>6. CASE BatchGet(r)
  BY <1>2, <1>3, <1>6, UsageHeld, GetOrNotFoundStep DEF BatchGet
<1>7. CASE UsageExists(r)
  <2>1. Effect /\ proc[r].copy \in Sound
    BY <1>2, <1>7, NoEffect, Stepping DEF UsageExists, CopyPcs
  <2>2. CASE Answer(r, "bad_request") \/ Answer(r, "duplicate")
    BY <1>2, <1>3, <2>1, <2>2, AnswerStep DEF Response
  <2>3. CASE proc[r].call.amount >= 0 /\ Goto(r, "usage.commit")
    BY <1>2, <1>3, <2>1, <2>3, UsageHeld, GotoStep
  <2> QED
    BY <1>7, <2>2, <2>3 DEF UsageExists
<1> QED
  BY <1>4, <1>5, <1>6, <1>7, UsageCommitStep DEF ReportUsage

LEMMA RefillTaskStep ==
  ASSUME Inv, NEW r \in Request, Refill(r)
  PROVE  Effect /\ ProcInv'
<1> USE DEF At, Arg, Copy
<1>1. proc[r].pc \in RefillPcs
  BY DEF Refill, RefillPay, RefillGet, RefillAdd, RefillPcs
<1>2. proc[r].pc # "new"
  BY <1>1 DEF RefillPcs
<1>3. /\ ProcInv /\ proc[r].call.user \in User
      /\ proc[r].copy \in Sound /\ proc[r].copy.auto_refill \in AutoRefill
  BY <1>1, <1>2, Stepping DEF HoldsCopy, CopyPcs
<1>4. CASE RefillPay(r)
  <2>1. Effect
    BY <1>4, NoEffect DEF RefillPay
  <2>2. CASE Answer(r, "ok") \/ Answer(r, "unanswered")
    BY <1>2, <1>3, <2>1, <2>2, AnswerStep DEF Response
  <2>3. CASE AnswerAndGoto(r, "charged", "refill.get")
    BY <1>2, <1>3, <2>1, <2>3, RefillHeld, AnswerAndGotoStep DEF RefillPcs, Response
  <2> QED
    BY <1>4, <2>2, <2>3 DEF RefillPay
<1>5. CASE RefillGet(r)
  <2>1. Effect
    BY <1>5, NoEffect DEF RefillGet
  <2>2. CASE Answer(r, "charged")
    BY <1>2, <1>3, <2>1, <2>2, AnswerStep DEF Response
  <2>3. CASE Goto(r, "refill.add")
    BY <1>2, <1>3, <2>1, <2>3, RefillHeld, GotoStep DEF RefillPcs
  <2> QED
    BY <1>5, <2>2, <2>3 DEF RefillGet
<1>6. CASE RefillAdd(r)
  <2>1. proc[r].copy.auto_refill.amount \in Nat
    BY <1>3 DEF AutoRefill
  <2>2. Effect
    BY <1>3, <1>6, <2>1, AddEffect DEF RefillAdd, TransactionType
  <2> QED
    BY <1>2, <1>3, <1>6, <2>2, AnswerStep DEF RefillAdd, Response
<1> QED
  BY <1>4, <1>5, <1>6 DEF Refill

LEMMA CheckStep ==
  ASSUME Inv, NEW r \in Request, CheckBalance(r)
  PROVE  Effect /\ ProcInv'
<1> USE DEF At, Arg
<1>1. proc[r].pc # "new"
  BY DEF CheckBalance, CheckGet, CheckCreate
<1>2. proc[r].call.user \in User
  BY <1>1, Stepping
<1>3. CASE CheckGet(r)
  BY <1>1, <1>2, <1>3, NothingHeld, CopyHeld, GetOrElseStep DEF CheckGet
<1>4. CASE CheckCreate(r)
  BY <1>1, <1>2, <1>4, CopyHeld, NewAccountSound, CreateStep DEF CheckCreate
<1> QED
  BY <1>3, <1>4 DEF CheckBalance

LEMMA UsageStep ==
  ASSUME Inv, NEW r \in Request, Usage(r)
  PROVE  Effect /\ ProcInv'
BY ReportStep, RefillTaskStep, CheckStep DEF Usage

-----------------------------------------------------------------------------
(* handlers/accounts.rs.                                                   *)

LEMMA AccountsStep ==
  ASSUME Inv, NEW r \in Request, Accounts(r)
  PROVE  Effect /\ ProcInv'
<1> USE DEF At, Arg, Copy
<1>1. proc[r].pc # "new"
  BY DEF Accounts, CreateAccount, CreateGet, CreateCustomer, CreatePut, GetAccount,
     GetAccountGet, GetAccountCreate, DeleteAccountHandler
<1>2. ProcInv /\ proc[r].call.user \in User
  BY <1>1, Stepping
<1>3. CASE CreateGet(r)
  BY <1>1, <1>2, <1>3, NoEffect, NothingHeld, GotoStep, AnswerStep DEF CreateGet, Response
<1>4. CASE CreateCustomer(r)
  <2>1. PICK ok \in BOOLEAN : Keep(r, [NewAccount EXCEPT !.stripe_customer = ok], "create.put")
    BY <1>4 DEF CreateCustomer
  <2>2. [NewAccount EXCEPT !.stripe_customer = ok] \in Sound
    BY NewAccountSound, SoundEdits
  <2>3. Effect
    BY <1>4, NoEffect DEF CreateCustomer
  <2> QED
    BY <1>1, <1>2, <2>1, <2>2, <2>3, CopyHeld, KeepStep
<1>5. CASE CreatePut(r)
  <2>1. proc[r].copy \in Sound
    BY <1>1, <1>5, Stepping DEF CreatePut, CopyPcs
  <2> QED
    BY <1>1, <1>2, <1>5, <2>1, PutEffect, AnswerStep DEF CreatePut, Response
<1>6. CASE GetAccountGet(r)
  BY <1>1, <1>2, <1>6, NoEffect, NothingHeld, GotoStep, AnswerStep DEF GetAccountGet, Response
<1>7. CASE GetAccountCreate(r)
  BY <1>1, <1>2, <1>7, NewAccountSound, PutEffect, AnswerStep DEF GetAccountCreate, Response
<1>8. CASE DeleteAccountHandler(r)
  <2>1. CASE DeleteAccount(proc[r].call.user) /\ Answer(r, "ok")
    BY <1>1, <1>2, <2>1, AnswerStep DEF Effect, Response
  <2>2. CASE NoAccount(r, proc[r].call.user)
    BY <1>1, <1>2, <2>2, NoAccountStep
  <2>3. CASE Answer(r, "internal_error") /\ UNCHANGED storeVars
    BY <1>1, <1>2, <2>3, NoEffect, AnswerStep DEF Response
  <2> QED
    BY <1>8, <2>1, <2>2, <2>3 DEF DeleteAccountHandler
<1> QED
  BY <1>3, <1>4, <1>5, <1>6, <1>7, <1>8 DEF Accounts, CreateAccount, GetAccount

-----------------------------------------------------------------------------
(* handlers/subscriptions.rs.                                              *)

LEMMA ZeroProStep ==
  ASSUME Inv, NEW r \in Request, ZeroPro(r)
  PROVE  Effect /\ ProcInv'
<1> USE DEF At, Arg, Copy
<1>1. proc[r].pc \in {"subscribe_zero_pro"} \cup SubscribePcs
  BY DEF ZeroPro, SubscribeGet, SubscribeCustomer, SubscribePut, SubscribePay, SubscribePcs
<1>2. proc[r].pc # "new" /\ ProcInv /\ proc[r].call.user \in User
  BY <1>1, Stepping DEF SubscribePcs
<1>3. /\ "subscribe.pay" \in Pcs /\ HoldsCall("subscribe.pay", proc[r].call)
      /\ \A a : HoldsCopy("subscribe.pay", a, proc[r].kept)
  BY DEF Pcs, SubscribePcs, HoldsCall, HoldsCopy, WebhookPcs, StripeEvents, LagoEvents,
     CopyPcs, ReferralPcs, RefillPcs
<1>4. ASSUME NEW pc \in {"subscribe.customer", "subscribe.put"}
      PROVE  /\ pc \in Pcs /\ HoldsCall(pc, proc[r].call)
             /\ \A a \in Sound : HoldsCopy(pc, a, proc[r].kept)
  BY DEF Pcs, SubscribePcs, HoldsCall, HoldsCopy, WebhookPcs, StripeEvents, LagoEvents,
     CopyPcs, ReferralPcs, RefillPcs
<1>5. CASE SubscribeGet(r)
  <2> DEFINE a == IF Exists(proc[r].call.user) THEN accounts[proc[r].call.user] ELSE NewAccount
  <2>1. a \in Sound
    BY <1>2, Row, NewAccountSound
  <2>2. Effect
    BY <1>5, NoEffect DEF SubscribeGet
  <2>3. Answer(r, "bad_request") \/ Goto(r, "subscribe.pay") \/ Keep(r, a, "subscribe.customer")
    BY <1>5 DEF SubscribeGet
  <2> HIDE DEF a
  <2>4. CASE Answer(r, "bad_request")
    BY <1>2, <2>2, <2>4, AnswerStep DEF Response
  <2>5. CASE Goto(r, "subscribe.pay")
    BY <1>2, <1>3, <2>2, <2>5, GotoStep
  <2>6. CASE Keep(r, a, "subscribe.customer")
    BY <1>2, <1>4, <2>1, <2>2, <2>6, KeepStep
  <2> QED
    BY <2>3, <2>4, <2>5, <2>6
<1>6. CASE SubscribeCustomer(r)
  <2>1. Effect /\ proc[r].copy \in Sound
    BY <1>2, <1>6, NoEffect, Stepping DEF SubscribeCustomer, CopyPcs
  <2>2. CASE Goto(r, "subscribe.put")
    BY <1>2, <1>4, <2>1, <2>2, GotoStep
  <2>3. CASE Answer(r, "internal_error")
    BY <1>2, <2>1, <2>3, AnswerStep DEF Response
  <2> QED
    BY <1>6, <2>2, <2>3 DEF SubscribeCustomer
<1>7. CASE SubscribePut(r)
  <2>1. proc[r].copy \in Sound
    BY <1>2, <1>7, Stepping DEF SubscribePut, CopyPcs
  <2>2. [proc[r].copy EXCEPT !.stripe_customer = TRUE] \in Sound
    BY <2>1, SoundEdits
  <2> QED
    BY <1>2, <1>3, <1>7, <2>2, PutEffect, GotoStep DEF SubscribePut
<1>8. CASE SubscribePay(r)
  BY <1>2, <1>8, NoEffect, AnswerStep DEF SubscribePay, Response
<1> QED
  BY <1>5, <1>6, <1>7, <1>8 DEF ZeroPro

LEMMA SubscribeStep ==
  ASSUME Inv, NEW r \in Request, Subscribe(r)
  PROVE  Effect /\ ProcInv'
<1> USE DEF At, Arg, Copy
<1>1. CASE ZeroPro(r)
  BY <1>1, ZeroProStep
<1>2. ASSUME CheckoutAsk(r) \/ PortalAsk(r) \/ CancelAsk(r) \/ StripeCall(r)
      PROVE  Effect /\ ProcInv'
  <2>1. proc[r].pc # "new" /\ UNCHANGED storeVars
    BY <1>2 DEF CheckoutAsk, PortalAsk, CancelAsk, StripeCall
  <2>2. ProcInv /\ proc[r].call.user \in User /\ Effect
    BY <2>1, Stepping, NoEffect
  <2>3. CASE CheckoutAsk(r)
    <3>1. \/ Answer(r, "bad_request")
          \/ proc[r].call.reason \in PaidPlan /\ Goto(r, "checkout.session")
      BY <2>3 DEF CheckoutAsk
    <3> QED
      BY <2>1, <2>2, <3>1, AskHeld, AnswerStep, GotoStep DEF Response
  <2>4. CASE PortalAsk(r)
    <3>1. Answer(r, "not_found") \/ Answer(r, "bad_request") \/ Goto(r, "portal.session")
      BY <2>4 DEF PortalAsk
    <3> QED
      BY <2>1, <2>2, <3>1, NothingHeld, AnswerStep, GotoStep DEF Response
  <2>5. CASE CancelAsk(r)
    <3> DEFINE u == proc[r].call.user
    <3>1. \/ Answer(r, "not_found") \/ Answer(r, "bad_request")
          \/ Exists(u) /\ Keep(r, accounts[u], "cancel.end")
      BY <2>5 DEF CancelAsk
    <3>2. CASE Answer(r, "not_found") \/ Answer(r, "bad_request")
      BY <2>1, <2>2, <3>2, AnswerStep DEF Response
    <3>3. CASE Exists(u) /\ Keep(r, accounts[u], "cancel.end")
      BY <2>1, <2>2, <3>3, Row, CopyHeld, KeepStep
    <3> QED
      BY <3>1, <3>2, <3>3
  <2>6. CASE StripeCall(r)
    BY <2>1, <2>2, <2>6, AnswerStep DEF StripeCall, Response
  <2> QED
    BY <1>2, <2>3, <2>4, <2>5, <2>6
<1> QED
  BY <1>1, <1>2 DEF Subscribe

-----------------------------------------------------------------------------
(* handlers/webhooks.rs.                                                   *)

\* The steps of a webhook that rely on the id of the event alone.
LEMMA WebhookHeld ==
  ASSUME NEW pc \in {"record", "checkout.subscription", "checkout.create",
                     "subscription.deleted", "invoice.payment_failed", "invoice.paid"},
         NEW c, c.id \in WebhookId, NEW n
  PROVE  pc \in Pcs /\ HoldsCall(pc, c) /\ \A a : HoldsCopy(pc, a, n)
BY DEF HoldsCall, HoldsCopy, Pcs, WebhookPcs, StripeEvents, LagoEvents, CopyPcs,
   ReferralPcs, RefillPcs

\* ... and on the account it has read.
LEMMA WebhookCopyHeld ==
  ASSUME NEW pc \in {"checkout.put", "deleted.put", "invoice.add", "invoice.reread",
                     "invoice.mark"},
         NEW c, c.id \in WebhookId, NEW n
  PROVE  pc \in Pcs /\ HoldsCall(pc, c) /\ \A a \in Sound : HoldsCopy(pc, a, n)
BY DEF HoldsCall, HoldsCopy, Pcs, WebhookPcs, StripeEvents, LagoEvents, CopyPcs,
   ReferralPcs, RefillPcs

\* ... and on the inviter in it.
LEMMA InviterHeld ==
  ASSUME NEW pc \in ReferralPcs, NEW c, c.id \in WebhookId, NEW n,
         NEW a \in Sound, a.referred_by \in User
  PROVE  pc \in Pcs /\ HoldsCall(pc, c) /\ HoldsCopy(pc, a, n)
BY DEF HoldsCall, HoldsCopy, Pcs, WebhookPcs, StripeEvents, LagoEvents, CopyPcs,
   ReferralPcs, RefillPcs

\* ... and on the subscription that came with the event.
LEMMA PeriodHeld ==
  ASSUME NEW c, c.id \in WebhookId, c.subscription \in Subscription, NEW n
  PROVE  /\ \A pc \in {"subscription.create", "lago.started", "lago.create", "lago.add"} :
              pc \in Pcs /\ HoldsCall(pc, c) /\ \A a : HoldsCopy(pc, a, n)
         /\ "subscription.put" \in Pcs /\ HoldsCall("subscription.put", c)
         /\ \A a \in Sound : HoldsCopy("subscription.put", a, n)
BY DEF HoldsCall, HoldsCopy, Pcs, WebhookPcs, StripeEvents, LagoEvents, CopyPcs,
   ReferralPcs, RefillPcs

LEMMA EventHeld ==
  ASSUME NEW c \in Call, WellFormed(c), c.id \in WebhookId, c.event \in StripeEvents, NEW n
  PROVE  c.event \in Pcs /\ HoldsCall(c.event, c) /\ \A a : HoldsCopy(c.event, a, n)
<1>1. CASE c.event = "subscription.updated"
  <2>1. c.subscription \in Subscription
    BY <1>1 DEF WellFormed, Call
  <2> QED
    BY <1>1, <2>1 DEF HoldsCall, HoldsCopy, Pcs, WebhookPcs, StripeEvents, LagoEvents, CopyPcs,
       ReferralPcs, RefillPcs
<1>2. CASE c.event = "checkout.payment"
  <2>1. c.amount \in Nat
    BY <1>2 DEF WellFormed
  <2> QED
    BY <1>2, <2>1 DEF HoldsCall, HoldsCopy, Pcs, WebhookPcs, StripeEvents, LagoEvents, CopyPcs,
       ReferralPcs, RefillPcs
<1>3. CASE c.event \notin {"subscription.updated", "checkout.payment"}
  BY <1>3, WebhookHeld DEF StripeEvents
<1> QED
  BY <1>1, <1>2, <1>3

LEMMA DoneStep ==
  ASSUME ProcInv, NEW r \in Request, proc[r].pc # "new", proc[r].call.id \in WebhookId, Done(r)
  PROVE  ProcInv'
BY WebhookHeld, GotoStep DEF Done

\* What the handler of a webhook has, besides what every handler has.
LEMMA Delivered ==
  ASSUME Inv, NEW r \in Request, proc[r].pc \in {"stripe_webhook", "lago_webhook"} \cup WebhookPcs
  PROVE  /\ proc[r].pc # "new" /\ ProcInv /\ today \in Nat /\ proc[r].kept \in Int
         /\ proc[r].call \in Call /\ proc[r].call.user \in User
         /\ proc[r].call.id \in WebhookId
<1>1. proc[r].pc # "new"
  BY DEF WebhookPcs, StripeEvents, LagoEvents
<1> QED
  BY <1>1, Stepping DEF HoldsCall

LEMMA ReceiveStep ==
  ASSUME Inv, NEW r \in Request,
         StripeReceive(r) \/ Resolve(r) \/ LagoReceive(r) \/ RecordEvent(r)
  PROVE  Effect /\ ProcInv'
<1> USE DEF At, Arg
<1>1. proc[r].pc \in {"stripe_webhook", "lago_webhook", "resolve", "record"}
  BY DEF StripeReceive, Resolve, LagoReceive, RecordEvent
<1>2. /\ proc[r].pc # "new" /\ ProcInv
      /\ proc[r].call \in Call /\ proc[r].call.id \in WebhookId
  BY <1>1, Delivered DEF WebhookPcs, StripeEvents
<1>3. WellFormed(proc[r].call) /\ HoldsCall(proc[r].pc, proc[r].call)
  BY <1>2, Stepping
<1>4. CASE StripeReceive(r)
  <2>1. proc[r].call.event \in StripeEvents /\ Effect
    BY <1>3, <1>4, NoEffect DEF StripeReceive, HoldsCall
  <2>2. CASE Answer(r, "already_processed")
    BY <1>2, <2>1, <2>2, AnswerStep DEF Response
  <2>3. CASE Goto(r, "resolve")
    <3>1. /\ "resolve" \in Pcs /\ HoldsCall("resolve", proc[r].call)
          /\ HoldsCopy("resolve", proc[r].copy, proc[r].kept)
      BY <1>2, <2>1 DEF HoldsCall, HoldsCopy, Pcs, WebhookPcs, StripeEvents, LagoEvents,
         CopyPcs, ReferralPcs, RefillPcs
    <3> QED
      BY <1>2, <2>1, <2>3, <3>1, GotoStep
  <2>4. CASE Goto(r, proc[r].call.event)
    BY <1>2, <1>3, <2>1, <2>4, EventHeld, GotoStep
  <2> QED
    BY <1>4, <2>2, <2>3, <2>4 DEF StripeReceive
<1>5. CASE Resolve(r)
  <2>1. proc[r].call.event \in StripeEvents /\ Effect
    BY <1>3, <1>5, NoEffect DEF Resolve, HoldsCall
  <2>2. CASE Done(r)
    BY <1>2, <2>1, <2>2, DoneStep
  <2>3. CASE Goto(r, proc[r].call.event)
    BY <1>2, <1>3, <2>1, <2>3, EventHeld, GotoStep
  <2> QED
    BY <1>5, <2>2, <2>3 DEF Resolve
<1>6. CASE LagoReceive(r)
  <2>1. Effect /\ proc[r].call.event \in LagoEvents
    BY <1>3, <1>6, NoEffect DEF LagoReceive, HoldsCall
  <2>2. CASE Answer(r, "already_processed")
    BY <1>2, <2>1, <2>2, AnswerStep DEF Response
  <2>3. CASE proc[r].call.event = "lago.started" /\ Goto(r, "lago.started")
    <3>1. proc[r].call.subscription \in Subscription
      BY <1>2, <1>3, <2>3 DEF WellFormed, Call
    <3> QED
      BY <1>2, <2>1, <2>3, <3>1, PeriodHeld, GotoStep
  <2>4. CASE Goto(r, "record")
    BY <1>2, <2>1, <2>4, DoneStep DEF Done
  <2> QED
    BY <1>6, <2>2, <2>3, <2>4 DEF LagoReceive
<1>7. CASE RecordEvent(r)
  BY <1>2, <1>7, AnswerStep DEF RecordEvent, Effect, Response
<1> QED
  BY <1>4, <1>5, <1>6, <1>7

LEMMA CheckoutStep ==
  ASSUME Inv, NEW r \in Request, Checkout(r)
  PROVE  Effect /\ ProcInv'
<1> USE DEF At, Arg, Copy
<1>1. proc[r].pc \in {"checkout.subscription", "checkout.create", "checkout.put",
                      "checkout.payment", "purchase.add"}
  BY DEF Checkout, CheckoutGet, CheckoutCreate, CheckoutPut, PurchaseGet, PurchaseAdd
<1>2. /\ proc[r].pc # "new" /\ ProcInv
      /\ proc[r].call.user \in User /\ proc[r].call.id \in WebhookId
  BY <1>1, Delivered DEF WebhookPcs, StripeEvents
<1>3. CASE CheckoutGet(r)
  BY <1>2, <1>3, WebhookHeld, WebhookCopyHeld, GetOrElseStep DEF CheckoutGet
<1>4. CASE CheckoutCreate(r)
  BY <1>2, <1>4, NewAccountSound, WebhookCopyHeld, CreateStep DEF CheckoutCreate
<1>5. CASE CheckoutPut(r)
  <2>1. proc[r].copy \in Sound
    BY <1>2, <1>5, Stepping DEF CheckoutPut, CopyPcs
  <2>2. [proc[r].copy EXCEPT !.stripe_customer = TRUE] \in Sound
    BY <2>1, SoundEdits
  <2> QED
    BY <1>2, <1>5, <2>2, PutEffect, DoneStep DEF CheckoutPut
<1>6. proc[r].pc \in {"checkout.payment", "purchase.add"} => proc[r].call.amount \in Nat
  BY <1>2, Stepping DEF HoldsCall
<1>7. CASE PurchaseGet(r)
  <2>1. CASE Done(r) /\ UNCHANGED storeVars
    BY <1>2, <2>1, NoEffect, DoneStep
  <2>2. CASE GetOrNotFound(r, proc[r].call.user, "purchase.add")
    <3>1. /\ "purchase.add" \in Pcs /\ HoldsCall("purchase.add", proc[r].call)
          /\ \A a \in Sound : HoldsCopy("purchase.add", a, proc[r].kept)
      BY <1>2, <1>6, <1>7 DEF PurchaseGet, HoldsCall, HoldsCopy, Pcs, WebhookPcs, StripeEvents,
         LagoEvents, CopyPcs, ReferralPcs, RefillPcs
    <3> QED
      BY <1>2, <2>2, <3>1, GetOrNotFoundStep
  <2> QED
    BY <1>7, <2>1, <2>2 DEF PurchaseGet
<1>8. CASE PurchaseAdd(r)
  BY <1>2, <1>6, <1>8, WebhookHeld, CreditStep DEF PurchaseAdd, TransactionType
<1> QED
  BY <1>3, <1>4, <1>5, <1>7, <1>8 DEF Checkout

LEMMA SubscriptionPutStep ==
  ASSUME Inv, NEW r \in Request, SubscriptionPut(r)
  PROVE  Effect /\ ProcInv'
<1> USE DEF At, Arg, Copy
<1>1. proc[r].pc = "subscription.put"
  BY DEF SubscriptionPut
<1>2. /\ proc[r].pc # "new" /\ ProcInv
      /\ proc[r].call.user \in User /\ proc[r].call.id \in WebhookId
  BY <1>1, Delivered DEF WebhookPcs
<1>3. proc[r].copy \in Sound /\ proc[r].call.subscription \in Subscription
  BY <1>1, Stepping DEF CopyPcs, HoldsCall
<1> DEFINE sub == [proc[r].call.subscription EXCEPT !.status = MappedStatus(proc[r].call.reason)]
           a1 == [proc[r].copy EXCEPT !.subscription = sub]
           a == [a1 EXCEPT !.stripe_customer = TRUE]
<1>4. sub \in Subscription
  <2>1. MappedStatus(proc[r].call.reason) \in {"active", "cancelled", "past_due"}
    BY DEF MappedStatus
  <2> QED
    BY <1>3, <2>1 DEF Subscription
<1>5. /\ PutAccount(proc[r].call.user, a)
      /\ IF a.referred_by = None THEN Done(r) ELSE Keep(r, a, "subscription.referral")
  BY DEF SubscriptionPut
<1> HIDE DEF sub
<1>6. a1 \in Sound
  BY <1>3, <1>4, SoundEdits
<1> HIDE DEF a1
<1>7. a \in Sound
  BY <1>6, SoundEdits
<1> HIDE DEF a
<1>8. Effect
  BY <1>2, <1>5, <1>7, PutEffect
<1>9. CASE a.referred_by = None
  BY <1>2, <1>5, <1>8, <1>9, DoneStep
<1>10. CASE a.referred_by # None
  <2>1. a.referred_by \in User
    BY <1>7, <1>10 DEF Sound, Account
  <2>2. /\ "subscription.referral" \in Pcs
        /\ HoldsCall("subscription.referral", proc[r].call)
        /\ HoldsCopy("subscription.referral", a, proc[r].kept)
    BY <1>2, <1>7, <2>1, InviterHeld DEF ReferralPcs
  <2> QED
    BY <1>2, <1>5, <1>7, <1>8, <1>10, <2>2, KeepStep
<1> QED
  BY <1>9, <1>10

\* The part of the update that rewards the inviter.
LEMMA SubscriptionReferralStep ==
  ASSUME Inv, NEW r \in Request,
         \/ SubscriptionReferral(r) \/ SubscriptionInvitee(r) \/ SubscriptionInviterGet(r)
         \/ SubscriptionInviterCreate(r) \/ SubscriptionInviter(r)
  PROVE  Effect /\ ProcInv'
<1> USE DEF At, Arg, Copy
<1>1. proc[r].pc \in ReferralPcs
  BY DEF SubscriptionReferral, SubscriptionInvitee, SubscriptionInviterGet,
     SubscriptionInviterCreate, SubscriptionInviter, ReferralPcs
<1>2. /\ proc[r].pc # "new" /\ ProcInv
      /\ proc[r].call.user \in User /\ proc[r].call.id \in WebhookId
  BY <1>1, Delivered DEF ReferralPcs, WebhookPcs
<1>3. proc[r].copy \in Sound /\ proc[r].copy.referred_by \in User
  BY <1>1, <1>2, Stepping DEF CopyPcs, HoldsCopy
<1>4. \A pc \in ReferralPcs : /\ pc \in Pcs /\ HoldsCall(pc, proc[r].call)
                              /\ HoldsCopy(pc, proc[r].copy, proc[r].kept)
  BY <1>2, <1>3, InviterHeld
<1>5. ReferralGrant \in Nat /\ "referral_bonus" \in TransactionType \ {"usage"}
  BY GrantAssumption DEF TransactionType
<1>6. CASE SubscriptionReferral(r)
  <2>1. Effect
    BY <1>6, NoEffect DEF SubscriptionReferral
  <2>2. CASE Done(r)
    BY <1>2, <2>1, <2>2, DoneStep
  <2>3. CASE Goto(r, "subscription.invitee")
    BY <1>2, <1>4, <2>1, <2>3, GotoStep DEF ReferralPcs
  <2> QED
    BY <1>6, <2>2, <2>3 DEF SubscriptionReferral
<1>7. CASE SubscriptionInvitee(r)
  <2>1. "subscription.inviter" \in ReferralPcs
    BY DEF ReferralPcs
  <2> QED
    BY <1>2, <1>4, <1>5, <1>7, <2>1, CreditStep DEF SubscriptionInvitee
<1>8. CASE SubscriptionInviterGet(r)
  <2>1. Effect
    BY <1>8, NoEffect DEF SubscriptionInviterGet
  <2>2. PICK pc \in ReferralPcs : Goto(r, pc)
    BY <1>8 DEF SubscriptionInviterGet, ReferralPcs
  <2> QED
    BY <1>2, <1>4, <2>1, <2>2, GotoStep
<1>9. CASE SubscriptionInviterCreate(r)
  <2>1. "subscription.add" \in ReferralPcs
    BY DEF ReferralPcs
  <2>2. Effect
    BY <1>3, <1>9, NewAccountSound, PutEffect DEF SubscriptionInviterCreate
  <2> QED
    BY <1>2, <1>4, <1>9, <2>1, <2>2, GotoStep DEF SubscriptionInviterCreate
<1>10. CASE SubscriptionInviter(r)
  BY <1>2, <1>3, <1>5, <1>10, WebhookHeld, CreditStep DEF SubscriptionInviter
<1> QED
  BY <1>6, <1>7, <1>8, <1>9, <1>10

LEMMA SubscriptionUpdateStep ==
  ASSUME Inv, NEW r \in Request, SubscriptionUpdate(r)
  PROVE  Effect /\ ProcInv'
<1> USE DEF At, Arg
<1>1. CASE SubscriptionGet(r) \/ SubscriptionCreate(r)
  <2>1. proc[r].pc \in {"subscription.updated", "subscription.create"}
    BY <1>1 DEF SubscriptionGet, SubscriptionCreate
  <2>2. /\ proc[r].pc # "new" /\ ProcInv
        /\ proc[r].call.user \in User /\ proc[r].call.id \in WebhookId
    BY <2>1, Delivered DEF WebhookPcs, StripeEvents
  <2>3. proc[r].call.subscription \in Subscription
    BY <2>1, <2>2, Stepping DEF HoldsCall
  <2>4. CASE SubscriptionGet(r)
    BY <2>2, <2>3, <2>4, PeriodHeld, GetOrElseStep DEF SubscriptionGet
  <2>5. CASE SubscriptionCreate(r)
    BY <2>2, <2>3, <2>5, NewAccountSound, PeriodHeld, CreateStep DEF SubscriptionCreate
  <2> QED
    BY <1>1, <2>4, <2>5
<1> QED
  BY <1>1, SubscriptionPutStep, SubscriptionReferralStep DEF SubscriptionUpdate

LEMMA DeletedStep ==
  ASSUME Inv, NEW r \in Request, SubscriptionDeleted(r)
  PROVE  Effect /\ ProcInv'
<1> USE DEF At, Arg, Copy
<1>1. proc[r].pc \in {"subscription.deleted", "deleted.put"}
  BY DEF SubscriptionDeleted, DeletedGet, DeletedPut
<1>2. /\ proc[r].pc # "new" /\ ProcInv
      /\ proc[r].call.user \in User /\ proc[r].call.id \in WebhookId
  BY <1>1, Delivered DEF WebhookPcs, StripeEvents
<1>3. CASE DeletedGet(r)
  <2>1. Effect
    BY <1>3, NoEffect DEF DeletedGet
  <2>2. CASE /\ Exists(proc[r].call.user)
             /\ Keep(r, accounts[proc[r].call.user], "deleted.put")
    BY <1>2, <2>1, <2>2, Row, WebhookCopyHeld, KeepStep
  <2>3. CASE Done(r)
    BY <1>2, <2>1, <2>3, DoneStep
  <2> QED
    BY <1>3, <2>2, <2>3 DEF DeletedGet
<1>4. CASE DeletedPut(r)
  <2>1. proc[r].copy \in Sound
    BY <1>2, <1>4, Stepping DEF DeletedPut, CopyPcs
  <2>2. [proc[r].copy EXCEPT !.subscription = None] \in Sound
    BY <2>1, SoundEdits
  <2> QED
    BY <1>2, <1>4, <2>2, PutEffect, DoneStep DEF DeletedPut
<1> QED
  BY <1>3, <1>4 DEF SubscriptionDeleted

LEMMA PaymentFailedStep ==
  ASSUME Inv, NEW r \in Request, PaymentFailed(r)
  PROVE  Effect /\ ProcInv'
<1> USE DEF At, Arg, Copy
<1>1. proc[r].pc \in {"invoice.payment_failed", "failed.put"}
  BY DEF PaymentFailed, FailedGet, FailedPut
<1>2. /\ proc[r].pc # "new" /\ ProcInv
      /\ proc[r].call.user \in User /\ proc[r].call.id \in WebhookId
  BY <1>1, Delivered DEF WebhookPcs, StripeEvents
<1>3. CASE FailedGet(r)
  <2> DEFINE a == accounts[proc[r].call.user]
  <2>1. Effect
    BY <1>3, NoEffect DEF FailedGet
  <2>2. CASE Exists(proc[r].call.user) /\ a.subscription # None /\ Keep(r, a, "failed.put")
    <3>1. a \in Sound
      BY <1>2, <2>2, Row
    <3>2. a.subscription \in Subscription
      BY <2>2, <3>1 DEF Sound, Account
    <3> HIDE DEF a
    <3>3. /\ "failed.put" \in Pcs /\ HoldsCall("failed.put", proc[r].call)
          /\ HoldsCopy("failed.put", a, proc[r].kept)
      BY <1>2, <3>1, <3>2 DEF HoldsCall, HoldsCopy, Pcs, WebhookPcs, StripeEvents, LagoEvents,
         CopyPcs, ReferralPcs, RefillPcs
    <3> QED
      BY <1>2, <2>1, <2>2, <3>1, <3>3, KeepStep
  <2>3. CASE Done(r)
    BY <1>2, <2>1, <2>3, DoneStep
  <2> QED
    BY <1>3, <2>2, <2>3 DEF FailedGet
<1>4. CASE FailedPut(r)
  <2> DEFINE sub == [proc[r].copy.subscription EXCEPT !.status = "past_due"]
             a == [proc[r].copy EXCEPT !.subscription = sub]
  <2>1. proc[r].copy \in Sound /\ proc[r].copy.subscription \in Subscription
    BY <1>2, <1>4, Stepping DEF FailedPut, CopyPcs, HoldsCopy
  <2>2. sub \in Subscription
    BY <2>1 DEF Subscription
  <2>3. PutAccount(proc[r].call.user, a)
    BY <1>4, <2>1 DEF FailedPut
  <2> HIDE DEF sub
  <2>4. a \in Sound
    BY <2>1, <2>2, SoundEdits
  <2> HIDE DEF a
  <2> QED
    BY <1>2, <1>4, <2>3, <2>4, PutEffect, DoneStep DEF FailedPut
<1> QED
  BY <1>3, <1>4 DEF PaymentFailed

\* The amounts of the records of u, and their sums.
Amounts(u) == [i \in DOMAIN ledger[u] |-> ledger[u][i].amount]

LEMMA RecordsSummed ==
  ASSUME Inv, NEW u \in User, NEW S, S \subseteq DOMAIN ledger[u]
  PROVE  /\ MapThenSumSet(LAMBDA i : ledger[u][i].amount, S) = Total(Amounts(u), S)
         /\ IsFiniteSet(S) /\ Whole(Amounts(u), S)
<1>1. ledger[u] \in Seq(Transaction)
  BY DEF Inv, StoreType
<1>2. /\ DOMAIN ledger[u] = 1..Len(ledger[u]) /\ Len(ledger[u]) \in Nat
      /\ \A i \in DOMAIN ledger[u] : ledger[u][i] \in Transaction
  BY <1>1
<1>3. IsFiniteSet(S)
  <2>1. IsFiniteSet(1..Len(ledger[u]))
    BY <1>2, FS_Interval
  <2> QED
    BY <1>2, <2>1, FS_Subset
<1>4. \A i \in S : Amounts(u)[i] \in Int
  BY <1>2 DEF Amounts, Transaction
<1>5. MapThenSumSet(LAMBDA i : ledger[u][i].amount, S) = Total(Amounts(u), S)
  BY ZenonT(60) DEF MapThenSumSet, MapThenFoldSet, Total, Amounts
<1> QED
  BY <1>3, <1>4, <1>5 DEF Whole

LEMMA MonthlyIsNumber ==
  ASSUME Inv, NEW u \in User, NEW since
  PROVE  MonthlySince(u, since) \in Int
<1> DEFINE S == {i \in DOMAIN ledger[u] : ledger[u][i].type = "monthly_allowance" /\ ledger[u][i].day >= since}
<1>1. S \subseteq DOMAIN ledger[u] /\ MonthlySince(u, since) = MapThenSumSet(LAMBDA i : ledger[u][i].amount, S)
  BY DEF MonthlySince
<1> HIDE DEF S
<1> QED
  BY <1>1, RecordsSummed, TotalType

\* The credits of a prorated upgrade are a number.
LEMMA ProratedType ==
  ASSUME NEW plan_credits \in Int, NEW already \in Int, NEW cycle \in Int, NEW remaining \in Int
  PROVE  ProratedUpgradeCredits(plan_credits, already, cycle, remaining) \in Int
<1> DEFINE diff == Max0(plan_credits - already)
           left == IF remaining > cycle THEN cycle ELSE Max0(remaining)
<1>1. diff \in Int /\ left \in Int
  BY DEF Max0
<1> HIDE DEF diff, left
<1>2. CASE cycle <= 0
  BY <1>2 DEF ProratedUpgradeCredits
<1>3. CASE cycle > 0
  <2> DEFINE n == 2 * diff * left + cycle
             d == 2 * cycle
  <2>1. n \in Int /\ d \in Int /\ d > 0
    BY <1>1, <1>3
  <2>2. ProratedUpgradeCredits(plan_credits, already, cycle, remaining) = n \div d
    BY <1>3 DEF ProratedUpgradeCredits, diff, left
  <2> HIDE DEF n, d
  <2> QED
    BY <2>1, <2>2
<1> QED
  BY <1>2, <1>3

LEMMA InvoiceGetStep ==
  ASSUME Inv, NEW r \in Request, InvoiceGet(r)
  PROVE  Effect /\ ProcInv'
<1> USE DEF At, Arg
<1>1. Effect /\ proc[r].pc = "invoice.paid"
  BY NoEffect DEF InvoiceGet
<1>2. /\ proc[r].pc # "new" /\ ProcInv /\ proc[r].call \in Call
      /\ proc[r].call.user \in User /\ proc[r].call.id \in WebhookId
  BY <1>1, Delivered DEF WebhookPcs, StripeEvents
<1> DEFINE a == accounts[proc[r].call.user]
           sub == proc[r].call.subscription
           n == MonthlyCredits[sub.plan]
<1>3. CASE Done(r)
  BY <1>1, <1>2, <1>3, DoneStep
<1>4. CASE /\ Exists(proc[r].call.user) /\ sub # None
           /\ KeepAndCompute(r, a, n, "invoice.add")
  <2>1. a \in Sound
    BY <1>2, <1>4, Row
  <2>2. n \in Int
    BY <1>2, <1>4, GrantAssumption DEF Call, Subscription
  <2> HIDE DEF a, n
  <2> QED
    BY <1>1, <1>2, <1>4, <2>1, <2>2, WebhookCopyHeld, KeepAndComputeStep
<1>5. CASE /\ Exists(proc[r].call.user) /\ sub # None /\ a.subscription # None
           /\ Keep(r, a, "invoice.prorate")
  <2>1. a \in Sound
    BY <1>2, <1>5, Row
  <2>2. a.subscription \in Subscription /\ sub \in Subscription
    BY <1>2, <1>5, <2>1 DEF Sound, Account, Call
  <2> HIDE DEF a
  <2>3. /\ "invoice.prorate" \in Pcs /\ HoldsCall("invoice.prorate", proc[r].call)
        /\ HoldsCopy("invoice.prorate", a, proc[r].kept)
    BY <1>2, <2>1, <2>2 DEF HoldsCall, HoldsCopy, Pcs, WebhookPcs, StripeEvents, LagoEvents,
       CopyPcs, ReferralPcs, RefillPcs
  <2> QED
    BY <1>1, <1>2, <1>5, <2>1, <2>3, KeepStep
<1> QED
  BY <1>3, <1>4, <1>5 DEF InvoiceGet

LEMMA InvoicePaidStep ==
  ASSUME Inv, NEW r \in Request, InvoicePaid(r)
  PROVE  Effect /\ ProcInv'
<1> USE DEF At, Arg, Copy
<1>1. proc[r].pc \in {"invoice.paid", "invoice.prorate", "invoice.add", "invoice.reread",
                      "invoice.mark"}
  BY DEF InvoicePaid, InvoiceGet, InvoiceProrate, InvoiceAdd, InvoiceReread, InvoiceMark
<1>2. /\ proc[r].pc # "new" /\ ProcInv /\ today \in Nat /\ proc[r].kept \in Int
      /\ proc[r].call.user \in User /\ proc[r].call.id \in WebhookId
  BY <1>1, Delivered DEF WebhookPcs, StripeEvents
<1>3. proc[r].pc # "invoice.paid" => proc[r].copy \in Sound
  BY <1>1, <1>2, Stepping DEF CopyPcs
<1>4. CASE InvoiceProrate(r)
  <2> DEFINE sub == proc[r].copy.subscription
             credits == MonthlyCredits[proc[r].call.subscription.plan]
  <2>1. sub \in Subscription /\ proc[r].call.subscription \in Subscription
    BY <1>2, <1>4, Stepping DEF InvoiceProrate, HoldsCall, HoldsCopy
  <2> DEFINE already == MonthlySince(proc[r].call.user, sub.start)
  <2>2. /\ Compute(r, ProratedUpgradeCredits(credits, already, sub.end - sub.start, sub.end - today),
                   "invoice.add")
        /\ already \in Int
    BY <1>2, <1>4, MonthlyIsNumber, Stepping DEF InvoiceProrate
  <2>3. /\ credits \in Int
        /\ sub.end - sub.start \in Int /\ sub.end - today \in Int
    BY <1>2, <2>1, GrantAssumption DEF Subscription, Day
  <2>4. ProratedUpgradeCredits(credits, already, sub.end - sub.start, sub.end - today) \in Int
    BY <2>2, <2>3, ProratedType
  <2> HIDE DEF sub, credits, already
  <2>5. Effect /\ proc[r].copy \in Sound
    BY <1>3, <1>4, NoEffect DEF InvoiceProrate
  <2> QED
    BY <1>2, <2>2, <2>4, <2>5, WebhookCopyHeld, ComputeStep
<1>5. CASE InvoiceAdd(r)
  <2>1. CASE Done(r) /\ UNCHANGED storeVars
    BY <1>2, <2>1, NoEffect, DoneStep
  <2>2. CASE \E next \in {"invoice.reread", "record"} :
               /\ proc[r].kept > 0
               /\ Credit(r, proc[r].call.user, proc[r].kept, "monthly_allowance", next)
    <3>1. proc[r].kept \in Nat /\ proc[r].copy \in Sound
      BY <1>2, <1>3, <1>5, <2>2 DEF InvoiceAdd
    <3>2. PICK next \in {"invoice.reread", "record"} :
            Credit(r, proc[r].call.user, proc[r].kept, "monthly_allowance", next)
      BY <2>2
    <3>3. /\ next \in Pcs /\ HoldsCall(next, proc[r].call)
          /\ HoldsCopy(next, proc[r].copy, proc[r].kept)
      BY <1>2, <3>1, WebhookHeld, WebhookCopyHeld
    <3> QED
      BY <1>2, <3>1, <3>2, <3>3, CreditStep DEF TransactionType
  <2> QED
    BY <1>5, <2>1, <2>2 DEF InvoiceAdd
<1>6. CASE InvoiceReread(r)
  <2>1. proc[r].copy \in Sound
    BY <1>3, <1>6 DEF InvoiceReread
  <2> QED
    BY <1>2, <1>6, <2>1, WebhookCopyHeld, RereadStep DEF InvoiceReread
<1>7. CASE InvoiceMark(r)
  <2>1. [proc[r].copy EXCEPT !.last_monthly = today] \in Sound
    BY <1>2, <1>3, <1>7, SoundEdits DEF InvoiceMark
  <2> QED
    BY <1>2, <1>7, <2>1, PutEffect, DoneStep DEF InvoiceMark
<1> QED
  BY <1>4, <1>5, <1>6, <1>7, InvoiceGetStep DEF InvoicePaid

LEMMA LagoStep ==
  ASSUME Inv, NEW r \in Request, LagoSubscriptionStarted(r)
  PROVE  Effect /\ ProcInv'
<1> USE DEF At, Arg
<1>1. proc[r].pc \in {"lago.started", "lago.create", "lago.add"}
  BY DEF LagoSubscriptionStarted, LagoGet, LagoCreate, LagoAdd
<1>2. /\ proc[r].pc # "new" /\ ProcInv
      /\ proc[r].call.user \in User /\ proc[r].call.id \in WebhookId
  BY <1>1, Delivered DEF WebhookPcs, LagoEvents
<1>3. proc[r].call.subscription \in Subscription
  BY <1>1, <1>2, Stepping DEF HoldsCall
<1>4. CASE LagoGet(r)
  <2>1. CASE Done(r) /\ UNCHANGED storeVars
    BY <1>2, <2>1, NoEffect, DoneStep
  <2>2. CASE GetOrElse(r, proc[r].call.user, "lago.create", "lago.add")
    BY <1>2, <1>3, <2>2, PeriodHeld, GetOrElseStep
  <2> QED
    BY <1>4, <2>1, <2>2 DEF LagoGet
<1>5. CASE LagoCreate(r)
  BY <1>2, <1>3, <1>5, PeriodHeld, CreateStep DEF LagoCreate
<1>6. CASE LagoAdd(r)
  <2>1. MonthlyCredits[proc[r].call.subscription.plan] \in Nat
    BY <1>3, GrantAssumption DEF Subscription
  <2> QED
    BY <1>2, <1>6, <2>1, WebhookHeld, CreditStep DEF LagoAdd, TransactionType
<1> QED
  BY <1>4, <1>5, <1>6 DEF LagoSubscriptionStarted

LEMMA WebhooksStep ==
  ASSUME Inv, NEW r \in Request, Webhooks(r)
  PROVE  Effect /\ ProcInv'
BY ReceiveStep, CheckoutStep, SubscriptionUpdateStep, DeletedStep, PaymentFailedStep,
   InvoicePaidStep, LagoStep
DEF Webhooks

-----------------------------------------------------------------------------
(* The steps of the system.                                                *)

LEMMA CalledStep ==
  ASSUME Inv, NEW r \in Request, NEW c \in Callable,
         proc' = [proc EXCEPT ![r].pc = c.op, ![r].call = c]
  PROVE  ProcInv'
<1>1. ProcInv
  BY DEF Inv
<1>2. c \in Call /\ WellFormed(c)
  BY CallsAssumption DEF Callable, Delivery
<1>3. c.op \in Routes
  BY <1>2 DEF WellFormed
<1> DEFINE p1 == [proc[r] EXCEPT !.pc = c.op]
           p == [p1 EXCEPT !.call = c]
<1>4. proc[r] \in Proc /\ Held(proc[r])
  BY <1>1 DEF ProcInv
<1>5. p1 \in Proc /\ p1.pc = c.op /\ p1.copy = proc[r].copy
  BY <1>3, <1>4, ProcFields DEF Pcs, Proc, ProcAt
<1>6. proc' = [proc EXCEPT ![r] = p]
  BY <1>1, <1>4 DEF ProcInv
<1> HIDE DEF p1
<1>7. p \in Proc /\ p.pc = c.op /\ p.call = c /\ p.copy = proc[r].copy
  BY <1>5, ProcFields DEF Proc, ProcAt
<1> HIDE DEF p
<1>8. HoldsCall(c.op, c)
  BY <1>2, <1>3 DEF WellFormed, Call, HoldsCall, Routes, WebhookPcs, StripeEvents, LagoEvents
<1>9. HoldsCopy(c.op, p.copy, p.kept)
  BY <1>3 DEF HoldsCopy, Routes, CopyPcs, ReferralPcs, RefillPcs
<1>10. Held(p)
  BY <1>4, <1>7, <1>8, <1>9 DEF Held
<1> QED
  BY <1>1, <1>6, <1>7, <1>10, ProcStep

LEMMA SendStep ==
  ASSUME Inv, NEW r \in Request, Send(r)
  PROVE  Effect /\ ProcInv'
BY CalledStep, NoEffect DEF Send, Callable

LEMMA AbandonStep ==
  ASSUME Inv, NEW r \in Request, Abandon(r)
  PROVE  Effect /\ ProcInv'
<1> DEFINE x == IF proc[r].answer = None THEN "abandoned" ELSE proc[r].answer
<1>1. ProcInv /\ Effect /\ proc[r].pc # "new" /\ Answer(r, x)
  BY NoEffect DEF Inv, Abandon
<1>2. x \in Response
  BY <1>1 DEF ProcInv, Proc, ProcAt, Response
<1> HIDE DEF x
<1> QED
  BY <1>1, <1>2, AnswerStep

LEMMA HandlerEffect ==
  ASSUME Inv, NEW r \in Request, Handler(r)
  PROVE  Effect /\ ProcInv'
BY CreditsStep, UsageStep, AccountsStep, SubscribeStep, WebhooksStep DEF Handler

\* Each step changes the database in one of the six ways, or is the clock's.
LEMMA StepEffect ==
  ASSUME Inv, [Next]_vars
  PROVE  (Effect \/ Tick) /\ ProcInv'
<1>1. ASSUME NEW r \in Request, Handler(r) PROVE Effect /\ ProcInv'
  BY <1>1, HandlerEffect
<1>2. CASE UNCHANGED vars
  <2>1. ProcInv'
    BY <1>2 DEF Inv, ProcInv, vars
  <2> QED
    BY <1>2, <2>1, NoEffect DEF vars, storeVars
<1>3. CASE Tick
  <2>1. ProcInv'
    BY <1>3 DEF Inv, ProcInv, Tick
  <2> QED
    BY <1>3, <2>1
<1> QED
  BY <1>1, <1>2, <1>3, SendStep, AbandonStep DEF Next, Terminating

=============================================================================
