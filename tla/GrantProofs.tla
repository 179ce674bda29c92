------------------------------ MODULE GrantProofs ------------------------------
(***************************************************************************)
(* How often users are granted the same credits, for all users, calls and  *)
(* bounds, when requests run one at a time: once, and once more at most    *)
(* for each request that was cut short between a grant and its mark.  How  *)
(* often accounts are refilled, whatever runs at the same time.  And that  *)
(* the lazy monthly grant keeps its distance from the months before it.    *)
(***************************************************************************)
EXTENDS SerialProofs

-----------------------------------------------------------------------------
(* Where records come from.                                                *)

\* What is known of a step of r that credits u with a record of a type: which
\* step it is, whom it pays, and where the handler goes on.
Source(r, u, type, ref) ==
  /\ type = "signup_grant" =>
       /\ u = proc[r].call.user /\ proc[r].pc = "signup.add"
       /\ proc[r].copy.signup_grant = None /\ GoesTo(r, "signup.reread")
  /\ type = "daily_grant" =>
       /\ u = proc[r].call.user /\ proc[r].pc = "daily"
       /\ DailyDue(proc[r].copy) /\ GoesTo(r, "daily.reread")
  /\ type = "monthly_allowance" =>
       /\ u = proc[r].call.user /\ ref = proc[r].call.id
       /\ \/ proc[r].pc = "monthly.add" /\ GoesTo(r, "monthly.reread")
          \/ /\ proc[r].pc = "invoice.add"
             /\ IF proc[r].call.reason \in FullReasons
                THEN GoesTo(r, "invoice.reread") ELSE GoesTo(r, "record")
  /\ type = "referral_bonus" =>
       \/ u = proc[r].call.user /\ proc[r].pc \in RewardPcs
       \/ u = proc[r].call.other /\ proc[r].pc = "referral.add"
       \/ u = proc[r].copy.referred_by /\ proc[r].pc = "subscription.add"
  /\ type # "referral_bonus" /\ ref \in WebhookId =>
       /\ ref = proc[r].call.id /\ proc[r].pc \in {"purchase.add", "invoice.add", "lago.add"}
       /\ GoesTo(r, "invoice.reread") \/ GoesTo(r, "record")

Sourced(r) ==
  \/ ledger' = ledger
  \/ \E u \in User : \E n, type, ref : AddCredits(u, n, type, ref) /\ Source(r, u, type, ref)
  \/ \E u \in User : \E cost, e : e \in UsageId /\ CommitUsage(u, cost, e)

\* Most steps add no record.
LEMMA NothingSourced ==
  ASSUME NEW r \in Request
  PROVE  /\ UNCHANGED storeVars => Sourced(r)
         /\ \A u, a : PutAccount(u, a) => Sourced(r)
         /\ \A u : DeleteAccount(u) => Sourced(r)
         /\ \A w : RecordWebhookEvent(w) => Sourced(r)
         /\ \A u, create, pc : GetOrElse(r, u, create, pc) => Sourced(r)
         /\ \A u, pc : GetOrNotFound(r, u, pc) => Sourced(r)
         /\ \A u, pc : Reread(r, u, pc) => Sourced(r)
         /\ \A u, pc : Create(r, u, pc) => Sourced(r)
BY DEF Sourced, storeVars, PutAccount, DeleteAccount, RecordWebhookEvent, GetOrElse,
   GetOrNotFound, Reread, Create

LEMMA CreditSourced ==
  ASSUME Inv, NEW r \in Request, NEW u \in User
  PROVE  /\ \A n, type, pc : Credit(r, u, n, type, pc)
              /\ (GoesTo(r, pc) => Source(r, u, type, proc[r].call.id)) => Sourced(r)
         /\ \A n, type : CreditLast(r, u, n, type)
              /\ (GoesTo(r, "done") => Source(r, u, type, proc[r].call.id)) => Sourced(r)
<1>1. ProcInv
  BY DEF Inv
<1>2. /\ \A pc : Goto(r, pc) => GoesTo(r, pc)
      /\ \A x : Answer(r, x) => GoesTo(r, "done")
  BY <1>1, Locals DEF Becomes, GoesTo
<1> QED
  BY <1>2 DEF Credit, CreditLast, NoAccount, Arg, storeVars, Sourced

\* A call that is no delivery has no id of a webhook.
LEMMA NoWebhookId ==
  ASSUME Inv, NEW r \in Request, proc[r].pc # "new",
         proc[r].call.op \in AllowanceOps \cup {"signup_grant", "admin_add_credits"}
  PROVE  proc[r].call.id \notin WebhookId
BY Stepping, NoneAssumption DEF WellFormed, AllowanceOps

LEMMA GrantsSourced ==
  ASSUME Inv, NEW r \in Request, CallAt(proc[r]),
         Signup(r) \/ TryMonthlyAllowance(r) \/ TryDailyGrant(r) \/ AdminAddCredits(r)
  PROVE  Sourced(r)
<1> USE NothingSourced DEF At, Arg, Copy
<1>1. CASE Signup(r)
  <2>1. CASE SignupAdd(r)
    <3>1. proc[r].pc = "signup.add" /\ proc[r].call.id \notin WebhookId /\ proc[r].call.user \in User
      BY <2>1, NoWebhookId, Stepping DEF SignupAdd, CallAt, SignupPcs
    <3>2. CASE proc[r].copy.signup_grant = None
      <4>1. Credit(r, proc[r].call.user, SignupGrant, "signup_grant", "signup.reread")
        BY <2>1, <3>2 DEF SignupAdd
      <4>2. GoesTo(r, "signup.reread") =>
              Source(r, proc[r].call.user, "signup_grant", proc[r].call.id)
        BY <3>1, <3>2 DEF Source
      <4> QED
        BY <3>1, <4>1, <4>2, CreditSourced
    <3> QED
      BY <2>1, <3>2 DEF SignupAdd
  <2> QED
    BY <1>1, <2>1 DEF Signup, SignupGet, SignupCreate, SignupReread, SignupMark
<1>2. CASE TryMonthlyAllowance(r)
  <2>1. CASE MonthlyAdd(r)
    <3>1. proc[r].pc = "monthly.add" /\ proc[r].call.id \notin WebhookId /\ proc[r].call.user \in User
      BY <2>1, NoWebhookId, Stepping DEF MonthlyAdd, CallAt, AllowancePcs
    <3>2. GoesTo(r, "monthly.reread") =>
            Source(r, proc[r].call.user, "monthly_allowance", proc[r].call.id)
      BY <3>1 DEF Source
    <3> QED
      BY <2>1, <3>1, <3>2, CreditSourced DEF MonthlyAdd
  <2> QED
    BY <1>2, <2>1 DEF TryMonthlyAllowance, MonthlyCheck, MonthlyReread, MonthlyMark, MonthlyRefresh
<1>3. CASE TryDailyGrant(r)
  <2>1. CASE DailyAdd(r)
    <3>1. proc[r].pc = "daily" /\ proc[r].call.id \notin WebhookId /\ proc[r].call.user \in User
      BY <2>1, NoWebhookId, Stepping DEF DailyAdd, CallAt, AllowancePcs
    <3>2. CASE DailyDue(proc[r].copy)
      <4>1. Credit(r, proc[r].call.user, DailyGrant[CurrentPlan(proc[r].copy)],
                   "daily_grant", "daily.reread")
        BY <2>1, <3>2 DEF DailyAdd
      <4>2. GoesTo(r, "daily.reread") =>
              Source(r, proc[r].call.user, "daily_grant", proc[r].call.id)
        BY <3>1, <3>2 DEF Source
      <4> QED
        BY <3>1, <4>1, <4>2, CreditSourced
    <3> QED
      BY <2>1, <3>2 DEF DailyAdd
  <2> QED
    BY <1>3, <2>1 DEF TryDailyGrant, DailyReread, DailyMark
<1>4. CASE AdminAddCredits(r)
  <2>1. CASE AdminAdd(r)
    <3>1. proc[r].pc = "admin.add" /\ proc[r].call.id \notin WebhookId /\ proc[r].call.user \in User
      BY <2>1, NoWebhookId, Stepping DEF AdminAdd, CallAt
    <3>2. Source(r, proc[r].call.user, "bonus", proc[r].call.id)
      BY <3>1 DEF Source
    <3> QED
      BY <2>1, <3>1, <3>2, CreditSourced DEF AdminAdd
  <2> QED
    BY <1>4, <2>1 DEF AdminAddCredits, AdminGet
<1> QED
  BY <1>1, <1>2, <1>3, <1>4

LEMMA ReferralSourced ==
  ASSUME Inv, NEW r \in Request, Referral(r) \/ SubscriptionUpdate(r)
  PROVE  Sourced(r)
<1> USE NothingSourced DEF At, Arg, Copy
<1>1. CASE ReferralInvitee(r) \/ SubscriptionInvitee(r)
  <2>1. proc[r].pc \in RewardPcs /\ proc[r].call.user \in User
    BY <1>1, Stepping DEF ReferralInvitee, SubscriptionInvitee, RewardPcs
  <2>2. Source(r, proc[r].call.user, "referral_bonus", proc[r].call.id)
    BY <2>1 DEF Source
  <2> QED
    BY <1>1, <2>1, <2>2, CreditSourced DEF ReferralInvitee, SubscriptionInvitee
<1>2. CASE ReferralInviter(r)
  <2>1. proc[r].pc = "referral.add" /\ proc[r].call.other \in User
    BY <1>2, Stepping DEF ReferralInviter, HoldsCall
  <2>2. Source(r, proc[r].call.other, "referral_bonus", proc[r].call.id)
    BY <2>1 DEF Source
  <2> QED
    BY <1>2, <2>1, <2>2, CreditSourced DEF ReferralInviter
<1>3. CASE SubscriptionInviter(r)
  <2>1. proc[r].pc = "subscription.add" /\ proc[r].copy.referred_by \in User
    BY <1>3, Stepping DEF SubscriptionInviter, HoldsCopy, ReferralPcs
  <2>2. Source(r, proc[r].copy.referred_by, "referral_bonus", proc[r].call.id)
    BY <2>1 DEF Source
  <2> QED
    BY <1>3, <2>1, <2>2, CreditSourced DEF SubscriptionInviter
<1> QED
  BY <1>1, <1>2, <1>3 DEF Referral, ReferralGet, ReferralCreate, ReferralCheck,
     ReferralInviterGet, ReferralInviterCreate, SubscriptionUpdate, SubscriptionGet,
     SubscriptionCreate, SubscriptionPut, SubscriptionReferral, SubscriptionInviterGet,
     SubscriptionInviterCreate

LEMMA DeliveriesSourced ==
  ASSUME Inv, NEW r \in Request, Webhooks(r), ~SubscriptionUpdate(r)
  PROVE  Sourced(r)
<1> USE NothingSourced DEF At, Arg, Copy, Done
<1>1. CASE PurchaseAdd(r) \/ LagoAdd(r)
  <2>1. proc[r].pc \in {"purchase.add", "lago.add"} /\ proc[r].call.user \in User
    BY <1>1, Stepping DEF PurchaseAdd, LagoAdd
  <2>2. GoesTo(r, "record") =>
          /\ Source(r, proc[r].call.user, "purchase", proc[r].call.id)
          /\ Source(r, proc[r].call.user, "subscription_grant", proc[r].call.id)
    BY <2>1 DEF Source
  <2> QED
    BY <1>1, <2>1, <2>2, CreditSourced DEF PurchaseAdd, LagoAdd
<1>2. CASE InvoiceAdd(r)
  <2> DEFINE next == IF proc[r].call.reason \in FullReasons THEN "invoice.reread" ELSE "record"
  <2>1. proc[r].pc = "invoice.add" /\ proc[r].call.user \in User
    BY <1>2, Stepping DEF InvoiceAdd
  <2>2. GoesTo(r, next) =>
          Source(r, proc[r].call.user, "monthly_allowance", proc[r].call.id)
    BY <2>1 DEF Source
  <2>3. \/ UNCHANGED storeVars
        \/ Credit(r, proc[r].call.user, proc[r].kept, "monthly_allowance", next)
    BY <1>2 DEF InvoiceAdd
  <2> HIDE DEF next
  <2> QED
    BY <2>1, <2>2, <2>3, CreditSourced
<1> QED
  BY <1>1, <1>2 DEF Webhooks, StripeReceive, Resolve, Checkout, CheckoutGet, CheckoutCreate,
     CheckoutPut, PurchaseGet, SubscriptionDeleted, DeletedGet, DeletedPut, PaymentFailed,
     FailedGet, FailedPut, InvoicePaid, InvoiceGet, InvoiceProrate, InvoiceReread,
     InvoiceMark, LagoReceive, LagoSubscriptionStarted, LagoGet, LagoCreate, RecordEvent

LEMMA UsageSourced ==
  ASSUME Inv, NEW r \in Request, Usage(r)
  PROVE  Sourced(r)
<1> USE NothingSourced DEF At, Arg, Copy
<1>1. CASE UsageCharged(r) /\ proc[r].pc = "usage.commit"
  <2>1. proc[r].call.user \in User /\ proc[r].call.id \in UsageId
    BY <1>1, Stepping DEF HoldsCall
  <2> QED
    BY <1>1, <2>1 DEF UsageCharged, Sourced
<1>2. CASE RefillAdd(r)
  <2>1. proc[r].call.user \in User
    BY <1>2, Stepping DEF RefillAdd
  <2>2. Source(r, proc[r].call.user, "auto_refill", None)
    BY NoneAssumption DEF Source
  <2> QED
    BY <1>2, <2>1, <2>2 DEF RefillAdd, Sourced
<1> QED
  BY <1>1, <1>2 DEF Usage, ReportUsage, ReportGet, ReportCreate, BatchGet, UsageExists,
     UsageCommit, UsageRolledBack, Refill, RefillPay, RefillGet, CheckBalance, CheckGet,
     CheckCreate

LEMMA HandlerSourced ==
  ASSUME Inv, NEW r \in Request, CallAt(proc[r]), Handler(r)
  PROVE  Sourced(r)
<1>1. CASE Credits(r)
  BY <1>1, GrantsSourced, ReferralSourced, NothingSourced
  DEF Credits, GetBalance, DailyGrantHandler, ConfigureAutoRefill, ConfigureGet, ConfigurePut,
      PurchaseCredits, PurchaseAsk, PurchaseSession
<1>2. CASE Accounts(r) \/ Subscribe(r)
  BY <1>2, NothingSourced
  DEF Accounts, CreateAccount, CreateGet, CreateCustomer, CreatePut, GetAccount,
      GetAccountGet, GetAccountCreate, DeleteAccountHandler, NoAccount, Subscribe, ZeroPro,
      SubscribeGet, SubscribeCustomer, SubscribePut, SubscribePay, CheckoutAsk, PortalAsk,
      CancelAsk, StripeCall
<1> QED
  BY <1>1, <1>2, UsageSourced, ReferralSourced, DeliveriesSourced DEF Handler

-----------------------------------------------------------------------------
(* Counting.                                                               *)

\* At most one more in N than in C, and that one only while token holds.
Within(N, C, token) == Cardinality(N) <= Cardinality(C) + (IF token THEN 1 ELSE 0)

LEMMA OneMore ==
  ASSUME NEW S, IsFiniteSet(S), NEW T, NEW x, T \subseteq S \cup {x}
  PROVE  IsFiniteSet(T) /\ Cardinality(T) <= Cardinality(S) + 1
<1>1. IsFiniteSet(S \cup {x}) /\ Cardinality(S \cup {x}) <= Cardinality(S) + 1
      /\ Cardinality(S) \in Nat
  BY FS_AddElement, FS_CardinalityType
<1>2. IsFiniteSet(T) /\ Cardinality(T) <= Cardinality(S \cup {x})
  BY <1>1, FS_Subset
<1>3. Cardinality(T) \in Nat /\ Cardinality(S \cup {x}) \in Nat
  BY <1>1, <1>2, FS_CardinalityType
<1> QED
  BY <1>1, <1>2, <1>3

LEMMA OneLeft ==
  ASSUME NEW S, NEW T, IsFiniteSet(T), S \subseteq T, NEW x \in T, x \notin S
  PROVE  Cardinality(S) + 1 <= Cardinality(T)
<1>1. IsFiniteSet(S)
  BY FS_Subset
<1>2. /\ IsFiniteSet(S \cup {x}) /\ Cardinality(S \cup {x}) = Cardinality(S) + 1
      /\ S \cup {x} \subseteq T
  BY <1>1, FS_AddElement
<1> QED
  BY <1>2, FS_Subset

\* How such a bound is kept: nothing is left to bound; or nothing is added, and
\* the token is kept, or given up for one more in C; or one is added where
\* there was no token, and there is one then.
LEMMA WithinStep ==
  ASSUME NEW N, NEW C, NEW token \in BOOLEAN, NEW M, NEW D, NEW after \in BOOLEAN,
         IsFiniteSet(N), IsFiniteSet(D), C \subseteq D, Within(N, C, token),
         \/ M = {}
         \/ M \subseteq N /\ (token => after \/ \E x \in D : x \notin C)
         \/ ~token /\ after /\ \E x : M \subseteq N \cup {x}
  PROVE  Within(M, D, after)
<1>1. IsFiniteSet(C) /\ Cardinality(C) <= Cardinality(D)
  BY FS_Subset
<1>2. Cardinality(C) \in Nat /\ Cardinality(D) \in Nat /\ Cardinality(N) \in Nat
  BY <1>1, FS_CardinalityType
<1>3. CASE M = {}
  BY <1>2, <1>3, FS_EmptySet DEF Within
<1>4. CASE M \subseteq N /\ (token => after \/ \E x \in D : x \notin C)
  <2>1. IsFiniteSet(M) /\ Cardinality(M) <= Cardinality(N)
    BY <1>4, FS_Subset
  <2>2. Cardinality(M) \in Nat
    BY <2>1, FS_CardinalityType
  <2>3. (\E x \in D : x \notin C) => Cardinality(C) + 1 <= Cardinality(D)
    BY OneLeft
  <2> QED
    BY <1>1, <1>2, <1>4, <2>1, <2>2, <2>3 DEF Within
<1>5. CASE ~token /\ after /\ \E x : M \subseteq N \cup {x}
  <2>1. IsFiniteSet(M) /\ Cardinality(M) <= Cardinality(N) + 1
    BY <1>5, OneMore
  <2>2. Cardinality(M) \in Nat
    BY <2>1, FS_CardinalityType
  <2> QED
    BY <1>1, <1>2, <1>5, <2>1, <2>2 DEF Within
<1> QED
  BY <1>3, <1>4, <1>5

LEMMA WithinOne ==
  ASSUME NEW N, NEW C, NEW token \in BOOLEAN, IsFiniteSet(N), IsFiniteSet(C),
         Within(N, C, token)
  PROVE  Cardinality(N) <= 1 + Cardinality(C)
<1>1. Cardinality(N) \in Nat /\ Cardinality(C) \in Nat
  BY FS_CardinalityType
<1> QED
  BY <1>1 DEF Within

-----------------------------------------------------------------------------
(* Records of a user, and requests that were cut short.                    *)

Those(u, kind) == {i \in DOMAIN ledger[u] : ledger[u][i] \in kind}

\* A record is added to those of its kind, and stays.
LEMMA ThoseAppended ==
  ASSUME Inv, NEW v \in User, NEW type, NEW amount, NEW after, NEW ref,
         Record(v, type, amount, after, ref), NEW u \in User, NEW kind
  PROVE  /\ \E x : Those(u, kind)' \subseteq Those(u, kind) \cup {x}
         /\ u # v => Those(u, kind)' \subseteq Those(u, kind)
         /\ (\A t : t.type = type /\ t.ref = ref /\ t.day = today => t \notin kind) =>
              Those(u, kind)' \subseteq Those(u, kind)
<1> DEFINE x == Len(ledger[u]) + 1
<1>1. CASE u # v
  BY <1>1, Appended DEF Those
<1>2. CASE u = v
  <2>1. /\ DOMAIN ledger'[u] = 1..x /\ Len(ledger[u]) \in Nat
        /\ DOMAIN ledger[u] = 1..Len(ledger[u])
        /\ \A i \in 1..Len(ledger[u]) : ledger'[u][i] = ledger[u][i]
        /\ ledger'[u][x].type = type /\ ledger'[u][x].ref = ref /\ ledger'[u][x].day = today
    BY <1>2, Appended
  <2> HIDE DEF x
  <2>2. \A i \in DOMAIN ledger'[u] : i = x \/ (i \in DOMAIN ledger[u] /\ ledger'[u][i] = ledger[u][i])
    BY <2>1 DEF x
  <2>3. Those(u, kind)' \subseteq Those(u, kind) \cup {x}
    BY <2>2 DEF Those
  <2>4. ledger'[u][x] \notin kind => Those(u, kind)' \subseteq Those(u, kind)
    BY <2>2 DEF Those
  <2> QED
    BY <1>2, <2>1, <2>3, <2>4
<1> QED
  BY <1>1, <1>2

LEMMA ThoseFinite ==
  ASSUME Inv, NEW u \in User, NEW kind
  PROVE  IsFiniteSet(Those(u, kind))
<1>1. DOMAIN ledger[u] = 1..Len(ledger[u]) /\ Len(ledger[u]) \in Nat
  BY DEF Inv, StoreType
<1>2. IsFiniteSet(1..Len(ledger[u]))
  BY <1>1, FS_Interval
<1> QED
  BY <1>1, <1>2, FS_Subset DEF Those

\* Who was cut short stays so.
LEMMA CutForGood ==
  ASSUME Inv, OneRuns, [Next]_vars
  PROVE  \A r \in Abandoned : r \in Abandoned' /\ proc'[r] = proc[r]
<1>1. ASSUME NEW s \in Request, Send(s) \/ Abandon(s) \/ Handler(s)
      PROVE  proc[s].pc # "done" /\ \A r \in Request \ {s} : proc'[r] = proc[r]
  <2>1. CASE Send(s)
    BY <2>1 DEF Send, At, Inv, ProcInv
  <2>2. CASE Abandon(s)
    BY <2>2, Locals DEF Abandon, Becomes, Inv
  <2>3. CASE Handler(s)
    BY <2>3, HandlerBusy
  <2> QED
    BY <1>1, <2>1, <2>2, <2>3
<1>2. \A r \in Abandoned : proc'[r] = proc[r]
  BY <1>1 DEF Next, Tick, Terminating, vars, Abandoned
<1> QED
  BY <1>2 DEF Abandoned

LEMMA CutFinite == IsFiniteSet(Abandoned) /\ IsFiniteSet(Abandoned')
<1>1. IsFiniteSet(Request) /\ Abandoned \subseteq Request /\ Abandoned' \subseteq Request
  BY BoundsAssumption DEF Abandoned
<1> QED
  BY <1>1, FS_Subset

\* Where a step leaves a request that runs: it is cut short, or it has stepped,
\* or it is where it was.
LEMMA RunsOn ==
  ASSUME Inv, OneRuns, [Next]_vars, NEW r \in Request, Busy(r)
  PROVE  \/ proc'[r] = proc[r]
         \/ Abandon(r) /\ r \in Abandoned' /\ r \notin Abandoned /\ proc'[r].call = proc[r].call
         \/ Handler(r)
<1>1. ASSUME NEW s \in Request \ {r}, Send(s) \/ Abandon(s) \/ Handler(s)
      PROVE  proc'[r] = proc[r]
  <2>1. CASE Send(s)
    BY <2>1 DEF Send, Inv, ProcInv
  <2>2. CASE Abandon(s)
    BY <2>2, Locals DEF Abandon, Becomes, Inv
  <2>3. CASE Handler(s)
    BY <2>3, HandlerBusy
  <2> QED
    BY <1>1, <2>1, <2>2, <2>3
<1>2. ~Send(r)
  BY DEF Send, At, Busy
<1>3. CASE Abandon(r)
  <2>1. Answer(r, "abandoned") /\ proc[r].pc # "done"
    BY <1>3 DEF Abandon, OneRuns
  <2>2. proc'[r].pc = "done" /\ proc'[r].answer = "abandoned" /\ proc'[r].call = proc[r].call
    BY <2>1, Locals DEF Becomes, Inv
  <2> QED
    BY <1>3, <2>1, <2>2 DEF Abandoned
<1> QED
  BY <1>1, <1>2, <1>3 DEF Next, Tick, Terminating, vars

\* A kind of records that are no charges grows by the step that adds one.
LEMMA KindStep ==
  ASSUME Inv, Serial, [Next]_vars, NEW u \in User, NEW kind,
         \A t \in kind : t.type # "usage" \/ t.ref \notin UsageId
  PROVE  \/ Those(u, kind)' \subseteq Those(u, kind)
         \/ /\ \E x : Those(u, kind)' \subseteq Those(u, kind) \cup {x}
            /\ \E r \in Request : \E n, type, ref :
                 /\ Handler(r) /\ AddCredits(u, n, type, ref) /\ Source(r, u, type, ref)
                 /\ \E t \in kind : t.type = type /\ t.ref = ref /\ t.day = today
<1>1. CASE ledger' = ledger
  BY <1>1 DEF Those
<1>2. ASSUME NEW r \in Request, Handler(r), NEW v \in User, NEW n, NEW type, NEW ref,
             AddCredits(v, n, type, ref), Source(r, v, type, ref),
             ~(Those(u, kind)' \subseteq Those(u, kind))
      PROVE  /\ \E x : Those(u, kind)' \subseteq Those(u, kind) \cup {x}
             /\ AddCredits(u, n, type, ref) /\ Source(r, u, type, ref)
             /\ \E t \in kind : t.type = type /\ t.ref = ref /\ t.day = today
  <2>1. Record(v, type, n, accounts[v].balance + n, ref)
    BY <1>2 DEF AddCredits
  <2> QED
    BY <1>2, <2>1, ThoseAppended
<1>3. ASSUME NEW v \in User, NEW cost, NEW e \in UsageId, CommitUsage(v, cost, e)
      PROVE  Those(u, kind)' \subseteq Those(u, kind)
  <2>1. Record(v, "usage", -cost, accounts[v].balance - cost, e)
    BY <1>3 DEF CommitUsage
  <2>2. \A t : t.type = "usage" /\ t.ref = e /\ t.day = today => t \notin kind
    OBVIOUS
  <2> QED
    BY <2>1, <2>2, ThoseAppended
<1>4. ASSUME NEW r \in Request, Handler(r) PROVE Sourced(r)
  BY <1>4, HandlerSourced DEF Serial
<1>5. ledger' = ledger \/ \E r \in Request : Handler(r) /\ Sourced(r)
  BY <1>4 DEF Next, Send, Abandon, Tick, Terminating, vars, storeVars
<1> QED
  BY <1>1, <1>2, <1>3, <1>5 DEF Sourced

-----------------------------------------------------------------------------
(* The marks of an account, and the requests that are about to make them.  *)

\* No step takes a mark away from an account that stays.
LEMMA MarksStep ==
  ASSUME Inv, Serial, [Next]_vars, NEW u \in User, Exists(u), Exists(u)'
  PROVE  /\ \/ accounts'[u].signup_grant = accounts[u].signup_grant
            \/ accounts'[u].signup_grant = today
         /\ \/ accounts'[u].last_daily = accounts[u].last_daily
            \/ accounts'[u].last_daily = today
         /\ \/ accounts'[u].last_monthly = accounts[u].last_monthly
            \/ \E r \in Request : \/ MonthlyMark(r) /\ accounts'[u].last_monthly = proc[r].kept
                                  \/ InvoiceMark(r) /\ accounts'[u].last_monthly = today
<1> DEFINE Marks ==
       /\ \/ accounts'[u].signup_grant = accounts[u].signup_grant
          \/ accounts'[u].signup_grant = today
       /\ \/ accounts'[u].last_daily = accounts[u].last_daily
          \/ accounts'[u].last_daily = today
       /\ \/ accounts'[u].last_monthly = accounts[u].last_monthly
          \/ \E r \in Request : \/ MonthlyMark(r) /\ accounts'[u].last_monthly = proc[r].kept
                                \/ InvoiceMark(r) /\ accounts'[u].last_monthly = today
<1>1. CASE accounts' = accounts
  BY <1>1
<1>2. CASE Unmarked
  BY <1>2 DEF Unmarked, Exists, SameMarks
<1>3. ASSUME NEW r \in Request, SignupMark(r) \/ DailyMark(r) \/ MonthlyMark(r) \/ InvoiceMark(r)
      PROVE  Marks
  <2>1. /\ proc[r].pc \in {"signup.mark", "daily.mark", "monthly.mark", "invoice.mark"}
        /\ proc[r].copy \in Account /\ proc[r].call.user \in User
    BY <1>3, Stepping DEF SignupMark, DailyMark, MonthlyMark, InvoiceMark, At, CopyPcs, Sound
  <2>2. CASE proc[r].call.user # u
    BY <1>1, <1>3, <2>1, <2>2
    DEF SignupMark, DailyMark, MonthlyMark, InvoiceMark, PutAccount, Arg, Inv, StoreType
  <2>3. CASE proc[r].call.user = u
    <3>1. SameMarks(proc[r].copy, accounts[u])
      BY <2>1, <2>3 DEF Serial, Fresh, FreshPcs, AsRow
    <3>2. CASE SignupMark(r)
      <4> DEFINE a == [proc[r].copy EXCEPT !.signup_grant = today, !.referred_by = proc[r].call.other]
      <4>1. accounts'[u] = a
        BY <2>3, <3>2 DEF SignupMark, PutAccount, Arg, Copy, Inv, StoreType
      <4>2. a.signup_grant = today /\ a.last_daily = proc[r].copy.last_daily
            /\ a.last_monthly = proc[r].copy.last_monthly
        BY <2>1 DEF Account
      <4> HIDE DEF a
      <4> QED
        BY <3>1, <4>1, <4>2 DEF SameMarks
    <3>3. CASE DailyMark(r)
      <4> DEFINE a == [proc[r].copy EXCEPT !.last_daily = today]
      <4>1. accounts'[u] = a
        BY <2>3, <3>3 DEF DailyMark, PutAccount, Arg, Copy, Inv, StoreType
      <4>2. a.last_daily = today /\ a.signup_grant = proc[r].copy.signup_grant
            /\ a.last_monthly = proc[r].copy.last_monthly
        BY <2>1 DEF Account
      <4> HIDE DEF a
      <4> QED
        BY <3>1, <4>1, <4>2 DEF SameMarks
    <3>4. ASSUME NEW n, accounts'[u] = [proc[r].copy EXCEPT !.last_monthly = n]
          PROVE  /\ accounts'[u].last_monthly = n
                 /\ accounts'[u].signup_grant = accounts[u].signup_grant
                 /\ accounts'[u].last_daily = accounts[u].last_daily
      BY <2>1, <3>1, <3>4 DEF Account, SameMarks
    <3>5. CASE MonthlyMark(r)
      <4>1. accounts'[u] = [proc[r].copy EXCEPT !.last_monthly = proc[r].kept]
        BY <2>3, <3>5 DEF MonthlyMark, PutAccount, Arg, Copy, Inv, StoreType
      <4> QED
        BY <3>4, <3>5, <4>1
    <3>6. CASE InvoiceMark(r)
      <4>1. accounts'[u] = [proc[r].copy EXCEPT !.last_monthly = today]
        BY <2>3, <3>6 DEF InvoiceMark, PutAccount, Arg, Copy, Inv, StoreType
      <4> QED
        BY <3>4, <3>6, <4>1
    <3> QED
      BY <1>3, <3>2, <3>3, <3>5, <3>6
  <2> QED
    BY <2>2, <2>3
<1>4. ASSUME NEW r \in Request, SubscriptionPut(r) \/ DeletedPut(r) \/ FailedPut(r)
      PROVE  Marks
  <2>1. /\ proc[r].pc \in {"subscription.put", "deleted.put", "failed.put"}
        /\ proc[r].copy \in Account /\ proc[r].call.user \in User
    BY <1>4, Stepping DEF SubscriptionPut, DeletedPut, FailedPut, At, CopyPcs, Sound
  <2>2. CASE proc[r].call.user # u
    BY <1>1, <1>4, <2>1, <2>2
    DEF SubscriptionPut, DeletedPut, FailedPut, PutAccount, Arg, Inv, StoreType
  <2>3. CASE proc[r].call.user = u
    <3>1. SameMarks(proc[r].copy, accounts[u])
      BY <2>1, <2>3 DEF Serial, Fresh, FreshPcs, AsRow
    <3> DEFINE sub == [proc[r].call.subscription EXCEPT
                        !.status = MappedStatus(proc[r].call.reason)]
               due == [proc[r].copy.subscription EXCEPT !.status = "past_due"]
               put == [proc[r].copy EXCEPT !.subscription = sub, !.stripe_customer = TRUE]
               ended == [proc[r].copy EXCEPT !.subscription = None]
               failed == [proc[r].copy EXCEPT !.subscription = due]
    <3>2. SubscriptionPut(r) => accounts'[u] = put
      BY <2>3 DEF SubscriptionPut, PutAccount, Arg, Copy, Inv, StoreType
    <3>3. DeletedPut(r) => accounts'[u] = ended
      BY <2>3 DEF DeletedPut, PutAccount, Arg, Copy, Inv, StoreType
    <3>4. FailedPut(r) => accounts'[u] = failed
      <4>1. [proc[r].copy EXCEPT !.subscription.status = "past_due"] = failed
        OBVIOUS
      <4> QED
        BY <2>3, <4>1 DEF FailedPut, PutAccount, Arg, Copy, Inv, StoreType
    <3> HIDE DEF sub, due
    <3>5. \A a \in {put, ended, failed} : /\ a.signup_grant = proc[r].copy.signup_grant
                                         /\ a.last_daily = proc[r].copy.last_daily
                                         /\ a.last_monthly = proc[r].copy.last_monthly
      BY <2>1 DEF Account
    <3> HIDE DEF put, ended, failed
    <3>6. accounts'[u] \in {put, ended, failed}
      BY <1>4, <3>2, <3>3, <3>4
    <3> QED
      BY <3>1, <3>5, <3>6 DEF SameMarks
  <2> QED
    BY <2>2, <2>3
<1>5. ASSUME NEW r \in Request, Handler(r)
      PROVE  \/ Unmarked \/ SignupMark(r) \/ DailyMark(r) \/ MonthlyMark(r) \/ InvoiceMark(r)
             \/ SubscriptionPut(r) \/ DeletedPut(r) \/ FailedPut(r) \/ DeleteAccountHandler(r)
  BY <1>5, HandlerSerial DEF Serial, Serially
<1>6. ASSUME NEW r \in Request, DeleteAccountHandler(r)
      PROVE  Marks
  <2>1. accounts' = accounts \/ DeleteAccount(proc[r].call.user)
    BY <1>6 DEF DeleteAccountHandler, NoAccount, Arg, storeVars
  <2>2. DeleteAccount(proc[r].call.user) => accounts'[u] = accounts[u] \/ accounts'[u] = None
    BY DEF DeleteAccount, Inv, StoreType
  <2> QED
    BY <2>1, <2>2 DEF Exists
<1>7. Marks
  BY <1>1, <1>2, <1>3, <1>4, <1>5, <1>6 DEF Next, Send, Abandon, Tick, Terminating, vars, storeVars
<1> QED
  BY <1>7

\* No other handler steps between a grant and its mark.
LEMMA MarkingSteps ==
  ASSUME NEW r \in Request, Handler(r),
         proc[r].pc \in {"signup.reread", "signup.mark", "daily.reread", "daily.mark"}
  PROVE  SignupReread(r) \/ SignupMark(r) \/ DailyReread(r) \/ DailyMark(r)
<1> USE DEF At
<1>1. Credits(r) => SignupReread(r) \/ SignupMark(r) \/ DailyReread(r) \/ DailyMark(r)
  BY DEF Credits, GetBalance, DailyGrantHandler, TryMonthlyAllowance, MonthlyCheck,
     MonthlyAdd, MonthlyReread, MonthlyMark, MonthlyRefresh, TryDailyGrant, DailyAdd,
     Signup, SignupGet, SignupCreate, SignupAdd, Referral, ReferralGet, ReferralCreate,
     ReferralCheck, ReferralInvitee, ReferralInviterGet, ReferralInviterCreate,
     ReferralInviter, AdminAddCredits, AdminGet, AdminAdd, ConfigureAutoRefill,
     ConfigureGet, ConfigurePut, PurchaseCredits, PurchaseAsk, PurchaseSession
<1>2. ~Usage(r)
  BY DEF Usage, ReportUsage, ReportGet, ReportCreate, BatchGet, UsageExists, UsageCommit,
     Refill, RefillPay, RefillGet, RefillAdd, CheckBalance, CheckGet, CheckCreate
<1>3. ~Accounts(r) /\ ~Subscribe(r)
  BY DEF Accounts, CreateAccount, CreateGet, CreateCustomer, CreatePut, GetAccount,
     GetAccountGet, GetAccountCreate, DeleteAccountHandler, Subscribe, ZeroPro,
     SubscribeGet, SubscribeCustomer, SubscribePut, SubscribePay, CheckoutAsk, PortalAsk,
     CancelAsk, StripeCall
<1>4. ~Webhooks(r)
  BY DEF Webhooks, StripeReceive, LagoReceive, Resolve, RecordEvent, Checkout, CheckoutGet,
     CheckoutCreate, CheckoutPut, PurchaseGet, PurchaseAdd, SubscriptionUpdate,
     SubscriptionGet, SubscriptionCreate, SubscriptionPut, SubscriptionReferral,
     SubscriptionInvitee, SubscriptionInviterGet, SubscriptionInviterCreate,
     SubscriptionInviter, SubscriptionDeleted, DeletedGet, DeletedPut, PaymentFailed,
     FailedGet, FailedPut, InvoicePaid, InvoiceGet, InvoiceProrate, InvoiceAdd,
     InvoiceReread, InvoiceMark, LagoSubscriptionStarted, LagoGet, LagoCreate, LagoAdd
<1> QED
  BY <1>1, <1>2, <1>3, <1>4 DEF Handler

\* Such a request goes on to its mark, makes it, or is cut short.
LEMMA MarkingStep ==
  ASSUME Inv, Serial, [Next]_vars, NEW r \in Request, NEW u \in User, proc[r].call.user = u,
         proc[r].pc \in {"signup.reread", "signup.mark", "daily.reread", "daily.mark"}
  PROVE  \/ proc'[r] = proc[r]
         \/ /\ r \in Abandoned' /\ r \notin Abandoned /\ proc'[r].call = proc[r].call
            /\ \/ proc[r].pc \in {"signup.reread", "signup.mark"}
                  /\ proc[r].call.op = "signup_grant"
               \/ proc[r].pc \in {"daily.reread", "daily.mark"}
                  /\ proc[r].call.op \in AllowanceOps
         \/ proc[r].pc = "signup.reread" /\ GoesTo(r, "signup.mark")
         \/ proc[r].pc = "daily.reread" /\ GoesTo(r, "daily.mark")
         \/ proc[r].pc = "signup.mark" /\ Exists(u)' /\ accounts'[u].signup_grant = today
         \/ proc[r].pc = "daily.mark" /\ Exists(u)' /\ accounts'[u].last_daily = today
<1>1. Busy(r) /\ OneRuns /\ CallAt(proc[r]) /\ ProcInv
  BY DEF Serial, Busy, RefillPcs, Inv
<1>2. CASE Abandon(r) /\ r \in Abandoned' /\ r \notin Abandoned /\ proc'[r].call = proc[r].call
  BY <1>1, <1>2 DEF CallAt, SignupPcs, AllowancePcs
<1>3. CASE SignupReread(r) \/ DailyReread(r)
  BY <1>3, HelpersRead DEF SignupReread, DailyReread, At, Arg
<1>4. CASE SignupMark(r) \/ DailyMark(r)
  <2>1. proc[r].copy \in Account
    BY Stepping DEF CopyPcs, Sound
  <2>2. CASE SignupMark(r)
    <3> DEFINE a == [proc[r].copy EXCEPT !.signup_grant = today, !.referred_by = proc[r].call.other]
    <3>1. accounts'[u] = a
      BY <2>2 DEF SignupMark, PutAccount, Arg, Copy, Inv, StoreType
    <3>2. a \in Account /\ a.signup_grant = today
      BY <2>1, Stepping DEF Account, Call, Day
    <3> HIDE DEF a
    <3> QED
      BY <2>2, <3>1, <3>2, NoneAssumption DEF Exists, SignupMark, At
  <2>3. CASE DailyMark(r)
    <3> DEFINE a == [proc[r].copy EXCEPT !.last_daily = today]
    <3>1. accounts'[u] = a
      BY <2>3 DEF DailyMark, PutAccount, Arg, Copy, Inv, StoreType
    <3>2. a \in Account /\ a.last_daily = today
      BY <2>1, Stepping DEF Account, Day
    <3> HIDE DEF a
    <3> QED
      BY <2>3, <3>1, <3>2, NoneAssumption DEF Exists, DailyMark, At
  <2> QED
    BY <1>4, <2>2, <2>3
<1> QED
  BY <1>1, <1>2, <1>3, <1>4, RunsOn, MarkingSteps

-----------------------------------------------------------------------------
(* The signup grant.                                                       *)

SignupKind == {t \in Transaction : t.type = "signup_grant"}

\* The account is marked, or a request is about to mark it.
SignupToken(u) ==
  \/ Exists(u) /\ accounts[u].signup_grant # None
  \/ \E r \in Request : /\ proc[r].pc \in {"signup.reread", "signup.mark"}
                        /\ proc[r].call.user = u

SignupCut(u) == AbandonedCalls(u, {"signup_grant"})

SignupsWithin ==
  \A u \in User : Within(Those(u, SignupKind), SignupCut(u), SignupToken(u))

LEMMA SignupTokenKept ==
  ASSUME Inv, Serial, LedgerKeepsAccount', [Next]_vars, NEW u \in User, SignupToken(u)
  PROVE  \/ ledger'[u] = <<>>
         \/ SignupToken(u)'
         \/ \E x \in SignupCut(u)' : x \notin SignupCut(u)
<1>0. today # None
  BY NoneAssumption DEF Inv, StoreType, Day
<1>1. CASE Exists(u) /\ accounts[u].signup_grant # None
  <2>1. CASE Exists(u)'
    BY <1>0, <1>1, <2>1, MarksStep DEF SignupToken
  <2>2. CASE ~Exists(u)'
    BY <2>2 DEF LedgerKeepsAccount
  <2> QED
    BY <2>1, <2>2
<1>2. ASSUME NEW r \in Request, proc[r].pc \in {"signup.reread", "signup.mark"},
             proc[r].call.user = u
      PROVE  SignupToken(u)' \/ \E x \in SignupCut(u)' : x \notin SignupCut(u)
  <2>1. CASE r \in Abandoned' /\ r \notin Abandoned /\ proc'[r].call = proc[r].call
             /\ proc[r].call.op = "signup_grant"
    BY <1>2, <2>1 DEF SignupCut, AbandonedCalls
  <2>2. CASE proc'[r] = proc[r] \/ GoesTo(r, "signup.mark")
    BY <1>2, <2>2 DEF GoesTo, SignupToken
  <2>3. CASE Exists(u)' /\ accounts'[u].signup_grant = today
    BY <1>0, <2>3 DEF SignupToken
  <2> QED
    BY <1>2, <2>1, <2>2, <2>3, MarkingStep
<1> QED
  BY <1>1, <1>2 DEF SignupToken

LEMMA SignupsWithinStep ==
  ASSUME OneAtATime, Inv, Serial, LedgerKeepsAccount', [Next]_vars, SignupsWithin
  PROVE  SignupsWithin'
<1> SUFFICES ASSUME NEW u \in User
             PROVE  Within(Those(u, SignupKind)', SignupCut(u)', SignupToken(u)')
  BY DEF SignupsWithin, Within
<1> DEFINE N == Those(u, SignupKind)
           C == SignupCut(u)
           token == SignupToken(u)
<1>1. /\ IsFiniteSet(N) /\ IsFiniteSet(C') /\ C \subseteq C'
      /\ token \in BOOLEAN /\ token' \in BOOLEAN
  <2>1. IsFiniteSet(N)
    BY ThoseFinite
  <2>2. C \subseteq C'
    BY CutForGood DEF SignupCut, AbandonedCalls, Serial
  <2>3. IsFiniteSet(C')
    BY CutFinite, FS_Subset DEF SignupCut, AbandonedCalls
  <2> QED
    BY <2>1, <2>2, <2>3 DEF SignupToken
<1>2. ledger'[u] = <<>> => N' = {}
  BY DEF Those
<1>3. \/ N' \subseteq N
      \/ ~token /\ token' /\ \E x : N' \subseteq N \cup {x}
  <2>1. \A t \in SignupKind : t.type # "usage"
    BY DEF SignupKind
  <2>2. ASSUME NEW r \in Request, NEW n, NEW type, NEW ref,
               AddCredits(u, n, type, ref), Source(r, u, type, ref),
               \E t \in SignupKind : t.type = type
        PROVE  ~token /\ token'
    <3>1. type = "signup_grant"
      BY <2>2 DEF SignupKind
    <3>2. /\ u = proc[r].call.user /\ proc[r].pc = "signup.add"
          /\ proc[r].copy.signup_grant = None /\ GoesTo(r, "signup.reread")
      BY <2>2, <3>1 DEF Source
    <3>3. Exists(u) /\ accounts[u].signup_grant = None
      BY <2>2, <3>2 DEF AddCredits, Serial, Fresh, FreshPcs, AsRow, SameMarks
    <3>4. \A s \in Request : proc[s].pc \notin {"signup.reread", "signup.mark"}
      BY <3>2 DEF Serial, OneRuns, Busy, RefillPcs
    <3> QED
      BY <3>2, <3>3, <3>4 DEF SignupToken, GoesTo
  <2> QED
    BY <2>1, <2>2, KindStep
<1>4. token => ledger'[u] = <<>> \/ token' \/ \E x \in C' : x \notin C
  BY SignupTokenKept
<1>5. Within(N, C, token)
  BY DEF SignupsWithin
<1> HIDE DEF N, C, token
<1>6. \/ N' = {}
      \/ N' \subseteq N /\ (token => token' \/ \E x \in C' : x \notin C)
      \/ ~token /\ token' /\ \E x : N' \subseteq N \cup {x}
  BY <1>2, <1>3, <1>4
<1>7. Within(N', C', token')
  BY <1>1, <1>5, <1>6, WithinStep
<1> QED
  BY <1>7 DEF N, C, token

\* The accounts that are there at first.
LEMMA OpeningKinds ==
  ASSUME Init, NEW u \in User, NEW kind
  PROVE  /\ Those(u, kind) \subseteq {1}
         /\ (\A t : t.day = 0 /\ t.ref = None /\ t.type \in {"bonus", "signup_grant"}
               => t \notin kind) => Those(u, kind) = {}
         /\ Initial[u] = None \/ Initial[u].signup_grant = None =>
              \A i \in DOMAIN ledger[u] : ledger[u][i].type = "bonus"
<1> DEFINE t == OpeningRecord(Initial[u])
<1>1. ledger[u] \in {<<>>, <<t>>} /\ (Initial[u] = None => ledger[u] = <<>>)
  BY DEF Init, OpeningLedger
<1>2. /\ t.day = 0 /\ t.ref = None /\ t.type \in {"bonus", "signup_grant"}
      /\ Initial[u].signup_grant = None => t.type = "bonus"
  BY DEF OpeningRecord
<1> HIDE DEF t
<1> QED
  BY <1>1, <1>2 DEF Those

LEMMA WithinInit ==
  ASSUME NEW N, N \subseteq {1}, NEW token \in BOOLEAN, token \/ N = {}
  PROVE  Within(N, {}, token)
<1>1. Cardinality({}) = 0 /\ Cardinality({1}) = 1
  BY FS_EmptySet, FS_Singleton
<1>2. CASE N = {}
  BY <1>1, <1>2 DEF Within
<1>3. CASE N = {1}
  <2>1. token
    BY <1>3
  <2>2. Cardinality(N) = 1
    BY <1>1, <1>3
  <2> QED
    BY <1>1, <2>1, <2>2 DEF Within
<1> QED
  BY <1>2, <1>3

\* When requests run one at a time, a user has one signup grant, and one more
\* at most for each signup request that was cut short: a stale copy that is
\* written back never takes the mark of a grant away.
THEOREM SignupsBounded == OneAtATime => (Spec => []SignupBounded)
<1> SUFFICES ASSUME OneAtATime PROVE Spec => []SignupBounded
  OBVIOUS
<1>1. Init => SignupsWithin
  <2> SUFFICES ASSUME Init, NEW u \in User
               PROVE  Within(Those(u, SignupKind), SignupCut(u), SignupToken(u))
    BY DEF SignupsWithin
  <2>1. SignupCut(u) = {}
    BY DEF Init, SignupCut, AbandonedCalls, Abandoned, NotSent
  <2>2. SignupToken(u) \/ Those(u, SignupKind) = {}
    BY OpeningKinds DEF SignupToken, Init, Exists, Those, SignupKind
  <2>3. Those(u, SignupKind) \subseteq {1} /\ SignupToken(u) \in BOOLEAN
    BY OpeningKinds DEF SignupToken
  <2> QED
    BY <2>1, <2>2, <2>3, WithinInit
<1>2. Inv /\ Serial /\ LedgerKeepsAccount' /\ SignupsWithin /\ [Next]_vars => SignupsWithin'
  BY SignupsWithinStep
<1>3. Inv /\ SignupsWithin => SignupBounded
  <2> SUFFICES ASSUME Inv, SignupsWithin, NEW u \in User
               PROVE  Cardinality(Records(u, "signup_grant"))
                        <= 1 + Cardinality(AbandonedCalls(u, {"signup_grant"}))
    BY DEF SignupBounded
  <2>1. Records(u, "signup_grant") = Those(u, SignupKind)
    BY DEF Inv, StoreType, Records, Those, SignupKind
  <2>2. IsFiniteSet(Those(u, SignupKind)) /\ IsFiniteSet(SignupCut(u)) /\ SignupToken(u) \in BOOLEAN
    BY ThoseFinite, CutFinite, FS_Subset DEF SignupCut, AbandonedCalls, SignupToken
  <2> QED
    BY <2>1, <2>2, WithinOne DEF SignupsWithin, SignupCut
<1> QED
  BY <1>1, <1>2, <1>3, Invariant, CopiesStayFresh, AccountsKept, PTL DEF Spec

-----------------------------------------------------------------------------
(* The daily grant.                                                        *)

\* No record is of a day to come.
DaysPast == \A u \in User : \A i \in DOMAIN ledger[u] : ledger[u][i].day <= today

LEMMA DaysPastStep ==
  ASSUME Inv, DaysPast, [Next]_vars
  PROVE  DaysPast'
<1>0. today \in Nat /\ \A u \in User : \A i \in DOMAIN ledger[u] : ledger[u][i].day \in Nat
  <2>1. \A u \in User : \A i \in DOMAIN ledger[u] : ledger[u][i] \in Transaction
    BY DEF Inv, StoreType
  <2> QED
    BY <2>1 DEF Inv, StoreType, Transaction, Day
<1>1. ASSUME NEW v \in User, NEW type, NEW amount, NEW after, NEW ref,
             Record(v, type, amount, after, ref), today' = today
      PROVE  DaysPast'
  <2> SUFFICES ASSUME NEW u \in User, NEW i \in DOMAIN ledger'[u]
               PROVE  ledger'[u][i].day <= today
    BY <1>1 DEF DaysPast
  <2>1. \/ i \in DOMAIN ledger[u] /\ ledger'[u][i] = ledger[u][i]
        \/ ledger'[u][i].day = today
    <3>1. CASE u = v
      <4>1. i \in 1..(Len(ledger[u]) + 1) /\ Len(ledger[u]) \in Nat
        BY <1>1, <3>1, Appended
      <4>2. i = Len(ledger[u]) + 1 \/ i \in 1..Len(ledger[u])
        BY <4>1
      <4> QED
        BY <1>1, <3>1, <4>2, Appended
    <3>2. CASE u # v
      BY <1>1, <3>2, Appended
    <3> QED
      BY <3>1, <3>2
  <2> QED
    BY <1>0, <2>1 DEF DaysPast
<1>2. CASE ledger' = ledger /\ today' \in Nat /\ today <= today'
  BY <1>0, <1>2 DEF DaysPast
<1>3. Effect \/ Tick
  BY StepEffect
<1>4. CASE Tick
  <2>1. today' \in Nat /\ today <= today' /\ ledger' = ledger
    BY <1>0, <1>4 DEF Tick
  <2> QED
    BY <1>2, <2>1
<1>5. CASE Effect
  <2>1. today' = today
    BY <1>5 DEF Effect, storeVars, PutAccount, AddCredits, CommitUsage, DeleteAccount,
       RecordWebhookEvent
  <2>2. \/ ledger' = ledger
        \/ \E u \in User : \E type, amount, after, ref : Record(u, type, amount, after, ref)
    BY <1>5 DEF Effect, storeVars, PutAccount, AddCredits, CommitUsage, DeleteAccount,
       RecordWebhookEvent
  <2> QED
    BY <1>0, <1>1, <1>2, <2>1, <2>2
<1> QED
  BY <1>3, <1>4, <1>5

DailyKind(d) == {t \in Transaction : t.type = "daily_grant" /\ t.day = d}

\* The account is marked with that day or a later one, or is about to be.
DailyToken(u, d) ==
  \/ Exists(u) /\ accounts[u].last_daily # None /\ accounts[u].last_daily >= d
  \/ \E r \in Request : /\ proc[r].pc \in {"daily.reread", "daily.mark"}
                        /\ proc[r].call.user = u

DailyCut(u) == AbandonedCalls(u, AllowanceOps)

DailyWithin ==
  \A u \in User : \A d \in Nat : Within(Those(u, DailyKind(d)), DailyCut(u), DailyToken(u, d))

LEMMA DailyTokenKept ==
  ASSUME Inv, Serial, LedgerKeepsAccount', [Next]_vars, NEW u \in User, NEW d \in Nat,
         d <= today, DailyToken(u, d)
  PROVE  \/ ledger'[u] = <<>>
         \/ DailyToken(u, d)'
         \/ \E x \in DailyCut(u)' : x \notin DailyCut(u)
<1>0. today # None /\ today >= d
  BY NoneAssumption DEF Inv, StoreType, Day
<1>1. CASE Exists(u) /\ accounts[u].last_daily # None /\ accounts[u].last_daily >= d
  <2>1. CASE Exists(u)'
    BY <1>0, <1>1, <2>1, MarksStep DEF DailyToken
  <2>2. CASE ~Exists(u)'
    BY <2>2 DEF LedgerKeepsAccount
  <2> QED
    BY <2>1, <2>2
<1>2. ASSUME NEW r \in Request, proc[r].pc \in {"daily.reread", "daily.mark"},
             proc[r].call.user = u
      PROVE  DailyToken(u, d)' \/ \E x \in DailyCut(u)' : x \notin DailyCut(u)
  <2>1. CASE r \in Abandoned' /\ r \notin Abandoned /\ proc'[r].call = proc[r].call
             /\ proc[r].call.op \in AllowanceOps
    BY <1>2, <2>1 DEF DailyCut, AbandonedCalls
  <2>2. CASE proc'[r] = proc[r] \/ GoesTo(r, "daily.mark")
    BY <1>2, <2>2 DEF GoesTo, DailyToken
  <2>3. CASE Exists(u)' /\ accounts'[u].last_daily = today
    BY <1>0, <2>3 DEF DailyToken
  <2> QED
    BY <1>2, <2>1, <2>2, <2>3, MarkingStep
<1> QED
  BY <1>1, <1>2 DEF DailyToken

LEMMA DailyWithinStep ==
  ASSUME OneAtATime, Inv, Serial, LedgerKeepsAccount', DaysPast, [Next]_vars, DailyWithin
  PROVE  DailyWithin'
<1> SUFFICES ASSUME NEW u \in User, NEW d \in Nat
             PROVE  Within(Those(u, DailyKind(d))', DailyCut(u)', DailyToken(u, d)')
  BY DEF DailyWithin, Within
<1> DEFINE kind == DailyKind(d)
           N == Those(u, kind)
           C == DailyCut(u)
           token == DailyToken(u, d)
<1>1. /\ IsFiniteSet(N) /\ IsFiniteSet(C') /\ C \subseteq C'
      /\ token \in BOOLEAN /\ token' \in BOOLEAN
  <2>1. IsFiniteSet(N)
    BY ThoseFinite
  <2>2. C \subseteq C'
    BY CutForGood DEF DailyCut, AbandonedCalls, Serial
  <2>3. IsFiniteSet(C')
    BY CutFinite, FS_Subset DEF DailyCut, AbandonedCalls
  <2> QED
    BY <2>1, <2>2, <2>3 DEF DailyToken
<1>2. ledger'[u] = <<>> => N' = {}
  BY DEF Those
<1>3. \/ N' \subseteq N
      \/ ~token /\ token' /\ \E x : N' \subseteq N \cup {x}
  <2>1. \A t \in kind : t.type # "usage"
    BY DEF DailyKind
  <2>2. ASSUME NEW r \in Request, NEW n, NEW type, NEW ref,
               AddCredits(u, n, type, ref), Source(r, u, type, ref),
               \E t \in kind : t.type = type /\ t.day = today
        PROVE  ~token /\ token'
    <3>1. type = "daily_grant" /\ today = d
      BY <2>2 DEF DailyKind
    <3>2. /\ u = proc[r].call.user /\ proc[r].pc = "daily"
          /\ DailyDue(proc[r].copy) /\ GoesTo(r, "daily.reread")
      BY <2>2, <3>1 DEF Source
    <3>3. Exists(u) /\ proc[r].copy.last_daily = accounts[u].last_daily
      BY <2>2, <3>2 DEF AddCredits, Serial, Fresh, FreshPcs, AsRow, SameMarks
    <3>4. accounts[u].last_daily \in Nat \cup {None}
      BY <3>3 DEF Inv, StoreType, Exists, Account, Day
    <3>5. accounts[u].last_daily # None => ~(accounts[u].last_daily >= d)
      BY <3>1, <3>2, <3>3, <3>4 DEF DailyDue
    <3>6. \A s \in Request : proc[s].pc \notin {"daily.reread", "daily.mark"}
      BY <3>2 DEF Serial, OneRuns, Busy, RefillPcs
    <3> QED
      BY <3>2, <3>5, <3>6 DEF DailyToken, GoesTo
  <2> QED
    BY <2>1, <2>2, KindStep
<1>4. CASE d <= today
  <2>1. token => ledger'[u] = <<>> \/ token' \/ \E x \in C' : x \notin C
    BY <1>4, DailyTokenKept
  <2>2. Within(N, C, token)
    BY DEF DailyWithin
  <2> HIDE DEF N, C, token
  <2>3. \/ N' = {}
        \/ N' \subseteq N /\ (token => token' \/ \E x \in C' : x \notin C)
        \/ ~token /\ token' /\ \E x : N' \subseteq N \cup {x}
    BY <1>2, <1>3, <2>1
  <2>4. Within(N', C', token')
    BY <1>1, <2>2, <2>3, WithinStep
  <2> QED
    BY <2>4 DEF N, C, token
\* There are no records of a day to come.
<1>5. CASE ~(d <= today)
  <2>1. N = {}
    BY <1>5 DEF DaysPast, Those, DailyKind
  <2>2. CASE N' \subseteq N
    <3>1. N' = {} /\ Within(N, C, token)
      BY <2>1, <2>2 DEF DailyWithin
    <3> HIDE DEF N, C, token
    <3>2. Within(N', C', token')
      BY <1>1, <3>1, WithinStep
    <3> QED
      BY <3>2 DEF N, C, token
  <2>3. CASE ~token /\ token' /\ \E x : N' \subseteq N \cup {x}
    <3>1. Within(N, C, token)
      BY DEF DailyWithin
    <3> HIDE DEF N, C, token
    <3>2. Within(N', C', token')
      BY <1>1, <2>3, <3>1, WithinStep
    <3> QED
      BY <3>2 DEF N, C, token
  <2> QED
    BY <1>3, <2>2, <2>3
<1> QED
  BY <1>4, <1>5

\* When requests run one at a time, a user has one daily grant of each day,
\* through whichever of the three routes, and one more at most for each such
\* request that was cut short; also when midnight falls between the grant and
\* its mark.
THEOREM DailyGrantsBounded == OneAtATime => (Spec => []DailyBounded)
<1> SUFFICES ASSUME OneAtATime PROVE Spec => []DailyBounded
  OBVIOUS
<1>1. Init => DailyWithin /\ DaysPast
  <2> SUFFICES ASSUME Init PROVE DailyWithin /\ DaysPast
    OBVIOUS
  <2>1. ASSUME NEW u \in User, NEW d \in Nat
        PROVE  Within(Those(u, DailyKind(d)), DailyCut(u), DailyToken(u, d))
    <3>1. DailyCut(u) = {}
      BY DEF Init, DailyCut, AbandonedCalls, Abandoned, NotSent
    <3>2. Those(u, DailyKind(d)) = {} /\ DailyToken(u, d) \in BOOLEAN
      BY OpeningKinds DEF DailyKind, DailyToken
    <3> QED
      BY <3>1, <3>2, WithinInit
  <2>2. DaysPast
    BY DEF Init, DaysPast, OpeningLedger, OpeningRecord
  <2> QED
    BY <2>1, <2>2 DEF DailyWithin
<1>2. /\ Inv /\ Serial /\ LedgerKeepsAccount' /\ DaysPast /\ DailyWithin /\ [Next]_vars
           => DailyWithin'
      /\ Inv /\ DaysPast /\ [Next]_vars => DaysPast'
  BY DailyWithinStep, DaysPastStep
<1>3. Inv /\ DailyWithin => DailyBounded
  <2> SUFFICES ASSUME Inv, DailyWithin, NEW u \in User, NEW d \in 0..LastDay
               PROVE  Cardinality({i \in Records(u, "daily_grant") : ledger[u][i].day = d})
                        <= 1 + Cardinality(DailyCut(u))
    BY DEF DailyBounded, DailyCut, AllowanceOps
  <2>1. {i \in Records(u, "daily_grant") : ledger[u][i].day = d} = Those(u, DailyKind(d))
    BY DEF Inv, StoreType, Records, Those, DailyKind
  <2>2. /\ IsFiniteSet(Those(u, DailyKind(d))) /\ IsFiniteSet(DailyCut(u))
        /\ DailyToken(u, d) \in BOOLEAN
    BY ThoseFinite, CutFinite, FS_Subset DEF DailyCut, AbandonedCalls, DailyToken
  <2>3. d \in Nat
    BY ClockAssumption DEF Day
  <2> QED
    BY <2>1, <2>2, <2>3, WithinOne DEF DailyWithin
<1> QED
  BY <1>1, <1>2, <1>3, Invariant, CopiesStayFresh, AccountsKept, PTL DEF Spec

-----------------------------------------------------------------------------
(* Deliveries of one event.                                                *)

AppliedKind(w) == {t \in Transaction : t.ref = w /\ t.type # "referral_bonus"}

\* The event is recorded, or a delivery that has applied it is about to.
AppliedToken(w) ==
  \/ w \in processed_webhooks
  \/ \E r \in Request : /\ proc[r].pc \in {"invoice.reread", "invoice.mark", "record"}
                        /\ proc[r].call.id = w

AppliedCut(w) == {r \in Abandoned : proc[r].call.id = w}

AppliedWithin ==
  \A u \in User : \A w \in WebhookId :
    Within(Those(u, AppliedKind(w)), AppliedCut(w), AppliedToken(w))

\* The last steps of a delivery.
LEMMA RecordingStep ==
  ASSUME Inv, NEW r \in Request, Handler(r),
         proc[r].pc \in {"invoice.reread", "invoice.mark", "record"}
  PROVE  \/ GoesTo(r, "invoice.mark") \/ GoesTo(r, "record")
         \/ proc[r].call.id \in processed_webhooks'
<1>1. Webhooks(r) /\ ~Resolve(r) /\ ~SubscriptionUpdate(r) /\ ~SubscriptionDeleted(r)
      /\ ~PaymentFailed(r) /\ ~CheckoutGet(r) /\ ~CheckoutCreate(r) /\ ~CheckoutPut(r)
  BY OtherHandlers DEF AnyOwedPcs, Handler
<1>2. InvoiceReread(r) \/ InvoiceMark(r) \/ RecordEvent(r)
  BY <1>1 DEF At, Webhooks, StripeReceive, Checkout, PurchaseGet, PurchaseAdd, InvoicePaid,
     InvoiceGet, InvoiceProrate, InvoiceAdd, LagoReceive, LagoSubscriptionStarted, LagoGet,
     LagoCreate, LagoAdd
<1>3. InvoiceReread(r) => GoesTo(r, "invoice.mark")
  BY HelpersRead DEF InvoiceReread, Arg
<1>4. InvoiceMark(r) => GoesTo(r, "record")
  BY Locals DEF InvoiceMark, Done, GoesTo, Becomes, Inv
<1>5. RecordEvent(r) => proc[r].call.id \in processed_webhooks'
  BY DEF RecordEvent, RecordWebhookEvent, Arg
<1> QED
  BY <1>2, <1>3, <1>4, <1>5

LEMMA RecordedForGood ==
  ASSUME Inv, [Next]_vars
  PROVE  processed_webhooks \subseteq processed_webhooks'
BY StepEffect DEF Effect, Tick, storeVars, PutAccount, AddCredits, CommitUsage, DeleteAccount,
   RecordWebhookEvent

LEMMA AppliedTokenKept ==
  ASSUME Inv, Serial, [Next]_vars, NEW w \in WebhookId, AppliedToken(w)
  PROVE  AppliedToken(w)' \/ \E x \in AppliedCut(w)' : x \notin AppliedCut(w)
<1>1. CASE w \in processed_webhooks
  BY <1>1, RecordedForGood DEF AppliedToken
<1>2. ASSUME NEW r \in Request, proc[r].call.id = w,
             proc[r].pc \in {"invoice.reread", "invoice.mark", "record"}
      PROVE  AppliedToken(w)' \/ \E x \in AppliedCut(w)' : x \notin AppliedCut(w)
  <2>1. Busy(r) /\ OneRuns
    BY <1>2 DEF Serial, Busy, RefillPcs
  <2>2. CASE proc'[r] = proc[r]
    BY <1>2, <2>2 DEF AppliedToken
  <2>3. CASE r \in Abandoned' /\ r \notin Abandoned /\ proc'[r].call = proc[r].call
    BY <1>2, <2>3 DEF AppliedCut
  <2>4. CASE Handler(r)
    BY <1>2, <2>4, RecordingStep DEF AppliedToken, GoesTo
  <2> QED
    BY <2>1, <2>2, <2>3, <2>4, RunsOn
<1> QED
  BY <1>1, <1>2 DEF AppliedToken

LEMMA AppliedWithinStep ==
  ASSUME OneAtATime, Inv, Serial, [Next]_vars, AppliedWithin
  PROVE  AppliedWithin'
<1> SUFFICES ASSUME NEW u \in User, NEW w \in WebhookId
             PROVE  Within(Those(u, AppliedKind(w))', AppliedCut(w)', AppliedToken(w)')
  BY DEF AppliedWithin, Within
<1> DEFINE kind == AppliedKind(w)
           N == Those(u, kind)
           C == AppliedCut(w)
           token == AppliedToken(w)
<1>1. /\ IsFiniteSet(N) /\ IsFiniteSet(C') /\ C \subseteq C'
      /\ token \in BOOLEAN /\ token' \in BOOLEAN
  <2>1. IsFiniteSet(N)
    BY ThoseFinite
  <2>2. C \subseteq C'
    BY CutForGood DEF AppliedCut, Serial
  <2>3. IsFiniteSet(C')
    BY CutFinite, FS_Subset DEF AppliedCut
  <2> QED
    BY <2>1, <2>2, <2>3 DEF AppliedToken
<1>2. \/ N' \subseteq N
      \/ ~token /\ token' /\ \E x : N' \subseteq N \cup {x}
  <2>1. \A t \in kind : t.ref \notin UsageId
    BY NoneAssumption DEF AppliedKind
  <2>2. ASSUME NEW r \in Request, NEW n, NEW type, NEW ref, Source(r, u, type, ref),
               \E t \in kind : t.type = type /\ t.ref = ref
        PROVE  ~token /\ token'
    <3>1. type # "referral_bonus" /\ ref = w
      BY <2>2 DEF AppliedKind
    <3>2. /\ w = proc[r].call.id /\ proc[r].pc \in {"purchase.add", "invoice.add", "lago.add"}
          /\ GoesTo(r, "invoice.reread") \/ GoesTo(r, "record")
      BY <2>2, <3>1 DEF Source
    <3>3. w \notin processed_webhooks
      BY <3>2 DEF Serial, CallAt, WebhookPcs
    <3>4. \A s \in Request : proc[s].pc \notin {"invoice.reread", "invoice.mark", "record"}
      BY <3>2 DEF Serial, OneRuns, Busy, RefillPcs
    <3> QED
      BY <3>2, <3>3, <3>4 DEF AppliedToken, GoesTo
  <2> QED
    BY <2>1, <2>2, KindStep
<1>3. token => token' \/ \E x \in C' : x \notin C
  BY AppliedTokenKept
<1>4. Within(N, C, token)
  BY DEF AppliedWithin
<1> HIDE DEF N, C, token
<1>5. Within(N', C', token')
  BY <1>1, <1>2, <1>3, <1>4, WithinStep
<1> QED
  BY <1>5 DEF N, C, token

\* When deliveries run one at a time, an event is applied to an account once,
\* and once more at most for each of its deliveries that was cut short before
\* it was recorded.
THEOREM EventsAppliedOnce == OneAtATime => (Spec => []AppliedOnce)
<1> SUFFICES ASSUME OneAtATime PROVE Spec => []AppliedOnce
  OBVIOUS
<1>1. Init => AppliedWithin
  <2> SUFFICES ASSUME Init, NEW u \in User, NEW w \in WebhookId
               PROVE  Within(Those(u, AppliedKind(w)), AppliedCut(w), AppliedToken(w))
    BY DEF AppliedWithin
  <2>1. AppliedCut(w) = {}
    BY DEF Init, AppliedCut, Abandoned, NotSent
  <2>2. Those(u, AppliedKind(w)) = {} /\ AppliedToken(w) \in BOOLEAN
    BY OpeningKinds, NoneAssumption DEF AppliedKind, AppliedToken
  <2> QED
    BY <2>1, <2>2, WithinInit
<1>2. Inv /\ Serial /\ AppliedWithin /\ [Next]_vars => AppliedWithin'
  BY AppliedWithinStep
<1>3. Inv /\ AppliedWithin => AppliedOnce
  <2> SUFFICES ASSUME Inv, AppliedWithin, NEW u \in User, NEW w \in WebhookId
               PROVE  Cardinality(AppliedTo(u, w)) <= 1 + Cardinality(AppliedCut(w))
    BY DEF AppliedOnce, AppliedCut
  <2>1. AppliedTo(u, w) = Those(u, AppliedKind(w))
    BY DEF Inv, StoreType, AppliedTo, Those, AppliedKind
  <2>2. /\ IsFiniteSet(Those(u, AppliedKind(w))) /\ IsFiniteSet(AppliedCut(w))
        /\ AppliedToken(w) \in BOOLEAN
    BY ThoseFinite, CutFinite, FS_Subset DEF AppliedCut, AppliedToken
  <2> QED
    BY <2>1, <2>2, WithinOne DEF AppliedWithin
<1> QED
  BY <1>1, <1>2, <1>3, Invariant, CopiesStayFresh, PTL DEF Spec

-----------------------------------------------------------------------------
(* Referral bonuses.                                                       *)

\* The accounts there are at first name no inviter but one whom a call names.
KnownInviters ==
  \A u \in User : Initial[u] # None /\ Initial[u].referred_by # None =>
                    Invites(Initial[u].referred_by)

BonusKind == {t \in Transaction : t.type = "referral_bonus"}

BonusOnce ==
  \A u \in User : Invites(u) \/ Cardinality(Those(u, BonusKind)) <= 1

LEMMA AtMostOne ==
  ASSUME NEW N, NEW M, IsFiniteSet(N), Cardinality(N) <= 1,
         M \subseteq N \/ (N = {} /\ \E x : M \subseteq N \cup {x})
  PROVE  Cardinality(M) <= 1
<1>1. CASE M \subseteq N
  <2>1. /\ IsFiniteSet(M) /\ Cardinality(M) <= Cardinality(N)
        /\ Cardinality(M) \in Nat /\ Cardinality(N) \in Nat
    BY <1>1, FS_Subset, FS_CardinalityType
  <2> QED
    BY <2>1
<1>2. CASE N = {} /\ \E x : M \subseteq N \cup {x}
  <2>1. Cardinality(N) = 0
    BY <1>2, FS_EmptySet
  <2>2. Cardinality(M) <= Cardinality(N) + 1
    BY <1>2, OneMore
  <2> QED
    BY <2>1, <2>2
<1> QED
  BY <1>1, <1>2

LEMMA InvitersInvite ==
  ASSUME KnownInviters, NEW v \in Inviters, v # None
  PROVE  Invites(v)
BY DEF KnownInviters, Inviters, Invites

LEMMA BonusOnceStep ==
  ASSUME KnownInviters, Inv, AllSent, Serial, [Next]_vars, BonusOnce
  PROVE  BonusOnce'
<1> SUFFICES ASSUME NEW u \in User, ~Invites(u)
             PROVE  Cardinality(Those(u, BonusKind)') <= 1
  BY DEF BonusOnce, Invites
<1> DEFINE N == Those(u, BonusKind)
<1>1. IsFiniteSet(N) /\ Cardinality(N) <= 1
  BY ThoseFinite DEF BonusOnce
<1>2. \A t \in BonusKind : t.type # "usage"
  BY DEF BonusKind
<1>3. ASSUME NEW r \in Request, NEW n, NEW type, NEW ref, Handler(r), Source(r, u, type, ref),
             \E t \in BonusKind : t.type = type
      PROVE  N = {}
  <2>1. type = "referral_bonus"
    BY <1>3 DEF BonusKind
  <2>2. CASE u = proc[r].call.user /\ proc[r].pc \in RewardPcs
    <3>1. ~HasReferralBonus(u)
      BY <2>2 DEF Serial, Fresh
    <3> QED
      BY <3>1 DEF HasReferralBonus, Those, BonusKind
  <2>3. CASE u = proc[r].call.other /\ proc[r].pc = "referral.add"
    <3>1. proc[r].call \in Calls
      BY <2>3 DEF AllSent
    <3> QED
      BY <2>3, <3>1 DEF Invites
  <2>4. CASE u = proc[r].copy.referred_by /\ proc[r].pc = "subscription.add"
    <3>1. proc[r].copy.referred_by \in Inviters \cap User
      BY <2>4, Stepping DEF CopyPcs, ReferralPcs, HoldsCopy, Sound
    <3> QED
      BY <2>4, <3>1, InvitersInvite, NoneAssumption
  <2> QED
    BY <1>3, <2>1, <2>2, <2>3, <2>4 DEF Source
<1>4. N' \subseteq N \/ (N = {} /\ \E x : N' \subseteq N \cup {x})
  BY <1>2, <1>3, KindStep
<1> HIDE DEF N
<1>5. Cardinality(N') <= 1
  BY <1>1, <1>4, AtMostOne
<1> QED
  BY <1>5 DEF N

\* When requests run one at a time, who invites no one gets one referral bonus
\* at most, from the referral route and the first subscription together, and
\* whatever requests were cut short.
THEOREM ReferralsOnce == OneAtATime /\ KnownInviters => (Spec => []ReferralOnce)
<1> SUFFICES ASSUME OneAtATime, KnownInviters PROVE Spec => []ReferralOnce
  OBVIOUS
<1>1. Init => BonusOnce
  <2> SUFFICES ASSUME Init, NEW u \in User PROVE Cardinality(Those(u, BonusKind)) <= 1
    BY DEF BonusOnce
  <2>1. Those(u, BonusKind) = {}
    BY OpeningKinds DEF BonusKind
  <2> QED
    BY <2>1, FS_EmptySet
<1>2. Inv /\ AllSent /\ Serial /\ BonusOnce /\ [Next]_vars => BonusOnce'
  BY BonusOnceStep
<1>3. Inv /\ BonusOnce => ReferralOnce
  <2> SUFFICES ASSUME Inv, NEW u \in User, Cardinality(Those(u, BonusKind)) <= 1
               PROVE  Cardinality(Records(u, "referral_bonus")) <= 1
    BY DEF BonusOnce, ReferralOnce
  <2>1. Records(u, "referral_bonus") = Those(u, BonusKind)
    BY DEF Inv, StoreType, Records, Those, BonusKind
  <2> QED
    BY <2>1
<1> QED
  BY <1>1, <1>2, <1>3, Invariant, AllSentKept, CopiesStayFresh, PTL DEF Spec

-----------------------------------------------------------------------------
(* Who invited whom.                                                       *)

\* The inviters of a user, from the calls and the accounts there are at first.
InvitersOf(u) ==
  {None} \cup {c.other : c \in {d \in Calls : d.user = u}}
         \cup (IF Initial[u] = None THEN {} ELSE {Initial[u].referred_by})

\* A user has one inviter at most, whatever calls name one.
OneInviter == \A u \in User : \A v, w \in InvitersOf(u) \ {None} : v = w

Named(u, a) == a # None => a.referred_by \in InvitersOf(u)

RowsNamed == \A u \in User : Named(u, accounts[u])

\* The steps on the way to an inviter's bonus, and the routes they belong to.
ReferralRoute == {"referral_grant", "referral.create", "referral.check", "referral.invitee",
                  "referral.inviter", "referral.create_inviter", "referral.add"}

StripeRoute == {"stripe_webhook", "resolve", "subscription.updated", "subscription.create",
                "subscription.put"} \cup ReferralPcs

Routed(pc, c) ==
  /\ pc # "new"
  /\ pc \in ReferralRoute => c.op = "referral_grant"
  /\ pc \in StripeRoute => c.op = "stripe_webhook"

Elsewhere(pc, c) == Routed(pc, c) /\ pc \notin {"referral.add", "subscription.add"}

\* Only a request that is about to reward an inviter has the inviter's account.
Invoked(p) ==
  IF p.pc = "new" THEN p.copy = None
  ELSE Routed(p.pc, p.call) /\ (p.pc = "referral.add" \/ Named(p.call.user, p.copy))

\* When it pays the inviter, the inviter has an account.
AddPcs == {"referral.add", "subscription.add"}

InviterAt(p) == IF p.pc \in ReferralRoute THEN p.call.other ELSE p.copy.referred_by

Payable(p) == p.pc \in AddPcs => Exists(InviterAt(p))

NamesKept == RowsNamed /\ \A r \in Request : Invoked(proc[r])

Naming(r) ==
  /\ RowsNamed' /\ Invoked(proc'[r]) /\ Payable(proc[r])'
  /\ \A s \in Request \ {r} : proc'[s] = proc[s]

LEMMA NewAccountNamed == \A u : Named(u, NewAccount)
BY DEF Named, NewAccount, InvitersOf

\* What is put or added leaves every row with an inviter of its user.
LEMMA RowsStayNamed ==
  ASSUME Inv, RowsNamed
  PROVE  /\ accounts' = accounts => RowsNamed'
         /\ \A u, a : Named(u, a) /\ PutAccount(u, a) => RowsNamed'
         /\ \A u, n, type, ref : AddCredits(u, n, type, ref) \/ CommitUsage(u, n, ref) => RowsNamed'
         /\ \A u : DeleteAccount(u) => RowsNamed'
<1>1. accounts \in [User -> Account \cup {None}]
  BY DEF Inv, StoreType
<1>2. ASSUME NEW u, NEW n, NEW type, NEW ref,
             AddCredits(u, n, type, ref) \/ CommitUsage(u, n, ref)
      PROVE  RowsNamed'
  <2>1. CASE u \notin User
    BY <1>1, <1>2, <2>1 DEF AddCredits, CommitUsage, RowsNamed, Named
  <2>2. CASE u \in User
    <3>1. accounts[u] \in Account
      BY <1>1, <1>2, <2>2 DEF AddCredits, CommitUsage, Exists
    <3>2. accounts'[u].referred_by = accounts[u].referred_by
      <4>1. CASE AddCredits(u, n, type, ref)
        <5> DEFINE more == accounts[u].balance + n
                   bought == accounts[u].purchased + n
        <5>1. accounts'[u] = [accounts[u] EXCEPT !.balance = more, !.purchased = bought]
          BY <1>1, <2>2, <3>1, <4>1 DEF AddCredits, Account
        <5> HIDE DEF more, bought
        <5> QED
          BY <3>1, <5>1 DEF Account
      <4>2. CASE CommitUsage(u, n, ref)
        <5> DEFINE less == accounts[u].balance - n
                   spent == accounts[u].used + n
        <5>1. accounts'[u] = [accounts[u] EXCEPT !.balance = less, !.used = spent]
          BY <1>1, <2>2, <3>1, <4>2 DEF CommitUsage, Account
        <5> HIDE DEF less, spent
        <5> QED
          BY <3>1, <5>1 DEF Account
      <4> QED
        BY <1>2, <4>1, <4>2
    <3>3. \A v \in User \ {u} : accounts'[v] = accounts[v]
      BY <1>1, <1>2 DEF AddCredits, CommitUsage
    <3> QED
      BY <1>2, <3>2, <3>3 DEF RowsNamed, Named, AddCredits, CommitUsage, Exists
  <2> QED
    BY <2>1, <2>2
<1>3. ASSUME NEW u, NEW a, Named(u, a), accounts' = [accounts EXCEPT ![u] = a]
      PROVE  RowsNamed'
  BY <1>1, <1>3 DEF RowsNamed, Named
<1>4. \A u : Named(u, None)
  BY DEF Named
<1> QED
  BY <1>2, <1>3, <1>4 DEF RowsNamed, Named, PutAccount, DeleteAccount

\* Where a request may go on to, and with which copy.
LEMMA GoingNamed ==
  ASSUME Inv, NEW r \in Request, proc[r].pc # "new", RowsNamed'
  PROVE  /\ \A pc, a : Elsewhere(pc, proc[r].call) /\ Named(proc[r].call.user, a) =>
              /\ Keep(r, a, pc) => Naming(r)
              /\ \A n : KeepAndCompute(r, a, n, pc) => Naming(r)
         /\ \A pc : Elsewhere(pc, proc[r].call) /\ Named(proc[r].call.user, proc[r].copy) =>
              /\ Goto(r, pc) => Naming(r)
              /\ \A n : Compute(r, n, pc) => Naming(r)
              /\ \A x : AnswerAndGoto(r, x, pc) => Naming(r)
         /\ \A x : Answer(r, x) => Naming(r)
         /\ \A a : Keep(r, a, "referral.add") /\ proc[r].call.op = "referral_grant"
                  /\ accounts'[proc[r].call.other] # None => Naming(r)
         /\ Goto(r, "subscription.add") /\ proc[r].call.op = "stripe_webhook"
              /\ Named(proc[r].call.user, proc[r].copy)
              /\ accounts'[proc[r].copy.referred_by] # None => Naming(r)
<1>1. ProcInv
  BY DEF Inv
<1>2. ASSUME NEW pc, NEW a, NEW n, NEW x, Becomes(r, pc, a, n, x), Routed(pc, proc[r].call),
             pc = "referral.add" \/ Named(proc[r].call.user, a),
             /\ pc = "referral.add" => accounts'[proc[r].call.other] # None
             /\ pc = "subscription.add" => accounts'[a.referred_by] # None
      PROVE  Naming(r)
  <2>1. proc'[r].pc = pc /\ proc'[r].call = proc[r].call /\ proc'[r].copy = a
    BY <1>2 DEF Becomes
  <2>2. pc # "new"
    BY <1>2 DEF Routed
  <2>3. Invoked(proc'[r])
    BY <1>2, <2>1, <2>2 DEF Invoked
  <2>4. Payable(proc[r])'
    BY <1>2, <2>1 DEF Payable, AddPcs, InviterAt, ReferralRoute, Exists
  <2> QED
    BY <1>2, <2>3, <2>4 DEF Becomes, Naming
<1>3. /\ Elsewhere("done", proc[r].call) /\ Named(proc[r].call.user, None)
      /\ proc[r].call.op = "referral_grant" => Routed("referral.add", proc[r].call)
      /\ proc[r].call.op = "stripe_webhook" => Routed("subscription.add", proc[r].call)
  BY DEF Elsewhere, Routed, Named, ReferralRoute, StripeRoute, ReferralPcs
<1>4. \A pc, a, n, x : Becomes(r, pc, a, n, x) /\ Elsewhere(pc, proc[r].call)
                       /\ Named(proc[r].call.user, a) => Naming(r)
  BY <1>2 DEF Elsewhere
<1>5. \A a : Keep(r, a, "referral.add") /\ proc[r].call.op = "referral_grant"
            /\ accounts'[proc[r].call.other] # None => Naming(r)
  BY <1>1, <1>2, <1>3, Locals
<1>6. Goto(r, "subscription.add") /\ proc[r].call.op = "stripe_webhook"
        /\ Named(proc[r].call.user, proc[r].copy)
        /\ accounts'[proc[r].copy.referred_by] # None => Naming(r)
  BY <1>1, <1>2, <1>3, Locals
<1> QED
  BY <1>1, <1>3, <1>4, <1>5, <1>6, Locals

LEMMA HelpersNamed ==
  ASSUME Inv, RowsNamed, NEW r \in Request, proc[r].pc # "new",
         Named(proc[r].call.user, proc[r].copy)
  PROVE  /\ \A pc : Elsewhere(pc, proc[r].call) =>
              /\ GetOrNotFound(r, proc[r].call.user, pc) => Naming(r)
              /\ \A create : Elsewhere(create, proc[r].call)
                             /\ GetOrElse(r, proc[r].call.user, create, pc) => Naming(r)
              /\ \A u : Create(r, u, pc) => Naming(r)
              /\ Reread(r, proc[r].call.user, pc) => Naming(r)
              /\ \A u, n, type : Credit(r, u, n, type, pc) => Naming(r)
              /\ accounts' = accounts /\ Goto(r, pc) => Naming(r)
              /\ accounts' = accounts /\ Keep(r, accounts[proc[r].call.user], pc) => Naming(r)
              /\ \A a : Named(proc[r].call.user, a) /\ PutAccount(proc[r].call.user, a)
                        /\ Goto(r, pc) => Naming(r)
         /\ \A u, n, type : CreditLast(r, u, n, type) => Naming(r)
         /\ \A x : accounts' = accounts /\ Answer(r, x) => Naming(r)
         /\ \A a, x : Named(proc[r].call.user, a) /\ PutAccount(proc[r].call.user, a)
                      /\ Answer(r, x) => Naming(r)
<1>1. /\ accounts' = accounts => RowsNamed'
      /\ \A u, a : Named(u, a) /\ PutAccount(u, a) => RowsNamed'
      /\ \A u, n, type, ref : AddCredits(u, n, type, ref) => RowsNamed'
  BY RowsStayNamed
<1>2. /\ Named(proc[r].call.user, accounts[proc[r].call.user])
      /\ \A u : Named(u, NewAccount)
  BY Stepping DEF RowsNamed, Named, InvitersOf, NewAccount
<1>3. storeVars' = storeVars => accounts' = accounts
  BY DEF storeVars
<1>4. ASSUME NEW pc, Elsewhere(pc, proc[r].call)
      PROVE  /\ accounts' = accounts /\ Goto(r, pc) => Naming(r)
             /\ accounts' = accounts /\ Keep(r, accounts[proc[r].call.user], pc) => Naming(r)
             /\ accounts' = accounts /\ Keep(r, proc[r].copy, pc) => Naming(r)
             /\ \A u : PutAccount(u, NewAccount) /\ Keep(r, NewAccount, pc) => Naming(r)
             /\ \A a : Named(proc[r].call.user, a) /\ PutAccount(proc[r].call.user, a)
                       /\ Goto(r, pc) => Naming(r)
             /\ \A u, n, type, ref : AddCredits(u, n, type, ref) /\ Goto(r, pc) => Naming(r)
  BY <1>1, <1>2, <1>4, GoingNamed
<1>5. /\ \A x : accounts' = accounts /\ Answer(r, x) => Naming(r)
      /\ \A a, x : Named(proc[r].call.user, a) /\ PutAccount(proc[r].call.user, a)
                   /\ Answer(r, x) => Naming(r)
      /\ \A u, n, type, ref, x : AddCredits(u, n, type, ref) /\ Answer(r, x) => Naming(r)
  BY <1>1, GoingNamed
<1>6. ASSUME NEW pc, Elsewhere(pc, proc[r].call)
      PROVE  /\ GetOrNotFound(r, proc[r].call.user, pc) => Naming(r)
             /\ \A create : Elsewhere(create, proc[r].call)
                            /\ GetOrElse(r, proc[r].call.user, create, pc) => Naming(r)
             /\ \A u : Create(r, u, pc) => Naming(r)
             /\ Reread(r, proc[r].call.user, pc) => Naming(r)
             /\ \A u, n, type : Credit(r, u, n, type, pc) => Naming(r)
  BY <1>3, <1>4, <1>5, <1>6 DEF GetOrNotFound, GetOrElse, Create, Reread, Credit, NoAccount, Copy
<1>7. \A u, n, type : CreditLast(r, u, n, type) => Naming(r)
  BY <1>3, <1>5 DEF CreditLast, NoAccount
<1> QED
  BY <1>4, <1>5, <1>6, <1>7

\* What handlers change in a copy; a signup alone names an inviter.
LEMMA EditsKeepInviter ==
  ASSUME NEW u, NEW a \in Sound, Named(u, a)
  PROVE  /\ \A x, y : /\ Named(u, [a EXCEPT !.subscription = x])
                      /\ Named(u, [a EXCEPT !.subscription = x, !.stripe_customer = y])
                      /\ Named(u, [a EXCEPT !.auto_refill = x])
                      /\ Named(u, [a EXCEPT !.stripe_customer = x])
                      /\ Named(u, [a EXCEPT !.last_monthly = x])
                      /\ Named(u, [a EXCEPT !.last_daily = x])
         /\ \A x : \A v \in InvitersOf(u) :
              Named(u, [a EXCEPT !.signup_grant = x, !.referred_by = v])
BY NoneAssumption DEF Named, Sound, Account

\* No handler puts an inviter into a row or a copy but the user's own.
LEMMA CreditsNamed ==
  ASSUME Inv, AllSent, NamesKept, NEW r \in Request, Credits(r)
  PROVE  Naming(r)
<1> USE DEF At, Arg, Copy
<1>1. /\ proc[r].pc # "new" /\ RowsNamed /\ Invoked(proc[r]) /\ proc[r].call.user \in User
      /\ proc[r].call \in Calls
  <2>1. proc[r].pc # "new"
    BY HandlerRuns DEF Handler
  <2> QED
    BY <2>1, Stepping DEF NamesKept, AllSent
<1>2. /\ proc[r].pc # "referral.add" => Named(proc[r].call.user, proc[r].copy)
      /\ proc[r].pc \in CopyPcs => proc[r].copy \in Sound
  BY <1>1, Stepping DEF Invoked
<1>3. /\ Routed(proc[r].pc, proc[r].call)
      /\ \A pc \in {"monthly", "monthly.add", "monthly.reread", "monthly.mark", "monthly.refresh",
                    "daily", "daily.reread", "daily.mark", "signup.create", "signup.add",
                    "signup.reread", "signup.mark", "admin.add", "configure.put",
                    "purchase.session"} : Elsewhere(pc, proc[r].call)
  BY <1>1 DEF Invoked, Elsewhere, Routed, ReferralRoute, StripeRoute, ReferralPcs
<1>4. CASE GetBalance(r) \/ DailyGrantHandler(r)
  BY <1>1, <1>2, <1>3, <1>4, HelpersNamed DEF GetBalance, DailyGrantHandler
<1>5. CASE TryMonthlyAllowance(r)
  <2> DEFINE a == [proc[r].copy EXCEPT !.last_monthly = proc[r].kept]
  <2>1. MonthlyMark(r) => Named(proc[r].call.user, a)
    BY <1>2, EditsKeepInviter DEF MonthlyMark, CopyPcs
  <2>2. CASE MonthlyMark(r)
    <3>1. PutAccount(proc[r].call.user, a) /\ Goto(r, "monthly.refresh") /\ proc[r].pc = "monthly.mark"
      BY <2>2 DEF MonthlyMark
    <3> HIDE DEF a
    <3> QED
      BY <1>1, <1>2, <1>3, <2>1, <2>2, <3>1, HelpersNamed
  <2>3. CASE MonthlyCheck(r)
    <3>1. proc[r].pc = "monthly" /\ RowsNamed'
      BY <1>1, <2>3, RowsStayNamed DEF MonthlyCheck, storeVars
    <3> QED
      BY <1>1, <1>2, <1>3, <2>3, <3>1, GoingNamed DEF MonthlyCheck
  <2> QED
    BY <1>1, <1>2, <1>3, <1>5, <2>2, <2>3, HelpersNamed
    DEF TryMonthlyAllowance, MonthlyAdd, MonthlyReread, MonthlyRefresh
<1>6. CASE TryDailyGrant(r)
  <2> DEFINE a == [proc[r].copy EXCEPT !.last_daily = today]
  <2>1. DailyMark(r) => Named(proc[r].call.user, a)
    BY <1>2, EditsKeepInviter DEF DailyMark, CopyPcs
  <2>2. CASE DailyMark(r)
    <3>1. PutAccount(proc[r].call.user, a) /\ Answer(r, "granted") /\ proc[r].pc = "daily.mark"
      BY <2>2 DEF DailyMark
    <3> HIDE DEF a
    <3> QED
      BY <1>1, <1>2, <1>3, <2>1, <2>2, <3>1, HelpersNamed
  <2> QED
    BY <1>1, <1>2, <1>3, <1>6, <2>2, HelpersNamed DEF TryDailyGrant, DailyAdd, DailyReread, storeVars
<1>7. CASE Signup(r)
  <2> DEFINE a == [proc[r].copy EXCEPT !.signup_grant = today, !.referred_by = proc[r].call.other]
  <2>1. SignupMark(r) => Named(proc[r].call.user, a)
    <3>1. proc[r].call.other \in InvitersOf(proc[r].call.user)
      BY <1>1 DEF InvitersOf
    <3> QED
      BY <1>2, <3>1, EditsKeepInviter DEF SignupMark, CopyPcs
  <2>2. CASE SignupMark(r)
    <3>1. PutAccount(proc[r].call.user, a) /\ Answer(r, "granted") /\ proc[r].pc = "signup.mark"
      BY <2>2 DEF SignupMark
    <3> HIDE DEF a
    <3> QED
      BY <1>1, <1>2, <1>3, <2>1, <2>2, <3>1, HelpersNamed
  <2> QED
    BY <1>1, <1>2, <1>3, <1>7, <2>2, HelpersNamed
    DEF Signup, SignupGet, SignupCreate, SignupAdd, SignupReread, storeVars
<1>8. CASE Referral(r)
  <2>1. proc[r].pc \in ReferralRoute
    BY <1>8 DEF Referral, ReferralGet, ReferralCreate, ReferralCheck, ReferralInvitee,
       ReferralInviterGet, ReferralInviterCreate, ReferralInviter, ReferralRoute
  <2>2. /\ \A pc \in ReferralRoute \ {"referral.add"} : Elsewhere(pc, proc[r].call)
        /\ proc[r].call.op = "referral_grant" /\ proc[r].call.other \in User
    BY <1>1, <1>3, <2>1, Stepping
    DEF Elsewhere, Routed, ReferralRoute, StripeRoute, ReferralPcs, HoldsCall
  <2>3. CASE ReferralInviterGet(r)
    <3>1. proc[r].pc = "referral.inviter" /\ RowsNamed' /\ accounts' = accounts
      BY <1>1, <2>3, RowsStayNamed DEF ReferralInviterGet, GetOrElse, storeVars
    <3> QED
      BY <1>1, <1>2, <2>2, <2>3, <3>1, GoingNamed
      DEF ReferralInviterGet, GetOrElse, ReferralRoute, Exists
  <2>4. CASE ReferralInviter(r)
    <3>1. /\ RowsNamed'
          /\ Answer(r, "granted") \/ Answer(r, "not_found")
      BY <1>1, <2>4, RowsStayNamed DEF ReferralInviter, CreditLast, NoAccount, storeVars
    <3> QED
      BY <1>1, <3>1, GoingNamed
  <2>5. CASE ReferralGet(r) \/ ReferralCreate(r)
    BY <1>1, <1>2, <2>2, <2>5, HelpersNamed
    DEF ReferralGet, ReferralCreate, storeVars, ReferralRoute
  <2>6. CASE ReferralCheck(r) \/ ReferralInvitee(r)
    BY <1>1, <1>2, <2>2, <2>6, HelpersNamed
    DEF ReferralCheck, ReferralInvitee, storeVars, ReferralRoute
  <2>7. CASE ReferralInviterCreate(r)
    <3>1. RowsNamed' /\ accounts'[proc[r].call.other] # None
      BY <1>1, <2>2, <2>7, RowsStayNamed, NewAccountSound, NewAccountNamed, NoneAssumption
      DEF ReferralInviterCreate, Create, PutAccount, Inv, StoreType, Sound
    <3> QED
      BY <1>1, <2>2, <2>7, <3>1, GoingNamed DEF ReferralInviterCreate, Create
  <2> QED
    BY <1>8, <2>3, <2>4, <2>5, <2>6, <2>7 DEF Referral
<1>9. CASE AdminAddCredits(r) \/ PurchaseCredits(r) \/ ConfigureGet(r)
  BY <1>1, <1>2, <1>3, <1>9, HelpersNamed DEF AdminAddCredits, AdminGet, AdminAdd, ConfigureGet,
     PurchaseCredits, PurchaseAsk, PurchaseSession, storeVars
<1>10. CASE ConfigurePut(r)
  <2> DEFINE a == [proc[r].copy EXCEPT !.auto_refill = proc[r].call.auto_refill]
  <2>1. Named(proc[r].call.user, a) /\ proc[r].pc = "configure.put"
    BY <1>2, <1>10, EditsKeepInviter DEF ConfigurePut, CopyPcs
  <2>2. \/ accounts' = accounts /\ Answer(r, "bad_request")
        \/ PutAccount(proc[r].call.user, a) /\ Answer(r, "ok")
    BY <1>10 DEF ConfigurePut, storeVars
  <2> HIDE DEF a
  <2> QED
    BY <1>1, <1>2, <2>1, <2>2, HelpersNamed
<1> QED
  BY <1>4, <1>5, <1>6, <1>7, <1>8, <1>9, <1>10 DEF Credits, ConfigureAutoRefill

LEMMA UsageNamed ==
  ASSUME Inv, NamesKept, NEW r \in Request, Usage(r)
  PROVE  Naming(r)
<1> USE DEF At, Arg, Copy
<1>1. /\ proc[r].pc # "new" /\ RowsNamed /\ Invoked(proc[r]) /\ proc[r].call.user \in User
      /\ proc[r].pc # "referral.add"
  <2>1. proc[r].pc \notin {"new", "referral.add"}
    BY DEF Usage, ReportUsage, ReportGet, ReportCreate, BatchGet, UsageExists, UsageCommit,
       Refill, RefillPay, RefillGet, RefillAdd, CheckBalance, CheckGet, CheckCreate
  <2> QED
    BY <2>1, Stepping DEF NamesKept
<1>2. Named(proc[r].call.user, proc[r].copy)
  BY <1>1 DEF Invoked
<1>3. \A pc \in {"report.create", "usage.exists", "usage.commit", "refill.pay", "refill.get",
                 "refill.add", "check.create", "monthly"} : Elsewhere(pc, proc[r].call)
  BY DEF Elsewhere, Routed, ReferralRoute, StripeRoute, ReferralPcs
<1>4. CASE ReportGet(r) \/ ReportCreate(r) \/ BatchGet(r) \/ CheckBalance(r)
  BY <1>1, <1>2, <1>3, <1>4, HelpersNamed DEF ReportGet, ReportCreate, BatchGet, CheckBalance,
     CheckGet, CheckCreate
<1>5. CASE UsageExists(r) \/ RefillGet(r)
  BY <1>1, <1>2, <1>3, <1>5, HelpersNamed DEF UsageExists, RefillGet, storeVars
<1>6. CASE UsageCommit(r) \/ RefillPay(r) \/ RefillAdd(r)
  <2>1. RowsNamed'
    BY <1>1, <1>6, RowsStayNamed DEF UsageCommit, UsageCharged, UsageRolledBack, RefillPay,
       RefillAdd, storeVars
  <2> QED
    BY <1>1, <1>2, <1>3, <1>6, <2>1, GoingNamed
    DEF UsageCommit, UsageCharged, UsageRolledBack, RefillPay, RefillAdd
<1> QED
  BY <1>4, <1>5, <1>6 DEF Usage, ReportUsage, Refill

LEMMA AccountsNamed ==
  ASSUME Inv, NamesKept, NEW r \in Request, Accounts(r) \/ Subscribe(r)
  PROVE  Naming(r)
<1> USE DEF At, Arg, Copy
<1>1. /\ proc[r].pc # "new" /\ RowsNamed /\ Invoked(proc[r]) /\ proc[r].call.user \in User
      /\ proc[r].pc # "referral.add"
  <2>1. proc[r].pc \notin {"new", "referral.add"}
    BY DEF Accounts, CreateAccount, CreateGet, CreateCustomer, CreatePut, GetAccount,
       GetAccountGet, GetAccountCreate, DeleteAccountHandler, Subscribe, ZeroPro,
       SubscribeGet, SubscribeCustomer, SubscribePut, SubscribePay, CheckoutAsk, PortalAsk,
       CancelAsk, StripeCall
  <2> QED
    BY <2>1, Stepping DEF NamesKept
<1>2. /\ Named(proc[r].call.user, proc[r].copy)
      /\ Named(proc[r].call.user, NewAccount)
      /\ \A x : Named(proc[r].call.user, [NewAccount EXCEPT !.stripe_customer = x])
      /\ Named(proc[r].call.user, accounts[proc[r].call.user])
      /\ proc[r].pc \in CopyPcs => proc[r].copy \in Sound
  BY <1>1, Stepping DEF Invoked, Named, NewAccount, InvitersOf, RowsNamed
<1>3. \A pc \in {"create.customer", "create.put", "get_account.create", "subscribe.customer",
                 "subscribe.put", "subscribe.pay", "checkout.session", "portal.session",
                 "cancel.end"} : Elsewhere(pc, proc[r].call)
  BY DEF Elsewhere, Routed, ReferralRoute, StripeRoute, ReferralPcs
<1>4. CASE CreateAccount(r) \/ GetAccount(r)
  <2>1. CASE CreateGet(r) \/ GetAccount(r)
    BY <1>1, <1>2, <1>3, <2>1, HelpersNamed DEF CreateGet, GetAccount, GetAccountGet,
       GetAccountCreate, storeVars
  <2>2. CASE CreateCustomer(r)
    <3>1. RowsNamed'
      BY <1>1, <2>2, RowsStayNamed DEF CreateCustomer, storeVars
    <3> QED
      BY <1>1, <1>2, <1>3, <2>2, <3>1, GoingNamed DEF CreateCustomer
  <2>3. CASE CreatePut(r)
    BY <1>1, <1>2, <2>3, HelpersNamed DEF CreatePut
  <2> QED
    BY <1>4, <2>1, <2>2, <2>3 DEF CreateAccount
<1>5. CASE DeleteAccountHandler(r)
  <2>1. RowsNamed'
    BY <1>1, <1>5, RowsStayNamed DEF DeleteAccountHandler, NoAccount, storeVars
  <2> QED
    BY <1>1, <1>5, <2>1, GoingNamed DEF DeleteAccountHandler, NoAccount
<1>6. CASE SubscribePut(r)
  <2> DEFINE a == [proc[r].copy EXCEPT !.stripe_customer = TRUE]
  <2>1. Named(proc[r].call.user, a)
    BY <1>2, <1>6, EditsKeepInviter DEF SubscribePut, CopyPcs
  <2>2. PutAccount(proc[r].call.user, a) /\ Goto(r, "subscribe.pay")
    BY <1>6 DEF SubscribePut
  <2> HIDE DEF a
  <2> QED
    BY <1>1, <1>2, <1>3, <2>1, <2>2, HelpersNamed
<1>7. CASE SubscribeGet(r)
  <2>1. RowsNamed'
    BY <1>1, <1>7, RowsStayNamed DEF SubscribeGet, storeVars
  <2> QED
    BY <1>1, <1>2, <1>3, <1>7, <2>1, GoingNamed DEF SubscribeGet
<1>8. CASE SubscribeCustomer(r) \/ SubscribePay(r) \/ CheckoutAsk(r) \/ PortalAsk(r)
           \/ CancelAsk(r) \/ StripeCall(r)
  BY <1>1, <1>2, <1>3, <1>8, HelpersNamed DEF SubscribeCustomer, SubscribePay, CheckoutAsk,
     PortalAsk, CancelAsk, StripeCall, storeVars
<1> QED
  BY <1>4, <1>5, <1>6, <1>7, <1>8 DEF Accounts, Subscribe, ZeroPro

LEMMA WebhooksNamed ==
  ASSUME Inv, NamesKept, NEW r \in Request, Webhooks(r)
  PROVE  Naming(r)
<1> USE DEF At, Arg, Copy
<1>1. /\ proc[r].pc # "new" /\ RowsNamed /\ Invoked(proc[r]) /\ proc[r].call.user \in User
      /\ proc[r].pc # "referral.add"
  <2>1. proc[r].pc # "new"
    BY HandlerRuns DEF Handler
  <2>2. proc[r].pc # "referral.add"
    BY DEF Webhooks, StripeReceive, LagoReceive, Resolve, RecordEvent,
       Checkout, CheckoutGet, CheckoutCreate, CheckoutPut, PurchaseGet, PurchaseAdd,
       SubscriptionUpdate, SubscriptionGet, SubscriptionCreate, SubscriptionPut,
       SubscriptionReferral, SubscriptionInvitee, SubscriptionInviterGet,
       SubscriptionInviterCreate, SubscriptionInviter, SubscriptionDeleted, DeletedGet,
       DeletedPut, PaymentFailed, FailedGet, FailedPut, InvoicePaid, InvoiceGet,
       InvoiceProrate, InvoiceAdd, InvoiceReread, InvoiceMark, LagoSubscriptionStarted,
       LagoGet, LagoCreate, LagoAdd
  <2> QED
    BY <2>1, <2>2, Stepping DEF NamesKept
<1>2. /\ Named(proc[r].call.user, proc[r].copy)
      /\ Named(proc[r].call.user, accounts[proc[r].call.user])
      /\ proc[r].pc \in CopyPcs => proc[r].copy \in Sound
      /\ Routed(proc[r].pc, proc[r].call)
      /\ HoldsCall(proc[r].pc, proc[r].call)
  BY <1>1, Stepping DEF Invoked, RowsNamed
<1>3. \A pc \in {"checkout.create", "checkout.put", "purchase.add", "deleted.put", "failed.put",
                 "invoice.prorate", "invoice.add", "invoice.reread", "invoice.mark",
                 "lago.create", "lago.add", "record", "lago.started"} : Elsewhere(pc, proc[r].call)
  BY DEF Elsewhere, Routed, ReferralRoute, StripeRoute, ReferralPcs
<1>4. CASE StripeReceive(r) \/ Resolve(r)
  <2>1. \A pc \in StripeEvents \cup {"resolve"} : Elsewhere(pc, proc[r].call)
    BY <1>2, <1>4 DEF StripeReceive, Resolve, Elsewhere, Routed, StripeEvents, ReferralRoute, StripeRoute,
       ReferralPcs
  <2>2. proc[r].call.event \in StripeEvents
    BY <1>2, <1>4 DEF StripeReceive, Resolve, HoldsCall
  <2> QED
    BY <1>1, <1>2, <1>3, <1>4, <2>1, <2>2, HelpersNamed DEF StripeReceive, Resolve, Done, storeVars
<1>5. CASE LagoReceive(r) \/ RecordEvent(r) \/ LagoSubscriptionStarted(r)
  BY <1>1, <1>2, <1>3, <1>5, HelpersNamed DEF LagoReceive, RecordEvent, RecordWebhookEvent,
     LagoSubscriptionStarted, LagoGet, LagoCreate, LagoAdd, Done, storeVars
<1>6. CASE Checkout(r)
  <2>1. CASE CheckoutPut(r)
    <3> DEFINE a == [proc[r].copy EXCEPT !.stripe_customer = TRUE]
    <3>1. Named(proc[r].call.user, a)
      BY <1>2, <2>1, EditsKeepInviter DEF CheckoutPut, CopyPcs
    <3>2. PutAccount(proc[r].call.user, a) /\ Goto(r, "record")
      BY <2>1 DEF CheckoutPut, Done
    <3> HIDE DEF a
    <3> QED
      BY <1>1, <1>2, <1>3, <3>1, <3>2, HelpersNamed
  <2> QED
    BY <1>1, <1>2, <1>3, <1>6, <2>1, HelpersNamed
    DEF Checkout, CheckoutGet, CheckoutCreate, PurchaseGet, PurchaseAdd, Done, storeVars
<1>7. CASE SubscriptionUpdate(r)
  <2>1. proc[r].pc \in StripeRoute
    BY <1>7 DEF SubscriptionUpdate, SubscriptionGet, SubscriptionCreate, SubscriptionPut,
       SubscriptionReferral, SubscriptionInvitee, SubscriptionInviterGet,
       SubscriptionInviterCreate, SubscriptionInviter, StripeRoute, ReferralPcs
  <2>2. /\ \A pc \in StripeRoute \ {"subscription.add"} : Elsewhere(pc, proc[r].call)
        /\ proc[r].call.op = "stripe_webhook"
    BY <1>2, <2>1 DEF Elsewhere, Routed, ReferralRoute, StripeRoute, ReferralPcs
  <2>3. CASE SubscriptionPut(r)
    <3> DEFINE sub == [proc[r].call.subscription EXCEPT !.status = MappedStatus(proc[r].call.reason)]
               a == [proc[r].copy EXCEPT !.subscription = sub, !.stripe_customer = TRUE]
    <3>1. /\ PutAccount(proc[r].call.user, a) /\ proc[r].pc = "subscription.put"
          /\ Goto(r, "record") \/ Keep(r, a, "subscription.referral")
      BY <2>3 DEF SubscriptionPut, Done
    <3>2. Named(proc[r].call.user, a)
      BY <1>2, <3>1, EditsKeepInviter DEF CopyPcs
    <3> HIDE DEF a
    <3>3. RowsNamed'
      BY <1>1, <3>1, <3>2, RowsStayNamed
    <3> QED
      BY <1>1, <1>2, <1>3, <2>2, <3>1, <3>2, <3>3, GoingNamed DEF StripeRoute, ReferralPcs
  <2>4. CASE SubscriptionInviterCreate(r)
    <3>1. proc[r].copy.referred_by \in User
      BY <1>1, <2>4, Stepping DEF SubscriptionInviterCreate, HoldsCopy, ReferralPcs
    <3>2. RowsNamed' /\ accounts'[proc[r].copy.referred_by] # None
      BY <1>1, <2>4, <3>1, RowsStayNamed, NewAccountSound, NewAccountNamed, NoneAssumption
      DEF SubscriptionInviterCreate, PutAccount, Inv, StoreType, Sound
    <3> QED
      BY <1>1, <1>2, <2>2, <2>4, <3>2, GoingNamed DEF SubscriptionInviterCreate
  <2>5. CASE SubscriptionInviterGet(r)
    <3>1. RowsNamed' /\ accounts' = accounts
      BY <1>1, <2>5, RowsStayNamed DEF SubscriptionInviterGet, storeVars
    <3> QED
      BY <1>1, <1>2, <2>2, <2>5, <3>1, GoingNamed
      DEF SubscriptionInviterGet, StripeRoute, ReferralPcs, Exists
  <2> QED
    BY <1>1, <1>2, <1>3, <1>7, <2>2, <2>3, <2>4, <2>5, HelpersNamed
    DEF SubscriptionUpdate, SubscriptionGet, SubscriptionCreate, SubscriptionReferral,
       SubscriptionInvitee, SubscriptionInviter, Done, storeVars,
       StripeRoute, ReferralPcs
<1>8. CASE SubscriptionDeleted(r)
  <2>1. CASE DeletedPut(r)
    <3> DEFINE a == [proc[r].copy EXCEPT !.subscription = None]
    <3>1. Named(proc[r].call.user, a)
      BY <1>2, <2>1, EditsKeepInviter DEF DeletedPut, CopyPcs
    <3>2. PutAccount(proc[r].call.user, a) /\ Goto(r, "record")
      BY <2>1 DEF DeletedPut, Done
    <3> HIDE DEF a
    <3> QED
      BY <1>1, <1>2, <1>3, <3>1, <3>2, HelpersNamed
  <2> QED
    BY <1>1, <1>2, <1>3, <1>8, <2>1, HelpersNamed DEF SubscriptionDeleted, DeletedGet, Done, storeVars
<1>9. CASE PaymentFailed(r)
  <2>1. CASE FailedPut(r)
    <3> DEFINE sub == [proc[r].copy.subscription EXCEPT !.status = "past_due"]
               a == [proc[r].copy EXCEPT !.subscription = sub]
    <3>1. PutAccount(proc[r].call.user, a) /\ Goto(r, "record") /\ proc[r].pc = "failed.put"
      BY <2>1 DEF FailedPut, Done
    <3>2. Named(proc[r].call.user, a)
      BY <1>2, <3>1, EditsKeepInviter DEF CopyPcs
    <3> HIDE DEF a
    <3> QED
      BY <1>1, <1>2, <1>3, <3>1, <3>2, HelpersNamed
  <2> QED
    BY <1>1, <1>2, <1>3, <1>9, <2>1, HelpersNamed DEF PaymentFailed, FailedGet, Done, storeVars
<1>10. CASE InvoicePaid(r)
  <2>1. CASE InvoiceMark(r)
    <3> DEFINE a == [proc[r].copy EXCEPT !.last_monthly = today]
    <3>1. Named(proc[r].call.user, a)
      BY <1>2, <2>1, EditsKeepInviter DEF InvoiceMark, CopyPcs
    <3>2. PutAccount(proc[r].call.user, a) /\ Goto(r, "record")
      BY <2>1 DEF InvoiceMark, Done
    <3> HIDE DEF a
    <3> QED
      BY <1>1, <1>2, <1>3, <3>1, <3>2, HelpersNamed
  <2>2. CASE InvoiceGet(r) \/ InvoiceProrate(r)
    <3>1. RowsNamed'
      BY <1>1, <2>2, RowsStayNamed DEF InvoiceGet, InvoiceProrate, storeVars
    <3> QED
      BY <1>1, <1>2, <1>3, <2>2, <3>1, GoingNamed DEF InvoiceGet, InvoiceProrate, Done
  <2>3. CASE InvoiceAdd(r) \/ InvoiceReread(r)
    BY <1>1, <1>2, <1>3, <2>3, HelpersNamed DEF InvoiceAdd, InvoiceReread, Done, storeVars
  <2> QED
    BY <1>10, <2>1, <2>2, <2>3 DEF InvoicePaid
<1> QED
  BY <1>4, <1>5, <1>6, <1>7, <1>8, <1>9, <1>10 DEF Webhooks

\* So does no step.
LEMMA NamesStep ==
  ASSUME Inv, AllSent, NamesKept, [Next]_vars
  PROVE  NamesKept'
<1>1. ASSUME NEW r \in Request, Naming(r) PROVE NamesKept'
  BY <1>1 DEF Naming, NamesKept, Invoked
<1>2. ASSUME NEW r \in Request, Handler(r) PROVE NamesKept'
  BY <1>1, <1>2, CreditsNamed, UsageNamed, AccountsNamed, WebhooksNamed DEF Handler
<1>3. ASSUME accounts' = accounts PROVE RowsNamed'
  BY <1>3 DEF NamesKept, RowsNamed, Named
<1>4. ASSUME NEW r \in Request, Send(r) PROVE NamesKept'
  <2>1. PICK c \in Calls : proc' = [proc EXCEPT ![r].pc = c.op, ![r].call = c]
    BY <1>4 DEF Send
  <2>2. /\ proc'[r].pc = c.op /\ proc'[r].call = c /\ proc'[r].copy = proc[r].copy
        /\ \A s \in Request \ {r} : proc'[s] = proc[s]
    BY <2>1 DEF Inv, ProcInv, Proc, ProcAt
  <2>3. proc[r].copy = None
    BY <1>4 DEF Send, At, NamesKept, Invoked
  <2>4. c.op \in Routes
    BY CallsAssumption DEF WellFormed
  <2>5. Routed(c.op, c)
    BY <2>4 DEF Routes, Elsewhere, Routed, ReferralRoute, StripeRoute, ReferralPcs
  <2> QED
    BY <1>3, <1>4, <2>2, <2>3, <2>5 DEF Send, storeVars, NamesKept, Invoked, Named
<1>5. ASSUME NEW r \in Request, Abandon(r) PROVE NamesKept'
  <2>1. RowsNamed' /\ proc[r].pc # "new" /\ \E x : Answer(r, x)
    BY <1>3, <1>5 DEF Abandon, storeVars
  <2> QED
    BY <1>1, <2>1, GoingNamed
<1>6. ASSUME proc' = proc, accounts' = accounts PROVE NamesKept'
  BY <1>3, <1>6 DEF NamesKept, Invoked
<1> QED
  BY <1>2, <1>4, <1>5, <1>6 DEF Next, Tick, Terminating, vars, storeVars

LEMMA InitNamed == Init => NamesKept
  BY DEF Init, NotSent, NamesKept, RowsNamed, Invoked, Named, InvitersOf

-----------------------------------------------------------------------------
(* The bonus of who invited.                                               *)

\* The steps from the bonus of an invitee to that of the inviter.
PayPcs == AddPcs \cup {"referral.inviter", "referral.create_inviter",
                       "subscription.inviter", "subscription.create_inviter"}

PayOps == {"referral_grant", "stripe_webhook"}

\* Whoever is about to be paid has an account to be paid to.
AllPayable == \A r \in Request : Payable(proc[r])

LEMMA HandlerNamed ==
  ASSUME Inv, AllSent, NamesKept, NEW r \in Request, Handler(r)
  PROVE  Naming(r)
BY CreditsNamed, UsageNamed, AccountsNamed, WebhooksNamed DEF Handler

\* No other handler steps from the reward of an invitee to that of the inviter.
LEMMA RewardSteps ==
  ASSUME NEW r \in Request, Handler(r), proc[r].pc \in RewardPcs \cup PayPcs
  PROVE  \/ ReferralInvitee(r) \/ ReferralInviterGet(r) \/ ReferralInviterCreate(r)
         \/ ReferralInviter(r) \/ SubscriptionInvitee(r) \/ SubscriptionInviterGet(r)
         \/ SubscriptionInviterCreate(r) \/ SubscriptionInviter(r)
<1> USE DEF At, RewardPcs, PayPcs, AddPcs
<1>1. Credits(r) => \/ ReferralInvitee(r) \/ ReferralInviterGet(r) \/ ReferralInviterCreate(r)
                    \/ ReferralInviter(r)
  BY DEF Credits, GetBalance, DailyGrantHandler, TryMonthlyAllowance, MonthlyCheck,
     MonthlyAdd, MonthlyReread, MonthlyMark, MonthlyRefresh, TryDailyGrant, DailyAdd,
     DailyReread, DailyMark, Signup, SignupGet, SignupCreate, SignupAdd, SignupReread,
     SignupMark, Referral, ReferralGet, ReferralCreate, ReferralCheck, AdminAddCredits,
     AdminGet, AdminAdd, ConfigureAutoRefill, ConfigureGet, ConfigurePut, PurchaseCredits,
     PurchaseAsk, PurchaseSession
<1>2. ~Usage(r)
  BY DEF Usage, ReportUsage, ReportGet, ReportCreate, BatchGet, UsageExists, UsageCommit,
     Refill, RefillPay, RefillGet, RefillAdd, CheckBalance, CheckGet, CheckCreate
<1>3. ~Accounts(r) /\ ~Subscribe(r)
  BY DEF Accounts, CreateAccount, CreateGet, CreateCustomer, CreatePut, GetAccount,
     GetAccountGet, GetAccountCreate, DeleteAccountHandler, Subscribe, ZeroPro,
     SubscribeGet, SubscribeCustomer, SubscribePut, SubscribePay, CheckoutAsk, PortalAsk,
     CancelAsk, StripeCall
<1>4. Webhooks(r) => \/ SubscriptionInvitee(r) \/ SubscriptionInviterGet(r)
                     \/ SubscriptionInviterCreate(r) \/ SubscriptionInviter(r)
  BY DEF Webhooks, StripeReceive, LagoReceive, Resolve, RecordEvent, Checkout, CheckoutGet,
     CheckoutCreate, CheckoutPut, PurchaseGet, PurchaseAdd, SubscriptionUpdate,
     SubscriptionGet, SubscriptionCreate, SubscriptionPut, SubscriptionReferral,
     SubscriptionDeleted, DeletedGet, DeletedPut, PaymentFailed,
     FailedGet, FailedPut, InvoicePaid, InvoiceGet, InvoiceProrate, InvoiceAdd,
     InvoiceReread, InvoiceMark, LagoSubscriptionStarted, LagoGet, LagoCreate, LagoAdd,
     StripeEvents, LagoEvents
<1> QED
  BY <1>1, <1>2, <1>3, <1>4 DEF Handler

\* A handler that has added a bonus to an invitee goes on to the inviter.
LEMMA RewardStep ==
  ASSUME Inv, NEW r \in Request, Handler(r), proc[r].pc \in RewardPcs, ledger' # ledger
  PROVE  proc'[r].pc \in PayPcs /\ proc'[r].call = proc[r].call
<1>1. ReferralInvitee(r) \/ SubscriptionInvitee(r)
  BY RewardSteps DEF RewardPcs, ReferralInviterGet, ReferralInviterCreate, ReferralInviter,
     SubscriptionInviterGet, SubscriptionInviterCreate, SubscriptionInviter, At
<1>2. Goto(r, "referral.inviter") \/ Goto(r, "subscription.inviter")
  BY <1>1 DEF ReferralInvitee, SubscriptionInvitee, Credit, NoAccount, storeVars
<1> QED
  BY <1>2, Locals DEF Inv, Becomes, PayPcs

\* It goes on until it has added the bonus of the inviter.
LEMMA PayStep ==
  ASSUME Inv, NEW r \in Request, Handler(r), proc[r].pc \in PayPcs, Payable(proc[r])
  PROVE  \/ proc'[r].pc \in PayPcs /\ proc'[r].call = proc[r].call
         \/ /\ proc[r].pc \in AddPcs
            /\ \E n, ref : AddCredits(InviterAt(proc[r]), n, "referral_bonus", ref)
<1> USE DEF At, Arg, Copy
<1>1. ProcInv
  BY DEF Inv
<1>2. CASE \/ ReferralInviterGet(r) \/ ReferralInviterCreate(r)
           \/ SubscriptionInviterGet(r) \/ SubscriptionInviterCreate(r)
  <2>1. \E pc \in PayPcs : Goto(r, pc) \/ \E a : Keep(r, a, pc)
    BY <1>2 DEF ReferralInviterGet, ReferralInviterCreate, SubscriptionInviterGet,
       SubscriptionInviterCreate, GetOrElse, Create, PayPcs, AddPcs
  <2> QED
    BY <1>1, <2>1, Locals DEF Becomes
<1>3. CASE ReferralInviter(r)
  <2>1. proc[r].pc \in AddPcs /\ InviterAt(proc[r]) = proc[r].call.other
    BY <1>3 DEF ReferralInviter, InviterAt, AddPcs, ReferralRoute
  <2> QED
    BY <1>3, <2>1 DEF ReferralInviter, CreditLast, NoAccount, Payable
<1>4. CASE SubscriptionInviter(r)
  <2>1. proc[r].pc \in AddPcs /\ InviterAt(proc[r]) = proc[r].copy.referred_by
    BY <1>4 DEF SubscriptionInviter, InviterAt, AddPcs, ReferralRoute
  <2> QED
    BY <1>4, <2>1 DEF SubscriptionInviter, Credit, NoAccount, Payable
<1> QED
  BY <1>2, <1>3, <1>4, RewardSteps
  DEF ReferralInvitee, SubscriptionInvitee, PayPcs, AddPcs

\* An inviter that is about to be paid keeps the account it is paid to: nothing
\* runs at that time that deletes it.
LEMMA PayableStep ==
  ASSUME Inv, AllSent, Serial, NamesKept, AllPayable, [Next]_vars
  PROVE  AllPayable'
<1> SUFFICES ASSUME NEW r \in Request, proc'[r].pc \in AddPcs PROVE Payable(proc[r])'
  BY DEF AllPayable, Payable
<1>1. CASE Handler(r)
  BY <1>1, HandlerNamed DEF Naming
<1>2. CASE proc'[r] = proc[r] /\ accounts' = accounts
  BY <1>2 DEF AllPayable, Payable, InviterAt, Exists
<1>3. ASSUME NEW s \in Request, s # r, Handler(s) PROVE Payable(proc[r])'
  <2>1. proc'[r] = proc[r] /\ proc[s].pc \notin {"new", "done"}
    BY <1>3, HandlerBusy DEF Serial
  <2>2. Busy(r) /\ proc[r].pc # "new" /\ Exists(InviterAt(proc[r]))
    BY <2>1 DEF AllPayable, Payable, AddPcs, Busy, RefillPcs
  <2>3. proc[s].pc \in RefillPcs
    BY <1>3, <2>1, <2>2 DEF Serial, OneRuns, Busy
  <2>4. InviterAt(proc[r]) \in User
    BY <2>1, <2>2, Stepping
    DEF InviterAt, AddPcs, HoldsCall, HoldsCopy, ReferralPcs, ReferralRoute
  <2>5. Exists(InviterAt(proc[r]))'
    <3>1. Booked
      BY <1>3, <2>3, RefillTask DEF Booked, AddCredits, storeVars
    <3>2. Money \/ Tick
      BY <3>1, StepEffect, BookedIsMoney
    <3> QED
      BY <2>1, <2>2, <2>4, <3>2, MoneyKeepsAccounts DEF InviterAt
  <2> QED
    BY <2>5 DEF Payable
<1>4. CASE Send(r)
  <2>1. PICK c \in Calls : proc' = [proc EXCEPT ![r].pc = c.op, ![r].call = c]
    BY <1>4 DEF Send
  <2>2. proc'[r].pc = c.op /\ c.op \in Routes
    BY <2>1, CallsAssumption DEF Inv, ProcInv, Proc, ProcAt, WellFormed
  <2> QED
    BY <2>2 DEF Routes, AddPcs
<1>5. CASE Abandon(r)
  BY <1>5, Locals DEF Abandon, Becomes, Inv, AddPcs
<1>6. ASSUME NEW s \in Request, s # r, Send(s) \/ Abandon(s) PROVE Payable(proc[r])'
  <2>1. Send(s) => proc'[r] = proc[r] /\ accounts' = accounts
    BY <1>6 DEF Send, Inv, ProcInv, storeVars
  <2>2. Abandon(s) => proc'[r] = proc[r] /\ accounts' = accounts
    BY <1>6, Locals DEF Abandon, Becomes, Inv, storeVars
  <2> QED
    BY <1>2, <1>6, <2>1, <2>2
<1> QED
  BY <1>1, <1>2, <1>3, <1>4, <1>5, <1>6 DEF Next, Tick, Terminating, vars, storeVars

\* Once the invitee has a bonus the inviter has one too, or a request is about
\* to add it, or a request was cut short.
Owing(u) ==
  \/ \E r \in Request : proc[r].pc \in PayPcs /\ proc[r].call.user = u
  \/ AbandonedCalls(u, PayOps) # {}

InviterOwed ==
  \A c \in Calls :
    c.other # None /\ ~Invites(c.user) /\ Those(c.user, BonusKind) # {} =>
      Those(c.other, BonusKind) # {} \/ Owing(c.user)

\* Whoever a request pays is the inviter.
LEMMA PaysInviter ==
  ASSUME OneInviter, Inv, AllSent, NamesKept, NEW r \in Request, proc[r].pc \in AddPcs,
         NEW c \in Calls, c.user = proc[r].call.user, c.other # None
  PROVE  InviterAt(proc[r]) = c.other
<1>1. /\ proc[r].pc # "new" /\ proc[r].call \in Calls /\ proc[r].call.user \in User
      /\ Invoked(proc[r]) /\ c.other \in InvitersOf(c.user)
  BY Stepping DEF AddPcs, NamesKept, InvitersOf, AllSent
<1>2. CASE proc[r].pc = "referral.add"
  <2>1. proc[r].call.other \in User
    BY <1>1, <1>2, Stepping DEF HoldsCall
  <2>2. proc[r].call.other \in InvitersOf(c.user) \ {None}
    BY <1>1, <2>1, NoneAssumption DEF InvitersOf
  <2> QED
    BY <1>1, <1>2, <2>2 DEF OneInviter, InviterAt, ReferralRoute
<1>3. CASE proc[r].pc = "subscription.add"
  <2>1. proc[r].copy \in Sound /\ proc[r].copy.referred_by \in User
    BY <1>1, <1>3, Stepping DEF HoldsCopy, CopyPcs, ReferralPcs
  <2>2. proc[r].copy.referred_by \in InvitersOf(c.user) \ {None}
    BY <1>1, <1>3, <2>1, NoneAssumption DEF Invoked, Named, Sound
  <2> QED
    BY <1>1, <1>3, <2>2 DEF OneInviter, InviterAt, ReferralRoute
<1> QED
  BY <1>2, <1>3 DEF AddPcs

LEMMA OwingStep ==
  ASSUME OneInviter, Inv, AllSent, Serial, NamesKept, AllPayable, [Next]_vars,
         NEW c \in Calls, c.other # None, Owing(c.user)
  PROVE  Owing(c.user)' \/ Those(c.other, BonusKind)' # {}
<1>1. CASE AbandonedCalls(c.user, PayOps) # {}
  <2>1. PICK r \in Abandoned : proc[r].call.user = c.user /\ proc[r].call.op \in PayOps
    BY <1>1 DEF AbandonedCalls
  <2>2. r \in Abandoned' /\ proc'[r] = proc[r]
    BY CutForGood DEF Serial
  <2> QED
    BY <2>1, <2>2 DEF Owing, AbandonedCalls
<1>2. ASSUME NEW r \in Request, proc[r].pc \in PayPcs, proc[r].call.user = c.user
      PROVE  Owing(c.user)' \/ Those(c.other, BonusKind)' # {}
  <2>1. Busy(r) /\ OneRuns /\ proc[r].call.op \in PayOps
    <3>1. proc[r].pc \in ReferralRoute \cup StripeRoute /\ proc[r].pc # "new"
      BY <1>2 DEF PayPcs, AddPcs, ReferralRoute, StripeRoute, ReferralPcs
    <3>2. Routed(proc[r].pc, proc[r].call)
      BY <3>1 DEF NamesKept, Invoked
    <3> QED
      BY <1>2, <3>1, <3>2 DEF Routed, PayOps, Busy, PayPcs, AddPcs, RefillPcs, Serial
  <2>2. CASE proc'[r] = proc[r]
    BY <1>2, <2>2 DEF Owing
  <2>3. CASE r \in Abandoned' /\ proc'[r].call = proc[r].call
    BY <1>2, <2>1, <2>3 DEF Owing, AbandonedCalls
  <2>4. CASE proc'[r].pc \in PayPcs /\ proc'[r].call = proc[r].call
    BY <1>2, <2>4 DEF Owing
  <2>5. ASSUME proc[r].pc \in AddPcs, NEW n, NEW ref,
               AddCredits(InviterAt(proc[r]), n, "referral_bonus", ref)
        PROVE  Those(c.other, BonusKind)' # {}
    <3>1. c.other \in User
      BY CallsAssumption, NoneAssumption DEF Call
    <3>2. AddCredits(c.other, n, "referral_bonus", ref)
      BY <1>2, <2>5, PaysInviter
    <3> DEFINE i == Len(ledger[c.other]) + 1
    <3>3. i \in DOMAIN ledger'[c.other] /\ ledger'[c.other][i].type = "referral_bonus"
      BY <3>1, <3>2, Appended DEF AddCredits
    <3>4. ledger'[c.other] \in Seq(Transaction)
      BY <3>1, StepInv DEF Inv, StoreType
    <3> HIDE DEF i
    <3> QED
      BY <3>3, <3>4 DEF Those, BonusKind
  <2>6. Payable(proc[r])
    BY DEF AllPayable
  <2> QED
    BY <1>2, <2>1, <2>2, <2>3, <2>4, <2>5, <2>6, RunsOn, PayStep
<1> QED
  BY <1>1, <1>2 DEF Owing

LEMMA InviterOwedStep ==
  ASSUME KnownInviters, OneInviter, Inv, AllSent, Serial, NamesKept, AllPayable, InviterOwed,
         [Next]_vars
  PROVE  InviterOwed'
<1> SUFFICES ASSUME NEW c \in Calls, c.other # None, ~Invites(c.user),
                    Those(c.user, BonusKind)' # {}
             PROVE  Those(c.other, BonusKind)' # {} \/ Owing(c.user)'
  BY DEF InviterOwed, Invites
<1>1. c.user \in User /\ c.other \in User
  BY CallsAssumption, NoneAssumption DEF Call
<1>2. CASE Those(c.user, BonusKind) # {}
  <2>1. CASE Those(c.other, BonusKind) # {}
    BY <1>1, <2>1, StepEffect, LedgersGrow DEF Those
  <2>2. CASE Owing(c.user)
    BY <2>2, OwingStep
  <2> QED
    BY <1>2, <2>1, <2>2 DEF InviterOwed
<1>3. ASSUME NEW r \in Request, NEW n, NEW type, NEW ref, Handler(r),
             AddCredits(c.user, n, type, ref), Source(r, c.user, type, ref),
             \E t \in BonusKind : t.type = type
      PROVE  Owing(c.user)'
  <2>1. type = "referral_bonus" /\ ledger' # ledger
    BY <1>1, <1>3, RecordGrows DEF BonusKind, AddCredits
  <2>2. c.user = proc[r].call.user /\ proc[r].pc \in RewardPcs
    <3>1. CASE c.user = proc[r].call.other /\ proc[r].pc = "referral.add"
      BY <3>1 DEF AllSent, Invites
    <3>2. CASE c.user = proc[r].copy.referred_by /\ proc[r].pc = "subscription.add"
      <4>1. proc[r].copy.referred_by \in Inviters \cap User
        BY <3>2, Stepping DEF CopyPcs, ReferralPcs, HoldsCopy, Sound
      <4> QED
        BY <3>2, <4>1, InvitersInvite, NoneAssumption
    <3> QED
      BY <1>3, <2>1, <3>1, <3>2 DEF Source
  <2> QED
    BY <1>3, <2>1, <2>2, RewardStep DEF Owing
<1>4. \A t \in BonusKind : t.type # "usage"
  BY DEF BonusKind
<1> QED
  BY <1>1, <1>2, <1>3, <1>4, KindStep

\* When requests run one at a time and no user is said to be invited by two,
\* whoever invited someone with a bonus has a bonus for it when nothing runs,
\* but for a request that was cut short.
THEOREM InvitersPaid == OneAtATime /\ KnownInviters /\ OneInviter => (Spec => []InviterPaid)
<1> SUFFICES ASSUME OneAtATime, KnownInviters, OneInviter PROVE Spec => []InviterPaid
  OBVIOUS
<1>1. Init => NamesKept /\ AllPayable /\ InviterOwed
  <2>1. Init => AllPayable
    BY DEF Init, NotSent, AllPayable, Payable, AddPcs
  <2>2. Init => InviterOwed
    <3> SUFFICES ASSUME Init, NEW c \in Calls, Those(c.user, BonusKind) # {} PROVE FALSE
      BY DEF InviterOwed
    <3>1. c.user \in User
      BY CallsAssumption DEF Call
    <3> QED
      BY <3>1, OpeningKinds DEF BonusKind
  <2> QED
    BY <2>1, <2>2, InitNamed
<1>2. /\ Inv /\ AllSent /\ Serial /\ NamesKept /\ AllPayable /\ InviterOwed /\ [Next]_vars
           => NamesKept' /\ AllPayable' /\ InviterOwed'
      /\ Inv /\ AllSent /\ Serial /\ BonusOnce /\ [Next]_vars => BonusOnce'
  BY NamesStep, PayableStep, InviterOwedStep, BonusOnceStep
<1>3. Init => BonusOnce
  <2> SUFFICES ASSUME Init, NEW u \in User PROVE Cardinality(Those(u, BonusKind)) <= 1
    BY DEF BonusOnce
  <2>1. Those(u, BonusKind) = {}
    BY OpeningKinds DEF BonusKind
  <2> QED
    BY <2>1, FS_EmptySet
<1>4. Inv /\ Serial /\ BonusOnce /\ InviterOwed => InviterPaid
  <2> SUFFICES ASSUME Inv, Serial, BonusOnce, InviterOwed, Running = {},
                      NEW c \in Calls, c.other # None, ~Invites(c.user)
               PROVE  Cardinality(Records(c.user, "referral_bonus"))
                        <= Cardinality(Records(c.other, "referral_bonus"))
                             + Cardinality(AbandonedCalls(c.user, PayOps))
    BY DEF InviterPaid, PayOps
  <2> DEFINE U == Those(c.user, BonusKind)
             V == Those(c.other, BonusKind)
             A == AbandonedCalls(c.user, PayOps)
  <2>1. c.user \in User /\ c.other \in User
    BY CallsAssumption, NoneAssumption DEF Call
  <2>2. Records(c.user, "referral_bonus") = U /\ Records(c.other, "referral_bonus") = V
    BY <2>1 DEF Inv, StoreType, Records, Those, BonusKind
  <2>3. IsFiniteSet(U) /\ IsFiniteSet(V) /\ IsFiniteSet(A)
    BY <2>1, ThoseFinite, CutFinite, FS_Subset DEF AbandonedCalls
  <2>4. Cardinality(U) <= 1
    BY <2>1 DEF BonusOnce
  <2>5. U = {} \/ V # {} \/ A # {}
    <3>1. \A r \in Request : proc[r].pc \notin PayPcs
      BY DEF Running, Serial, OneRuns, Busy, PayPcs, AddPcs, RefillPcs
    <3> QED
      BY <3>1 DEF InviterOwed, Owing
  <2> HIDE DEF U, V, A
  <2>6. /\ Cardinality(U) \in Nat /\ Cardinality(V) \in Nat /\ Cardinality(A) \in Nat
        /\ U = {} => Cardinality(U) = 0
        /\ V # {} => Cardinality(V) # 0
        /\ A # {} => Cardinality(A) # 0
    BY <2>3, FS_CardinalityType, FS_EmptySet
  <2>7. Cardinality(U) <= Cardinality(V) + Cardinality(A)
    BY <2>4, <2>5, <2>6
  <2> QED
    BY <2>2, <2>7 DEF A
<1> QED
  BY <1>1, <1>2, <1>3, <1>4, Invariant, AllSentKept, CopiesStayFresh, PTL DEF Spec

-----------------------------------------------------------------------------
(* Auto-refill: payments, shortages and credits.  Nothing here has requests *)
(* run one at a time; accounts keep the settings that they had at first,   *)
(* since nothing writes a row.                                             *)

TaskPcs == RefillPcs \cup {"usage.exists", "usage.commit"}

RefillKind == {t \in Transaction : t.type = "auto_refill"}

NoRefill == \A u \in User : Those(u, RefillKind)' = Those(u, RefillKind)

\* A step that neither begins nor ends a part of a refill.
Apart(r) ==
  /\ NoRefill
  /\ \E pc, a, n, x :
       /\ Becomes(r, pc, a, n, x) /\ pc \notin TaskPcs
       /\ x = proc[r].answer \/ x \notin {"charged", "unanswered", "refilled"}

LEMMA LedgerApart == ASSUME ledger' = ledger PROVE NoRefill
BY DEF NoRefill, Those

LEMMA RecordApart ==
  ASSUME Inv, NEW v, NEW type, type # "auto_refill", NEW amount, NEW after, NEW ref,
         Record(v, type, amount, after, ref)
  PROVE  NoRefill
<1>1. CASE v \notin User
  <2>1. ledger' = ledger
    BY <1>1 DEF Record, Inv, StoreType
  <2> QED
    BY <2>1, LedgerApart
<1>2. CASE v \in User
  <2> SUFFICES ASSUME NEW u \in User PROVE Those(u, RefillKind)' = Those(u, RefillKind)
    BY DEF NoRefill
  <2>1. Those(u, RefillKind)' \subseteq Those(u, RefillKind)
    BY <1>2, ThoseAppended DEF RefillKind
  <2>2. \A i \in DOMAIN ledger[u] : i \in DOMAIN ledger'[u] /\ ledger'[u][i] = ledger[u][i]
    BY <1>2, Appended
  <2> QED
    BY <2>1, <2>2 DEF Those
<1> QED
  BY <1>1, <1>2

LEMMA GoingApart ==
  ASSUME Inv, NEW r \in Request, NoRefill
  PROVE  /\ \A pc : pc \notin TaskPcs => /\ Goto(r, pc) => Apart(r)
                                         /\ \A a : Keep(r, a, pc) => Apart(r)
                                         /\ \A n : Compute(r, n, pc) => Apart(r)
                                         /\ \A a, n : KeepAndCompute(r, a, n, pc) => Apart(r)
         /\ \A x : x \notin {"charged", "unanswered", "refilled"} /\ Answer(r, x) => Apart(r)
<1>1. ProcInv /\ "done" \notin TaskPcs
  BY DEF Inv, TaskPcs, RefillPcs
<1> QED
  BY <1>1, Locals DEF Apart

LEMMA HelpersApart ==
  ASSUME Inv, NEW r \in Request, NEW u
  PROVE  /\ \A pc : pc \notin TaskPcs =>
              /\ GetOrNotFound(r, u, pc) => Apart(r)
              /\ \A create : create \notin TaskPcs /\ GetOrElse(r, u, create, pc) => Apart(r)
              /\ Create(r, u, pc) => Apart(r)
              /\ Reread(r, u, pc) => Apart(r)
              /\ \A n, type : type # "auto_refill" /\ Credit(r, u, n, type, pc) => Apart(r)
         /\ \A n, type : type # "auto_refill" /\ CreditLast(r, u, n, type) => Apart(r)
<1>1. /\ storeVars' = storeVars => NoRefill
      /\ \A a : PutAccount(u, a) => NoRefill
      /\ \A n, type, ref : type # "auto_refill" /\ AddCredits(u, n, type, ref) => NoRefill
  BY LedgerApart, RecordApart DEF storeVars, PutAccount, AddCredits
<1> QED
  BY <1>1, GoingApart DEF GetOrNotFound, GetOrElse, Create, Reread, Credit, CreditLast, NoAccount

LEMMA CreditsApart ==
  ASSUME Inv, NEW r \in Request, Credits(r)
  PROVE  Apart(r)
<1> USE HelpersApart, GoingApart, LedgerApart DEF storeVars, PutAccount, TaskPcs, RefillPcs
<1>1. CASE GetBalance(r) \/ DailyGrantHandler(r)
  BY <1>1 DEF GetBalance, DailyGrantHandler
<1>2. CASE TryMonthlyAllowance(r)
  BY <1>2 DEF TryMonthlyAllowance, MonthlyCheck, MonthlyAdd, MonthlyReread, MonthlyMark,
     MonthlyRefresh
<1>3. CASE TryDailyGrant(r)
  BY <1>3 DEF TryDailyGrant, DailyAdd, DailyReread, DailyMark
<1>4. CASE Signup(r)
  BY <1>4 DEF Signup, SignupGet, SignupCreate, SignupAdd, SignupReread, SignupMark
<1>5. CASE Referral(r)
  BY <1>5 DEF Referral, ReferralGet, ReferralCreate, ReferralCheck, ReferralInvitee,
     ReferralInviterGet, ReferralInviterCreate, ReferralInviter
<1>6. CASE AdminAddCredits(r) \/ ConfigureAutoRefill(r) \/ PurchaseCredits(r)
  BY <1>6 DEF AdminAddCredits, AdminGet, AdminAdd, ConfigureAutoRefill, ConfigureGet,
     ConfigurePut, PurchaseCredits, PurchaseAsk, PurchaseSession
<1> QED
  BY <1>1, <1>2, <1>3, <1>4, <1>5, <1>6 DEF Credits

LEMMA AccountsApart ==
  ASSUME Inv, NEW r \in Request, Accounts(r) \/ Subscribe(r) \/ CheckBalance(r)
  PROVE  Apart(r)
<1> USE HelpersApart, GoingApart, LedgerApart DEF storeVars, PutAccount, TaskPcs, RefillPcs
<1>1. CASE CheckBalance(r)
  BY <1>1 DEF CheckBalance, CheckGet, CheckCreate
<1>2. CASE Accounts(r)
  BY <1>2 DEF Accounts, CreateAccount, CreateGet, CreateCustomer, CreatePut, GetAccount,
     GetAccountGet, GetAccountCreate, DeleteAccountHandler, DeleteAccount, NoAccount
<1>3. CASE Subscribe(r)
  BY <1>3 DEF Subscribe, ZeroPro, SubscribeGet, SubscribeCustomer, SubscribePut,
     SubscribePay, CheckoutAsk, PortalAsk, CancelAsk, StripeCall
<1> QED
  BY <1>1, <1>2, <1>3

LEMMA WebhooksApart ==
  ASSUME Inv, NEW r \in Request, Webhooks(r)
  PROVE  Apart(r)
<1> USE HelpersApart, GoingApart, LedgerApart DEF storeVars, PutAccount, TaskPcs, RefillPcs, Done
<1>1. CASE StripeReceive(r) \/ Resolve(r) \/ LagoReceive(r) \/ RecordEvent(r)
  <2>1. /\ proc[r].pc \in {"stripe_webhook", "resolve"} => proc[r].call.event \in StripeEvents
        /\ proc[r].pc = "lago_webhook" => proc[r].call.event \in LagoEvents
    BY Stepping DEF HoldsCall
  <2>2. "resolve" \notin TaskPcs /\ \A e \in StripeEvents \cup LagoEvents : e \notin TaskPcs
    BY DEF StripeEvents, LagoEvents
  <2>3. CASE RecordEvent(r)
    BY <2>3 DEF RecordEvent, RecordWebhookEvent
  <2> QED
    BY <1>1, <2>1, <2>2, <2>3 DEF StripeReceive, Resolve, LagoReceive, At, Arg
<1>2. CASE Checkout(r)
  BY <1>2 DEF Checkout, CheckoutGet, CheckoutCreate, CheckoutPut, PurchaseGet, PurchaseAdd
<1>3. CASE SubscriptionUpdate(r)
  BY <1>3 DEF SubscriptionUpdate, SubscriptionGet, SubscriptionCreate, SubscriptionPut,
     SubscriptionReferral, SubscriptionInvitee, SubscriptionInviterGet,
     SubscriptionInviterCreate, SubscriptionInviter
<1>4. CASE SubscriptionDeleted(r) \/ PaymentFailed(r)
  BY <1>4 DEF SubscriptionDeleted, DeletedGet, DeletedPut, PaymentFailed, FailedGet, FailedPut
<1>5. CASE InvoicePaid(r)
  BY <1>5 DEF InvoicePaid, InvoiceGet, InvoiceProrate, InvoiceAdd, InvoiceReread, InvoiceMark
<1>6. CASE LagoSubscriptionStarted(r)
  BY <1>6 DEF LagoSubscriptionStarted, LagoGet, LagoCreate, LagoAdd
<1> QED
  BY <1>1, <1>2, <1>3, <1>4, <1>5, <1>6 DEF Webhooks

\* What is known of a request that charges usage or refills.
RefillHeldBy(p) ==
  /\ p.pc \in TaskPcs => p.copy.auto_refill = Initial[p.call.user].auto_refill
  /\ p.pc \in {"refill.get", "refill.add"} => p.answer = "charged"
  /\ p.answer = "charged" => p.pc \in {"refill.get", "refill.add", "done"}
  /\ p.answer \in {"unanswered", "refilled"} => p.pc = "done"

SettingsKept ==
  /\ \A u \in User : Initial[u] # None =>
       Exists(u) /\ accounts[u].auto_refill = Initial[u].auto_refill
  /\ \A r \in Request : RefillHeldBy(proc[r])

\* Whoever is about to pay, or has paid.
Owes(p) == p.pc = "refill.pay" \/ p.answer \in {"charged", "unanswered", "refilled"}

Due(u) == {r \in Request : proc[r].call.user = u /\ Owes(proc[r])}

Refilled(u) == {r \in Request : proc[r].call.user = u /\ proc[r].answer = "refilled"}

RefillsMatched ==
  \A u \in User :
    /\ Initial[u].auto_refill # None => Cardinality(Due(u)) <= Cardinality(Shortages(u))
    /\ Cardinality(Those(u, RefillKind)) = Cardinality(Refilled(u))

\* A charge that leaves its user short of credits.
Shorted(r) ==
  LET u == proc[r].call.user
  IN  /\ Record(u, "usage", -proc[r].call.amount, accounts[u].balance - proc[r].call.amount,
                proc[r].call.id)
      /\ accounts[u].balance - proc[r].call.amount < Initial[u].auto_refill.trigger

Recovered(r) ==
  \E n, after : Record(proc[r].call.user, "auto_refill", n, after, None)

\* How a step keeps it all.
RefillStep(r) ==
  /\ RefillHeldBy(proc'[r])
  /\ Owes(proc'[r]) => proc'[r].call = proc[r].call
  /\ \A s \in Request \ {r} : proc'[s] = proc[s]
  /\ Owes(proc'[r]) => Owes(proc[r]) \/ Shorted(r)
  /\ \/ NoRefill /\ (proc'[r].answer = "refilled" <=> proc[r].answer = "refilled")
     \/ Recovered(r) /\ proc[r].answer # "refilled" /\ proc'[r].answer = "refilled"

LEMMA ApartRefills ==
  ASSUME Inv, SettingsKept, NEW r \in Request, Apart(r), proc[r].pc \notin RefillPcs \cup {"done"},
         proc[r].pc # "new"
  PROVE  RefillStep(r)
<1>1. proc[r].answer \notin {"charged", "unanswered", "refilled"}
  BY DEF SettingsKept, RefillHeldBy, RefillPcs
<1>2. PICK pc, a, n, x : /\ Becomes(r, pc, a, n, x) /\ pc \notin TaskPcs
                         /\ x = proc[r].answer \/ x \notin {"charged", "unanswered", "refilled"}
  BY DEF Apart
<1>3. proc'[r].pc \notin TaskPcs /\ proc'[r].answer \notin {"charged", "unanswered", "refilled"}
  BY <1>1, <1>2 DEF Becomes
<1>4. NoRefill
  BY DEF Apart
<1> QED
  BY <1>1, <1>2, <1>3, <1>4 DEF RefillStep, RefillHeldBy, Owes, Becomes, TaskPcs, RefillPcs

LEMMA UsageRefills ==
  ASSUME NoRowWrites, Inv, Moving, SettingsKept, NEW r \in Request, ReportUsage(r)
  PROVE  RefillStep(r)
<1> USE DEF At, Arg, Copy
<1>1. proc[r].pc \notin RefillPcs \cup {"new", "done"}
  BY DEF ReportUsage, ReportGet, ReportCreate, BatchGet, UsageExists, UsageCommit, RefillPcs
<1>2. /\ proc[r].call.user \in User /\ Exists(proc[r].call.user)
      /\ Initial[proc[r].call.user] # None /\ ProcInv /\ proc[r].pc \in MovingPcs
  BY <1>1, MovingCall DEF MovesOnly, Inv, Moving, Moves
<1>3. proc[r].answer \notin {"charged", "unanswered", "refilled"} /\ RefillHeldBy(proc[r])
  BY <1>1 DEF SettingsKept, RefillHeldBy, RefillPcs
<1>4. accounts[proc[r].call.user].auto_refill = Initial[proc[r].call.user].auto_refill
  BY <1>2 DEF SettingsKept
<1>5. ASSUME NEW a, Keep(r, a, "usage.exists"), NoRefill,
             a.auto_refill = Initial[proc[r].call.user].auto_refill
      PROVE  RefillStep(r)
  <2>1. Becomes(r, "usage.exists", a, proc[r].kept, proc[r].answer)
    BY <1>2, <1>5, Locals
  <2> QED
    BY <1>3, <1>5, <2>1 DEF Becomes, RefillStep, RefillHeldBy, Owes
<1>6. CASE ReportGet(r) \/ BatchGet(r)
  BY <1>2, <1>4, <1>5, <1>6, GetBooked, LedgerApart
  DEF ReportGet, BatchGet, GetOrElse, GetOrNotFound, storeVars
<1>7. ASSUME Goto(r, "usage.commit"), proc[r].pc = "usage.exists", NoRefill PROVE RefillStep(r)
  <2>1. Becomes(r, "usage.commit", proc[r].copy, proc[r].kept, proc[r].answer)
    BY <1>2, <1>7, Locals
  <2>2. proc[r].copy.auto_refill = Initial[proc[r].call.user].auto_refill
    BY <1>3, <1>7 DEF RefillHeldBy, TaskPcs
  <2> QED
    BY <1>3, <1>7, <2>1, <2>2 DEF Becomes, RefillStep, RefillHeldBy, Owes
<1>8. ASSUME NEW x, x \notin {"charged", "unanswered", "refilled"}, Answer(r, x), NoRefill PROVE RefillStep(r)
  BY <1>1, <1>8, GoingApart, ApartRefills
<1>9. CASE UsageExists(r)
  BY <1>7, <1>8, <1>9, LedgerApart DEF UsageExists, storeVars
<1>10. CASE UsageCommit(r)
  <2> DEFINE u == proc[r].call.user
             balance == accounts[u].balance - proc[r].call.amount
  <2>1. CASE UsageRolledBack(r)
    <3>1. UsageError(u, proc[r].call.amount, proc[r].call.id) \notin {"charged", "unanswered", "refilled"}
      BY DEF UsageError
    <3> QED
      BY <1>8, <2>1, <3>1, LedgerApart DEF UsageRolledBack, storeVars
  <2>2. CASE UsageCharged(r)
    <3>1. Record(u, "usage", -proc[r].call.amount, balance, proc[r].call.id)
      BY <2>2 DEF UsageCharged, CommitUsage
    <3>2. NoRefill
      BY <3>1, RecordApart
    <3>3. CASE Answer(r, "ok")
      BY <1>8, <3>2, <3>3
    <3>4. CASE RefillDue(proc[r].copy, balance) /\ AnswerAndGoto(r, "ok", "refill.pay")
      <4>1. Becomes(r, "refill.pay", proc[r].copy, proc[r].kept, "ok")
        BY <1>2, <3>4, Locals
      <4>2. proc[r].copy.auto_refill = Initial[u].auto_refill
        BY <1>3, <1>10 DEF RefillHeldBy, TaskPcs, UsageCommit
      <4>3. balance < Initial[u].auto_refill.trigger
        BY <3>4, <4>2 DEF RefillDue
      <4>4. Shorted(r)
        BY <3>1, <4>3 DEF Shorted
      <4> QED
        BY <1>3, <3>2, <4>1, <4>2, <4>4 DEF Becomes, RefillStep, RefillHeldBy
    <3> QED
      BY <2>2, <3>3, <3>4 DEF UsageCharged
  <2> QED
    BY <1>10, <2>1, <2>2 DEF UsageCommit
<1> QED
  BY <1>2, <1>6, <1>9, <1>10 DEF ReportUsage, ReportCreate, MovingPcs

LEMMA TaskRefills ==
  ASSUME Inv, SettingsKept, NEW r \in Request, Refill(r)
  PROVE  RefillStep(r)
<1> USE DEF At, Arg, Copy
<1>1. proc[r].pc \in RefillPcs
  BY DEF Refill, RefillPay, RefillGet, RefillAdd, RefillPcs
<1>2. RefillHeldBy(proc[r]) /\ ProcInv /\ proc[r].answer # "refilled"
  BY <1>1 DEF SettingsKept, RefillHeldBy, Inv, RefillPcs
<1>3. proc[r].copy.auto_refill = Initial[proc[r].call.user].auto_refill /\ Owes(proc[r])
  BY <1>1, <1>2 DEF RefillHeldBy, TaskPcs, RefillPcs, Owes
<1>4. CASE RefillPay(r)
  <2>1. NoRefill
    BY <1>4, LedgerApart DEF RefillPay, storeVars
  <2>2. \/ Becomes(r, "refill.get", proc[r].copy, proc[r].kept, "charged")
        \/ Becomes(r, "done", None, 0, "unanswered")
        \/ Becomes(r, "done", None, 0, "ok")
    BY <1>2, <1>4, Locals DEF RefillPay
  <2> QED
    BY <1>2, <1>3, <2>1, <2>2 DEF Becomes, RefillStep, RefillHeldBy, TaskPcs, RefillPcs
<1>5. CASE RefillGet(r)
  <2>1. NoRefill /\ proc[r].answer = "charged"
    BY <1>2, <1>5, LedgerApart DEF RefillGet, storeVars, RefillHeldBy
  <2>2. \/ Becomes(r, "refill.add", proc[r].copy, proc[r].kept, proc[r].answer)
        \/ Becomes(r, "done", None, 0, "charged")
    BY <1>2, <1>5, Locals DEF RefillGet
  <2> QED
    BY <1>2, <1>3, <2>1, <2>2 DEF Becomes, RefillStep, RefillHeldBy, TaskPcs, RefillPcs
<1>6. CASE RefillAdd(r)
  <2>1. Recovered(r)
    BY <1>6 DEF RefillAdd, AddCredits, Recovered
  <2>2. Becomes(r, "done", None, 0, "refilled")
    BY <1>2, <1>6, Locals DEF RefillAdd
  <2> QED
    BY <1>2, <1>3, <2>1, <2>2 DEF Becomes, RefillStep, RefillHeldBy, TaskPcs, RefillPcs
<1> QED
  BY <1>4, <1>5, <1>6 DEF Refill

LEMMA SendRefills ==
  ASSUME NoRowWrites, Inv, SettingsKept, NEW r \in Request, Send(r) \/ Abandon(r)
  PROVE  RefillStep(r)
<1>1. NoRefill /\ ProcInv /\ RefillHeldBy(proc[r])
  BY LedgerApart DEF Send, Abandon, storeVars, Inv, SettingsKept
<1>2. CASE Send(r)
  <2>1. PICK c \in Calls : proc' = [proc EXCEPT ![r].pc = c.op, ![r].call = c]
    BY <1>2 DEF Send
  <2>2. /\ proc'[r].pc = c.op /\ proc'[r].answer = proc[r].answer
        /\ \A s \in Request \ {r} : proc'[s] = proc[s]
    BY <1>1, <2>1 DEF ProcInv, Proc, ProcAt
  <2>3. c.op \notin TaskPcs
    BY DEF NoRowWrites, MovesOnly, TaskPcs, RefillPcs
  <2>4. proc[r].answer \notin {"charged", "unanswered", "refilled"}
    BY <1>1, <1>2 DEF Send, At, RefillHeldBy
  <2> QED
    BY <1>1, <2>2, <2>3, <2>4 DEF RefillStep, RefillHeldBy, Owes, TaskPcs, RefillPcs
<1>3. CASE Abandon(r)
  <2>1. Becomes(r, "done", None, 0, IF proc[r].answer = None THEN "abandoned" ELSE proc[r].answer)
    BY <1>1, <1>3, Locals DEF Abandon
  <2>2. proc[r].answer # "refilled"
    BY <1>1, <1>3 DEF Abandon, RefillHeldBy
  <2> QED
    BY <1>1, <2>1, <2>2 DEF Becomes, RefillStep, RefillHeldBy, Owes, TaskPcs, RefillPcs
<1> QED
  BY <1>2, <1>3

LEMMA StepRefills ==
  ASSUME NoRowWrites, Inv, Moving, SettingsKept, [Next]_vars
  PROVE  \/ ledger' = ledger /\ proc' = proc
         \/ \E r \in Request : RefillStep(r)
<1>1. ASSUME NEW r \in Request, Handler(r) PROVE RefillStep(r)
  <2>1. CASE ReportUsage(r) \/ Refill(r)
    BY <2>1, UsageRefills, TaskRefills
  <2>2. CASE ~ReportUsage(r) /\ ~Refill(r)
    <3>1. Apart(r)
      BY <1>1, <2>2, CreditsApart, AccountsApart, WebhooksApart DEF Handler, Usage
    <3>2. proc[r].pc \notin RefillPcs
      BY <1>1, <2>2, RefillSteps DEF Handler, Usage
    <3> QED
      BY <1>1, <3>1, <3>2, HandlerRuns, ApartRefills
  <2> QED
    BY <2>1, <2>2
<1> QED
  BY <1>1, SendRefills DEF Next, Tick, Terminating, vars

\* Credits and charges leave the settings of accounts alone.
LEMMA SettingsStay ==
  ASSUME Inv, Money \/ Tick, NEW u \in User, Exists(u)
  PROVE  accounts'[u].auto_refill = accounts[u].auto_refill
<1>1. accounts[u] \in Account /\ accounts \in [User -> Account \cup {None}]
  BY DEF Exists, Inv, StoreType
<1>2. ASSUME NEW v \in User, NEW n, NEW type, NEW ref, AddCredits(v, n, type, ref)
      PROVE  accounts'[u].auto_refill = accounts[u].auto_refill
  <2> DEFINE more == accounts[u].balance + n
             bought == accounts[u].purchased + n
  <2>1. CASE v = u
    <3>1. accounts'[u] = [accounts[u] EXCEPT !.balance = more, !.purchased = bought]
      BY <1>1, <1>2, <2>1 DEF AddCredits, Account
    <3> HIDE DEF more, bought
    <3> QED
      BY <1>1, <3>1 DEF Account
  <2>2. CASE v # u
    BY <1>1, <1>2, <2>2 DEF AddCredits
  <2> QED
    BY <2>1, <2>2
<1>3. ASSUME NEW v \in User, NEW n, NEW e, CommitUsage(v, n, e)
      PROVE  accounts'[u].auto_refill = accounts[u].auto_refill
  <2> DEFINE less == accounts[u].balance - n
             spent == accounts[u].used + n
  <2>1. CASE v = u
    <3>1. accounts'[u] = [accounts[u] EXCEPT !.balance = less, !.used = spent]
      BY <1>1, <1>3, <2>1 DEF CommitUsage, Account
    <3> HIDE DEF less, spent
    <3> QED
      BY <1>1, <3>1 DEF Account
  <2>2. CASE v # u
    BY <1>1, <1>3, <2>2 DEF CommitUsage
  <2> QED
    BY <2>1, <2>2
<1> QED
  BY <1>2, <1>3 DEF Money, Tick, RecordWebhookEvent, storeVars

LEMMA SettingsStep ==
  ASSUME NoRowWrites, Inv, Moving, SettingsKept, [Next]_vars
  PROVE  SettingsKept'
<1>1. Money \/ Tick
  BY MovingStep
<1>2. \A u \in User : Initial[u] # None =>
        Exists(u)' /\ accounts'[u].auto_refill = Initial[u].auto_refill
  BY <1>1, SettingsStay, MoneyKeepsAccounts DEF SettingsKept
<1>3. \A r \in Request : RefillHeldBy(proc'[r])
  BY StepRefills DEF SettingsKept, RefillStep
<1> QED
  BY <1>2, <1>3 DEF SettingsKept, RefillHeldBy

-----------------------------------------------------------------------------
(* ... and are counted.                                                    *)

LEMMA CountedFinite ==
  ASSUME NEW u
  PROVE  IsFiniteSet(Due(u)) /\ IsFiniteSet(Refilled(u))
<1>1. IsFiniteSet(Request) /\ Due(u) \subseteq Request /\ Refilled(u) \subseteq Request
  BY BoundsAssumption DEF Due, Refilled
<1> QED
  BY <1>1, FS_Subset

\* Shortages are records, and stay.
LEMMA ShortagesGrow ==
  ASSUME Inv, [Next]_vars, Inv', NEW u \in User
  PROVE  Shortages(u) \subseteq Shortages(u)' /\ IsFiniteSet(Shortages(u)')
<1>1. \A i \in DOMAIN ledger[u] : i \in DOMAIN ledger'[u] /\ ledger'[u][i] = ledger[u][i]
  BY StepEffect, LedgersGrow
<1>2. DOMAIN ledger'[u] = 1..Len(ledger'[u]) /\ Len(ledger'[u]) \in Nat
  BY DEF Inv, StoreType
<1>3. IsFiniteSet(1..Len(ledger'[u]))
  BY <1>2, FS_Interval
<1>4. Shortages(u)' \subseteq DOMAIN ledger'[u]
  BY DEF Shortages, UsageRecords
<1> QED
  BY <1>1, <1>2, <1>3, <1>4, FS_Subset DEF Shortages, UsageRecords

LEMMA DueStep ==
  ASSUME Inv, [Next]_vars, Inv', NEW u \in User, NEW r \in Request, RefillStep(r),
         Cardinality(Due(u)) <= Cardinality(Shortages(u))
  PROVE  Cardinality(Due(u)') <= Cardinality(Shortages(u)')
<1> DEFINE N == Due(u)
           M == Due(u)'
           S == Shortages(u)
           T == Shortages(u)'
<1>1. IsFiniteSet(N) /\ S \subseteq T /\ IsFiniteSet(T)
  BY CountedFinite, ShortagesGrow
<1>2. IsFiniteSet(S) /\ Cardinality(S) <= Cardinality(T)
  BY <1>1, FS_Subset
<1>3. Cardinality(N) \in Nat /\ Cardinality(S) \in Nat /\ Cardinality(T) \in Nat
  BY <1>1, <1>2, FS_CardinalityType
<1>4. M \subseteq N \cup {r}
  BY DEF RefillStep, Due
<1>5. CASE M \subseteq N
  <2>1. IsFiniteSet(M) /\ Cardinality(M) <= Cardinality(N)
    BY <1>1, <1>5, FS_Subset
  <2>2. Cardinality(M) \in Nat
    BY <2>1, FS_CardinalityType
  <2> QED
    BY <1>2, <1>3, <2>1, <2>2
<1>6. CASE ~(M \subseteq N)
  <2>1. Shorted(r) /\ proc[r].call.user = u
    BY <1>6 DEF RefillStep, Due
  <2> DEFINE x == Len(ledger[u]) + 1
  <2>2. /\ x \in DOMAIN ledger'[u] /\ x \notin DOMAIN ledger[u]
        /\ ledger'[u][x].type = "usage"
        /\ ledger'[u][x].after < Initial[u].auto_refill.trigger
    BY <2>1, Appended DEF Shorted
  <2>3. x \in T /\ x \notin S
    BY <2>2 DEF Shortages, UsageRecords
  <2>4. Cardinality(S) + 1 <= Cardinality(T)
    BY <1>1, <2>3, OneLeft
  <2>5. IsFiniteSet(M) /\ Cardinality(M) <= Cardinality(N) + 1
    BY <1>1, <1>4, OneMore
  <2>6. Cardinality(M) \in Nat
    BY <2>5, FS_CardinalityType
  <2> QED
    BY <1>3, <2>4, <2>5, <2>6
<1> QED
  BY <1>5, <1>6

LEMMA RecoveredStep ==
  ASSUME Inv, Inv', NEW u \in User, NEW r \in Request, RefillStep(r),
         Cardinality(Those(u, RefillKind)) = Cardinality(Refilled(u))
  PROVE  Cardinality(Those(u, RefillKind)') = Cardinality(Refilled(u)')
<1>1. CASE NoRefill /\ (proc'[r].answer = "refilled" <=> proc[r].answer = "refilled")
  <2>1. Those(u, RefillKind)' = Those(u, RefillKind)
    BY <1>1 DEF NoRefill
  <2>2. Refilled(u)' = Refilled(u)
    BY <1>1 DEF RefillStep, Refilled, Owes
  <2> QED
    BY <2>1, <2>2
<1>2. CASE Recovered(r) /\ proc[r].answer # "refilled" /\ proc'[r].answer = "refilled"
  <2>1. PICK n, after : Record(proc[r].call.user, "auto_refill", n, after, None)
    BY <1>2 DEF Recovered
  <2>2. proc'[r].call = proc[r].call
    BY <1>2 DEF RefillStep, Owes
  <2>3. CASE proc[r].call.user # u
    <3>1. Those(u, RefillKind)' = Those(u, RefillKind)
      <4>1. ledger'[u] = ledger[u]
        BY <2>1, <2>3 DEF Record, Inv, StoreType
      <4> QED
        BY <4>1 DEF Those
    <3>2. Refilled(u)' = Refilled(u)
      BY <1>2, <2>2, <2>3 DEF RefillStep, Refilled
    <3> QED
      BY <3>1, <3>2
  <2>4. CASE proc[r].call.user = u
    <3> DEFINE x == Len(ledger[u]) + 1
    <3>1. /\ DOMAIN ledger'[u] = DOMAIN ledger[u] \cup {x} /\ x \notin DOMAIN ledger[u]
          /\ \A i \in DOMAIN ledger[u] : ledger'[u][i] = ledger[u][i]
          /\ ledger'[u][x].type = "auto_refill"
      BY <2>1, <2>4, Appended
    <3>2. ledger'[u][x] \in Transaction
      BY <3>1 DEF Inv, StoreType
    <3> HIDE DEF x
    <3>3. Those(u, RefillKind)' = Those(u, RefillKind) \cup {x} /\ x \notin Those(u, RefillKind)
      BY <3>1, <3>2 DEF Those, RefillKind
    <3>4. Refilled(u)' = Refilled(u) \cup {r} /\ r \notin Refilled(u)
      BY <1>2, <2>2, <2>4 DEF RefillStep, Refilled
    <3>5. IsFiniteSet(Those(u, RefillKind)) /\ IsFiniteSet(Refilled(u))
      BY ThoseFinite, CountedFinite
    <3>6. /\ Cardinality(Those(u, RefillKind) \cup {x}) = Cardinality(Those(u, RefillKind)) + 1
          /\ Cardinality(Refilled(u) \cup {r}) = Cardinality(Refilled(u)) + 1
      BY <3>3, <3>4, <3>5, FS_AddElement
    <3> QED
      BY <3>3, <3>4, <3>6
  <2> QED
    BY <2>3, <2>4
<1> QED
  BY <1>1, <1>2 DEF RefillStep

LEMMA MatchedStep ==
  ASSUME NoRowWrites, Inv, Moving, SettingsKept, RefillsMatched, [Next]_vars
  PROVE  RefillsMatched'
<1>1. Inv'
  BY StepInv
<1>2. CASE ledger' = ledger /\ proc' = proc
  <2>1. \A u \in User : /\ Due(u)' = Due(u) /\ Refilled(u)' = Refilled(u)
                        /\ Shortages(u)' = Shortages(u)
                        /\ Those(u, RefillKind)' = Those(u, RefillKind)
    BY <1>2 DEF Due, Refilled, Shortages, UsageRecords, Those
  <2> QED
    BY <2>1 DEF RefillsMatched
<1>3. CASE \E r \in Request : RefillStep(r)
  <2> SUFFICES ASSUME NEW u \in User
               PROVE  /\ Initial[u].auto_refill # None =>
                           Cardinality(Due(u)') <= Cardinality(Shortages(u)')
                      /\ Cardinality(Those(u, RefillKind)') = Cardinality(Refilled(u)')
    BY DEF RefillsMatched
  <2> QED
    BY <1>1, <1>3, DueStep, RecoveredStep DEF RefillsMatched
<1> QED
  BY <1>2, <1>3, StepRefills

\* Where nothing writes a whole row, each payment of an auto-refill answers a
\* charge of its own that left the balance below the trigger, and is matched
\* by one credit, unless its task is not done yet, was cut short, or was not
\* told by Stripe that the payment succeeded: those are never credited.
THEOREM RefillsAlwaysAccounted == NoRowWrites => (Spec => []RefillsAccounted)
<1> SUFFICES ASSUME NoRowWrites PROVE Spec => []RefillsAccounted
  OBVIOUS
<1>1. Init => Moving /\ SettingsKept /\ RefillsMatched
  <2> SUFFICES ASSUME Init PROVE SettingsKept /\ RefillsMatched
    BY InitMoving
  <2>1. SettingsKept
    BY NoneAssumption, ResponseAssumption
    DEF Init, SettingsKept, RefillHeldBy, NotSent, Exists, TaskPcs, RefillPcs, Response
  <2>2. ASSUME NEW u \in User
        PROVE  Due(u) = {} /\ Refilled(u) = {} /\ Those(u, RefillKind) = {} /\ Shortages(u) \subseteq {}
    <3>1. Those(u, RefillKind) = {}
      BY OpeningKinds DEF RefillKind
    <3>2. Due(u) = {} /\ Refilled(u) = {}
      BY ResponseAssumption DEF Init, NotSent, Due, Refilled, Owes, Response
    <3>3. Shortages(u) = {}
      BY DEF Init, OpeningLedger, OpeningRecord, Shortages, UsageRecords
    <3> QED
      BY <3>1, <3>2, <3>3
  <2>3. Cardinality({}) = 0
    BY FS_EmptySet
  <2> QED
    BY <2>1, <2>2, <2>3 DEF RefillsMatched
<1>2. Inv /\ Moving /\ SettingsKept /\ RefillsMatched /\ [Next]_vars
        => (Moving /\ SettingsKept /\ RefillsMatched)'
  BY MovingStep, SettingsStep, MatchedStep
<1>3. Inv /\ SettingsKept /\ RefillsMatched => RefillsAccounted
  <2> SUFFICES ASSUME Inv, SettingsKept, RefillsMatched, NEW u \in User,
                      Initial[u].auto_refill # None
               PROVE  /\ Cardinality(Paid(u)) <= Cardinality(Shortages(u))
                      /\ Cardinality(Records(u, "auto_refill"))
                           = Cardinality({r \in Paid(u) : ~At(r, "refill.get") /\ ~At(r, "refill.add")}
                                           \ (Abandoned \cup Unanswered))
    BY DEF RefillsAccounted
  <2>1. Paid(u) \subseteq Due(u)
    BY DEF Paid, Due, Owes, Arg
  <2>2. IsFiniteSet(Due(u)) /\ IsFiniteSet(Paid(u)) /\ Cardinality(Paid(u)) <= Cardinality(Due(u))
    BY <2>1, CountedFinite, FS_Subset
  <2>3. IsFiniteSet(Shortages(u))
    <3>1. DOMAIN ledger[u] = 1..Len(ledger[u]) /\ Len(ledger[u]) \in Nat
      BY DEF Inv, StoreType
    <3>2. IsFiniteSet(1..Len(ledger[u])) /\ Shortages(u) \subseteq DOMAIN ledger[u]
      BY <3>1, FS_Interval DEF Shortages, UsageRecords
    <3> QED
      BY <3>1, <3>2, FS_Subset
  <2>4. Cardinality(Paid(u)) \in Nat /\ Cardinality(Due(u)) \in Nat /\ Cardinality(Shortages(u)) \in Nat
    BY <2>2, <2>3, FS_CardinalityType
  <2>5. Cardinality(Due(u)) <= Cardinality(Shortages(u))
        /\ Cardinality(Those(u, RefillKind)) = Cardinality(Refilled(u))
    BY DEF RefillsMatched
  <2>6. Records(u, "auto_refill") = Those(u, RefillKind)
    BY DEF Records, Those, RefillKind, Inv, StoreType
  <2>7. {r \in Paid(u) : ~At(r, "refill.get") /\ ~At(r, "refill.add")} \ (Abandoned \cup Unanswered)
          = Refilled(u)
    BY DEF SettingsKept, RefillHeldBy, Paid, Refilled, Abandoned, Unanswered, At, Arg
  <2> QED
    BY <2>2, <2>4, <2>5, <2>6, <2>7
<1> QED
  BY <1>1, <1>2, <1>3, Invariant, PTL DEF Spec

-----------------------------------------------------------------------------
(* The monthly backstop.                                                   *)

\* An event's id names one event.
IdsNameEvents ==
  \A c, d \in Calls : c.id \in WebhookId /\ c.id = d.id => c.reason = d.reason

\* Where the calls that grant a month of credits may be, and what the lazy
\* grant knows when it pays: that it is due, and that the day it will mark is
\* the day of its record.
LazyPcs == {"monthly.add", "monthly.reread", "monthly.mark"}

DailyPcs == {"daily_grant", "daily", "daily.reread", "daily.mark", "done"}

LagoPcs == {"lago_webhook", "lago.started", "lago.create", "lago.add", "record", "done"}

OnPath(p) ==
  /\ p.pc # "new" =>
       /\ p.call.op \in AllowanceOps => p.pc \in AllowancePcs \cup {"done"}
       /\ p.call.op = "daily_grant" => p.pc \in DailyPcs
       /\ p.call.op = "lago_webhook" => p.pc \in LagoPcs
  /\ p.pc \in LazyPcs => p.kept = today
  /\ p.pc = "monthly.add" => MonthlyDue(p.copy)

Paths == \A r \in Request : OnPath(proc[r])

\* Only the handlers of the allowances step from their steps.
LEMMA AllowanceSteps ==
  ASSUME NEW r \in Request, Handler(r), proc[r].pc \in AllowancePcs
  PROVE  \/ GetBalance(r) \/ DailyGrantHandler(r) \/ CheckBalance(r)
         \/ TryMonthlyAllowance(r) \/ TryDailyGrant(r)
<1> USE DEF At, AllowancePcs, AllowanceOps
<1>1. Credits(r) => \/ GetBalance(r) \/ DailyGrantHandler(r)
                    \/ TryMonthlyAllowance(r) \/ TryDailyGrant(r)
  BY DEF Credits, Signup, SignupGet, SignupCreate, SignupAdd, SignupReread, SignupMark,
     Referral, ReferralGet, ReferralCreate, ReferralCheck, ReferralInvitee,
     ReferralInviterGet, ReferralInviterCreate, ReferralInviter, AdminAddCredits, AdminGet,
     AdminAdd, ConfigureAutoRefill, ConfigureGet, ConfigurePut, PurchaseCredits,
     PurchaseAsk, PurchaseSession
<1>2. Usage(r) => CheckBalance(r)
  BY DEF Usage, ReportUsage, ReportGet, ReportCreate, BatchGet, UsageExists, UsageCommit,
     Refill, RefillPay, RefillGet, RefillAdd
<1>3. ~Accounts(r) /\ ~Subscribe(r)
  BY DEF Accounts, CreateAccount, CreateGet, CreateCustomer, CreatePut, GetAccount,
     GetAccountGet, GetAccountCreate, DeleteAccountHandler, Subscribe, ZeroPro,
     SubscribeGet, SubscribeCustomer, SubscribePut, SubscribePay, CheckoutAsk, PortalAsk,
     CancelAsk, StripeCall
<1>4. ~Webhooks(r)
  BY DEF Webhooks, StripeReceive, LagoReceive, Resolve, RecordEvent, Checkout, CheckoutGet,
     CheckoutCreate, CheckoutPut, PurchaseGet, PurchaseAdd, SubscriptionUpdate,
     SubscriptionGet, SubscriptionCreate, SubscriptionPut, SubscriptionReferral,
     SubscriptionInvitee, SubscriptionInviterGet, SubscriptionInviterCreate,
     SubscriptionInviter, SubscriptionDeleted, DeletedGet, DeletedPut, PaymentFailed,
     FailedGet, FailedPut, InvoicePaid, InvoiceGet, InvoiceProrate, InvoiceAdd,
     InvoiceReread, InvoiceMark, LagoSubscriptionStarted, LagoGet, LagoCreate, LagoAdd
<1> QED
  BY <1>1, <1>2, <1>3, <1>4 DEF Handler

LEMMA LagoSteps ==
  ASSUME NEW r \in Request, Handler(r), proc[r].pc \in LagoPcs \ {"done"}
  PROVE  LagoReceive(r) \/ LagoSubscriptionStarted(r) \/ RecordEvent(r)
<1> USE DEF At, LagoPcs
<1>1. ~Credits(r)
  BY DEF Credits, GetBalance, DailyGrantHandler, TryMonthlyAllowance, MonthlyCheck,
     MonthlyAdd, MonthlyReread, MonthlyMark, MonthlyRefresh, TryDailyGrant, DailyAdd,
     DailyReread, DailyMark, Signup, SignupGet, SignupCreate, SignupAdd, SignupReread,
     SignupMark, Referral, ReferralGet, ReferralCreate, ReferralCheck, ReferralInvitee,
     ReferralInviterGet, ReferralInviterCreate, ReferralInviter, AdminAddCredits, AdminGet,
     AdminAdd, ConfigureAutoRefill, ConfigureGet, ConfigurePut, PurchaseCredits,
     PurchaseAsk, PurchaseSession
<1>2. ~Usage(r)
  BY DEF Usage, ReportUsage, ReportGet, ReportCreate, BatchGet, UsageExists, UsageCommit,
     Refill, RefillPay, RefillGet, RefillAdd, CheckBalance, CheckGet, CheckCreate
<1>3. ~Accounts(r) /\ ~Subscribe(r)
  BY DEF Accounts, CreateAccount, CreateGet, CreateCustomer, CreatePut, GetAccount,
     GetAccountGet, GetAccountCreate, DeleteAccountHandler, Subscribe, ZeroPro,
     SubscribeGet, SubscribeCustomer, SubscribePut, SubscribePay, CheckoutAsk, PortalAsk,
     CancelAsk, StripeCall
<1>4. Webhooks(r) => LagoReceive(r) \/ LagoSubscriptionStarted(r) \/ RecordEvent(r)
  BY DEF Webhooks, StripeReceive, Resolve, Checkout, CheckoutGet,
     CheckoutCreate, CheckoutPut, PurchaseGet, PurchaseAdd, SubscriptionUpdate,
     SubscriptionGet, SubscriptionCreate, SubscriptionPut, SubscriptionReferral,
     SubscriptionInvitee, SubscriptionInviterGet, SubscriptionInviterCreate,
     SubscriptionInviter, SubscriptionDeleted, DeletedGet, DeletedPut, PaymentFailed,
     FailedGet, FailedPut, InvoicePaid, InvoiceGet, InvoiceProrate, InvoiceAdd,
     InvoiceReread, InvoiceMark
<1> QED
  BY <1>1, <1>2, <1>3, <1>4 DEF Handler

\* ... and that is how they go on.
LEMMA AllowanceMoves ==
  ASSUME Inv, NEW r \in Request, Handler(r), proc[r].pc \in AllowancePcs
  PROVE  \/ proc[r].pc = "daily_grant" /\ GoesTo(r, "daily")
         \/ /\ proc[r].pc \in {"get_balance", "check_balance", "check.create"}
            /\ GoesTo(r, "check.create") \/ GoesTo(r, "monthly")
         \/ /\ proc[r].pc = "monthly" /\ GoesTo(r, "monthly.add")
            /\ MonthlyDue(proc[r].copy)
            /\ proc'[r].copy = proc[r].copy /\ proc'[r].kept = today
         \/ proc[r].pc = "monthly" /\ GoesTo(r, "daily")
         \/ /\ \/ proc[r].pc = "monthly.add" /\ GoesTo(r, "monthly.reread")
               \/ proc[r].pc = "monthly.reread" /\ GoesTo(r, "monthly.mark")
            /\ proc'[r].kept = proc[r].kept
         \/ proc[r].pc = "monthly.mark" /\ GoesTo(r, "monthly.refresh")
         \/ proc[r].pc = "monthly.refresh" /\ GoesTo(r, "daily")
         \/ proc[r].pc = "daily" /\ GoesTo(r, "daily.reread")
         \/ proc[r].pc = "daily.reread" /\ GoesTo(r, "daily.mark")
         \/ GoesTo(r, "done")
<1> USE DEF At, Arg, Copy
<1>1. ProcInv
  BY DEF Inv
<1>2. CASE GetBalance(r) \/ DailyGrantHandler(r)
  BY <1>1, <1>2, Locals DEF GetBalance, DailyGrantHandler, GetOrNotFound, Becomes, GoesTo
<1>3. CASE CheckBalance(r)
  BY <1>1, <1>3, Locals DEF CheckBalance, CheckGet, CheckCreate, GetOrElse, Create, Becomes, GoesTo
<1>4. CASE MonthlyCheck(r)
  BY <1>1, <1>4, Locals DEF MonthlyCheck, Becomes, GoesTo
<1>5. CASE MonthlyAdd(r)
  BY <1>1, <1>5, Locals DEF MonthlyAdd, Credit, NoAccount, Becomes, GoesTo
<1>6. CASE MonthlyReread(r) \/ MonthlyMark(r) \/ MonthlyRefresh(r)
  BY <1>1, <1>6, Locals DEF MonthlyReread, MonthlyMark, MonthlyRefresh, Reread, Becomes, GoesTo
<1>7. CASE TryDailyGrant(r)
  BY <1>1, <1>7, Locals DEF TryDailyGrant, DailyAdd, DailyReread, DailyMark, Credit, NoAccount,
     Reread, Becomes, GoesTo
<1> QED
  BY <1>2, <1>3, <1>4, <1>5, <1>6, <1>7, AllowanceSteps DEF TryMonthlyAllowance

LEMMA LagoMoves ==
  ASSUME Inv, NEW r \in Request, Handler(r), proc[r].pc \in LagoPcs \ {"done"}
  PROVE  \E pc \in LagoPcs : GoesTo(r, pc)
<1> USE DEF At, Arg, Copy, LagoPcs, Done
<1>1. ProcInv
  BY DEF Inv
<1>2. CASE LagoReceive(r)
  BY <1>1, <1>2, Locals DEF LagoReceive, Becomes, GoesTo
<1>3. CASE LagoSubscriptionStarted(r)
  <2>1. CASE LagoGet(r)
    BY <1>1, <2>1, Locals DEF LagoGet, GetOrElse, NoAccount, Becomes, GoesTo
  <2>2. CASE LagoCreate(r)
    BY <1>1, <2>2, Locals DEF LagoCreate, Create, Becomes, GoesTo
  <2>3. CASE LagoAdd(r)
    BY <1>1, <2>3, Locals DEF LagoAdd, Credit, NoAccount, Becomes, GoesTo
  <2> QED
    BY <1>3, <2>1, <2>2, <2>3 DEF LagoSubscriptionStarted
<1>4. CASE RecordEvent(r)
  BY <1>1, <1>4, Locals DEF RecordEvent, Becomes, GoesTo
<1> QED
  BY <1>2, <1>3, <1>4, LagoSteps

LEMMA PathsStep ==
  ASSUME ~Overnight, Inv, Serial, Serial', Paths, [Next]_vars
  PROVE  Paths'
<1>1. ASSUME NEW s \in Request, proc'[s] = proc[s], today' = today PROVE OnPath(proc[s])'
  BY <1>1 DEF Paths, OnPath, MonthlyDue
<1>2. ASSUME NEW s \in Request, proc'[s].pc = "done" PROVE OnPath(proc[s])'
  BY <1>2 DEF OnPath, LazyPcs, DailyPcs, LagoPcs
<1>3. CASE UNCHANGED vars
  BY <1>1, <1>3 DEF Paths, vars
<1>4. CASE Tick
  <2>1. \A r \in Request : ~Busy(r) /\ proc' = proc
    BY <1>4 DEF Tick, Running, Serial, OneRuns, Busy
  <2> QED
    BY <2>1 DEF Paths, OnPath, Busy, RefillPcs, LazyPcs, AllowancePcs, AllowanceOps, DailyPcs, LagoPcs
<1>5. ASSUME NEW r \in Request, Send(r) PROVE Paths'
  <2>1. PICK c \in Calls : proc' = [proc EXCEPT ![r].pc = c.op, ![r].call = c]
    BY <1>5 DEF Send
  <2>2. /\ proc'[r].pc = c.op /\ proc'[r].call = c /\ \A t \in Request \ {r} : proc'[t] = proc[t]
        /\ today' = today
    BY <1>5, <2>1 DEF Inv, ProcInv, Proc, ProcAt, Send, storeVars
  <2>3. c.op \in Routes
    BY CallsAssumption DEF WellFormed
  <2>4. OnPath(proc[r])'
    BY <2>2, <2>3 DEF OnPath, Routes, LazyPcs, AllowancePcs, AllowanceOps, DailyPcs, LagoPcs
  <2> QED
    BY <1>1, <2>2, <2>4 DEF Paths
<1>6. ASSUME NEW r \in Request, Abandon(r) PROVE Paths'
  <2>1. GoesTo(r, "done") /\ today' = today /\ \A t \in Request \ {r} : proc'[t] = proc[t]
    BY <1>6, Locals DEF Abandon, Becomes, GoesTo, Inv, storeVars
  <2> QED
    BY <1>1, <1>2, <2>1 DEF Paths, GoesTo
<1>7. ASSUME NEW r \in Request, Handler(r), today' = today PROVE Paths'
  <2>1. /\ \A t \in Request \ {r} : proc'[t] = proc[t]
        /\ proc'[r].call = proc[r].call /\ proc[r].pc \notin {"new", "done"}
    BY <1>7, HandlerBusy, HandlerRecords DEF Serial, Inv, Goes, Becomes
  <2>2. CallAt(proc[r])' /\ OnPath(proc[r]) /\ Fresh(proc[r])
    BY DEF Serial, Paths
  <2>3. ASSUME proc[r].call.op \in AllowanceOps PROVE OnPath(proc[r])'
    <3>1. proc[r].pc \in AllowancePcs
      BY <2>1, <2>2, <2>3 DEF OnPath
    <3>2. \/ proc[r].pc \in DailyPcs /\ proc'[r].pc \in DailyPcs
          \/ proc[r].pc \notin DailyPcs
      BY <1>7, <3>1, AllowanceMoves DEF GoesTo, DailyPcs
    <3>3. proc'[r].pc \in AllowancePcs \cup {"done"}
      BY <1>7, <3>1, AllowanceMoves DEF GoesTo, AllowancePcs, AllowanceOps
    <3>4. /\ proc'[r].pc \in LazyPcs => proc'[r].kept = today
          /\ proc'[r].pc = "monthly.add" => MonthlyDue(proc'[r].copy)
      BY <1>7, <2>2, <3>1, AllowanceMoves DEF GoesTo, OnPath, LazyPcs
    <3>5. MonthlyDue(proc[r].copy)' <=> MonthlyDue(proc'[r].copy)
      BY <1>7 DEF MonthlyDue
    <3>6. proc[r].call.op # "lago_webhook"
      BY <2>3 DEF AllowanceOps
    <3>7. proc[r].call.op = "daily_grant" => proc[r].pc \in DailyPcs
      BY <2>1, <2>2 DEF OnPath
    <3> QED
      BY <1>7, <2>1, <3>2, <3>3, <3>4, <3>5, <3>6, <3>7 DEF OnPath
  <2>4. ASSUME proc[r].call.op = "lago_webhook" PROVE OnPath(proc[r])'
    <3>1. proc[r].pc \in LagoPcs \ {"done"}
      BY <2>1, <2>2, <2>4 DEF OnPath
    <3>2. proc'[r].pc \in LagoPcs
      BY <1>7, <3>1, LagoMoves DEF GoesTo
    <3> QED
      BY <2>1, <2>4, <3>2 DEF OnPath, AllowanceOps, LagoPcs, LazyPcs
  <2>5. ASSUME proc[r].call.op \notin AllowanceOps \cup {"lago_webhook"} PROVE OnPath(proc[r])'
    <3>1. proc'[r].pc \notin AllowancePcs
      BY <2>1, <2>2, <2>5 DEF CallAt
    <3> QED
      BY <2>1, <2>5, <3>1 DEF OnPath, AllowanceOps, AllowancePcs, LazyPcs
  <2>6. OnPath(proc[r])'
    BY <2>3, <2>4, <2>5
  <2> QED
    BY <1>1, <1>7, <2>1, <2>6 DEF Paths
<1>8. Effect => today' = today
  BY DEF Effect, storeVars, PutAccount, AddCredits, CommitUsage, DeleteAccount, RecordWebhookEvent
<1> QED
  BY <1>3, <1>4, <1>5, <1>6, <1>7, <1>8, StepEffect DEF Next, Terminating

-----------------------------------------------------------------------------
(* The records of whole months.                                            *)

FullMonths(u) == {i \in Records(u, "monthly_allowance") : FullMonth(u, i)}

\* A record is added: it is a whole month or too early only if it can be.
LEMMA MonthsAppended ==
  ASSUME Inv, NEW v \in User, NEW type, NEW amount, NEW after, NEW ref,
         Record(v, type, amount, after, ref), NEW u \in User
  PROVE  /\ \E x : TooEarly(u)' \subseteq TooEarly(u) \cup {x}
         /\ \A i \in FullMonths(u) : i \in DOMAIN ledger'[u] /\ ledger'[u][i] = ledger[u][i]
         /\ u # v \/ type # "monthly_allowance" \/ ref # None =>
              TooEarly(u)' \subseteq TooEarly(u)
         /\ (\A i \in FullMonths(u) : ~(today - ledger[u][i].day < MonthDays)) =>
              TooEarly(u)' \subseteq TooEarly(u)
         /\ \/ u # v \/ type # "monthly_allowance"
            \/ ref # None /\ ~(\E c \in Calls : c.id = ref /\ c.reason \in FullReasons)
            => FullMonths(u)' \subseteq FullMonths(u)
<1> DEFINE x == Len(ledger[u]) + 1
<1>1. CASE u # v
  <2>1. ledger'[u] = ledger[u]
    BY <1>1, Appended
  <2>2. TooEarly(u)' = TooEarly(u) /\ FullMonths(u)' = FullMonths(u)
    BY <2>1 DEF TooEarly, FullMonths, Records, FullMonth
  <2>3. FullMonths(u) \subseteq DOMAIN ledger[u]
    BY DEF FullMonths, Records
  <2> QED
    BY <1>1, <2>1, <2>2, <2>3
<1>2. CASE u = v
  <2>1. /\ DOMAIN ledger'[u] = 1..x /\ Len(ledger[u]) \in Nat
        /\ DOMAIN ledger[u] = 1..Len(ledger[u])
        /\ \A i \in 1..Len(ledger[u]) : ledger'[u][i] = ledger[u][i]
        /\ ledger'[u][x].type = type /\ ledger'[u][x].ref = ref /\ ledger'[u][x].day = today
    BY <1>2, Appended
  <2> HIDE DEF x
  <2>2. /\ \A i \in DOMAIN ledger'[u] : i = x \/ (i \in DOMAIN ledger[u] /\ i # x)
        /\ \A i \in DOMAIN ledger[u] : /\ i \in DOMAIN ledger'[u] /\ i # x
                                      /\ ledger'[u][i] = ledger[u][i] /\ ~(x < i)
    BY <2>1 DEF x
  <2>3. \A i \in FullMonths(u)' : i = x \/ i \in FullMonths(u)
    BY <2>2 DEF FullMonths, Records, FullMonth
  <2>4. /\ \A j \in TooEarly(u)' : /\ j \in DOMAIN ledger'[u]
                                   /\ ledger'[u][j].type = "monthly_allowance"
                                   /\ ledger'[u][j].ref = None
                                   /\ \E i \in FullMonths(u)' :
                                        i < j /\ ledger'[u][j].day - ledger'[u][i].day < MonthDays
    BY DEF TooEarly, FullMonths, Records
  <2>5. FullMonths(u) \subseteq DOMAIN ledger[u]
    BY DEF FullMonths, Records
  <2>6. \A j \in TooEarly(u)' : j = x \/ j \in TooEarly(u)
    <3> SUFFICES ASSUME NEW j \in TooEarly(u)', j # x PROVE j \in TooEarly(u)
      OBVIOUS
    <3>1. j \in DOMAIN ledger[u] /\ ledger'[u][j] = ledger[u][j] /\ ~(x < j)
      BY <2>2, <2>4
    <3>2. PICK i \in FullMonths(u)' : i < j /\ ledger'[u][j].day - ledger'[u][i].day < MonthDays
      BY <2>4
    <3>3. i \in FullMonths(u) /\ ledger'[u][i] = ledger[u][i]
      BY <2>2, <2>3, <2>5, <3>1, <3>2
    <3>4. ledger[u][j].type = "monthly_allowance" /\ ledger[u][j].ref = None
      BY <2>4, <3>1
    <3> QED
      BY <3>1, <3>2, <3>3, <3>4 DEF TooEarly, FullMonths, Records
  <2>7. x \in TooEarly(u)' =>
          /\ type = "monthly_allowance" /\ ref = None
          /\ \E i \in FullMonths(u) : today - ledger[u][i].day < MonthDays
    <3> SUFFICES ASSUME x \in TooEarly(u)'
                 PROVE  \E i \in FullMonths(u) : today - ledger[u][i].day < MonthDays
      BY <2>1, <2>4
    <3>1. PICK i \in FullMonths(u)' : i < x /\ ledger'[u][x].day - ledger'[u][i].day < MonthDays
      BY <2>4
    <3>2. i # x
      BY <2>1, <3>1 DEF x
    <3>3. i \in FullMonths(u) /\ ledger'[u][i] = ledger[u][i]
      BY <2>2, <2>3, <2>5, <3>2
    <3> QED
      BY <2>1, <3>1, <3>3
  <2>8. x \in FullMonths(u)' =>
          /\ type = "monthly_allowance"
          /\ ref = None \/ \E c \in Calls : c.id = ref /\ c.reason \in FullReasons
    BY <2>1 DEF FullMonths, Records, FullMonth
  <2> QED
    BY <1>2, <2>2, <2>3, <2>5, <2>6, <2>7, <2>8
<1> QED
  BY <1>1, <1>2

LEMMA PathsKept == OneAtATime /\ ~Overnight => (Spec => []Paths)
<1> SUFFICES ASSUME OneAtATime, ~Overnight PROVE Spec => []Paths
  OBVIOUS
<1>1. Init => Paths
  BY DEF Init, NotSent, Paths, OnPath, LazyPcs
<1>2. Inv /\ Serial /\ Serial' /\ Paths /\ [Next]_vars => Paths'
  BY PathsStep
<1> QED
  BY <1>1, <1>2, Invariant, CopiesStayFresh, PTL DEF Spec

-----------------------------------------------------------------------------
(* ... and the mark that keeps the next one away.                          *)

MonthMarkPcs == {"monthly.reread", "monthly.mark", "invoice.reread", "invoice.mark"}

\* The account is marked with the day of each whole month or a later one, or is
\* about to be marked with today.
MonthToken(u) ==
  \/ \A i \in FullMonths(u) : /\ Exists(u) /\ accounts[u].last_monthly # None
                              /\ accounts[u].last_monthly >= ledger[u][i].day
  \/ \E r \in Request : proc[r].pc \in MonthMarkPcs /\ proc[r].call.user = u

MonthCut(u) == AbandonedCalls(u, {"get_balance", "check_balance", "stripe_webhook"})

\* Index 0 stands for the record that may come too early when the token is
\* lost, which is always after a request was cut short.
Premature(u) == TooEarly(u) \cup {0}

BackstopWithin == \A u \in User : Within(Premature(u), MonthCut(u), MonthToken(u))

\* No other handler steps between a whole month and its mark.
LEMMA MonthMarkingSteps ==
  ASSUME NEW r \in Request, Handler(r), proc[r].pc \in MonthMarkPcs
  PROVE  MonthlyReread(r) \/ MonthlyMark(r) \/ InvoiceReread(r) \/ InvoiceMark(r)
<1> USE DEF At, MonthMarkPcs
<1>1. Credits(r) => MonthlyReread(r) \/ MonthlyMark(r)
  BY DEF Credits, GetBalance, DailyGrantHandler, TryMonthlyAllowance, MonthlyCheck,
     MonthlyAdd, MonthlyRefresh, TryDailyGrant, DailyAdd,
     DailyReread, DailyMark, Signup, SignupGet, SignupCreate, SignupAdd, SignupReread,
     SignupMark, Referral, ReferralGet, ReferralCreate, ReferralCheck, ReferralInvitee,
     ReferralInviterGet, ReferralInviterCreate, ReferralInviter, AdminAddCredits, AdminGet,
     AdminAdd, ConfigureAutoRefill, ConfigureGet, ConfigurePut, PurchaseCredits,
     PurchaseAsk, PurchaseSession
<1>2. Usage(r) => MonthlyReread(r) \/ MonthlyMark(r)
  BY DEF Usage, ReportUsage, ReportGet, ReportCreate, BatchGet, UsageExists, UsageCommit,
     Refill, RefillPay, RefillGet, RefillAdd, CheckBalance, CheckGet, CheckCreate
<1>3. ~Accounts(r) /\ ~Subscribe(r)
  BY DEF Accounts, CreateAccount, CreateGet, CreateCustomer, CreatePut, GetAccount,
     GetAccountGet, GetAccountCreate, DeleteAccountHandler, Subscribe, ZeroPro,
     SubscribeGet, SubscribeCustomer, SubscribePut, SubscribePay, CheckoutAsk, PortalAsk,
     CancelAsk, StripeCall
<1>4. Webhooks(r) => InvoiceReread(r) \/ InvoiceMark(r)
  BY DEF Webhooks, StripeReceive, LagoReceive, Resolve, RecordEvent, Checkout, CheckoutGet,
     CheckoutCreate, CheckoutPut, PurchaseGet, PurchaseAdd, SubscriptionUpdate,
     SubscriptionGet, SubscriptionCreate, SubscriptionPut, SubscriptionReferral,
     SubscriptionInvitee, SubscriptionInviterGet, SubscriptionInviterCreate,
     SubscriptionInviter, SubscriptionDeleted, DeletedGet, DeletedPut, PaymentFailed,
     FailedGet, FailedPut, InvoicePaid, InvoiceGet, InvoiceProrate, InvoiceAdd,
     LagoSubscriptionStarted, LagoGet, LagoCreate, LagoAdd
<1> QED
  BY <1>1, <1>2, <1>3, <1>4 DEF Handler

\* Whose request it is that is about to mark an account with a month.
LEMMA MonthMarkingCall ==
  ASSUME Inv, Serial, Paths, NEW r \in Request, proc[r].pc \in MonthMarkPcs
  PROVE  /\ proc[r].call.op \in {"get_balance", "check_balance", "stripe_webhook"}
         /\ proc[r].call.user \in User /\ proc[r].copy \in Account /\ today \in Nat
         /\ proc[r].pc = "monthly.mark" => proc[r].kept = today
<1>1. /\ CallAt(proc[r]) /\ OnPath(proc[r]) /\ proc[r].pc # "new"
      /\ WellFormed(proc[r].call) /\ HoldsCall(proc[r].pc, proc[r].call)
      /\ proc[r].call.user \in User /\ proc[r].copy \in Account /\ today \in Nat
  BY Stepping DEF MonthMarkPcs, Serial, Paths, CopyPcs, Sound
<1>2. CASE proc[r].pc \in {"monthly.reread", "monthly.mark"}
  BY <1>1, <1>2 DEF CallAt, OnPath, AllowancePcs, AllowanceOps, DailyPcs, LazyPcs
<1>3. CASE proc[r].pc \in {"invoice.reread", "invoice.mark"}
  <2>1. proc[r].call.id \in WebhookId
    BY <1>1, <1>3 DEF HoldsCall, WebhookPcs
  <2>2. proc[r].call.op \in {"stripe_webhook", "lago_webhook"}
    BY <1>1, <2>1, NoneAssumption DEF WellFormed
  <2>3. proc[r].call.op # "lago_webhook"
    BY <1>1, <1>3 DEF OnPath, LagoPcs
  <2> QED
    BY <1>1, <1>3, <2>2, <2>3
<1> QED
  BY <1>2, <1>3 DEF MonthMarkPcs

\* It goes on to its mark, makes it, or is cut short.
LEMMA MonthMarkingStep ==
  ASSUME Inv, Serial, Paths, [Next]_vars, NEW r \in Request, NEW u \in User,
         proc[r].call.user = u, proc[r].pc \in MonthMarkPcs
  PROVE  \/ proc'[r] = proc[r]
         \/ /\ r \in Abandoned' /\ r \notin Abandoned /\ proc'[r].call = proc[r].call
            /\ proc[r].call.op \in {"get_balance", "check_balance", "stripe_webhook"}
         \/ GoesTo(r, "monthly.mark") \/ GoesTo(r, "invoice.mark")
         \/ Exists(u)' /\ accounts'[u].last_monthly = today
<1>1. Busy(r) /\ OneRuns /\ ProcInv
  BY DEF Serial, Busy, RefillPcs, Inv, MonthMarkPcs
<1>2. CASE Abandon(r) /\ r \in Abandoned' /\ r \notin Abandoned /\ proc'[r].call = proc[r].call
  BY <1>2, MonthMarkingCall
<1>3. CASE MonthlyReread(r) \/ InvoiceReread(r)
  BY <1>3, HelpersRead DEF MonthlyReread, InvoiceReread, At, Arg
<1>4. CASE MonthlyMark(r) \/ InvoiceMark(r)
  <2> DEFINE a == [proc[r].copy EXCEPT !.last_monthly = today]
  <2>1. accounts'[u] = a
    BY <1>4, MonthMarkingCall DEF MonthlyMark, InvoiceMark, At, PutAccount, Arg, Copy, Inv, StoreType
  <2>2. a \in Account /\ a.last_monthly = today
    BY MonthMarkingCall DEF Account, Day
  <2> HIDE DEF a
  <2> QED
    BY <2>1, <2>2, NoneAssumption DEF Exists
<1> QED
  BY <1>1, <1>2, <1>3, <1>4, RunsOn, MonthMarkingSteps

\* The mark stays while no whole month is added.
LEMMA MonthTokenKept ==
  ASSUME Inv, Serial, Paths, DaysPast, LedgerKeepsAccount', [Next]_vars, NEW u \in User,
         MonthToken(u), FullMonths(u)' \subseteq FullMonths(u),
         \A i \in FullMonths(u)' : ledger'[u][i] = ledger[u][i]
  PROVE  MonthToken(u)' \/ \E x \in MonthCut(u)' : x \notin MonthCut(u)
<1>0. /\ today # None /\ today \in Nat
      /\ \A i \in FullMonths(u) : ledger[u][i].day <= today /\ ledger[u][i].day \in Nat
  <2>1. \A i \in DOMAIN ledger[u] : ledger[u][i] \in Transaction
    BY DEF Inv, StoreType
  <2> QED
    BY <2>1, NoneAssumption DEF Inv, StoreType, Day, DaysPast, FullMonths, Records, Transaction
<1>1. CASE Exists(u)' /\ accounts'[u].last_monthly = today
  BY <1>0, <1>1 DEF MonthToken
<1>2. CASE \A i \in FullMonths(u) : /\ Exists(u) /\ accounts[u].last_monthly # None
                                    /\ accounts[u].last_monthly >= ledger[u][i].day
  <2>1. CASE FullMonths(u)' = {}
    BY <2>1 DEF MonthToken
  <2>2. CASE FullMonths(u)' # {}
    <3>1. Exists(u) /\ accounts[u].last_monthly # None
      BY <1>2, <2>2
    <3>2. Exists(u)'
      BY <2>2 DEF LedgerKeepsAccount, FullMonths, Records, Exists
    <3>3. CASE accounts'[u].last_monthly = accounts[u].last_monthly
      BY <1>2, <3>1, <3>2, <3>3 DEF MonthToken
    <3>4. ASSUME NEW r \in Request, MonthlyMark(r), accounts'[u].last_monthly = proc[r].kept
          PROVE  accounts'[u].last_monthly = today
      BY <3>4, MonthMarkingCall DEF MonthlyMark, At, MonthMarkPcs
    <3> QED
      BY <1>1, <3>1, <3>2, <3>3, <3>4, MarksStep
  <2> QED
    BY <2>1, <2>2
<1>3. ASSUME NEW r \in Request, proc[r].pc \in MonthMarkPcs, proc[r].call.user = u
      PROVE  MonthToken(u)' \/ \E x \in MonthCut(u)' : x \notin MonthCut(u)
  <2>1. CASE r \in Abandoned' /\ r \notin Abandoned /\ proc'[r].call = proc[r].call
             /\ proc[r].call.op \in {"get_balance", "check_balance", "stripe_webhook"}
    BY <1>3, <2>1 DEF MonthCut, AbandonedCalls
  <2>2. CASE proc'[r] = proc[r] \/ GoesTo(r, "monthly.mark") \/ GoesTo(r, "invoice.mark")
    BY <1>3, <2>2 DEF GoesTo, MonthToken, MonthMarkPcs
  <2> QED
    BY <1>1, <1>3, <2>1, <2>2, MonthMarkingStep
<1> QED
  BY <1>2, <1>3 DEF MonthToken

\* A lazy grant while the mark holds is not too early: it is due by that mark.
LEMMA LazyInTime ==
  ASSUME Inv, Serial, Paths, NEW r \in Request, NEW u \in User, proc[r].pc = "monthly.add",
         proc[r].call.user = u, Exists(u), MonthToken(u)
  PROVE  \A i \in FullMonths(u) : ~(today - ledger[u][i].day < MonthDays)
<1>1. \A s \in Request : proc[s].pc \notin MonthMarkPcs
  BY DEF Serial, OneRuns, Busy, RefillPcs, MonthMarkPcs
<1>2. MonthlyDue(proc[r].copy) /\ proc[r].copy.last_monthly = accounts[u].last_monthly
  BY DEF Paths, OnPath, Serial, Fresh, FreshPcs, AsRow, SameMarks
<1>3. accounts[u].last_monthly \in Nat \cup {None} /\ today \in Nat /\ MonthDays \in Nat
  BY GrantAssumption DEF Inv, StoreType, Exists, Account, Day
<1>4. \A i \in FullMonths(u) : ledger[u][i].day \in Nat
  <2>1. \A i \in DOMAIN ledger[u] : ledger[u][i] \in Transaction
    BY DEF Inv, StoreType
  <2> QED
    BY <2>1 DEF FullMonths, Records, Transaction, Day
<1> QED
  BY <1>1, <1>2, <1>3, <1>4 DEF MonthToken, MonthlyDue

\* What a step adds: nothing that counts; or a lazy grant, which is too early
\* only where there is no mark, and is about to make one; or an invoice's month.
LEMMA MonthsStep ==
  ASSUME IdsNameEvents, Inv, AllSent, Serial, Paths, [Next]_vars, NEW u \in User
  PROVE  \/ /\ TooEarly(u)' \subseteq TooEarly(u) /\ FullMonths(u)' \subseteq FullMonths(u)
            /\ \A i \in FullMonths(u)' : ledger'[u][i] = ledger[u][i]
         \/ TooEarly(u)' \subseteq TooEarly(u) /\ MonthToken(u)'
         \/ /\ \E x : TooEarly(u)' \subseteq TooEarly(u) \cup {x}
            /\ ~MonthToken(u) /\ MonthToken(u)'
<1>1. CASE ledger' = ledger
  BY <1>1 DEF TooEarly, FullMonths, Records, FullMonth
<1>2. ASSUME NEW v \in User, NEW cost, NEW e, CommitUsage(v, cost, e)
      PROVE  /\ TooEarly(u)' \subseteq TooEarly(u) /\ FullMonths(u)' \subseteq FullMonths(u)
             /\ \A i \in FullMonths(u)' : ledger'[u][i] = ledger[u][i]
  <2>1. Record(v, "usage", -cost, accounts[v].balance - cost, e)
    BY <1>2 DEF CommitUsage
  <2> QED
    BY <2>1, MonthsAppended
<1>3. ASSUME NEW r \in Request, Handler(r), NEW v \in User, NEW n, NEW type, NEW ref,
             AddCredits(v, n, type, ref), Source(r, v, type, ref)
      PROVE  \/ /\ TooEarly(u)' \subseteq TooEarly(u) /\ FullMonths(u)' \subseteq FullMonths(u)
                /\ \A i \in FullMonths(u)' : ledger'[u][i] = ledger[u][i]
             \/ TooEarly(u)' \subseteq TooEarly(u) /\ MonthToken(u)'
             \/ /\ \E x : TooEarly(u)' \subseteq TooEarly(u) \cup {x}
                /\ ~MonthToken(u) /\ MonthToken(u)'
  <2>1. Record(v, type, n, accounts[v].balance + n, ref) /\ Exists(v)
    BY <1>3 DEF AddCredits
  <2>2. CASE u # v \/ type # "monthly_allowance"
    BY <2>1, <2>2, MonthsAppended
  <2>3. CASE u = v /\ type = "monthly_allowance"
    <3>1. /\ u = proc[r].call.user /\ ref = proc[r].call.id
          /\ \/ proc[r].pc = "monthly.add" /\ GoesTo(r, "monthly.reread")
             \/ /\ proc[r].pc = "invoice.add"
                /\ IF proc[r].call.reason \in FullReasons
                   THEN GoesTo(r, "invoice.reread") ELSE GoesTo(r, "record")
      BY <1>3, <2>3 DEF Source
    <3>2. CASE proc[r].pc = "monthly.add" /\ GoesTo(r, "monthly.reread")
      <4>1. MonthToken(u)'
        BY <3>1, <3>2 DEF GoesTo, MonthToken, MonthMarkPcs
      <4>2. MonthToken(u) => TooEarly(u)' \subseteq TooEarly(u)
        BY <2>1, <2>3, <3>1, <3>2, LazyInTime, MonthsAppended
      <4>3. \E x : TooEarly(u)' \subseteq TooEarly(u) \cup {x}
        BY <2>1, MonthsAppended
      <4> QED
        BY <4>1, <4>2, <4>3
    <3>3. CASE proc[r].pc = "invoice.add"
      <4>1. ref \in WebhookId /\ ref # None /\ proc[r].call \in Calls
        <5>1. proc[r].pc # "new"
          BY <3>3
        <5>2. HoldsCall(proc[r].pc, proc[r].call) /\ proc[r].call \in Calls
          BY <5>1, Stepping DEF AllSent
        <5> QED
          BY <3>1, <3>3, <5>2, NoneAssumption DEF HoldsCall, WebhookPcs
      <4>2. TooEarly(u)' \subseteq TooEarly(u)
        BY <2>1, <4>1, MonthsAppended
      <4>3. CASE proc[r].call.reason \in FullReasons
        BY <3>1, <3>3, <4>2, <4>3 DEF GoesTo, MonthToken, MonthMarkPcs
      <4>4. CASE proc[r].call.reason \notin FullReasons
        <5>1. ~(\E c \in Calls : c.id = ref /\ c.reason \in FullReasons)
          BY <3>1, <4>1, <4>4 DEF IdsNameEvents
        <5> QED
          BY <2>1, <4>1, <4>2, <5>1, MonthsAppended
      <4> QED
        BY <4>3, <4>4
    <3> QED
      BY <3>1, <3>2, <3>3
  <2> QED
    BY <2>2, <2>3
<1>4. ASSUME NEW r \in Request, Handler(r) PROVE Sourced(r)
  BY <1>4, HandlerSourced DEF Serial
<1>5. ledger' = ledger \/ \E r \in Request : Handler(r) /\ Sourced(r)
  BY <1>4 DEF Next, Send, Abandon, Tick, Terminating, vars, storeVars
<1> QED
  BY <1>1, <1>2, <1>3, <1>5 DEF Sourced

LEMMA TooEarlyFinite ==
  ASSUME Inv, NEW u \in User
  PROVE  /\ IsFiniteSet(TooEarly(u)) /\ 0 \notin TooEarly(u)
         /\ IsFiniteSet(Premature(u)) /\ Cardinality(Premature(u)) = Cardinality(TooEarly(u)) + 1
<1>1. DOMAIN ledger[u] = 1..Len(ledger[u]) /\ Len(ledger[u]) \in Nat
  BY DEF Inv, StoreType
<1>2. TooEarly(u) \subseteq 1..Len(ledger[u])
  BY <1>1 DEF TooEarly, Records
<1>3. IsFiniteSet(1..Len(ledger[u])) /\ 0 \notin 1..Len(ledger[u])
  BY <1>1, FS_Interval
<1>4. IsFiniteSet(TooEarly(u)) /\ 0 \notin TooEarly(u)
  BY <1>2, <1>3, FS_Subset
<1> QED
  BY <1>4, FS_AddElement DEF Premature

LEMMA BackstopStep ==
  ASSUME IdsNameEvents, Inv, AllSent, Serial, Paths, DaysPast, LedgerKeepsAccount',
         [Next]_vars,         BackstopWithin
  PROVE  BackstopWithin'
<1> SUFFICES ASSUME NEW u \in User
             PROVE  Within(Premature(u)', MonthCut(u)', MonthToken(u)')
  BY DEF BackstopWithin, Within
<1> DEFINE N == Premature(u)
           C == MonthCut(u)
           token == MonthToken(u)
<1>1. /\ IsFiniteSet(N) /\ IsFiniteSet(C') /\ C \subseteq C'
      /\ token \in BOOLEAN /\ token' \in BOOLEAN
  <2>1. C \subseteq C'
    BY CutForGood DEF MonthCut, AbandonedCalls, Serial
  <2>2. IsFiniteSet(C')
    BY CutFinite, FS_Subset DEF MonthCut, AbandonedCalls
  <2> QED
    BY <2>1, <2>2, TooEarlyFinite DEF MonthToken
<1>2. \/ N' \subseteq N /\ (token => token' \/ \E x \in C' : x \notin C)
      \/ ~token /\ token' /\ \E x : N' \subseteq N \cup {x}
  BY MonthsStep, MonthTokenKept DEF Premature
<1>3. Within(N, C, token)
  BY DEF BackstopWithin
<1> HIDE DEF N, C, token
<1>4. Within(N', C', token')
  BY <1>1, <1>2, <1>3, WithinStep
<1> QED
  BY <1>4 DEF N, C, token

\* When requests run one at a time and no midnight falls while one runs, the
\* lazy allowance keeps its distance from every whole month granted before, but
\* for one for each request that was cut short between a grant and its mark.
THEOREM BackstopKeepsApart ==
  OneAtATime /\ ~Overnight /\ IdsNameEvents => (Spec => []BackstopApart)
<1> SUFFICES ASSUME OneAtATime, ~Overnight, IdsNameEvents PROVE Spec => []BackstopApart
  OBVIOUS
<1>1. Init => BackstopWithin /\ DaysPast
  <2> SUFFICES ASSUME Init PROVE BackstopWithin /\ DaysPast
    OBVIOUS
  <2>1. ASSUME NEW u \in User PROVE Within(Premature(u), MonthCut(u), MonthToken(u))
    <3>1. \A i \in DOMAIN ledger[u] : ledger[u][i].type # "monthly_allowance"
      BY DEF Init, OpeningLedger, OpeningRecord
    <3>2. TooEarly(u) = {} /\ FullMonths(u) = {} /\ MonthCut(u) = {}
      BY <3>1 DEF TooEarly, FullMonths, Records, Init, MonthCut, AbandonedCalls, Abandoned, NotSent
    <3>3. Premature(u) = {0} /\ MonthToken(u)
      BY <3>2 DEF Premature, MonthToken
    <3>4. Cardinality({0}) = 1 /\ Cardinality({}) = 0
      BY FS_EmptySet, FS_Singleton
    <3> QED
      BY <3>2, <3>3, <3>4 DEF Within
  <2>2. DaysPast
    BY DEF Init, DaysPast, OpeningLedger, OpeningRecord
  <2> QED
    BY <2>1, <2>2 DEF BackstopWithin
<1>2. /\ Inv /\ AllSent /\ Serial /\ Paths /\ DaysPast /\ LedgerKeepsAccount' /\ BackstopWithin
           /\ [Next]_vars => BackstopWithin'
      /\ Inv /\ DaysPast /\ [Next]_vars => DaysPast'
  BY BackstopStep, DaysPastStep
<1>3. Inv /\ BackstopWithin => BackstopApart
  <2> SUFFICES ASSUME Inv, BackstopWithin, NEW u \in User
               PROVE  Cardinality(TooEarly(u)) <= Cardinality(MonthCut(u))
    BY DEF BackstopApart, MonthCut
  <2>1. IsFiniteSet(MonthCut(u))
    BY CutFinite, FS_Subset DEF MonthCut, AbandonedCalls
  <2>2. MonthToken(u) \in BOOLEAN
    BY DEF MonthToken
  <2>3. Cardinality(Premature(u)) <= 1 + Cardinality(MonthCut(u))
    BY <2>1, <2>2, TooEarlyFinite, WithinOne DEF BackstopWithin
  <2>4. Cardinality(TooEarly(u)) \in Nat /\ Cardinality(MonthCut(u)) \in Nat
    BY <2>1, TooEarlyFinite, FS_CardinalityType
  <2> QED
    BY <2>3, <2>4, TooEarlyFinite
<1>4. Spec => []Paths
  BY PathsKept
<1> QED
  BY <1>1, <1>2, <1>3, <1>4, Invariant, AllSentKept, CopiesStayFresh, AccountsKept, PTL DEF Spec

=============================================================================
