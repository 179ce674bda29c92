----------------------------- MODULE SerialProofs ------------------------------
(***************************************************************************)
(* Requests that run one at a time, for all users, calls and bounds: what  *)
(* a handler has read is then still so, and each grant is bounded by the   *)
(* requests that were cut short.  The tasks that refill accounts may still *)
(* run beside them.                                                        *)
(***************************************************************************)
EXTENDS BillingProofs, FiniteSetTheorems

OneAtATime == Concurrency <= 1

-----------------------------------------------------------------------------
(* The invariant.                                                          *)

Busy(r) == proc[r].pc \notin {"new", "done"} \cup RefillPcs

OneRuns ==
  /\ \A r, s \in Request : Busy(r) /\ Busy(s) => r = s
  /\ \A r \in Request : Busy(r) \/ proc[r].pc = "new" => proc[r].answer = None

\* The steps of a handler that go by its copy, or write it.
FreshPcs == {"monthly", "monthly.add", "daily", "signup.add", "monthly.mark", "daily.mark", "signup.mark",
             "configure.put", "create.put", "checkout.put", "subscribe.customer",
             "subscribe.put", "subscription.put", "deleted.put", "failed.put", "invoice.mark"}

\* ... those that create the account of the user, or of another.
AbsentPcs == {"signup.create", "referral.create", "report.create", "check.create",
              "create.customer", "get_account.create", "checkout.create",
              "subscription.create", "lago.create"}

\* ... those that reward a user who had no reward yet,
RewardPcs == {"referral.invitee", "subscription.invitee"}

\* ... that read an account again, and fall back on the copy if it is gone,
RereadPcs == {"signup.reread", "monthly.reread", "monthly.refresh", "daily.reread",
              "invoice.reread"}

\* ... and that sell a subscription to a user who has none.
SalePcs == {"subscribe.customer", "subscribe.put", "subscribe.pay", "checkout.session"}

SubscriptionOf(u) == IF Exists(u) THEN accounts[u].subscription ELSE None

\* What the grants go by, and the subscription.
SameMarks(a, b) ==
  /\ a.subscription = b.subscription
  /\ a.signup_grant = b.signup_grant
  /\ a.last_daily = b.last_daily
  /\ a.last_monthly = b.last_monthly

\* A copy that may be written back.
AsRow(a, u) == IF Exists(u) THEN SameMarks(a, accounts[u]) ELSE a.subscription = None

Fresh(p) ==
  /\ p.pc \in FreshPcs => AsRow(p.copy, p.call.user)
  /\ p.pc \in RereadPcs => Exists(p.call.user)
  /\ p.pc \in SalePcs => SubscriptionOf(p.call.user) = None
  /\ p.pc \in AbsentPcs => ~Exists(p.call.user)
  /\ p.pc = "referral.create_inviter" => ~Exists(p.call.other)
  /\ p.pc = "subscription.create_inviter" => ~Exists(p.copy.referred_by)
  /\ p.pc \in RewardPcs => ~HasReferralBonus(p.call.user)

\* What the step says of the call.
SignupPcs == {"signup_grant", "signup.create", "signup.add", "signup.reread", "signup.mark"}

AllowanceOps == {"get_balance", "daily_grant", "check_balance"}

AllowancePcs == AllowanceOps \cup {
  "check.create", "monthly", "monthly.add", "monthly.reread", "monthly.mark",
  "monthly.refresh", "daily", "daily.reread", "daily.mark"}

SentPcs == {"delete_account", "stripe_webhook", "lago_webhook"}

CallAt(p) ==
  /\ p.pc \in SentPcs => p.call.op = p.pc
  /\ p.pc \in SignupPcs => p.call.op = "signup_grant"
  /\ p.pc \in AllowancePcs => p.call.op \in AllowanceOps
  /\ p.pc \in {"admin_add_credits", "admin.add"} => p.call.op = "admin_add_credits"
  /\ p.pc \in WebhookPcs => /\ p.call.op \in {"stripe_webhook", "lago_webhook"}
                           /\ p.call.id \notin processed_webhooks

Serial == OneRuns /\ \A r \in Request : Fresh(proc[r]) /\ CallAt(proc[r])

-----------------------------------------------------------------------------
(* One request runs.                                                       *)

\* Only the task that refills an account steps from its steps.
LEMMA RefillSteps ==
  ASSUME NEW r \in Request, proc[r].pc \in RefillPcs
  PROVE  ~Credits(r) /\ ~ReportUsage(r) /\ ~CheckBalance(r) /\ ~Accounts(r) /\ ~Subscribe(r)
         /\ ~Webhooks(r)
<1> USE DEF At, RefillPcs
<1>1. ~Credits(r)
  BY DEF Credits, GetBalance, DailyGrantHandler, TryMonthlyAllowance, MonthlyCheck,
     MonthlyAdd, MonthlyReread, MonthlyMark, MonthlyRefresh, TryDailyGrant, DailyAdd,
     DailyReread, DailyMark, Signup, SignupGet, SignupCreate, SignupAdd, SignupReread,
     SignupMark, Referral, ReferralGet, ReferralCreate, ReferralCheck, ReferralInvitee,
     ReferralInviterGet, ReferralInviterCreate, ReferralInviter, AdminAddCredits,
     AdminGet, AdminAdd, ConfigureAutoRefill, ConfigureGet, ConfigurePut,
     PurchaseCredits, PurchaseAsk, PurchaseSession
<1>2. ~ReportUsage(r) /\ ~CheckBalance(r)
  BY DEF ReportUsage, ReportGet, ReportCreate, BatchGet, UsageExists, UsageCommit,
     CheckBalance, CheckGet, CheckCreate
<1>3. ~Accounts(r) /\ ~Subscribe(r)
  BY DEF Accounts, CreateAccount, CreateGet, CreateCustomer, CreatePut, GetAccount,
     GetAccountGet, GetAccountCreate, DeleteAccountHandler, Subscribe, ZeroPro,
     SubscribeGet, SubscribeCustomer, SubscribePut, SubscribePay, CheckoutAsk, PortalAsk,
     CancelAsk, StripeCall
<1>4. ~Webhooks(r)
  BY DEF Webhooks, StripeReceive, LagoReceive, Resolve, RecordEvent,
     Checkout, CheckoutGet, CheckoutCreate, CheckoutPut, PurchaseGet, PurchaseAdd,
     SubscriptionUpdate, SubscriptionGet, SubscriptionCreate, SubscriptionPut,
     SubscriptionReferral, SubscriptionInvitee, SubscriptionInviterGet,
     SubscriptionInviterCreate, SubscriptionInviter, SubscriptionDeleted, DeletedGet,
     DeletedPut, PaymentFailed, FailedGet, FailedPut, InvoicePaid, InvoiceGet,
     InvoiceProrate, InvoiceAdd, InvoiceReread, InvoiceMark, LagoSubscriptionStarted,
     LagoGet, LagoCreate, LagoAdd
<1> QED
  BY <1>1, <1>2, <1>3, <1>4

\* It refills, and ends or goes on as such a task.
LEMMA RefillTask ==
  ASSUME Inv, NEW r \in Request, Handler(r), proc[r].pc \in RefillPcs
  PROVE  /\ ~Busy(r)' /\ proc'[r].pc # "new"
         /\ \/ UNCHANGED storeVars
            \/ \E u \in User : \E n \in Int : AddCredits(u, n, "auto_refill", None)
<1>1. Refill(r) /\ proc[r].pc # "new"
  BY RefillSteps DEF Handler, Usage, RefillPcs
<1>2. ProcInv /\ proc[r].call.user \in User
  BY <1>1, Stepping
<1>3. proc[r].copy.auto_refill \in AutoRefill
  BY <1>1, Stepping DEF HoldsCopy
<1>4. proc[r].copy.auto_refill.amount \in Int
  BY <1>3 DEF AutoRefill
<1>5. \/ UNCHANGED storeVars
      \/ \E u \in User : \E n \in Int : AddCredits(u, n, "auto_refill", None)
  BY <1>1, <1>2, <1>4 DEF Refill, RefillPay, RefillGet, RefillAdd, Copy, Arg
<1>6. ~Busy(r)' /\ proc'[r].pc # "new"
  BY <1>1, <1>2, Locals DEF Refill, RefillPay, RefillGet, RefillAdd, Becomes, Busy, RefillPcs
<1> QED
  BY <1>5, <1>6

LEMMA HandlerBusy ==
  ASSUME Inv, OneRuns, NEW r \in Request, Handler(r)
  PROVE  /\ proc[r].pc \notin {"new", "done"}
         /\ Busy(r)' => Busy(r)
         /\ Busy(r)' \/ proc'[r].pc = "new" => proc'[r].answer = None
         /\ \A s \in Request \ {r} : proc'[s] = proc[s]
<1>1. proc[r].pc \notin {"new", "done"}
  BY HandlerRuns
<1>2. PICK pc, a, n, x :
        /\ Becomes(r, pc, a, n, x)
        /\ pc = "done" \/ x = proc[r].answer \/ (x # None /\ pc \in RefillPcs)
  BY HandlerRecords DEF Inv, Goes
<1>3. CASE proc[r].pc \in RefillPcs
  BY <1>1, <1>2, <1>3, RefillTask DEF Becomes
<1>4. CASE Busy(r)
  <2>1. proc[r].answer = None
    BY <1>4 DEF OneRuns
  <2> QED
    BY <1>1, <1>2, <1>4, <2>1 DEF Becomes, Busy, RefillPcs
<1> QED
  BY <1>1, <1>3, <1>4 DEF Busy

\* Nothing is sent while a request runs.
LEMMA SentAlone ==
  ASSUME OneAtATime, OneRuns, NEW r \in Request, Send(r)
  PROVE  \A s \in Request : ~Busy(s)
<1>1. IsFiniteSet(Running) /\ Concurrency \in Nat
  BY BoundsAssumption, FS_Subset DEF Running
<1>2. Cardinality(Running) = 0
  BY <1>1, FS_CardinalityType DEF Send, OneAtATime
<1>3. Running = {}
  BY <1>1, <1>2, FS_EmptySet
<1> QED
  BY <1>3 DEF Running, OneRuns, Busy

LEMMA OneRunsStep ==
  ASSUME OneAtATime, Inv, OneRuns, [Next]_vars
  PROVE  OneRuns'
<1>1. CASE proc' = proc
  BY <1>1 DEF OneRuns, Busy
<1>2. ASSUME NEW r \in Request, Send(r) PROVE OneRuns'
  <2>1. PICK c \in Calls : proc' = [proc EXCEPT ![r].pc = c.op, ![r].call = c]
    BY <1>2 DEF Send
  <2>2. proc'[r].pc = c.op /\ proc'[r].answer = proc[r].answer
    BY <2>1 DEF Inv, ProcInv, Proc, ProcAt
  <2>3. \A t \in Request \ {r} : proc'[t] = proc[t]
    BY <2>1 DEF Inv, ProcInv
  <2>4. proc[r].answer = None
    BY <1>2 DEF Send, At, OneRuns
  <2> QED
    BY <1>2, <2>2, <2>3, <2>4, SentAlone DEF OneRuns, Busy
<1>3. ASSUME NEW r \in Request, Abandon(r) PROVE OneRuns'
  <2>1. proc'[r].pc = "done" /\ \A t \in Request \ {r} : proc'[t] = proc[t]
    BY <1>3, Locals DEF Abandon, Becomes, Inv
  <2> QED
    BY <2>1 DEF OneRuns, Busy
<1>4. ASSUME NEW r \in Request, Handler(r) PROVE OneRuns'
  BY <1>4, HandlerBusy DEF OneRuns, Busy
<1> QED
  BY <1>1, <1>2, <1>3, <1>4 DEF Next, Tick, Terminating, vars

-----------------------------------------------------------------------------
(* What a handler has read is still so when it steps on.                   *)

GoesTo(r, pc) == proc'[r].pc = pc /\ proc'[r].call = proc[r].call

\* After the step, the copy of r is as good as the row of its user.
Read(r) ==
  IF accounts'[proc[r].call.user] # None
  THEN SameMarks(proc'[r].copy, accounts'[proc[r].call.user])
  ELSE proc'[r].copy.subscription = None

\* The marks and the subscription of every account are left as they were.
Unmarked ==
  \A u \in User : IF Exists(u) THEN accounts'[u] # None /\ SameMarks(accounts[u], accounts'[u])
                  ELSE accounts'[u] # None => accounts'[u].subscription = None

\* After the step u has an account; has no subscription.
Stays(u) == accounts'[u] # None

Unsold(u) == accounts'[u] # None => accounts'[u].subscription = None

LEMMA UnmarkedSubscriptions ==
  ASSUME Unmarked
  PROVE  \A u \in User : /\ SubscriptionOf(u)' = SubscriptionOf(u)
                         /\ Exists(u) => Exists(u)'
BY DEF Unmarked, SubscriptionOf, Exists, SameMarks

LEMMA MarksUnchanged == ASSUME UNCHANGED accounts PROVE Unmarked
BY DEF Unmarked, Exists, SameMarks

LEMMA MarksPut ==
  ASSUME Inv, NEW u \in User, NEW a \in Account, PutAccount(u, a),
         AsRow(a, u)
  PROVE  Unmarked
BY NoneAssumption DEF PutAccount, Unmarked, AsRow, Exists, SameMarks, Inv, StoreType

LEMMA MarksAdded ==
  ASSUME Inv, NEW u \in User, NEW n \in Int, NEW type, NEW ref,
         AddCredits(u, n, type, ref) \/ CommitUsage(u, n, ref)
  PROVE  Unmarked /\ Exists(u)' /\ \A v \in User : Exists(v)' => Exists(v)
<1>1. accounts[u] \in Account /\ Exists(u) /\ u \in DOMAIN accounts
  BY DEF AddCredits, CommitUsage, Exists, Inv, StoreType
<1>2. /\ accounts'[u].signup_grant = accounts[u].signup_grant
      /\ accounts'[u].last_daily = accounts[u].last_daily
      /\ accounts'[u].last_monthly = accounts[u].last_monthly
      /\ accounts'[u].subscription = accounts[u].subscription
      /\ accounts'[u] \in Account
  <2>1. CASE AddCredits(u, n, type, ref)
    <3> DEFINE more == accounts[u].balance + n
               bought == accounts[u].purchased + n
    <3>1. accounts'[u] = [accounts[u] EXCEPT !.balance = more, !.purchased = bought]
      BY <1>1, <2>1 DEF AddCredits, Account
    <3>2. more \in Int /\ bought \in Int
      BY <1>1 DEF Account
    <3> HIDE DEF more, bought
    <3> QED
      BY <1>1, <3>1, <3>2 DEF Account
  <2>2. CASE CommitUsage(u, n, ref)
    <3> DEFINE less == accounts[u].balance - n
               spent == accounts[u].used + n
    <3>1. accounts'[u] = [accounts[u] EXCEPT !.balance = less, !.used = spent]
      BY <1>1, <2>2 DEF CommitUsage, Account
    <3>2. less \in Int /\ spent \in Int
      BY <1>1 DEF Account
    <3> HIDE DEF less, spent
    <3> QED
      BY <1>1, <3>1, <3>2 DEF Account
  <2> QED
    BY <2>1, <2>2
<1>3. \A v \in User \ {u} : accounts'[v] = accounts[v]
  BY DEF AddCredits, CommitUsage, Inv, StoreType
<1>4. accounts'[u] # None
  BY <1>2, NoneAssumption
<1> QED
  BY <1>1, <1>2, <1>3, <1>4 DEF Unmarked, SameMarks, Exists

\* Where the helpers leave a request, and what it has then read.
LEMMA HelpersRead ==
  ASSUME Inv, NEW r \in Request, proc[r].pc # "new"
  PROVE  /\ \A create, pc : GetOrElse(r, proc[r].call.user, create, pc) =>
              /\ Unmarked /\ ledger' = ledger
              /\ \/ GoesTo(r, pc) /\ Read(r)
                 \/ GoesTo(r, create) /\ ~Exists(proc[r].call.user)'
         /\ \A pc : GetOrNotFound(r, proc[r].call.user, pc) =>
              /\ Unmarked /\ ledger' = ledger
              /\ (GoesTo(r, pc) /\ Read(r)) \/ GoesTo(r, "done")
         /\ \A pc : Reread(r, proc[r].call.user, pc) =>
              /\ Unmarked /\ ledger' = ledger /\ GoesTo(r, pc)
              /\ Exists(proc[r].call.user) => Read(r)
         /\ \A pc : Create(r, proc[r].call.user, pc) /\ ~Exists(proc[r].call.user) =>
              Unmarked /\ ledger' = ledger /\ GoesTo(r, pc) /\ Read(r)
         /\ \A u \in User : \A n \in Int : \A type, pc : Credit(r, u, n, type, pc) =>
              Unmarked /\ ((GoesTo(r, pc) /\ Stays(u)) \/ GoesTo(r, "done"))
         /\ \A u \in User : \A n \in Int : \A type : CreditLast(r, u, n, type) =>
              Unmarked /\ GoesTo(r, "done")
<1> DEFINE u0 == proc[r].call.user
<1>1. ProcInv /\ u0 \in User
  BY Stepping
<1>2. accounts' = accounts => Unmarked
  BY MarksUnchanged
<1>3. \A create, pc : GetOrElse(r, u0, create, pc) =>
              /\ Unmarked /\ ledger' = ledger
              /\ \/ GoesTo(r, pc) /\ Read(r)
                 \/ GoesTo(r, create) /\ ~Exists(u0)'
  BY <1>1, <1>2, Locals DEF GetOrElse, storeVars, GoesTo, Read, Becomes, Exists, SameMarks
<1>4. \A pc : GetOrNotFound(r, u0, pc) =>
              /\ Unmarked /\ ledger' = ledger
              /\ (GoesTo(r, pc) /\ Read(r)) \/ GoesTo(r, "done")
  BY <1>1, <1>2, Locals DEF GetOrNotFound, storeVars, GoesTo, Read, Becomes, Exists, SameMarks
<1>5. \A pc : Reread(r, u0, pc) => /\ Unmarked /\ ledger' = ledger /\ GoesTo(r, pc)
                                   /\ Exists(u0) => Read(r)
  BY <1>1, <1>2, Locals DEF Reread, storeVars, GoesTo, Read, Becomes, Exists, SameMarks
<1>6. ASSUME NEW pc, Create(r, u0, pc), ~Exists(u0)
      PROVE  Unmarked /\ ledger' = ledger /\ GoesTo(r, pc) /\ Read(r)
  <2>1. NewAccount \in Account
    BY NewAccountSound DEF Sound
  <2>2. Unmarked
    BY <1>1, <1>6, <2>1, MarksPut DEF Create, AsRow, NewAccount
  <2>3. accounts'[u0] = NewAccount
    BY <1>1, <1>6 DEF Create, PutAccount, Inv, StoreType
  <2>4. Keep(r, NewAccount, pc) /\ ledger' = ledger
    BY <1>6 DEF Create, PutAccount
  <2>5. GoesTo(r, pc) /\ proc'[r].copy = NewAccount
    BY <1>1, <2>4, Locals DEF GoesTo, Becomes
  <2> QED
    BY <2>1, <2>2, <2>3, <2>4, <2>5, NoneAssumption DEF Read, SameMarks
<1>7. ASSUME NEW u \in User, NEW n \in Int, NEW type, NEW pc, Credit(r, u, n, type, pc)
      PROVE  Unmarked /\ ((GoesTo(r, pc) /\ Stays(u)) \/ GoesTo(r, "done"))
  <2>1. AddCredits(u, n, type, proc[r].call.id) => Stays(u)
    BY MarksAdded DEF Stays, Exists
  <2> QED
    BY <1>1, <1>2, <1>7, <2>1, MarksAdded, Locals
    DEF Credit, NoAccount, Arg, storeVars, GoesTo, Becomes
<1>8. ASSUME NEW u \in User, NEW n \in Int, NEW type, CreditLast(r, u, n, type)
      PROVE  Unmarked /\ GoesTo(r, "done")
  BY <1>1, <1>2, <1>8, MarksAdded, Locals DEF CreditLast, NoAccount, storeVars, GoesTo, Becomes
<1> QED
  BY <1>3, <1>4, <1>5, <1>6, <1>7, <1>8

-----------------------------------------------------------------------------
(* ... handler by handler.                                                 *)

\* What a request at pc needs to have been read, after the step of r.
Ready(r, pc) ==
  /\ pc \in FreshPcs => Read(r)
  /\ pc \in RereadPcs => Stays(proc[r].call.user)
  /\ pc \in SalePcs => Unsold(proc[r].call.user)
  /\ pc \in AbsentPcs => ~Exists(proc[r].call.user)'
  /\ pc = "referral.create_inviter" => ~Exists(proc[r].call.other)'
  /\ pc = "subscription.create_inviter" => ~Exists(proc[r].copy.referred_by)'
  /\ pc \in RewardPcs => ~HasReferralBonus(proc[r].call.user)'

\* ... and a request r to be at pc.
Allowed(r, pc) ==
  /\ pc \in SentPcs => proc[r].call.op = pc
  /\ pc \in SignupPcs => proc[r].call.op = "signup_grant"
  /\ pc \in AllowancePcs => proc[r].call.op \in AllowanceOps
  /\ pc \in {"admin_add_credits", "admin.add"} => proc[r].call.op = "admin_add_credits"
  /\ pc \in WebhookPcs => /\ proc[r].call.op \in {"stripe_webhook", "lago_webhook"}
                         /\ proc[r].call.id \notin processed_webhooks'

Serially(r) ==
  /\ Fresh(proc[r])' /\ CallAt(proc[r])'
  /\ \/ Unmarked \/ SignupMark(r) \/ DailyMark(r) \/ MonthlyMark(r) \/ InvoiceMark(r)
     \/ SubscriptionPut(r) \/ DeletedPut(r) \/ FailedPut(r) \/ DeleteAccountHandler(r)

LEMMA Landed ==
  ASSUME NEW r \in Request, NEW pc, GoesTo(r, pc), Ready(r, pc), Allowed(r, pc)
  PROVE  Fresh(proc[r])' /\ CallAt(proc[r])'
<1>1. CallAt(proc[r])'
  BY DEF GoesTo, Allowed, CallAt
<1>2. /\ pc \in FreshPcs =>
           IF accounts'[proc[r].call.user] # None
           THEN SameMarks(proc'[r].copy, accounts'[proc[r].call.user])
           ELSE proc'[r].copy.subscription = None
      /\ pc \in RereadPcs => Stays(proc[r].call.user)
      /\ pc \in SalePcs => Unsold(proc[r].call.user)
      /\ pc \in AbsentPcs => ~Exists(proc[r].call.user)'
      /\ pc = "referral.create_inviter" => ~Exists(proc[r].call.other)'
      /\ pc = "subscription.create_inviter" => ~Exists(proc[r].copy.referred_by)'
      /\ pc \in RewardPcs => ~HasReferralBonus(proc[r].call.user)'
  BY DEF Ready, Read, Exists
<1>3. Fresh(proc[r])'
  BY <1>2 DEF GoesTo, Fresh, AsRow, SubscriptionOf, Stays, Unsold, Exists, HasReferralBonus, SameMarks
<1> QED
  BY <1>1, <1>3

LEMMA LandedDone ==
  ASSUME NEW r \in Request, GoesTo(r, "done")
  PROVE  Fresh(proc[r])' /\ CallAt(proc[r])'
BY Landed DEF Ready, Allowed, FreshPcs, AbsentPcs, RewardPcs, RereadPcs, SalePcs, SentPcs,
   SignupPcs, AllowancePcs, AllowanceOps, WebhookPcs, StripeEvents, LagoEvents

\* Which is all that most steps need.
LEMMA ReadyPcs ==
  ASSUME NEW r \in Request
  PROVE  /\ Read(r) => \A pc \in FreshPcs \ SalePcs : Ready(r, pc)
         /\ Stays(proc[r].call.user) => \A pc \in RereadPcs : Ready(r, pc)
         /\ Read(r) /\ Unsold(proc[r].call.user) => \A pc \in FreshPcs \cup SalePcs : Ready(r, pc)
         /\ Unsold(proc[r].call.user) => \A pc \in SalePcs \ FreshPcs : Ready(r, pc)
         /\ ~Exists(proc[r].call.user)' => \A pc \in AbsentPcs : Ready(r, pc)
         /\ \A pc : \/ pc \in FreshPcs \cup AbsentPcs \cup RewardPcs \cup RereadPcs \cup SalePcs
                   \/ pc \in {"referral.create_inviter", "subscription.create_inviter"}
                   \/ Ready(r, pc)
BY DEF Ready, FreshPcs, AbsentPcs, RewardPcs, RereadPcs, SalePcs

LEMMA AllowedPcs ==
  ASSUME NEW r \in Request
  PROVE  /\ proc[r].call.op = "signup_grant" => \A pc \in SignupPcs : Allowed(r, pc)
         /\ proc[r].call.op \in AllowanceOps => \A pc \in AllowancePcs : Allowed(r, pc)
         /\ /\ proc[r].call.op \in {"stripe_webhook", "lago_webhook"}
            /\ proc[r].call.id \notin processed_webhooks'
            => \A pc \in WebhookPcs : Allowed(r, pc)
         /\ \A pc : \/ pc \in SignupPcs \cup AllowancePcs \cup WebhookPcs \cup SentPcs
                   \/ pc \in {"admin_add_credits", "admin.add"}
                   \/ Allowed(r, pc)
BY DEF Allowed, SentPcs, SignupPcs, AllowancePcs, AllowanceOps, WebhookPcs, StripeEvents, LagoEvents

LEMMA SeriallyTo ==
  ASSUME NEW r \in Request, Unmarked
  PROVE  /\ \A pc : GoesTo(r, pc) /\ Ready(r, pc) /\ Allowed(r, pc) => Serially(r)
         /\ GoesTo(r, "done") => Serially(r)
BY Landed, LandedDone DEF Serially

\* The steps that leave the rows alone.
LEMMA SeriallyQuiet ==
  ASSUME ProcInv, NEW r \in Request, UNCHANGED storeVars
  PROVE  /\ Unmarked
         /\ \A x : Answer(r, x) => Serially(r)
         /\ \A pc : Goto(r, pc) => GoesTo(r, pc) /\ proc'[r].copy = proc[r].copy
         /\ \A pc, a : Keep(r, a, pc) => GoesTo(r, pc) /\ proc'[r].copy = a
         /\ \A pc, n : Compute(r, n, pc) => GoesTo(r, pc) /\ proc'[r].copy = proc[r].copy
         /\ \A pc, a, n : KeepAndCompute(r, a, n, pc) => GoesTo(r, pc)
         /\ \A pc, x : AnswerAndGoto(r, x, pc) => GoesTo(r, pc)
<1>1. Unmarked
  BY MarksUnchanged DEF storeVars
<1>2. \A x : Answer(r, x) => GoesTo(r, "done")
  BY Locals DEF Becomes, GoesTo
<1> QED
  BY <1>1, <1>2, SeriallyTo, Locals DEF Becomes, GoesTo

\* A step that writes no row leaves what the request has read as it was.
LEMMA StillRead ==
  ASSUME NEW r \in Request, Fresh(proc[r]), UNCHANGED accounts, proc'[r].copy = proc[r].copy
  PROVE  /\ proc[r].pc \in FreshPcs => Read(r)
         /\ proc[r].pc \in RereadPcs => Exists(proc[r].call.user)
         /\ proc[r].pc \in SalePcs => Unsold(proc[r].call.user)
BY DEF Fresh, AsRow, Read, SameMarks, SubscriptionOf, Unsold, Exists

\* Every amount that is granted is a number.
LEMMA Numbers ==
  ASSUME Inv, NEW r \in Request, proc[r].pc # "new"
  PROVE  /\ SignupGrant \in Int /\ ReferralGrant \in Int /\ proc[r].kept \in Int
         /\ proc[r].pc \in CopyPcs => /\ MonthlyCredits[CurrentPlan(proc[r].copy)] \in Int
                                     /\ DailyGrant[CurrentPlan(proc[r].copy)] \in Int
         /\ proc[r].pc \in {"usage.commit", "admin.add", "purchase.add"} => proc[r].call.amount \in Int
         /\ proc[r].pc = "lago.add" => MonthlyCredits[proc[r].call.subscription.plan] \in Int
BY Stepping, PlanAmounts, GrantAssumption DEF HoldsCall, Subscription, Plan

LEMMA SignupSerial ==
  ASSUME Inv, NEW r \in Request, Fresh(proc[r]), CallAt(proc[r]), Signup(r)
  PROVE  Serially(r)
<1> USE DEF At, Arg, Copy
<1>1. proc[r].pc \in SignupPcs /\ proc[r].pc # "new"
  BY DEF Signup, SignupGet, SignupCreate, SignupAdd, SignupReread, SignupMark, SignupPcs
<1>2. ProcInv /\ proc[r].call.user \in User /\ \A pc \in SignupPcs : Allowed(r, pc)
  BY <1>1, Stepping, AllowedPcs DEF CallAt
<1> USE DEF SignupPcs, FreshPcs, AbsentPcs, RewardPcs, RereadPcs, SalePcs
<1>3. CASE SignupGet(r)
  <2>1. Unmarked /\ \/ GoesTo(r, "signup.add") /\ Read(r)
                    \/ GoesTo(r, "signup.create") /\ ~Exists(proc[r].call.user)'
    BY <1>1, <1>3, HelpersRead DEF SignupGet
  <2> QED
    BY <1>2, <2>1, SeriallyTo, ReadyPcs
<1>4. CASE SignupCreate(r)
  <2>1. ~Exists(proc[r].call.user)
    BY <1>4 DEF SignupCreate, Fresh
  <2> QED
    BY <1>1, <1>2, <1>4, <2>1, HelpersRead, SeriallyTo, ReadyPcs DEF SignupCreate
<1>5. CASE SignupAdd(r)
  <2>1. CASE Answer(r, "already_granted") /\ UNCHANGED storeVars
    BY <1>2, <2>1, SeriallyQuiet
  <2>2. CASE Credit(r, proc[r].call.user, SignupGrant, "signup_grant", "signup.reread")
    BY <1>1, <1>2, <2>2, Numbers, HelpersRead, SeriallyTo, ReadyPcs
  <2> QED
    BY <1>5, <2>1, <2>2 DEF SignupAdd
<1>6. CASE SignupReread(r)
  <2>1. Exists(proc[r].call.user)
    BY <1>6 DEF SignupReread, Fresh
  <2> QED
    BY <1>1, <1>2, <1>6, <2>1, HelpersRead, SeriallyTo, ReadyPcs DEF SignupReread
<1>7. CASE SignupMark(r)
  BY <1>2, <1>7, LandedDone, Locals DEF SignupMark, Serially, GoesTo, Becomes
<1> QED
  BY <1>3, <1>4, <1>5, <1>6, <1>7 DEF Signup

LEMMA AllowanceSerial ==
  ASSUME Inv, NEW r \in Request, Fresh(proc[r]), CallAt(proc[r]),
         \/ GetBalance(r) \/ DailyGrantHandler(r) \/ CheckBalance(r)
         \/ TryMonthlyAllowance(r) \/ TryDailyGrant(r)
  PROVE  Serially(r)
<1> USE DEF At, Arg, Copy
<1>1. proc[r].pc \in AllowancePcs /\ proc[r].pc # "new"
  BY DEF GetBalance, DailyGrantHandler, CheckBalance, CheckGet, CheckCreate,
     TryMonthlyAllowance, MonthlyCheck, MonthlyAdd, MonthlyReread, MonthlyMark,
     MonthlyRefresh, TryDailyGrant, DailyAdd, DailyReread, DailyMark, AllowancePcs, AllowanceOps
<1>2. ProcInv /\ proc[r].call.user \in User /\ \A pc \in AllowancePcs : Allowed(r, pc)
  BY <1>1, Stepping, AllowedPcs DEF CallAt
<1> USE DEF AllowancePcs, FreshPcs, AbsentPcs, RewardPcs, RereadPcs, SalePcs
<1>3. CASE GetBalance(r) \/ DailyGrantHandler(r)
  BY <1>1, <1>2, <1>3, HelpersRead, SeriallyTo, ReadyPcs DEF GetBalance, DailyGrantHandler
<1>4. CASE CheckGet(r)
  <2>1. Unmarked /\ \/ GoesTo(r, "monthly") /\ Read(r)
                    \/ GoesTo(r, "check.create") /\ ~Exists(proc[r].call.user)'
    BY <1>1, <1>4, HelpersRead DEF CheckGet
  <2> QED
    BY <1>2, <2>1, SeriallyTo, ReadyPcs
<1>5. CASE CheckCreate(r)
  <2>1. ~Exists(proc[r].call.user)
    BY <1>5 DEF CheckCreate, Fresh
  <2> QED
    BY <1>1, <1>2, <1>5, <2>1, HelpersRead, SeriallyTo, ReadyPcs DEF CheckCreate
<1>6. CASE MonthlyCheck(r)
  <2>1. proc[r].pc = "monthly" /\ UNCHANGED storeVars
    BY <1>6 DEF MonthlyCheck
  <2>2. CASE Goto(r, "daily")
    <3>1. GoesTo(r, "daily") /\ proc'[r].copy = proc[r].copy /\ Unmarked
      BY <1>2, <2>1, <2>2, SeriallyQuiet
    <3>2. Read(r)
      BY <2>1, <3>1, StillRead DEF storeVars
    <3> QED
      BY <1>2, <3>1, <3>2, SeriallyTo, ReadyPcs
  <2>3. CASE Compute(r, today, "monthly.add")
    <3>1. GoesTo(r, "monthly.add") /\ proc'[r].copy = proc[r].copy /\ Unmarked
      BY <1>2, <2>1, <2>3, SeriallyQuiet
    <3>2. Read(r)
      BY <2>1, <3>1, StillRead DEF storeVars
    <3> QED
      BY <1>2, <3>1, <3>2, SeriallyTo, ReadyPcs
  <2> QED
    BY <1>6, <2>2, <2>3 DEF MonthlyCheck
<1>7. CASE MonthlyAdd(r)
  BY <1>1, <1>2, <1>7, Numbers, HelpersRead, SeriallyTo, ReadyPcs DEF MonthlyAdd, CopyPcs
<1>8. CASE MonthlyReread(r) \/ MonthlyRefresh(r) \/ DailyReread(r)
  <2>1. Exists(proc[r].call.user)
    BY <1>8 DEF MonthlyReread, MonthlyRefresh, DailyReread, Fresh
  <2> QED
    BY SMTT(30), <1>1, <1>2, <1>8, <2>1, HelpersRead, SeriallyTo, ReadyPcs
    DEF MonthlyReread, MonthlyRefresh, DailyReread
<1>9. CASE MonthlyMark(r)
  <2>1. GoesTo(r, "monthly.refresh")
    BY <1>2, <1>9, Locals DEF MonthlyMark, Becomes, GoesTo
  <2> DEFINE a == [proc[r].copy EXCEPT !.last_monthly = proc[r].kept]
  <2>2. proc[r].pc = "monthly.mark" /\ PutAccount(proc[r].call.user, a)
    BY <1>9 DEF MonthlyMark
  <2>3. proc[r].copy \in Sound /\ proc[r].kept \in Nat
    BY <2>2, Stepping DEF CopyPcs, HoldsCopy
  <2>4. a \in Account
    BY <2>3, SoundEdits DEF Sound
  <2> HIDE DEF a
  <2>5. Stays(proc[r].call.user)
    BY <1>2, <2>2, <2>4, NoneAssumption DEF PutAccount, Stays, Inv, StoreType
  <2>6. Ready(r, "monthly.refresh")
    BY <2>5, ReadyPcs
  <2> QED
    BY <1>2, <1>9, <2>1, <2>6, Landed DEF Serially
<1>10. CASE DailyAdd(r)
  <2>1. CASE Answer(r, "ok") /\ UNCHANGED storeVars
    BY <1>2, <2>1, SeriallyQuiet
  <2>2. CASE \E n \in Int : Credit(r, proc[r].call.user, n, "daily_grant", "daily.reread")
    BY <1>1, <1>2, <2>2, HelpersRead, SeriallyTo, ReadyPcs
  <2> QED
    BY <1>1, <1>10, <2>1, <2>2, Numbers DEF DailyAdd, CopyPcs
<1>11. CASE DailyMark(r)
  BY <1>2, <1>11, LandedDone, Locals DEF DailyMark, Serially, GoesTo, Becomes
<1> QED
  BY <1>3, <1>4, <1>5, <1>6, <1>7, <1>8, <1>9, <1>10, <1>11
  DEF CheckBalance, TryMonthlyAllowance, TryDailyGrant

LEMMA ReferralSerial ==
  ASSUME Inv, NEW r \in Request, Fresh(proc[r]), CallAt(proc[r]), Referral(r)
  PROVE  Serially(r)
<1> USE DEF At, Arg, Copy
<1>1. proc[r].pc \in {"referral_grant", "referral.create", "referral.check", "referral.invitee",
                      "referral.inviter", "referral.create_inviter", "referral.add"}
  BY DEF Referral, ReferralGet, ReferralCreate, ReferralCheck, ReferralInvitee,
     ReferralInviterGet, ReferralInviterCreate, ReferralInviter
<1>2. /\ ProcInv /\ proc[r].call.user \in User /\ proc[r].call.other \in User
      /\ \A pc \in {"referral.create", "referral.check", "referral.invitee", "referral.inviter",
                    "referral.create_inviter", "referral.add"} : Allowed(r, pc)
  BY <1>1, Stepping, AllowedPcs DEF HoldsCall, SentPcs, SignupPcs, AllowancePcs, AllowanceOps,
     WebhookPcs, StripeEvents, LagoEvents
<1> USE DEF FreshPcs, AbsentPcs, RewardPcs, RereadPcs, SalePcs
<1>3. CASE ReferralGet(r)
  <2>1. CASE Answer(r, "bad_request") /\ UNCHANGED storeVars
    BY <1>2, <2>1, SeriallyQuiet
  <2>2. CASE GetOrElse(r, proc[r].call.user, "referral.create", "referral.check")
    <3>1. Unmarked /\ \/ GoesTo(r, "referral.check")
                      \/ GoesTo(r, "referral.create") /\ ~Exists(proc[r].call.user)'
      BY <1>1, <2>2, HelpersRead
    <3>2. Ready(r, "referral.check")
      BY ReadyPcs
    <3> QED
      BY <1>2, <3>1, <3>2, SeriallyTo, ReadyPcs
  <2> QED
    BY <1>3, <2>1, <2>2 DEF ReferralGet
<1>4. CASE ReferralCreate(r)
  <2>1. ~Exists(proc[r].call.user)
    BY <1>4 DEF ReferralCreate, Fresh
  <2> QED
    <3>1. Unmarked /\ GoesTo(r, "referral.check")
      BY <1>1, <1>4, <2>1, HelpersRead DEF ReferralCreate
    <3>2. Ready(r, "referral.check")
      BY ReadyPcs
    <3> QED
      BY <1>2, <3>1, <3>2, SeriallyTo
<1>5. CASE ReferralCheck(r)
  <2>1. CASE Goto(r, "referral.invitee") /\ ~HasReferralBonus(proc[r].call.user)
    <3>1. Ready(r, "referral.invitee")
      <4>1. ledger' = ledger
        BY <1>5 DEF ReferralCheck, storeVars
      <4>2. ~HasReferralBonus(proc[r].call.user)'
        <5>1. proc'[r].call = proc[r].call
          BY <1>2, <2>1, Locals DEF Becomes
        <5> QED
          BY <2>1, <4>1, <5>1 DEF HasReferralBonus
      <4> QED
        BY <4>2 DEF Ready
    <3> QED
      BY <1>2, <1>5, <2>1, <3>1, SeriallyQuiet, SeriallyTo DEF ReferralCheck
  <2> QED
    BY <1>2, <1>5, <2>1, SeriallyQuiet DEF ReferralCheck
<1>6. CASE ReferralInvitee(r)
  BY <1>1, <1>2, <1>6, Numbers, HelpersRead, SeriallyTo, ReadyPcs DEF ReferralInvitee
<1>7. CASE ReferralInviterGet(r)
  <2>1. UNCHANGED storeVars
    BY <1>7 DEF ReferralInviterGet, GetOrElse
  <2>2. CASE ~Exists(proc[r].call.other) /\ Goto(r, "referral.create_inviter")
    <3>1. Ready(r, "referral.create_inviter")
      BY <1>2, <2>1, <2>2, Locals DEF storeVars, Ready, Exists, Becomes
    <3> QED
      BY <1>2, <2>1, <2>2, <3>1, SeriallyQuiet, SeriallyTo
  <2>3. CASE \E a : Keep(r, a, "referral.add")
    BY <1>2, <2>1, <2>3, SeriallyQuiet, SeriallyTo, ReadyPcs
  <2> QED
    BY <1>7, <2>2, <2>3 DEF ReferralInviterGet, GetOrElse
<1>8. CASE ReferralInviterCreate(r)
  <2>1. ~Exists(proc[r].call.other) /\ PutAccount(proc[r].call.other, NewAccount)
    BY <1>8 DEF ReferralInviterCreate, Create, Fresh
  <2>2. Unmarked /\ GoesTo(r, "referral.add")
    BY <1>2, <1>8, <2>1, NewAccountSound, MarksPut, Locals
    DEF ReferralInviterCreate, Create, Sound, AsRow, NewAccount, Becomes, GoesTo
  <2> QED
    BY <1>2, <2>2, SeriallyTo, ReadyPcs
<1>9. CASE ReferralInviter(r)
  BY <1>1, <1>2, <1>9, Numbers, HelpersRead, SeriallyTo DEF ReferralInviter
<1> QED
  BY <1>3, <1>4, <1>5, <1>6, <1>7, <1>8, <1>9 DEF Referral

\* A copy that is written back with fields changed that no grant goes by.
LEMMA FreshPut ==
  ASSUME Inv, NEW r \in Request, proc[r].pc # "new", Fresh(proc[r]), proc[r].pc \in FreshPcs,
         NEW a \in Sound, SameMarks(a, proc[r].copy), PutAccount(proc[r].call.user, a)
  PROVE  Unmarked
<1>1. proc[r].call.user \in User
  BY Stepping
<1>2. AsRow(a, proc[r].call.user)
  BY DEF Fresh, AsRow, SameMarks
<1> QED
  BY <1>1, <1>2, MarksPut DEF Sound

LEMMA EditsKeepMarks ==
  ASSUME NEW a \in Sound
  PROVE  /\ \A x : /\ SameMarks([a EXCEPT !.auto_refill = x], a)
                  /\ SameMarks([a EXCEPT !.stripe_customer = x], a)
         /\ SameMarks(a, a)
BY DEF SameMarks, Sound, Account

LEMMA OtherCreditsSerial ==
  ASSUME Inv, NEW r \in Request, Fresh(proc[r]), CallAt(proc[r]),
         AdminAddCredits(r) \/ ConfigureAutoRefill(r) \/ PurchaseCredits(r)
  PROVE  Serially(r)
<1> USE DEF At, Arg, Copy
<1>1. proc[r].pc \in {"admin_add_credits", "admin.add", "configure_auto_refill",
                      "configure.put", "purchase_credits", "purchase.session"}
  BY DEF AdminAddCredits, AdminGet, AdminAdd, ConfigureAutoRefill, ConfigureGet, ConfigurePut,
     PurchaseCredits, PurchaseAsk, PurchaseSession
<1>2. /\ ProcInv /\ proc[r].call.user \in User
      /\ Allowed(r, "configure.put") /\ Allowed(r, "purchase.session")
  BY <1>1, Stepping, AllowedPcs DEF SentPcs, SignupPcs, AllowancePcs, AllowanceOps,
     WebhookPcs, StripeEvents, LagoEvents
<1> USE DEF FreshPcs, AbsentPcs, RewardPcs, RereadPcs, SalePcs
<1>3. CASE AdminGet(r)
  <2>1. Allowed(r, "admin.add")
    BY <1>3 DEF AdminGet, CallAt, Allowed, SentPcs, SignupPcs, AllowancePcs, AllowanceOps, WebhookPcs,
       StripeEvents, LagoEvents
  <2>2. CASE Answer(r, "bad_request") /\ UNCHANGED storeVars
    BY <1>2, <2>2, SeriallyQuiet
  <2>3. CASE GetOrNotFound(r, proc[r].call.user, "admin.add")
    <3>1. Unmarked /\ (GoesTo(r, "admin.add") \/ GoesTo(r, "done"))
      BY <1>1, <2>3, HelpersRead
    <3> QED
      BY <2>1, <3>1, SeriallyTo, ReadyPcs
  <2> QED
    BY <1>3, <2>2, <2>3 DEF AdminGet
<1>4. CASE AdminAdd(r)
  BY <1>1, <1>2, <1>4, Numbers, HelpersRead, SeriallyTo DEF AdminAdd
<1>5. CASE ConfigureGet(r)
  <2>1. Unmarked /\ ((GoesTo(r, "configure.put") /\ Read(r)) \/ GoesTo(r, "done"))
    BY <1>1, <1>5, HelpersRead DEF ConfigureGet
  <2> QED
    BY <1>2, <2>1, SeriallyTo, ReadyPcs
<1>6. CASE ConfigurePut(r)
  <2>1. CASE ~AutoRefillValid(proc[r].call.auto_refill)
    BY <1>2, <1>6, <2>1, SeriallyQuiet DEF ConfigurePut
  <2>2. CASE AutoRefillValid(proc[r].call.auto_refill)
    <3>1. proc[r].pc = "configure.put"
      BY <1>6 DEF ConfigurePut
    <3>2. proc[r].copy \in Sound /\ proc[r].call.auto_refill \in AutoRefill \cup {None}
      BY <3>1, Stepping DEF CopyPcs, Call
    <3> DEFINE a == [proc[r].copy EXCEPT !.auto_refill = proc[r].call.auto_refill]
    <3>3. a \in Sound /\ SameMarks(a, proc[r].copy)
      BY <3>2, SoundEdits, EditsKeepMarks
    <3>4. PutAccount(proc[r].call.user, a) /\ Answer(r, "ok")
      BY <1>6, <2>2 DEF ConfigurePut
    <3> HIDE DEF a
    <3>5. Unmarked /\ GoesTo(r, "done")
      BY <1>2, <3>1, <3>3, <3>4, FreshPut, Locals DEF Becomes, GoesTo
    <3> QED
      BY <3>5, SeriallyTo
  <2> QED
    BY <2>1, <2>2
<1>7. CASE PurchaseAsk(r)
  <2>1. CASE Answer(r, "bad_request") /\ UNCHANGED storeVars
    BY <1>2, <2>1, SeriallyQuiet
  <2>2. CASE GetOrNotFound(r, proc[r].call.user, "purchase.session")
    <3>1. Unmarked /\ (GoesTo(r, "purchase.session") \/ GoesTo(r, "done"))
      BY <1>1, <2>2, HelpersRead
    <3> QED
      BY <1>2, <3>1, SeriallyTo, ReadyPcs
  <2> QED
    BY <1>7, <2>1, <2>2 DEF PurchaseAsk
<1>8. CASE PurchaseSession(r)
  BY <1>2, <1>8, SeriallyQuiet DEF PurchaseSession
<1> QED
  BY <1>3, <1>4, <1>5, <1>6, <1>7, <1>8 DEF AdminAddCredits, ConfigureAutoRefill, PurchaseCredits

LEMMA ReportSerial ==
  ASSUME Inv, NEW r \in Request, Fresh(proc[r]), CallAt(proc[r]), ReportUsage(r)
  PROVE  Serially(r)
<1> USE DEF At, Arg, Copy
<1>1. proc[r].pc \in {"report_usage", "report_usage_batch", "report.create", "usage.exists",
                      "usage.commit"}
  BY DEF ReportUsage, ReportGet, ReportCreate, BatchGet, UsageExists, UsageCommit
<1>2. /\ ProcInv /\ proc[r].call.user \in User
      /\ \A pc \in {"report.create", "usage.exists", "usage.commit", "refill.pay"} : Allowed(r, pc)
  BY <1>1, Stepping, AllowedPcs DEF SentPcs, SignupPcs, AllowancePcs, AllowanceOps,
     WebhookPcs, StripeEvents, LagoEvents
<1> USE DEF FreshPcs, AbsentPcs, RewardPcs, RereadPcs, SalePcs
<1>3. CASE ReportGet(r)
  <2>1. Unmarked /\ \/ GoesTo(r, "usage.exists")
                    \/ GoesTo(r, "report.create") /\ ~Exists(proc[r].call.user)'
    BY <1>1, <1>3, HelpersRead DEF ReportGet
  <2> QED
    BY <1>2, <2>1, SeriallyTo, ReadyPcs
<1>4. CASE ReportCreate(r)
  <2>1. ~Exists(proc[r].call.user)
    BY <1>4 DEF ReportCreate, Fresh
  <2> QED
    <3>1. Unmarked /\ GoesTo(r, "usage.exists")
      BY <1>1, <1>4, <2>1, HelpersRead DEF ReportCreate
    <3> QED
      BY <1>2, <3>1, SeriallyTo, ReadyPcs
<1>5. CASE BatchGet(r)
  <2>1. Unmarked /\ (GoesTo(r, "usage.exists") \/ GoesTo(r, "done"))
    BY <1>1, <1>5, HelpersRead DEF BatchGet
  <2> QED
    BY <1>2, <2>1, SeriallyTo, ReadyPcs
<1>6. CASE UsageExists(r)
  BY <1>2, <1>6, SeriallyQuiet, SeriallyTo, ReadyPcs DEF UsageExists
<1>7. CASE UsageCommit(r) /\ UsageRolledBack(r)
  BY <1>2, <1>7, SeriallyQuiet DEF UsageRolledBack
<1>8. CASE UsageCommit(r) /\ UsageCharged(r)
  <2>1. Unmarked
    BY <1>1, <1>2, <1>8, Numbers, MarksAdded DEF UsageCharged, UsageCommit
  <2>2. GoesTo(r, "refill.pay") \/ GoesTo(r, "done")
    BY <1>2, <1>8, Locals DEF UsageCharged, Becomes, GoesTo
  <2> QED
    BY <1>2, <2>1, <2>2, SeriallyTo, ReadyPcs
<1> QED
  BY <1>3, <1>4, <1>5, <1>6, <1>7, <1>8 DEF ReportUsage, UsageCommit

LEMMA AccountsSerial ==
  ASSUME Inv, NEW r \in Request, Fresh(proc[r]), CallAt(proc[r]), Accounts(r)
  PROVE  Serially(r)
<1> USE DEF At, Arg, Copy
<1>1. proc[r].pc \in {"create_account", "create.customer", "create.put", "get_account",
                      "get_account.create", "delete_account"}
  BY DEF Accounts, CreateAccount, CreateGet, CreateCustomer, CreatePut, GetAccount,
     GetAccountGet, GetAccountCreate, DeleteAccountHandler
<1>2. /\ ProcInv /\ proc[r].call.user \in User
      /\ \A pc \in {"create.customer", "create.put", "get_account.create"} : Allowed(r, pc)
  BY <1>1, Stepping, AllowedPcs DEF SentPcs, SignupPcs, AllowancePcs, AllowanceOps,
     WebhookPcs, StripeEvents, LagoEvents
<1> USE DEF FreshPcs, AbsentPcs, RewardPcs, RereadPcs, SalePcs
<1>3. CASE CreateGet(r) \/ GetAccountGet(r)
  <2>1. UNCHANGED storeVars
    BY <1>3 DEF CreateGet, GetAccountGet
  <2>2. CASE ~Exists(proc[r].call.user)
    <3>1. Unmarked /\ (GoesTo(r, "create.customer") \/ GoesTo(r, "get_account.create"))
      BY <1>2, <1>3, <2>1, <2>2, SeriallyQuiet DEF CreateGet, GetAccountGet
    <3>2. ~Exists(proc[r].call.user)'
      BY <2>1, <2>2, <3>1 DEF Exists, storeVars, GoesTo
    <3> QED
      BY <1>2, <3>1, <3>2, SeriallyTo, ReadyPcs
  <2> QED
    BY <1>2, <1>3, <2>1, <2>2, SeriallyQuiet DEF CreateGet, GetAccountGet
<1>4. CASE CreateCustomer(r)
  <2>1. ~Exists(proc[r].call.user) /\ UNCHANGED storeVars
    BY <1>4 DEF CreateCustomer, Fresh
  <2>2. GoesTo(r, "create.put") /\ Unmarked /\ proc'[r].copy.subscription = None
    BY <1>2, <1>4, SeriallyQuiet DEF CreateCustomer, NewAccount
  <2>3. Read(r)
    BY <2>1, <2>2 DEF Read, Exists, storeVars, GoesTo
  <2> QED
    BY <1>2, <2>2, <2>3, SeriallyTo, ReadyPcs
<1>5. CASE CreatePut(r)
  <2>1. proc[r].pc = "create.put"
    BY <1>5 DEF CreatePut
  <2>2. proc[r].copy \in Sound
    BY <2>1, Stepping DEF CopyPcs
  <2>3. Unmarked /\ GoesTo(r, "done")
    BY <1>2, <1>5, <2>1, <2>2, FreshPut, EditsKeepMarks, Locals DEF CreatePut, Becomes, GoesTo
  <2> QED
    BY <2>3, SeriallyTo
<1>6. CASE GetAccountCreate(r)
  <2>1. ~Exists(proc[r].call.user)
    BY <1>6 DEF GetAccountCreate, Fresh
  <2>2. Unmarked /\ GoesTo(r, "done")
    BY <1>2, <1>6, <2>1, NewAccountSound, MarksPut, Locals
    DEF GetAccountCreate, Sound, AsRow, NewAccount, Becomes, GoesTo
  <2> QED
    BY <2>2, SeriallyTo
<1>7. CASE DeleteAccountHandler(r)
  <2>1. GoesTo(r, "done")
    BY <1>2, <1>7, Locals DEF DeleteAccountHandler, NoAccount, Becomes, GoesTo
  <2> QED
    BY <1>7, <2>1, LandedDone DEF Serially
<1> QED
  BY <1>3, <1>4, <1>5, <1>6, <1>7 DEF Accounts, CreateAccount, GetAccount

LEMMA SubscribeSerial ==
  ASSUME Inv, NEW r \in Request, Fresh(proc[r]), CallAt(proc[r]), Subscribe(r)
  PROVE  Serially(r)
<1> USE DEF At, Arg, Copy
<1>1. proc[r].pc \in {"subscribe_zero_pro", "checkout", "portal", "cancel_zero_pro"} \cup SubscribePcs
  BY DEF Subscribe, ZeroPro, SubscribeGet, SubscribeCustomer, SubscribePut, SubscribePay,
     CheckoutAsk, PortalAsk, CancelAsk, StripeCall, SubscribePcs
<1>2. /\ ProcInv /\ proc[r].call.user \in User
      /\ \A pc \in SubscribePcs : Allowed(r, pc)
  BY <1>1, Stepping, AllowedPcs DEF SubscribePcs, SentPcs, SignupPcs, AllowancePcs, AllowanceOps,
     WebhookPcs, StripeEvents, LagoEvents
<1> USE DEF FreshPcs, AbsentPcs, RewardPcs, RereadPcs, SalePcs, SubscribePcs
<1>3. CASE SubscribeGet(r)
  <2> DEFINE a == IF Exists(proc[r].call.user) THEN accounts[proc[r].call.user] ELSE NewAccount
  <2>1. /\ UNCHANGED storeVars
        /\ \/ \E x : Answer(r, x)
           \/ a.subscription = None /\ Goto(r, "subscribe.pay")
           \/ a.subscription = None /\ Keep(r, a, "subscribe.customer")
    BY <1>3 DEF SubscribeGet
  <2>4. a.subscription = None => Unsold(proc[r].call.user)
    BY <2>1 DEF Unsold, Exists, storeVars
  <2>2. CASE a.subscription = None /\ Keep(r, a, "subscribe.customer")
    <3>1. Unmarked /\ GoesTo(r, "subscribe.customer") /\ proc'[r].copy = a
      BY <1>2, <2>1, <2>2, SeriallyQuiet
    <3>2. Read(r)
      BY <2>1, <3>1 DEF Read, Exists, SameMarks, NewAccount, storeVars
    <3>3. Ready(r, "subscribe.customer")
      BY <2>2, <2>4, <3>2, ReadyPcs
    <3> QED
      BY <1>2, <3>1, <3>3, SeriallyTo
  <2>3. CASE a.subscription = None /\ Goto(r, "subscribe.pay")
    <3>1. Unmarked /\ GoesTo(r, "subscribe.pay")
      BY <1>2, <2>1, <2>3, SeriallyQuiet
    <3>2. Ready(r, "subscribe.pay")
      BY <2>3, <2>4, ReadyPcs
    <3> QED
      BY <1>2, <3>1, <3>2, SeriallyTo
  <2> QED
    BY <1>2, <2>1, <2>2, <2>3, SeriallyQuiet
<1>4. CASE SubscribeCustomer(r)
  <2>1. CASE Goto(r, "subscribe.put")
    <3>1. Unmarked /\ GoesTo(r, "subscribe.put") /\ proc'[r].copy = proc[r].copy
      BY <1>2, <1>4, <2>1, SeriallyQuiet DEF SubscribeCustomer
    <3>2. Read(r)
      BY <1>4, <3>1, StillRead DEF SubscribeCustomer, storeVars
    <3>3. Unsold(proc[r].call.user)
      BY <1>4, <3>1, StillRead DEF SubscribeCustomer, storeVars
    <3>4. Ready(r, "subscribe.put")
      BY <3>2, <3>3, ReadyPcs
    <3> QED
      BY <1>2, <3>1, <3>4, SeriallyTo
  <2> QED
    BY <1>2, <1>4, <2>1, SeriallyQuiet DEF SubscribeCustomer
<1>5. CASE SubscribePut(r)
  <2>1. proc[r].pc = "subscribe.put"
    BY <1>5 DEF SubscribePut
  <2>2. proc[r].copy \in Sound
    BY <2>1, Stepping DEF CopyPcs
  <2> DEFINE a == [proc[r].copy EXCEPT !.stripe_customer = TRUE]
  <2>3. a \in Sound /\ SameMarks(a, proc[r].copy)
    BY <2>2, SoundEdits, EditsKeepMarks
  <2>4. PutAccount(proc[r].call.user, a) /\ Goto(r, "subscribe.pay")
    BY <1>5 DEF SubscribePut
  <2> HIDE DEF a
  <2>5. Unmarked /\ GoesTo(r, "subscribe.pay")
    BY <1>2, <2>1, <2>3, <2>4, FreshPut, Locals DEF Becomes, GoesTo
  <2>6. SubscriptionOf(proc[r].call.user) = None
    BY <2>1 DEF Fresh
  <2>7. Unsold(proc[r].call.user)
    BY <1>2, <2>5, <2>6 DEF Unmarked, SameMarks, SubscriptionOf, Unsold, Exists
  <2>8. Ready(r, "subscribe.pay")
    BY <2>7, ReadyPcs
  <2> QED
    BY <1>2, <2>5, <2>8, SeriallyTo
<1>6. CASE SubscribePay(r) \/ StripeCall(r)
  BY <1>2, <1>6, SeriallyQuiet DEF SubscribePay, StripeCall
<1>7. CASE CheckoutAsk(r)
  <2>1. /\ UNCHANGED storeVars
        /\ \/ Answer(r, "bad_request")
           \/ Unsold(proc[r].call.user) /\ Goto(r, "checkout.session")
    BY <1>7 DEF CheckoutAsk, Unsold, Exists, storeVars
  <2>2. Unsold(proc[r].call.user) => Ready(r, "checkout.session")
    BY ReadyPcs
  <2> QED
    BY <1>2, <2>1, <2>2, SeriallyQuiet, SeriallyTo
<1>8. CASE PortalAsk(r)
  <2>1. UNCHANGED storeVars /\ ((\E x : Answer(r, x)) \/ Goto(r, "portal.session"))
    BY <1>8 DEF PortalAsk
  <2> QED
    BY <1>2, <2>1, SeriallyQuiet, SeriallyTo, ReadyPcs
<1>9. CASE CancelAsk(r)
  <2>1. UNCHANGED storeVars /\ ((\E x : Answer(r, x)) \/ \E a : Keep(r, a, "cancel.end"))
    BY <1>9 DEF CancelAsk
  <2> QED
    BY <1>2, <2>1, SeriallyQuiet, SeriallyTo, ReadyPcs
<1> QED
  BY <1>3, <1>4, <1>5, <1>6, <1>7, <1>8, <1>9 DEF Subscribe, ZeroPro

\* An event that is being applied is not recorded meanwhile.
LEMMA ReceivedSerial ==
  ASSUME Inv, NEW r \in Request, CallAt(proc[r]), StripeReceive(r) \/ LagoReceive(r) \/ Resolve(r)
  PROVE  Serially(r)
<1> USE DEF At, Arg, Copy
<1>1. /\ proc[r].pc \in {"stripe_webhook", "lago_webhook", "resolve"} /\ UNCHANGED storeVars
      /\ proc[r].pc = "resolve" => proc[r].call.id \notin processed_webhooks
      /\ proc[r].call.op \in {"stripe_webhook", "lago_webhook"}
  BY DEF StripeReceive, LagoReceive, Resolve, CallAt, WebhookPcs, SentPcs
<1>2. /\ ProcInv
      /\ proc[r].pc \in {"stripe_webhook", "resolve"} => proc[r].call.event \in StripeEvents
  BY <1>1, Stepping DEF HoldsCall
<1>3. \/ \E x : Answer(r, x)
      \/ /\ proc[r].call.id \notin processed_webhooks
         /\ \E pc \in StripeEvents \cup {"resolve", "record", "lago.started"} : Goto(r, pc)
  BY <1>1, <1>2 DEF StripeReceive, LagoReceive, Resolve, Done, StripeEvents
<1>4. ASSUME NEW pc \in StripeEvents \cup {"resolve", "record", "lago.started"}, Goto(r, pc),
             proc[r].call.id \notin processed_webhooks
      PROVE  Serially(r)
  <2>1. Unmarked /\ GoesTo(r, pc)
    BY <1>1, <1>2, <1>4, SeriallyQuiet
  <2>2. pc \in WebhookPcs
    BY DEF WebhookPcs, StripeEvents, LagoEvents
  <2>3. Allowed(r, pc)
    BY <1>1, <1>4, <2>2, AllowedPcs DEF storeVars
  <2>4. Ready(r, pc)
    BY ReadyPcs DEF StripeEvents, FreshPcs, AbsentPcs, RewardPcs,
     RereadPcs, SalePcs
  <2> QED
    BY <2>1, <2>3, <2>4, SeriallyTo
<1> QED
  BY <1>1, <1>2, <1>3, <1>4, SeriallyQuiet

LEMMA WebhookContext ==
  ASSUME Inv, NEW r \in Request, CallAt(proc[r]), Webhooks(r), ~RecordEvent(r),
         proc[r].pc \in WebhookPcs
  PROVE  /\ ProcInv /\ proc[r].call.user \in User
         /\ \A pc \in WebhookPcs : Allowed(r, pc)
         /\ \A pc \in WebhookPcs : Unmarked /\ GoesTo(r, pc) /\ Ready(r, pc) => Serially(r)
<1>1. proc[r].pc # "new"
  BY DEF WebhookPcs, StripeEvents, LagoEvents
<1>2. ProcInv /\ proc[r].call.user \in User
  BY <1>1, Stepping
<1>3. \A pc \in WebhookPcs : Allowed(r, pc)
  BY <1>2, WebhooksUnrecorded, AllowedPcs DEF Unrecorded, CallAt
<1> QED
  BY <1>2, <1>3, SeriallyTo

LEMMA CheckoutSerial ==
  ASSUME Inv, NEW r \in Request, Fresh(proc[r]), CallAt(proc[r]), Checkout(r)
  PROVE  Serially(r)
<1> USE DEF At, Arg, Copy
<1>1. proc[r].pc \in {"checkout.subscription", "checkout.create", "checkout.put",
                      "checkout.payment", "purchase.add"}
  BY DEF Checkout, CheckoutGet, CheckoutCreate, CheckoutPut, PurchaseGet, PurchaseAdd
<1>2. proc[r].pc \in WebhookPcs /\ Webhooks(r) /\ ~RecordEvent(r)
  BY <1>1 DEF WebhookPcs, StripeEvents, Webhooks, RecordEvent
<1>3. /\ ProcInv /\ proc[r].call.user \in User
      /\ \A pc \in {"checkout.create", "checkout.put", "purchase.add", "record"} :
           /\ Allowed(r, pc)
           /\ Unmarked /\ GoesTo(r, pc) /\ Ready(r, pc) => Serially(r)
      /\ Ready(r, "record") /\ Ready(r, "purchase.add")
  BY <1>2, WebhookContext, ReadyPcs DEF WebhookPcs, StripeEvents, FreshPcs, AbsentPcs, RewardPcs,
     RereadPcs, SalePcs
<1> USE DEF FreshPcs, AbsentPcs, RewardPcs, RereadPcs, SalePcs
<1>4. CASE CheckoutGet(r)
  <2>1. Unmarked /\ \/ GoesTo(r, "checkout.put") /\ Read(r)
                    \/ GoesTo(r, "checkout.create") /\ ~Exists(proc[r].call.user)'
    BY <1>1, <1>4, HelpersRead DEF CheckoutGet
  <2> QED
    BY <1>3, <2>1, ReadyPcs
<1>5. CASE CheckoutCreate(r)
  <2>1. ~Exists(proc[r].call.user)
    BY <1>5 DEF CheckoutCreate, Fresh
  <2>2. Unmarked /\ GoesTo(r, "checkout.put") /\ Read(r)
    BY <1>1, <1>5, <2>1, HelpersRead DEF CheckoutCreate
  <2> QED
    BY <1>3, <2>2, ReadyPcs
<1>6. CASE CheckoutPut(r)
  <2>1. proc[r].pc = "checkout.put"
    BY <1>6 DEF CheckoutPut
  <2>2. proc[r].copy \in Sound
    BY <2>1, Stepping DEF CopyPcs
  <2> DEFINE a == [proc[r].copy EXCEPT !.stripe_customer = TRUE]
  <2>3. a \in Sound /\ SameMarks(a, proc[r].copy)
    BY <2>2, SoundEdits, EditsKeepMarks
  <2>4. PutAccount(proc[r].call.user, a) /\ Goto(r, "record")
    BY <1>6 DEF CheckoutPut, Done
  <2> HIDE DEF a
  <2>5. Unmarked /\ GoesTo(r, "record")
    BY <1>3, <2>1, <2>3, <2>4, FreshPut, Locals DEF Becomes, GoesTo
  <2> QED
    BY <1>3, <2>5
<1>7. CASE PurchaseGet(r)
  <2>1. CASE Goto(r, "record") /\ UNCHANGED storeVars
    BY <1>3, <2>1, SeriallyQuiet
  <2>2. CASE GetOrNotFound(r, proc[r].call.user, "purchase.add")
    <3>1. Unmarked /\ (GoesTo(r, "purchase.add") \/ GoesTo(r, "done"))
      BY <1>1, <2>2, HelpersRead
    <3> QED
      BY <1>3, <3>1, SeriallyTo
  <2> QED
    BY <1>7, <2>1, <2>2 DEF PurchaseGet, Done
<1>8. CASE PurchaseAdd(r)
  <2>1. Unmarked /\ (GoesTo(r, "record") \/ GoesTo(r, "done"))
    BY <1>1, <1>3, <1>8, Numbers, HelpersRead DEF PurchaseAdd
  <2> QED
    BY <1>3, <2>1, SeriallyTo
<1> QED
  BY <1>4, <1>5, <1>6, <1>7, <1>8 DEF Checkout

LEMMA SubscriptionSerial ==
  ASSUME Inv, NEW r \in Request, Fresh(proc[r]), CallAt(proc[r]), SubscriptionUpdate(r)
  PROVE  Serially(r)
<1> USE DEF At, Arg, Copy
<1> DEFINE steps == {"subscription.create", "subscription.put", "subscription.referral",
                     "subscription.invitee", "subscription.inviter",
                     "subscription.create_inviter", "subscription.add"}
<1>1. proc[r].pc \in {"subscription.updated"} \cup steps
  BY DEF SubscriptionUpdate, SubscriptionGet, SubscriptionCreate, SubscriptionPut,
     SubscriptionReferral, SubscriptionInvitee, SubscriptionInviterGet,
     SubscriptionInviterCreate, SubscriptionInviter
<1>2. proc[r].pc \in WebhookPcs /\ Webhooks(r) /\ ~RecordEvent(r) /\ proc[r].pc # "new"
  BY <1>1 DEF WebhookPcs, StripeEvents, Webhooks, RecordEvent
<1>3. /\ ProcInv /\ proc[r].call.user \in User
      /\ \A pc \in {"record"} \cup steps :
           Allowed(r, pc) /\ (Unmarked /\ GoesTo(r, pc) /\ Ready(r, pc) => Serially(r))
      /\ Ready(r, "record") /\ Ready(r, "subscription.referral")
      /\ Ready(r, "subscription.inviter") /\ Ready(r, "subscription.add")
  BY <1>2, WebhookContext, ReadyPcs DEF WebhookPcs, StripeEvents, FreshPcs, AbsentPcs, RewardPcs,
     RereadPcs, SalePcs
<1>4. CASE SubscriptionGet(r)
  <2>1. Unmarked /\ \/ GoesTo(r, "subscription.put") /\ Read(r)
                    \/ GoesTo(r, "subscription.create") /\ ~Exists(proc[r].call.user)'
    BY <1>2, <1>4, HelpersRead DEF SubscriptionGet
  <2> QED
    BY <1>3, <2>1, ReadyPcs DEF FreshPcs, AbsentPcs, RewardPcs, RereadPcs, SalePcs
<1>5. CASE SubscriptionCreate(r)
  <2>1. ~Exists(proc[r].call.user)
    BY <1>5 DEF SubscriptionCreate, Fresh, AbsentPcs
  <2>2. Unmarked /\ GoesTo(r, "subscription.put") /\ Read(r)
    BY <1>2, <1>5, <2>1, HelpersRead DEF SubscriptionCreate
  <2> QED
    BY <1>3, <2>2, ReadyPcs DEF FreshPcs, SalePcs
<1>6. CASE SubscriptionPut(r)
  <2>1. GoesTo(r, "record") \/ GoesTo(r, "subscription.referral")
    BY <1>3, <1>6, Locals DEF SubscriptionPut, Done, Becomes, GoesTo
  <2> QED
    BY <1>3, <1>6, <2>1, Landed DEF Serially
<1>7. CASE SubscriptionReferral(r)
  <2>1. UNCHANGED storeVars
    BY <1>7 DEF SubscriptionReferral
  <2>2. CASE Goto(r, "subscription.invitee") /\ ~HasReferralBonus(proc[r].call.user)
    <3>1. Unmarked /\ GoesTo(r, "subscription.invitee")
      BY <1>3, <2>1, <2>2, SeriallyQuiet
    <3>2. Ready(r, "subscription.invitee")
      BY <2>1, <2>2, <3>1 DEF storeVars, Ready, HasReferralBonus, GoesTo, FreshPcs, AbsentPcs, RewardPcs, RereadPcs, SalePcs
    <3> QED
      BY <1>3, <3>1, <3>2
  <2> QED
    BY <1>3, <1>7, <2>1, <2>2, SeriallyQuiet DEF SubscriptionReferral, Done
<1>8. CASE SubscriptionInvitee(r)
  <2>1. Unmarked /\ (GoesTo(r, "subscription.inviter") \/ GoesTo(r, "done"))
    BY <1>2, <1>3, <1>8, Numbers, HelpersRead DEF SubscriptionInvitee
  <2> QED
    BY <1>3, <2>1, SeriallyTo
<1>9. CASE SubscriptionInviterGet(r)
  <2>1. UNCHANGED storeVars
    BY <1>9 DEF SubscriptionInviterGet
  <2>2. CASE Goto(r, "subscription.create_inviter") /\ ~Exists(proc[r].copy.referred_by)
    <3>1. /\ Unmarked /\ GoesTo(r, "subscription.create_inviter")
          /\ proc'[r].copy = proc[r].copy
      BY <1>3, <2>1, <2>2, SeriallyQuiet
    <3>2. Ready(r, "subscription.create_inviter")
      BY <2>1, <2>2, <3>1 DEF storeVars, Ready, Exists, FreshPcs, AbsentPcs, RewardPcs, RereadPcs, SalePcs
    <3> QED
      BY <1>3, <3>1, <3>2
  <2> QED
    BY <1>3, <1>9, <2>1, <2>2, SeriallyQuiet DEF SubscriptionInviterGet
<1>10. CASE SubscriptionInviterCreate(r)
  <2>1. proc[r].copy.referred_by \in User /\ ~Exists(proc[r].copy.referred_by)
    BY <1>2, <1>10, Stepping DEF SubscriptionInviterCreate, HoldsCopy, ReferralPcs, Fresh
  <2>2. Unmarked /\ GoesTo(r, "subscription.add")
    BY <1>3, <1>10, <2>1, NewAccountSound, MarksPut, Locals
    DEF SubscriptionInviterCreate, Sound, AsRow, NewAccount, Becomes, GoesTo
  <2> QED
    BY <1>3, <2>2
<1>11. CASE SubscriptionInviter(r)
  <2>1. proc[r].copy.referred_by \in User
    BY <1>2, <1>11, Stepping DEF SubscriptionInviter, HoldsCopy, ReferralPcs
  <2>2. Unmarked /\ (GoesTo(r, "record") \/ GoesTo(r, "done"))
    BY <1>2, <1>11, <2>1, Numbers, HelpersRead DEF SubscriptionInviter
  <2> QED
    BY <1>3, <2>2, SeriallyTo
<1> QED
  BY <1>4, <1>5, <1>6, <1>7, <1>8, <1>9, <1>10, <1>11 DEF SubscriptionUpdate

LEMMA EndingSerial ==
  ASSUME Inv, NEW r \in Request, Fresh(proc[r]), CallAt(proc[r]),
         SubscriptionDeleted(r) \/ PaymentFailed(r)
  PROVE  Serially(r)
<1> USE DEF At, Arg, Copy
<1>1. proc[r].pc \in {"subscription.deleted", "deleted.put", "invoice.payment_failed", "failed.put"}
  BY DEF SubscriptionDeleted, DeletedGet, DeletedPut, PaymentFailed, FailedGet, FailedPut
<1>2. proc[r].pc \in WebhookPcs /\ Webhooks(r) /\ ~RecordEvent(r) /\ proc[r].pc # "new"
  BY <1>1 DEF WebhookPcs, StripeEvents, Webhooks, RecordEvent
<1>3. /\ ProcInv /\ proc[r].call.user \in User
      /\ \A pc \in {"deleted.put", "failed.put", "record"} :
           Allowed(r, pc) /\ (Unmarked /\ GoesTo(r, pc) /\ Ready(r, pc) => Serially(r))
      /\ Ready(r, "record")
      /\ Read(r) => Ready(r, "deleted.put") /\ Ready(r, "failed.put")
  BY <1>2, WebhookContext, ReadyPcs DEF WebhookPcs, StripeEvents, FreshPcs, AbsentPcs, RewardPcs,
     RereadPcs, SalePcs
<1>4. CASE DeletedGet(r) \/ FailedGet(r)
  <2>1. /\ UNCHANGED storeVars
        /\ \/ Goto(r, "record")
           \/ /\ Exists(proc[r].call.user)
              /\ \E pc \in {"deleted.put", "failed.put"} : Keep(r, accounts[proc[r].call.user], pc)
    BY <1>4 DEF DeletedGet, FailedGet, Done
  <2>2. ASSUME NEW pc \in {"deleted.put", "failed.put"}, Exists(proc[r].call.user),
               Keep(r, accounts[proc[r].call.user], pc)
        PROVE  Serially(r)
    <3>1. Unmarked /\ GoesTo(r, pc) /\ proc'[r].copy = accounts[proc[r].call.user]
      BY <1>3, <2>1, <2>2, SeriallyQuiet
    <3>2. Read(r)
      BY <2>1, <2>2, <3>1 DEF Read, Exists, SameMarks, storeVars
    <3> QED
      BY <1>3, <3>1, <3>2
  <2> QED
    BY <1>3, <2>1, <2>2, SeriallyQuiet
<1>5. CASE DeletedPut(r) \/ FailedPut(r)
  <2>1. GoesTo(r, "record")
    BY <1>3, <1>5, Locals DEF DeletedPut, FailedPut, Done, Becomes, GoesTo
  <2> QED
    BY <1>3, <1>5, <2>1, Landed DEF Serially
<1> QED
  BY <1>4, <1>5 DEF SubscriptionDeleted, PaymentFailed

LEMMA InvoiceSerial ==
  ASSUME Inv, NEW r \in Request, Fresh(proc[r]), CallAt(proc[r]), InvoicePaid(r)
  PROVE  Serially(r)
<1> USE DEF At, Arg, Copy
<1> DEFINE steps == {"invoice.prorate", "invoice.add", "invoice.reread", "invoice.mark"}
<1>1. proc[r].pc \in {"invoice.paid"} \cup steps
  BY DEF InvoicePaid, InvoiceGet, InvoiceProrate, InvoiceAdd, InvoiceReread, InvoiceMark
<1>2. proc[r].pc \in WebhookPcs /\ Webhooks(r) /\ ~RecordEvent(r) /\ proc[r].pc # "new"
  BY <1>1 DEF WebhookPcs, StripeEvents, Webhooks, RecordEvent
<1>3. /\ ProcInv /\ proc[r].call.user \in User
      /\ \A pc \in {"record"} \cup steps :
           Unmarked /\ GoesTo(r, pc) /\ Ready(r, pc) => Serially(r)
      /\ Ready(r, "record") /\ Ready(r, "invoice.prorate") /\ Ready(r, "invoice.add")
      /\ (Stays(proc[r].call.user) => Ready(r, "invoice.reread"))
      /\ (Read(r) => Ready(r, "invoice.mark"))
  BY <1>2, WebhookContext, ReadyPcs DEF WebhookPcs, StripeEvents, FreshPcs, AbsentPcs, RewardPcs,
     RereadPcs, SalePcs
<1>4. CASE InvoiceGet(r)
  <2>1. /\ UNCHANGED storeVars
        /\ \/ Goto(r, "record")
           \/ \E a, n : KeepAndCompute(r, a, n, "invoice.add")
           \/ \E a : Keep(r, a, "invoice.prorate")
    BY <1>4 DEF InvoiceGet, Done
  <2> QED
    BY <1>3, <2>1, SeriallyQuiet
<1>5. CASE InvoiceProrate(r)
  <2>1. UNCHANGED storeVars /\ \E n : Compute(r, n, "invoice.add")
    BY <1>5 DEF InvoiceProrate
  <2> QED
    BY <1>3, <2>1, SeriallyQuiet
<1>6. CASE InvoiceAdd(r)
  <2>1. CASE UNCHANGED storeVars /\ Goto(r, "record")
    BY <1>3, <2>1, SeriallyQuiet
  <2>2. CASE \E n \in Int : \E pc \in {"invoice.reread", "record"} :
               Credit(r, proc[r].call.user, n, "monthly_allowance", pc)
    <3>1. Unmarked /\ \/ GoesTo(r, "invoice.reread") /\ Stays(proc[r].call.user)
                      \/ GoesTo(r, "record")
                      \/ GoesTo(r, "done")
      BY <1>2, <1>3, <2>2, HelpersRead
    <3> QED
      BY <1>3, <3>1, SeriallyTo
  <2> QED
    BY <1>2, <1>6, <2>1, <2>2, Numbers DEF InvoiceAdd, Done
<1>7. CASE InvoiceReread(r)
  <2>1. Exists(proc[r].call.user)
    BY <1>7 DEF InvoiceReread, Fresh, RereadPcs
  <2>2. Unmarked /\ GoesTo(r, "invoice.mark") /\ Read(r)
    BY <1>2, <1>7, <2>1, HelpersRead DEF InvoiceReread
  <2> QED
    BY <1>3, <2>2
<1>8. CASE InvoiceMark(r)
  <2>1. GoesTo(r, "record")
    BY <1>3, <1>8, Locals DEF InvoiceMark, Done, Becomes, GoesTo
  <2>2. Allowed(r, "record")
    BY <1>2, WebhookContext DEF WebhookPcs, StripeEvents
  <2> QED
    BY <1>3, <1>8, <2>1, <2>2, Landed DEF Serially
<1> QED
  BY <1>4, <1>5, <1>6, <1>7, <1>8 DEF InvoicePaid

LEMMA LagoSerial ==
  ASSUME Inv, NEW r \in Request, Fresh(proc[r]), CallAt(proc[r]), LagoSubscriptionStarted(r)
  PROVE  Serially(r)
<1> USE DEF At, Arg, Copy
<1>1. proc[r].pc \in {"lago.started", "lago.create", "lago.add"}
  BY DEF LagoSubscriptionStarted, LagoGet, LagoCreate, LagoAdd
<1>2. proc[r].pc \in WebhookPcs /\ Webhooks(r) /\ ~RecordEvent(r) /\ proc[r].pc # "new"
  BY <1>1 DEF WebhookPcs, LagoEvents, Webhooks, RecordEvent
<1>3. /\ ProcInv /\ proc[r].call.user \in User
      /\ \A pc \in {"record", "lago.create", "lago.add"} :
           Unmarked /\ GoesTo(r, pc) /\ Ready(r, pc) => Serially(r)
      /\ Ready(r, "record") /\ Ready(r, "lago.add")
  BY <1>2, WebhookContext, ReadyPcs DEF WebhookPcs, StripeEvents, FreshPcs, AbsentPcs, RewardPcs,
     RereadPcs, SalePcs
<1>4. CASE LagoGet(r)
  <2>1. CASE UNCHANGED storeVars /\ Goto(r, "record")
    BY <1>3, <2>1, SeriallyQuiet
  <2>2. CASE GetOrElse(r, proc[r].call.user, "lago.create", "lago.add")
    <3>1. Unmarked /\ \/ GoesTo(r, "lago.add")
                      \/ GoesTo(r, "lago.create") /\ ~Exists(proc[r].call.user)'
      BY <1>2, <2>2, HelpersRead
    <3> QED
      BY <1>3, <3>1, ReadyPcs DEF AbsentPcs
  <2> QED
    BY <1>4, <2>1, <2>2 DEF LagoGet, Done
<1>5. CASE LagoCreate(r)
  <2>1. ~Exists(proc[r].call.user)
    BY <1>5 DEF LagoCreate, Fresh, AbsentPcs
  <2>2. Unmarked /\ GoesTo(r, "lago.add")
    BY <1>2, <1>5, <2>1, HelpersRead DEF LagoCreate
  <2> QED
    BY <1>3, <2>2
<1>6. CASE LagoAdd(r)
  <2>1. Unmarked /\ (GoesTo(r, "record") \/ GoesTo(r, "done"))
    BY <1>2, <1>3, <1>6, Numbers, HelpersRead DEF LagoAdd
  <2> QED
    BY <1>3, <2>1, SeriallyTo
<1> QED
  BY <1>4, <1>5, <1>6 DEF LagoSubscriptionStarted

LEMMA HandlerSerial ==
  ASSUME Inv, NEW r \in Request, Fresh(proc[r]), CallAt(proc[r]), Handler(r)
  PROVE  Serially(r)
<1>1. CASE RecordEvent(r)
  <2>1. Unmarked /\ GoesTo(r, "done")
    BY <1>1, MarksUnchanged, Locals DEF RecordEvent, RecordWebhookEvent, Inv, Becomes, GoesTo
  <2> QED
    BY <2>1, SeriallyTo
<1>2. CASE proc[r].pc \in RefillPcs
  <2>1. /\ ~Busy(r)' /\ proc'[r].pc # "new"
        /\ \/ UNCHANGED storeVars
           \/ \E u \in User : \E n \in Int : AddCredits(u, n, "auto_refill", None)
    BY <1>2, RefillTask
  <2>2. Unmarked
    BY <2>1, MarksUnchanged, MarksAdded DEF storeVars
  <2>3. proc'[r].pc \in {"done"} \cup RefillPcs /\ proc'[r].call = proc[r].call
    BY <2>1, HandlerRecords DEF Busy, Goes, Becomes, Inv
  <2>4. GoesTo(r, proc'[r].pc)
    BY <2>3 DEF GoesTo
  <2>5. Ready(r, proc'[r].pc) /\ Allowed(r, proc'[r].pc)
    BY <2>3, ReadyPcs, AllowedPcs DEF RefillPcs, FreshPcs, AbsentPcs, RewardPcs, RereadPcs,
       SalePcs, SentPcs, SignupPcs, AllowancePcs, AllowanceOps, WebhookPcs, StripeEvents, LagoEvents
  <2> QED
    BY <2>2, <2>4, <2>5, SeriallyTo
<1>3. CASE Credits(r)
  BY <1>3, SignupSerial, AllowanceSerial, ReferralSerial, OtherCreditsSerial DEF Credits
<1>4. CASE Usage(r) /\ ~Refill(r)
  BY <1>4, ReportSerial, AllowanceSerial DEF Usage
<1>5. CASE Refill(r)
  <2>1. proc[r].pc \in RefillPcs
    BY <1>5 DEF Refill, RefillPay, RefillGet, RefillAdd, At, RefillPcs
  <2> QED
    BY <1>2, <2>1
<1>6. CASE Accounts(r) \/ Subscribe(r)
  BY <1>6, AccountsSerial, SubscribeSerial
<1>7. CASE Webhooks(r)
  BY <1>1, <1>7, ReceivedSerial, CheckoutSerial, SubscriptionSerial, EndingSerial,
     InvoiceSerial, LagoSerial DEF Webhooks
<1> QED
  BY <1>3, <1>4, <1>5, <1>6, <1>7 DEF Handler

-----------------------------------------------------------------------------
(* ... and of the requests that do not step.                               *)

\* Whoever is not busy goes by no copy.
LEMMA IdleSerial ==
  ASSUME NEW s \in Request, ~Busy(s)'
  PROVE  Fresh(proc[s])' /\ CallAt(proc[s])'
<1>1. proc'[s].pc \in {"new", "done"} \cup RefillPcs
  BY DEF Busy
<1> QED
  BY <1>1 DEF Fresh, CallAt, RefillPcs, FreshPcs, AbsentPcs, RewardPcs, RereadPcs, SalePcs, SentPcs, SignupPcs,
     AllowancePcs, AllowanceOps, WebhookPcs, StripeEvents, LagoEvents

\* What does not touch what the grants go by, and opens no account, leaves
\* every other request as good as it was.
LEMMA KeptSerial ==
  ASSUME Inv, NEW s \in Request, proc'[s] = proc[s], Fresh(proc[s]), CallAt(proc[s]),
         Unmarked, processed_webhooks' = processed_webhooks,
         \A v \in User : Exists(v)' => Exists(v),
         \A v \in User : HasReferralBonus(v)' => HasReferralBonus(v)
  PROVE  Fresh(proc[s])' /\ CallAt(proc[s])'
<1> DEFINE p == proc[s]
<1>1. CASE p.pc = "new"
  BY <1>1, IdleSerial DEF Busy
<1>2. CASE p.pc # "new"
  <2>1. /\ p.call.user \in User /\ (p.pc = "referral.create_inviter" => p.call.other \in User)
        /\ p.pc = "subscription.create_inviter" => p.copy.referred_by \in User
    BY <1>2, Stepping DEF HoldsCall, HoldsCopy, ReferralPcs
  <2>2. /\ p.pc \in FreshPcs =>
             IF accounts'[p.call.user] # None
             THEN SameMarks(p.copy, accounts'[p.call.user]) ELSE p.copy.subscription = None
        /\ p.pc \in RereadPcs => Exists(p.call.user)'
        /\ p.pc \in SalePcs => SubscriptionOf(p.call.user)' = None
        /\ p.pc \in AbsentPcs => ~Exists(p.call.user)'
        /\ p.pc = "referral.create_inviter" => ~Exists(p.call.other)'
        /\ p.pc = "subscription.create_inviter" => ~Exists(p.copy.referred_by)'
        /\ p.pc \in RewardPcs => ~HasReferralBonus(p.call.user)'
    BY <2>1, UnmarkedSubscriptions DEF Fresh, AsRow, Unmarked, SameMarks, Exists
  <2>3. Fresh(proc[s])'
    BY <2>2 DEF Fresh, AsRow, SubscriptionOf, Exists, HasReferralBonus, SameMarks
  <2> QED
    BY <2>3 DEF CallAt
<1> QED
  BY <1>1, <1>2

\* A credit of another kind is no referral bonus.
LEMMA NoBonusAdded ==
  ASSUME Inv, NEW u \in User, NEW n, NEW type, NEW ref, type # "referral_bonus",
         AddCredits(u, n, type, ref)
  PROVE  \A v \in User : HasReferralBonus(v)' => HasReferralBonus(v)
<1>1. Record(u, type, n, accounts[u].balance + n, ref)
  BY DEF AddCredits
<1>2. ASSUME NEW v \in User, NEW i \in DOMAIN ledger'[v], ledger'[v][i].type = "referral_bonus"
      PROVE  HasReferralBonus(v)
  <2>1. CASE v = u
    <3>1. i # Len(ledger[u]) + 1 /\ i \in 1..(Len(ledger[u]) + 1)
      BY <1>1, <1>2, <2>1, Appended
    <3>2. i \in DOMAIN ledger[u] /\ ledger'[u][i] = ledger[u][i]
      BY <1>1, <3>1, Appended
    <3> QED
      BY <1>2, <2>1, <3>2 DEF HasReferralBonus
  <2>2. CASE v # u
    BY <1>1, <1>2, <2>2, Appended DEF HasReferralBonus
  <2> QED
    BY <2>1, <2>2
<1> QED
  BY <1>2 DEF HasReferralBonus

LEMMA HandlerKeepsSerial ==
  ASSUME Inv, Serial, NEW r \in Request, Handler(r)
  PROVE  \A s \in Request : Fresh(proc[s])' /\ CallAt(proc[s])'
<1> SUFFICES ASSUME NEW s \in Request PROVE Fresh(proc[s])' /\ CallAt(proc[s])'
  OBVIOUS
<1>1. Fresh(proc[r]) /\ CallAt(proc[r]) /\ Fresh(proc[s]) /\ CallAt(proc[s]) /\ OneRuns
  BY DEF Serial
<1>2. CASE s = r
  BY <1>1, <1>2, HandlerSerial DEF Serially
<1>3. CASE s # r /\ Busy(r)
  <2>1. proc'[s] = proc[s]
    BY <1>1, <1>3, HandlerBusy
  <2>2. ~Busy(s)'
    BY <1>1, <1>3, <2>1 DEF OneRuns, Busy
  <2> QED
    BY <2>2, IdleSerial
<1>4. CASE s # r /\ ~Busy(r)
  <2>1. proc'[s] = proc[s] /\ proc[r].pc \in RefillPcs
    BY <1>1, <1>4, HandlerBusy DEF Busy
  <2>2. processed_webhooks' = processed_webhooks
    BY <2>1, RefillTask DEF storeVars, AddCredits
  <2>3. CASE UNCHANGED storeVars
    <3>1. Unmarked
      BY <2>3, MarksUnchanged DEF storeVars
    <3> QED
      BY <1>1, <2>1, <2>3, <3>1, KeptSerial DEF storeVars, Exists, HasReferralBonus
  <2>4. ASSUME NEW u \in User, NEW n \in Int, AddCredits(u, n, "auto_refill", None)
        PROVE  Fresh(proc[s])' /\ CallAt(proc[s])'
    <3>1. Unmarked /\ \A v \in User : Exists(v)' => Exists(v)
      BY <2>4, MarksAdded
    <3>2. \A v \in User : HasReferralBonus(v)' => HasReferralBonus(v)
      BY <2>4, NoBonusAdded
    <3> QED
      BY <1>1, <2>1, <2>2, <3>1, <3>2, KeptSerial
  <2> QED
    BY <2>1, <2>3, <2>4, RefillTask
<1> QED
  BY <1>2, <1>3, <1>4

LEMMA SerialStep ==
  ASSUME OneAtATime, Inv, Serial, [Next]_vars
  PROVE  Serial'
<1>1. OneRuns'
  BY OneRunsStep DEF Serial
<1>2. ASSUME NEW s \in Request, proc'[s] = proc[s], UNCHANGED <<accounts, ledger, processed_webhooks>>
      PROVE  Fresh(proc[s])' /\ CallAt(proc[s])'
  <2>1. Unmarked
    BY <1>2, MarksUnchanged
  <2> QED
    BY <1>2, <2>1, KeptSerial DEF Serial, Exists, HasReferralBonus
<1>3. CASE UNCHANGED vars \/ Tick
  BY <1>1, <1>2, <1>3 DEF Serial, Tick, vars
<1>4. ASSUME NEW r \in Request, Send(r) PROVE Serial'
  <2>1. PICK c \in Calls : proc' = [proc EXCEPT ![r].pc = c.op, ![r].call = c]
    BY <1>4 DEF Send
  <2>2. proc'[r].pc = c.op /\ proc'[r].call = c /\ \A t \in Request \ {r} : proc'[t] = proc[t]
    BY <2>1 DEF Inv, ProcInv, Proc, ProcAt
  <2>3. c.op \in Routes
    BY CallsAssumption DEF WellFormed
  <2>4. Fresh(proc[r])' /\ CallAt(proc[r])'
    BY <2>2, <2>3 DEF Fresh, CallAt, Routes, FreshPcs, AbsentPcs, RewardPcs, RereadPcs, SalePcs, SentPcs, SignupPcs,
       AllowancePcs, AllowanceOps, WebhookPcs, StripeEvents, LagoEvents
  <2> QED
    BY <1>1, <1>2, <1>4, <2>2, <2>4 DEF Serial, Send, storeVars
<1>5. ASSUME NEW r \in Request, Abandon(r) PROVE Serial'
  <2>1. GoesTo(r, "done") /\ \A t \in Request \ {r} : proc'[t] = proc[t]
    BY <1>5, Locals DEF Abandon, Becomes, GoesTo, Inv
  <2> QED
    BY <1>1, <1>2, <1>5, <2>1, LandedDone DEF Serial, Abandon, storeVars
<1>6. ASSUME NEW r \in Request, Handler(r) PROVE Serial'
  BY <1>1, <1>6, HandlerKeepsSerial DEF Serial
<1> QED
  BY <1>3, <1>4, <1>5, <1>6 DEF Next, Terminating

LEMMA InitSerial == Init => Serial
BY DEF Init, NotSent, Serial, OneRuns, Busy, Fresh, CallAt, FreshPcs, AbsentPcs, RewardPcs, RereadPcs, SalePcs,
   SentPcs, SignupPcs, AllowancePcs, AllowanceOps, WebhookPcs, StripeEvents, LagoEvents

\* When requests run one at a time, what a handler has read of the grants of an
\* account is what the row says when the handler writes it back, an account it
\* found absent is absent when it creates it, a user it found without a bonus
\* has none when it is paid, and an event it found new is not recorded; who is
\* about to be sold a subscription has none; though the tasks that refill
\* accounts go on beside the requests.
THEOREM CopiesStayFresh == OneAtATime => (Spec => []Serial)
<1> SUFFICES ASSUME OneAtATime PROVE Spec => []Serial
  OBVIOUS
<1>1. Inv /\ Serial /\ [Next]_vars => Serial'
  BY SerialStep
<1> QED
  BY <1>1, InitSerial, Invariant, PTL DEF Spec

=============================================================================
