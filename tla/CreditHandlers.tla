---------------------------- MODULE CreditHandlers ----------------------------
(***************************************************************************)
(* handlers/credits.rs: the grants, each of which adds credits in one      *)
(* store call and marks the account in a later one, and the handlers that  *)
(* set an account's auto-refill or add credits by hand.                    *)
(***************************************************************************)
EXTENDS Requests

CONSTANTS
  SignupGrant, ReferralGrant,   \* env-configured amounts
  DailyGrant, MonthlyCredits,   \* amounts per plan
  MonthDays,                    \* 30: days between two monthly allowances
  MinTrigger, MinRefill,        \* least auto-refill threshold and amount
  MinPurchase, MaxPurchase      \* least and largest purchase

ASSUME GrantAssumption ==
  /\ SignupGrant \in Nat /\ ReferralGrant \in Nat
  /\ DailyGrant \in [Plan -> Int]
  /\ MonthlyCredits \in [Plan -> Nat]
  /\ MonthDays \in Nat \ {0}
  /\ MinTrigger \in Nat /\ MinRefill \in Nat
  /\ MinPurchase \in Nat /\ MaxPurchase \in Nat

CreditPcs == {
  "monthly", "monthly.add", "monthly.reread", "monthly.mark", "monthly.refresh",
  "daily", "daily.reread", "daily.mark",
  "signup.create", "signup.add", "signup.reread", "signup.mark",
  "referral.create", "referral.check", "referral.invitee", "referral.inviter",
  "referral.create_inviter", "referral.add", "admin.add", "configure.put",
  "purchase.session"}

-----------------------------------------------------------------------------
(* try_monthly_allowance: the lazy backstop for a lost renewal.            *)

MonthlyDue(a) ==
  /\ a.signup_grant # None
  /\ a.last_monthly # None => today - a.last_monthly >= MonthDays
  /\ MonthlyCredits[CurrentPlan(a)] > 0

PeriodAlreadyGranted(u, sub) ==
  sub.end > today /\ MonthlySince(u, sub.start) > 0

MonthlyCheck(r) ==
  LET a == Copy(r)
      granted == a.subscription # None /\ PeriodAlreadyGranted(Arg(r).user, a.subscription)
  IN  /\ At(r, "monthly")
      /\ IF MonthlyDue(a) /\ ~granted
         THEN Compute(r, today, "monthly.add")
         ELSE Goto(r, "daily")
      /\ UNCHANGED storeVars

MonthlyAdd(r) ==
  /\ At(r, "monthly.add")
  /\ Credit(r, Arg(r).user, MonthlyCredits[CurrentPlan(Copy(r))],
            "monthly_allowance", "monthly.reread")

MonthlyReread(r) ==
  At(r, "monthly.reread") /\ Reread(r, Arg(r).user, "monthly.mark")

MonthlyMark(r) ==
  /\ At(r, "monthly.mark")
  /\ PutAccount(Arg(r).user, [Copy(r) EXCEPT !.last_monthly = proc[r].kept])
  /\ Goto(r, "monthly.refresh")

MonthlyRefresh(r) ==
  At(r, "monthly.refresh") /\ Reread(r, Arg(r).user, "daily")

TryMonthlyAllowance(r) ==
  \/ MonthlyCheck(r) \/ MonthlyAdd(r) \/ MonthlyReread(r)
  \/ MonthlyMark(r) \/ MonthlyRefresh(r)

-----------------------------------------------------------------------------
(* try_daily_grant, always the last part of a handler.                     *)

\* Mutant of DailyDue: a grant of the same day does not count.
DailyDueAgain(a) ==
  /\ a.signup_grant # None
  /\ a.last_daily # None => a.last_daily <= today
  /\ DailyGrant[CurrentPlan(a)] > 0

DailyDue(a) ==
  /\ a.signup_grant # None
  /\ a.last_daily # None => a.last_daily < today
  /\ DailyGrant[CurrentPlan(a)] > 0

DailyAdd(r) ==
  /\ At(r, "daily")
  /\ \/ ~DailyDue(Copy(r)) /\ Answer(r, "ok") /\ UNCHANGED storeVars
     \/ DailyDue(Copy(r)) /\ Credit(r, Arg(r).user, DailyGrant[CurrentPlan(Copy(r))],
                                    "daily_grant", "daily.reread")

DailyReread(r) ==
  At(r, "daily.reread") /\ Reread(r, Arg(r).user, "daily.mark")

DailyMark(r) ==
  /\ At(r, "daily.mark")
  /\ PutAccount(Arg(r).user, [Copy(r) EXCEPT !.last_daily = today])
  /\ Answer(r, "granted")

TryDailyGrant(r) == DailyAdd(r) \/ DailyReread(r) \/ DailyMark(r)

\* The two handlers that do nothing else; check_balance is in UsageHandlers.
GetBalance(r) == At(r, "get_balance") /\ GetOrNotFound(r, Arg(r).user, "monthly")

DailyGrantHandler(r) == At(r, "daily_grant") /\ GetOrNotFound(r, Arg(r).user, "daily")

-----------------------------------------------------------------------------
(* signup_grant.                                                           *)

SignupGet(r) ==
  At(r, "signup_grant") /\ GetOrElse(r, Arg(r).user, "signup.create", "signup.add")

SignupCreate(r) ==
  At(r, "signup.create") /\ Create(r, Arg(r).user, "signup.add")

SignupAdd(r) ==
  /\ At(r, "signup.add")
  /\ \/ /\ Copy(r).signup_grant # None
        /\ Answer(r, "already_granted")
        /\ UNCHANGED storeVars
     \/ /\ Copy(r).signup_grant = None
        /\ Credit(r, Arg(r).user, SignupGrant, "signup_grant", "signup.reread")

SignupReread(r) ==
  At(r, "signup.reread") /\ Reread(r, Arg(r).user, "signup.mark")

\* Mutant of SignupMark: the time of the grant is not set.
SignupMarkInviter(r) ==
  /\ At(r, "signup.mark")
  /\ PutAccount(Arg(r).user, [Copy(r) EXCEPT !.referred_by = Arg(r).other])
  /\ Answer(r, "granted")

SignupMark(r) ==
  /\ At(r, "signup.mark")
  /\ PutAccount(Arg(r).user, [Copy(r) EXCEPT !.signup_grant = today,
                                             !.referred_by = Arg(r).other])
  /\ Answer(r, "granted")

Signup(r) ==
  SignupGet(r) \/ SignupCreate(r) \/ SignupAdd(r) \/ SignupReread(r) \/ SignupMark(r)

-----------------------------------------------------------------------------
(* referral_grant: user is the invitee, other the inviter.                 *)

ReferralGet(r) ==
  /\ At(r, "referral_grant")
  /\ \/ /\ Arg(r).user = Arg(r).other
        /\ Answer(r, "bad_request")
        /\ UNCHANGED storeVars
     \/ /\ Arg(r).user # Arg(r).other
        /\ GetOrElse(r, Arg(r).user, "referral.create", "referral.check")

ReferralCreate(r) ==
  At(r, "referral.create") /\ Create(r, Arg(r).user, "referral.check")

ReferralCheck(r) ==
  /\ At(r, "referral.check")
  /\ IF HasReferralBonus(Arg(r).user)
     THEN Answer(r, "already_granted") ELSE Goto(r, "referral.invitee")
  /\ UNCHANGED storeVars

ReferralInvitee(r) ==
  /\ At(r, "referral.invitee")
  /\ Credit(r, Arg(r).user, ReferralGrant, "referral_bonus", "referral.inviter")

ReferralInviterGet(r) ==
  /\ At(r, "referral.inviter")
  /\ GetOrElse(r, Arg(r).other, "referral.create_inviter", "referral.add")

ReferralInviterCreate(r) ==
  At(r, "referral.create_inviter") /\ Create(r, Arg(r).other, "referral.add")

ReferralInviter(r) ==
  /\ At(r, "referral.add")
  /\ CreditLast(r, Arg(r).other, ReferralGrant, "referral_bonus")

Referral(r) ==
  \/ ReferralGet(r) \/ ReferralCreate(r) \/ ReferralCheck(r) \/ ReferralInvitee(r)
  \/ ReferralInviterGet(r) \/ ReferralInviterCreate(r) \/ ReferralInviter(r)

-----------------------------------------------------------------------------
(* admin_add_credits and configure_auto_refill.                            *)

AdminGet(r) ==
  /\ At(r, "admin_add_credits")
  /\ \/ Arg(r).amount <= 0 /\ Answer(r, "bad_request") /\ UNCHANGED storeVars
     \/ Arg(r).amount > 0 /\ GetOrNotFound(r, Arg(r).user, "admin.add")

\* Mutant of AdminAdd: the record states the balance that the handler computed
\* from the row it read, and not the one that the update returned.
AdminAddComputed(r) ==
  LET u == Arg(r).user
  IN  /\ At(r, "admin.add")
      /\ \/ /\ Exists(u)
            /\ accounts' = [accounts EXCEPT ![u].balance = @ + Arg(r).amount,
                                            ![u].purchased = @ + Arg(r).amount]
            /\ Record(u, "bonus", Arg(r).amount, Copy(r).balance + Arg(r).amount, None)
            /\ Answer(r, "granted")
            /\ UNCHANGED <<usage_events, processed_webhooks, today>>
         \/ NoAccount(r, u)

AdminAdd(r) ==
  At(r, "admin.add") /\ CreditLast(r, Arg(r).user, Arg(r).amount, "bonus")

AdminAddCredits(r) == AdminGet(r) \/ AdminAdd(r)

AutoRefillValid(c) == c.trigger >= MinTrigger /\ c.amount >= MinRefill

ConfigureGet(r) ==
  At(r, "configure_auto_refill") /\ GetOrNotFound(r, Arg(r).user, "configure.put")

ConfigurePut(r) ==
  /\ At(r, "configure.put")
  /\ \/ /\ ~AutoRefillValid(Arg(r).auto_refill)
        /\ Answer(r, "bad_request")
        /\ UNCHANGED storeVars
     \/ /\ AutoRefillValid(Arg(r).auto_refill)
        /\ PutAccount(Arg(r).user, [Copy(r) EXCEPT !.auto_refill = Arg(r).auto_refill])
        /\ Answer(r, "ok")

ConfigureAutoRefill(r) == ConfigureGet(r) \/ ConfigurePut(r)

-----------------------------------------------------------------------------
(* purchase_credits opens a checkout session at Stripe; the credits come   *)
(* with the event that says that the session was paid.                     *)

PurchaseAsk(r) ==
  /\ At(r, "purchase_credits")
  /\ \/ /\ Arg(r).amount \notin MinPurchase..MaxPurchase
        /\ Answer(r, "bad_request")
        /\ UNCHANGED storeVars
     \/ /\ Arg(r).amount \in MinPurchase..MaxPurchase
        /\ GetOrNotFound(r, Arg(r).user, "purchase.session")

PurchaseSession(r) ==
  /\ At(r, "purchase.session")
  /\ Answer(r, "ok") \/ Answer(r, "internal_error")
  /\ UNCHANGED storeVars

PurchaseCredits(r) == PurchaseAsk(r) \/ PurchaseSession(r)

Credits(r) ==
  \/ GetBalance(r) \/ DailyGrantHandler(r) \/ TryMonthlyAllowance(r) \/ TryDailyGrant(r)
  \/ Signup(r) \/ Referral(r) \/ AdminAddCredits(r) \/ ConfigureAutoRefill(r)
  \/ PurchaseCredits(r)

=============================================================================
