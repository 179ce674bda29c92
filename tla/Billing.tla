------------------------------- MODULE Billing --------------------------------
(***************************************************************************)
(* The billing service: every handler over one database, any number of     *)
(* requests in flight, and a clock.                                        *)
(***************************************************************************)
EXTENDS UsageHandlers, AccountHandlers, SubscriptionHandlers, WebhookHandlers

CONSTANTS
  Initial,   \* the accounts there are at first
  LastDay,   \* bound on the clock
  Overnight  \* TRUE when midnight may come while a request runs

\* An account that was opened with a signup grant, or by hand with a bonus.
Openable(a) ==
  /\ a.balance \in Nat /\ a.purchased = a.balance
  /\ a.granted = 0 /\ a.used = 0
  /\ a.signup_grant \in {0, None} /\ a.last_daily = None /\ a.last_monthly = None
  /\ a.signup_grant = 0 => a.balance = SignupGrant

ASSUME InitialAssumption ==
  /\ Initial \in [User -> Account \cup {None}]
  /\ \A u \in User : Initial[u] # None => Openable(Initial[u])

ASSUME ClockAssumption == LastDay \in Day /\ Overnight \in BOOLEAN

OpeningRecord(a) ==
  [type |-> IF a.signup_grant = None THEN "bonus" ELSE "signup_grant",
   amount |-> a.balance, after |-> a.balance, ref |-> None, day |-> 0]

OpeningLedger(a) ==
  IF a = None THEN <<>>
  ELSE IF a.balance = 0 THEN <<>>
  ELSE <<OpeningRecord(a)>>

Proc == ProcAt({"new", "done"} \cup Routes \cup CreditPcs \cup UsagePcs
                 \cup AccountPcs \cup SubscribePcs \cup WebhookPcs)

Init ==
  /\ accounts = Initial
  /\ ledger = [u \in User |-> OpeningLedger(Initial[u])]
  /\ usage_events = {}
  /\ processed_webhooks = {}
  /\ today = 0
  /\ proc = [r \in Request |-> NotSent]

Handler(r) == Credits(r) \/ Usage(r) \/ Accounts(r) \/ Subscribe(r) \/ Webhooks(r)

Tick ==
  /\ today < LastDay
  /\ Overnight \/ Running = {}
  /\ today' = today + 1
  /\ UNCHANGED <<accounts, ledger, usage_events, processed_webhooks, proc>>

Terminating ==
  /\ today = LastDay
  /\ \A r \in Request : At(r, "done")
  /\ UNCHANGED vars

Next ==
  \/ \E r \in Request : Send(r) \/ Abandon(r) \/ Handler(r)
  \/ Tick
  \/ Terminating

Spec == Init /\ [][Next]_vars

\* The runtime goes on with every task that can proceed, and whoever waits for
\* an answer sends again.  Nothing has to be abandoned, and the clock may stop.
Fairness == \A r \in Request : WF_vars(Handler(r)) /\ WF_vars(Send(r))

FairSpec == Spec /\ Fairness

=============================================================================
