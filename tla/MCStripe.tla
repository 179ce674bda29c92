------------------------------- MODULE MCStripe -------------------------------
(***************************************************************************)
(* Small instances of StripeSide for TLC.                                  *)
(***************************************************************************)
EXTENDS StripeProperties

CONSTANT alice

MCMonthlyCredits ==
  [p \in Plan |-> CASE p = "mortal" -> 2 [] p = "pro" -> 4 [] p = "crusader" -> 8 [] OTHER -> 8]

NoDailyGrant == [p \in Plan |-> 0]

MCAccounts == [u \in User |-> [NewAccount EXCEPT !.balance = 1, !.purchased = 1]]

UserCall(op, amount, plan) ==
  [EventCall("", alice) EXCEPT !.op = op, !.amount = amount, !.reason = plan]

MCCalls == {UserCall("checkout", 0, "pro"), UserCall("subscribe_zero_pro", 0, ""), UserCall("portal", 0, ""),
            UserCall("cancel_zero_pro", 0, ""), UserCall("purchase_credits", 2, "")}

\* A purchase and a subscription have no data in common but the balance, which
\* no handler of either reads: it is enough to vary them one after the other.
Apart == \A i, j \in DOMAIN sessions : sessions[i].kind = "payment" => sessions[j].kind = "payment"

=============================================================================
