--------------------------- MODULE AccountHandlers ----------------------------
(***************************************************************************)
(* handlers/accounts.rs.  create_account awaits two remote services        *)
(* between its check that there is no account and its write of a new one.  *)
(***************************************************************************)
EXTENDS Requests

AccountPcs == {"create.customer", "create.put", "get_account.create"}

CreateGet(r) ==
  /\ At(r, "create_account")
  /\ IF Exists(Arg(r).user) THEN Answer(r, "conflict") ELSE Goto(r, "create.customer")
  /\ UNCHANGED storeVars

\* Stripe may fail; the account is then created without a customer.
CreateCustomer(r) ==
  /\ At(r, "create.customer")
  /\ \E ok \in BOOLEAN :
       Keep(r, [NewAccount EXCEPT !.stripe_customer = ok], "create.put")
  /\ UNCHANGED storeVars

CreatePut(r) ==
  /\ At(r, "create.put")
  /\ PutAccount(Arg(r).user, Copy(r))
  /\ Answer(r, "ok")

CreateAccount(r) == CreateGet(r) \/ CreateCustomer(r) \/ CreatePut(r)

GetAccountGet(r) ==
  /\ At(r, "get_account")
  /\ IF Exists(Arg(r).user) THEN Answer(r, "ok") ELSE Goto(r, "get_account.create")
  /\ UNCHANGED storeVars

GetAccountCreate(r) ==
  /\ At(r, "get_account.create")
  /\ PutAccount(Arg(r).user, NewAccount)
  /\ Answer(r, "ok")

GetAccount(r) == GetAccountGet(r) \/ GetAccountCreate(r)

DeleteAccountHandler(r) ==
  /\ At(r, "delete_account")
  /\ \/ DeleteAccount(Arg(r).user) /\ Answer(r, "ok")
     \/ NoAccount(r, Arg(r).user)
     \/ /\ Exists(Arg(r).user) /\ ~Deletable(Arg(r).user)
        /\ Answer(r, "internal_error")
        /\ UNCHANGED storeVars

Accounts(r) == CreateAccount(r) \/ GetAccount(r) \/ DeleteAccountHandler(r)

=============================================================================
