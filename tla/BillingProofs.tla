---------------------------- MODULE BillingProofs -----------------------------
(***************************************************************************)
(* What holds of Billing for all users, requests, calls and bounds: types, *)
(* balances, accounts and charges whatever the handlers do; where nothing  *)
(* writes a whole row, ledgers and the refinement of Ledger; and that an   *)
(* event is acknowledged for good only when its credits are in the ledger. *)
(***************************************************************************)
EXTENDS BillingSteps, SequenceTheorems

-----------------------------------------------------------------------------
(* The six changes of the database, and the clock.                         *)

\* Adding to a balance and to a lifetime counter keeps an account sound, and
\* so does a charge that the balance covers.
LEMMA SoundChanges ==
  ASSUME NEW a \in Sound, NEW n \in Nat
  PROVE  /\ [a EXCEPT !.balance = a.balance + n, !.purchased = a.purchased + n] \in Sound
         /\ a.balance >= n =>
              [a EXCEPT !.balance = a.balance - n, !.used = a.used + n] \in Sound
<1>1. /\ a \in Account /\ a.balance \in Int /\ a.purchased \in Int
      /\ a.granted \in Int /\ a.used \in Int /\ a.referred_by \in Inviters
      /\ a.balance >= 0 /\ a.balance = a.purchased + a.granted - a.used
  BY DEF Sound, Account, Balanced
<1>2. \A x \in Account, m \in Int : /\ [x EXCEPT !.balance = m] \in Account
                                    /\ [x EXCEPT !.purchased = m] \in Account
                                    /\ [x EXCEPT !.used = m] \in Account
  BY DEF Account
<1> DEFINE more == a.balance + n
           bought == a.purchased + n
           less == a.balance - n
           spent == a.used + n
<1>3. more \in Int /\ bought \in Int /\ less \in Int /\ spent \in Int
  BY <1>1
<1> DEFINE b1 == [a EXCEPT !.balance = more]
           b == [b1 EXCEPT !.purchased = bought]
           c1 == [a EXCEPT !.balance = less]
           c == [c1 EXCEPT !.used = spent]
<1>4. /\ b = [a EXCEPT !.balance = a.balance + n, !.purchased = a.purchased + n]
      /\ c = [a EXCEPT !.balance = a.balance - n, !.used = a.used + n]
  OBVIOUS
<1> HIDE DEF more, bought, less, spent
<1>5. /\ b1 \in Account /\ b1.balance = more /\ b1.granted = a.granted /\ b1.used = a.used
      /\ b1.referred_by = a.referred_by
  BY <1>1, <1>2, <1>3 DEF Account
<1>6. /\ c1 \in Account /\ c1.balance = less /\ c1.granted = a.granted
      /\ c1.purchased = a.purchased /\ c1.referred_by = a.referred_by
  BY <1>1, <1>2, <1>3 DEF Account
<1> HIDE DEF b1, c1
<1>7. /\ b \in Account /\ b.balance = more /\ b.purchased = bought
      /\ b.granted = a.granted /\ b.used = a.used /\ b.referred_by = a.referred_by
  BY <1>2, <1>3, <1>5 DEF Account
<1>8. /\ c \in Account /\ c.balance = less /\ c.used = spent
      /\ c.granted = a.granted /\ c.purchased = a.purchased
      /\ c.referred_by = a.referred_by
  BY <1>2, <1>3, <1>6 DEF Account
<1> HIDE DEF b, c
<1>9. b \in Sound /\ (a.balance >= n => c \in Sound)
  BY <1>1, <1>7, <1>8 DEF Sound, Balanced, more, bought, less, spent
<1> QED
  BY <1>4, <1>9

LEMMA RecordType ==
  ASSUME Inv, NEW u \in User, NEW type \in TransactionType, NEW amount \in Int,
         NEW after \in Int, NEW ref \in UsageId \cup WebhookId \cup {None},
         Record(u, type, amount, after, ref)
  PROVE  ledger' \in [User -> Seq(Transaction)]
<1> DEFINE t == [type |-> type, amount |-> amount, after |-> after, ref |-> ref, day |-> today]
<1>1. t \in Transaction
  BY DEF Inv, StoreType, Transaction
<1>2. ledger' = [ledger EXCEPT ![u] = Append(ledger[u], t)]
  BY DEF Record
<1> HIDE DEF t
<1>3. Append(ledger[u], t) \in Seq(Transaction)
  BY <1>1 DEF Inv, StoreType
<1> QED
  BY <1>2, <1>3 DEF Inv, StoreType

\* A change of one row to a sound account.
LEMMA RowStep ==
  ASSUME Inv, NEW u \in User, NEW a \in Sound, accounts' = [accounts EXCEPT ![u] = a]
  PROVE  accounts' \in [User -> Account \cup {None}] /\ RowsSound' /\ Exists(u)'
BY NoneAssumption DEF Inv, StoreType, RowsSound, Exists, Sound

LEMMA AddStep ==
  ASSUME Inv, NEW u \in User, NEW n \in Nat, NEW type \in TransactionType,
         NEW ref \in UsageId \cup WebhookId \cup {None}, AddCredits(u, n, type, ref)
  PROVE  StoreType' /\ RowsSound' /\ Exists(u)'
<1> DEFINE a == [accounts[u] EXCEPT !.balance = accounts[u].balance + n,
                                    !.purchased = accounts[u].purchased + n]
<1>1. accounts[u] \in Sound
  BY Row DEF AddCredits
<1>2. a \in Sound
  BY <1>1, SoundChanges
<1>3. accounts' = [accounts EXCEPT ![u] = a]
  BY <1>1 DEF AddCredits, Inv, StoreType, Sound, Account
<1> HIDE DEF a
<1>4. accounts[u].balance + n \in Int
  BY <1>1 DEF Sound, Account
<1>5. ledger' \in [User -> Seq(Transaction)]
  BY <1>4, RecordType DEF AddCredits
<1> QED
  BY <1>2, <1>3, <1>5, RowStep DEF AddCredits, Inv, StoreType

LEMMA CommitStep ==
  ASSUME Inv, NEW u \in User, NEW cost \in Nat, NEW e \in UsageId, CommitUsage(u, cost, e)
  PROVE  StoreType' /\ RowsSound' /\ Exists(u)'
<1> DEFINE a == [accounts[u] EXCEPT !.balance = accounts[u].balance - cost,
                                    !.used = accounts[u].used + cost]
<1>1. accounts[u] \in Sound /\ accounts[u].balance >= cost
  BY Row DEF CommitUsage, Sufficient
<1>2. a \in Sound
  BY <1>1, SoundChanges
<1>3. accounts' = [accounts EXCEPT ![u] = a]
  BY <1>1 DEF CommitUsage, Inv, StoreType, Sound, Account
<1> HIDE DEF a
<1>4. accounts[u].balance - cost \in Int /\ -cost \in Int
  BY <1>1 DEF Sound, Account
<1>5. ledger' \in [User -> Seq(Transaction)]
  BY <1>4, RecordType DEF CommitUsage, TransactionType
<1> QED
  BY <1>2, <1>3, <1>5, RowStep DEF CommitUsage, Inv, StoreType

LEMMA StoreStep ==
  ASSUME Inv, Effect \/ Tick
  PROVE  StoreType' /\ RowsSound'
<1>1. CASE UNCHANGED storeVars
  BY <1>1 DEF Inv, StoreType, RowsSound, Exists, storeVars
<1>2. CASE \E u \in User, a \in Sound : PutAccount(u, a)
  <2>1. PICK u \in User, a \in Sound : PutAccount(u, a)
    BY <1>2
  <2> QED
    BY <2>1, RowStep DEF PutAccount, Inv, StoreType
<1>3. CASE \E u \in User : DeleteAccount(u)
  BY <1>3 DEF DeleteAccount, Inv, StoreType, RowsSound, Exists
<1>4. CASE \E w \in WebhookId : RecordWebhookEvent(w)
  BY <1>4 DEF RecordWebhookEvent, Inv, StoreType, RowsSound, Exists
<1>5. CASE Tick
  BY <1>5, ClockAssumption DEF Tick, Inv, StoreType, RowsSound, Exists, Day
<1> QED
  BY <1>1, <1>2, <1>3, <1>4, <1>5, AddStep, CommitStep DEF Effect

-----------------------------------------------------------------------------
(* The invariant.                                                          *)

\* An account that was opened is sound, and its opening record is a record.
LEMMA OpeningSound ==
  ASSUME NEW u \in User
  PROVE  /\ Initial[u] \in Account \cup {None}
         /\ Initial[u] # None => Initial[u] \in Sound
         /\ OpeningLedger(Initial[u]) \in Seq(Transaction)
<1>1. Initial[u] \in Account \cup {None}
  BY InitialAssumption
<1>2. Initial[u] # None => Initial[u] \in Sound
  BY <1>1, InitialAssumption DEF Openable, Sound, Balanced, Account, Inviters
<1>3. CASE Initial[u] = None \/ Initial[u].balance = 0
  BY <1>1, <1>2, <1>3 DEF OpeningLedger
<1>4. CASE Initial[u] # None /\ Initial[u].balance # 0
  <2>1. OpeningRecord(Initial[u]) \in Transaction
    BY <1>1, <1>4 DEF OpeningRecord, Transaction, TransactionType, Account, Day
  <2> QED
    BY <1>1, <1>2, <1>4, <2>1 DEF OpeningLedger
<1> QED
  BY <1>1, <1>2, <1>3, <1>4

LEMMA InitInv ==
  ASSUME Init
  PROVE  Inv
<1>1. StoreType
  BY OpeningSound, InitialAssumption DEF Init, StoreType, Day
<1>2. RowsSound
  BY OpeningSound DEF Init, RowsSound, Exists
<1>3. ASSUME NEW r \in Request PROVE proc[r] = NotSent
  BY <1>3 DEF Init
<1>4. NotSent \in Proc
  BY DEF NotSent, Proc, ProcAt
<1>5. Held(NotSent)
  BY DEF NotSent, Held, HoldsCall, HoldsCopy, WebhookPcs, StripeEvents, LagoEvents, CopyPcs,
     ReferralPcs, RefillPcs
<1>6. ProcInv
  BY <1>3, <1>4, <1>5 DEF Init, ProcInv
<1> QED
  BY <1>1, <1>2, <1>6 DEF Inv

LEMMA StepInv ==
  ASSUME Inv, [Next]_vars
  PROVE  Inv'
BY StepEffect, StoreStep DEF Inv

\* Every reachable state has rows and copies that are sound, and every request
\* in flight has what its next step relies on.
THEOREM Invariant == Spec => []Inv
<1>1. Init => Inv
  BY InitInv
<1>2. Inv /\ [Next]_vars => Inv'
  BY StepInv
<1> QED
  BY <1>1, <1>2, PTL DEF Spec

\* All state keeps its type, whatever the requests and their interleaving.
THEOREM TypeCorrect == Spec => []TypeOK
<1>1. Inv => TypeOK
  BY DEF Inv, StoreType, ProcInv, TypeOK
<1> QED
  BY <1>1, Invariant, PTL

\* No interleaving of charges, grants and whole-row writes overdraws an account.
THEOREM NeverOverdrawn == Spec => []NoOverdraft
<1>1. Inv => NoOverdraft
  BY DEF Inv, RowsSound, Sound, NoOverdraft
<1> QED
  BY <1>1, Invariant, PTL

\* Balance and lifetime counters agree in every row that is ever committed.
THEOREM AlwaysBalanced == Spec => []BalanceInvariant
<1>1. Inv => BalanceInvariant
  BY DEF Inv, RowsSound, Sound, BalanceInvariant
<1> QED
  BY <1>1, Invariant, PTL

-----------------------------------------------------------------------------
(* Ledgers and the accounts they belong to.                                *)

LEMMA KeepsAccountStep ==
  ASSUME Inv, LedgerKeepsAccount, Effect \/ Tick
  PROVE  LedgerKeepsAccount'
<1>1. CASE UNCHANGED storeVars \/ Tick \/ \E w \in WebhookId : RecordWebhookEvent(w)
  BY <1>1 DEF LedgerKeepsAccount, Exists, storeVars, Tick, RecordWebhookEvent
<1>2. CASE \E u \in User, a \in Sound : PutAccount(u, a)
  <2>1. PICK u \in User, a \in Sound : PutAccount(u, a)
    BY <1>2
  <2>2. Exists(u)'
    BY <2>1, RowStep DEF PutAccount
  <2> QED
    BY <2>1, <2>2 DEF PutAccount, LedgerKeepsAccount, Exists, Inv, StoreType
<1>3. CASE \E u \in User : DeleteAccount(u)
  BY <1>3 DEF DeleteAccount, Deletable, LedgerKeepsAccount, Exists, Inv, StoreType
<1>4. ASSUME NEW u \in User, NEW n \in Nat, NEW type \in TransactionType,
             NEW ref \in UsageId \cup WebhookId \cup {None}, AddCredits(u, n, type, ref)
      PROVE  LedgerKeepsAccount'
  <2>1. Exists(u)'
    BY <1>4, AddStep
  <2> QED
    BY <1>4, <2>1 DEF AddCredits, Record, LedgerKeepsAccount, Exists, Inv, StoreType
<1>5. ASSUME NEW u \in User, NEW cost \in Nat, NEW e \in UsageId, CommitUsage(u, cost, e)
      PROVE  LedgerKeepsAccount'
  <2>1. Exists(u)'
    BY <1>5, CommitStep
  <2> QED
    BY <1>5, <2>1 DEF CommitUsage, Record, LedgerKeepsAccount, Exists, Inv, StoreType
<1> QED
  BY <1>1, <1>2, <1>3, <1>4, <1>5 DEF Effect

\* No interleaving deletes an account that has records, or leaves records
\* without an account in any other way.
THEOREM AccountsKept == Spec => []LedgerKeepsAccount
<1>1. Init => LedgerKeepsAccount
  BY DEF Init, LedgerKeepsAccount, OpeningLedger, Exists
<1>2. Inv /\ LedgerKeepsAccount /\ [Next]_vars => LedgerKeepsAccount'
  BY StepEffect, KeepsAccountStep
<1> QED
  BY <1>1, <1>2, Invariant, PTL DEF Spec

-----------------------------------------------------------------------------
(* Charges.                                                                *)

ChargeAt(u, i, e) == i \in DOMAIN ledger[u] /\ Charged(u, i, e)

\* A new record leaves the charges as they were, if it is not itself one.
LEMMA ChargesAfterRecord ==
  ASSUME Inv, NEW u \in User, NEW type \in TransactionType, NEW amount, NEW after, NEW ref,
         Record(u, type, amount, after, ref)
  PROVE  \A v \in User : \A i, e :
           ChargeAt(v, i, e)' <=>
             ChargeAt(v, i, e) \/ (type = "usage" /\ v = u /\ i = Len(ledger[u]) + 1 /\ e = ref)
<1> DEFINE t == [type |-> type, amount |-> amount, after |-> after, ref |-> ref, day |-> today]
<1>1. /\ t.type = type /\ t.ref = ref
      /\ ledger' = [ledger EXCEPT ![u] = Append(ledger[u], t)]
      /\ ledger \in [User -> Seq(Transaction)]
  BY DEF Record, Inv, StoreType
<1> HIDE DEF t
<1> SUFFICES ASSUME NEW v \in User, NEW i, NEW e
             PROVE  ChargeAt(v, i, e)' <=>
                      \/ ChargeAt(v, i, e)
                      \/ type = "usage" /\ v = u /\ i = Len(ledger[u]) + 1 /\ e = ref
  OBVIOUS
<1>2. CASE v # u
  BY <1>1, <1>2 DEF ChargeAt, Charged
<1>3. CASE v = u
  <2> DEFINE s == ledger[u]
  <2>1. s \in Seq(Transaction) /\ ledger'[v] = Append(s, t) /\ ledger[v] = s
    BY <1>1, <1>3
  <2> HIDE DEF s
  <2>2. /\ DOMAIN s = 1..Len(s) /\ Len(s) \in Nat
        /\ DOMAIN Append(s, t) = 1..(Len(s) + 1)
        /\ Append(s, t)[Len(s) + 1] = t
        /\ \A j \in 1..Len(s) : Append(s, t)[j] = s[j]
    BY <2>1
  <2>3. CASE i \in 1..Len(s)
    BY <2>1, <2>2, <2>3 DEF ChargeAt, Charged
  <2>4. CASE i = Len(s) + 1
    BY <1>1, <1>3, <2>1, <2>2, <2>4 DEF ChargeAt, Charged, s
  <2>5. CASE i \notin 1..(Len(s) + 1)
    BY <2>1, <2>2, <2>5 DEF ChargeAt, Charged, s
  <2> QED
    BY <2>2, <2>3, <2>4, <2>5
<1> QED
  BY <1>2, <1>3

\* ChargedOnce in terms of ChargeAt, before and after a step.
OnceAt ==
  /\ \A e \in UsageId : \A u, v \in User : \A i, j :
       ChargeAt(u, i, e) /\ ChargeAt(v, j, e) => u = v /\ i = j
  /\ \A e \in UsageId : e \in usage_events <=> \E u \in User : \E i : ChargeAt(u, i, e)

LEMMA ChargedOnceAt == (ChargedOnce <=> OnceAt) /\ (ChargedOnce' <=> OnceAt')
BY DEF ChargedOnce, ChargedAtMostOnce, StoredIffCharged, OnceAt, ChargeAt

LEMMA ChargedOnceStep ==
  ASSUME Inv, ChargedOnce, Effect \/ Tick
  PROVE  ChargedOnce'
<1>1. CASE UNCHANGED <<ledger, usage_events>>
  BY <1>1 DEF ChargedOnce, ChargedAtMostOnce, StoredIffCharged, Charged
<1>2. ASSUME NEW u \in User, NEW n \in Nat, NEW type \in TransactionType \ {"usage"},
             NEW ref \in UsageId \cup WebhookId \cup {None}, AddCredits(u, n, type, ref)
      PROVE  ChargedOnce'
  <2>1. Record(u, type, n, accounts[u].balance + n, ref) /\ usage_events' = usage_events
    BY <1>2 DEF AddCredits
  <2>2. \A v \in User : \A i, e : ChargeAt(v, i, e)' <=> ChargeAt(v, i, e)
    BY <2>1, ChargesAfterRecord
  <2> QED
    BY <2>1, <2>2, ChargedOnceAt DEF OnceAt
<1>3. ASSUME NEW u \in User, NEW cost \in Nat, NEW e \in UsageId, CommitUsage(u, cost, e)
      PROVE  ChargedOnce'
  <2> DEFINE new == Len(ledger[u]) + 1
  <2>1. /\ Record(u, "usage", -cost, accounts[u].balance - cost, e)
        /\ e \notin usage_events /\ usage_events' = usage_events \cup {e}
    BY <1>3 DEF CommitUsage
  <2>2. \A v \in User : \A i, f :
          ChargeAt(v, i, f)' <=> ChargeAt(v, i, f) \/ (v = u /\ i = new /\ f = e)
    BY <2>1, ChargesAfterRecord DEF TransactionType
  <2>3. \A v \in User : \A i : ~ChargeAt(v, i, e)
    BY <2>1, ChargedOnceAt DEF OnceAt
  <2> HIDE DEF new
  <2>4. \A f \in UsageId : \A v, w \in User : \A i, j :
          ChargeAt(v, i, f)' /\ ChargeAt(w, j, f)' => v = w /\ i = j
    BY <2>2, <2>3, ChargedOnceAt DEF OnceAt
  <2>5. \A f \in UsageId : f \in usage_events' <=> \E v \in User : \E i : ChargeAt(v, i, f)'
    BY <2>1, <2>2, ChargedOnceAt DEF OnceAt
  <2> QED
    BY <2>4, <2>5, ChargedOnceAt DEF OnceAt
<1> QED
  BY <1>1, <1>2, <1>3
  DEF Effect, Tick, storeVars, PutAccount, DeleteAccount, RecordWebhookEvent

\* However many services report an event at once, it is charged once and to
\* one account, and stored exactly when it was charged.
THEOREM EventsChargedOnce == Spec => []ChargedOnce
<1>1. Init => ChargedOnce
  <2> SUFFICES ASSUME Init PROVE ChargedOnce
    OBVIOUS
  <2>1. ASSUME NEW u \in User, NEW i, NEW e PROVE ~ChargeAt(u, i, e)
    <3> DEFINE a == Initial[u]
               t == OpeningRecord(a)
    <3>1. ledger[u] = OpeningLedger(a)
      BY DEF Init
    <3>2. t.type # "usage"
      BY DEF OpeningRecord
    <3> HIDE DEF t
    <3>3. OpeningLedger(a) \in {<<>>, <<t>>}
      BY DEF OpeningLedger, t
    <3> QED
      BY <3>1, <3>2, <3>3 DEF ChargeAt, Charged
  <2> QED
    BY <2>1, ChargedOnceAt DEF Init, OnceAt
<1>2. Inv /\ ChargedOnce /\ [Next]_vars => ChargedOnce'
  BY StepEffect, ChargedOnceStep
<1> QED
  BY <1>1, <1>2, Invariant, PTL DEF Spec

-----------------------------------------------------------------------------
(* What a step does to the local state of the request that takes it.       *)

\* Request r has gone on to pc, with copy a, number n and answer x.
Becomes(r, pc, a, n, x) ==
  /\ proc'[r].pc = pc /\ proc'[r].call = proc[r].call
  /\ proc'[r].copy = a /\ proc'[r].kept = n /\ proc'[r].answer = x
  /\ \A s \in Request \ {r} : proc'[s] = proc[s]

LEMMA Locals ==
  ASSUME ProcInv, NEW r \in Request
  PROVE  /\ \A pc : Goto(r, pc) =>
              Becomes(r, pc, proc[r].copy, proc[r].kept, proc[r].answer)
         /\ \A pc, a : Keep(r, a, pc) => Becomes(r, pc, a, proc[r].kept, proc[r].answer)
         /\ \A pc, n : Compute(r, n, pc) => Becomes(r, pc, proc[r].copy, n, proc[r].answer)
         /\ \A pc, a, n : KeepAndCompute(r, a, n, pc) => Becomes(r, pc, a, n, proc[r].answer)
         /\ \A x : Answer(r, x) => Becomes(r, "done", None, 0, x)
         /\ \A pc, x : AnswerAndGoto(r, x, pc) =>
              Becomes(r, pc, proc[r].copy, proc[r].kept, x)
<1>1. proc \in [Request -> Proc]
  BY DEF ProcInv
<1>2. \A p \in Proc : p = [pc |-> p.pc, call |-> p.call, copy |-> p.copy,
                           kept |-> p.kept, answer |-> p.answer]
  BY DEF Proc, ProcAt
<1>3. proc[r] \in Proc /\ DOMAIN proc[r] = {"pc", "call", "copy", "kept", "answer"}
  BY <1>1, <1>2 DEF Proc, ProcAt
<1>4. \A pc : Goto(r, pc) =>
              Becomes(r, pc, proc[r].copy, proc[r].kept, proc[r].answer)
  BY <1>1, <1>3 DEF Goto, Becomes
<1>5. \A pc, a : Keep(r, a, pc) => Becomes(r, pc, a, proc[r].kept, proc[r].answer)
  BY <1>1, <1>3 DEF Keep, Becomes
<1>6. \A pc, n : Compute(r, n, pc) => Becomes(r, pc, proc[r].copy, n, proc[r].answer)
  BY <1>1, <1>3 DEF Compute, Becomes
<1>7. \A pc, a, n : KeepAndCompute(r, a, n, pc) => Becomes(r, pc, a, n, proc[r].answer)
  BY <1>1, <1>3 DEF KeepAndCompute, Becomes
<1>8. \A x : Answer(r, x) => Becomes(r, "done", None, 0, x)
  BY <1>1, <1>3 DEF Answer, Becomes
<1>9. \A pc, x : AnswerAndGoto(r, x, pc) =>
              Becomes(r, pc, proc[r].copy, proc[r].kept, x)
  BY <1>1, <1>3 DEF AnswerAndGoto, Becomes
<1> QED
  BY <1>4, <1>5, <1>6, <1>7, <1>8, <1>9

-----------------------------------------------------------------------------
(* Every handler step changes the local state of its own request only.     *)

\* Only the task that refills an account goes on after it was answered.
Goes(r) ==
  \E pc, a, n, x :
    /\ Becomes(r, pc, a, n, x)
    /\ pc = "done" \/ x = proc[r].answer \/ (x # None /\ pc \in RefillPcs)

LEMMA Going ==
  ASSUME ProcInv, NEW r \in Request
  PROVE  /\ \A pc : Goto(r, pc) => Goes(r)
         /\ \A pc, a : Keep(r, a, pc) => Goes(r)
         /\ \A pc, n : Compute(r, n, pc) => Goes(r)
         /\ \A pc, a, n : KeepAndCompute(r, a, n, pc) => Goes(r)
         /\ \A x : Answer(r, x) => Goes(r)
         /\ AnswerAndGoto(r, "ok", "refill.pay") => Goes(r)
         /\ AnswerAndGoto(r, "charged", "refill.get") => Goes(r)
<1>1. "ok" # None /\ "charged" # None
  BY ResponseAssumption DEF Response
<1>2. "refill.pay" \in RefillPcs /\ "refill.get" \in RefillPcs
  BY DEF RefillPcs
<1> QED
  BY <1>1, <1>2, Locals DEF Goes

\* Nothing is recorded as processed, and no other request is touched.
Unrecorded(r) == Goes(r) /\ processed_webhooks' = processed_webhooks

LEMMA HelpersUnrecorded ==
  ASSUME ProcInv, NEW r \in Request
  PROVE  /\ \A u, pc : GetOrNotFound(r, u, pc) => Unrecorded(r)
         /\ \A u, create, pc : GetOrElse(r, u, create, pc) => Unrecorded(r)
         /\ \A u, pc : Create(r, u, pc) => Unrecorded(r)
         /\ \A u, pc : Reread(r, u, pc) => Unrecorded(r)
         /\ \A u, n, type, pc : Credit(r, u, n, type, pc) => Unrecorded(r)
         /\ \A u, n, type : CreditLast(r, u, n, type) => Unrecorded(r)
BY Going DEF GetOrNotFound, GetOrElse, Create, Reread, Credit, CreditLast, NoAccount,
   PutAccount, AddCredits, Unrecorded, storeVars

LEMMA CreditsUnrecorded ==
  ASSUME ProcInv, NEW r \in Request, Credits(r)
  PROVE  Unrecorded(r)
<1> USE ProcInv, HelpersUnrecorded, Going DEF Unrecorded, storeVars, PutAccount
<1>1. CASE GetBalance(r) \/ DailyGrantHandler(r)
  BY <1>1 DEF GetBalance, DailyGrantHandler
<1>2. CASE TryMonthlyAllowance(r)
  BY <1>2 DEF TryMonthlyAllowance, MonthlyCheck, MonthlyAdd, MonthlyReread, MonthlyMark,
     MonthlyRefresh
<1>3. CASE TryDailyGrant(r)
  BY <1>3 DEF TryDailyGrant, DailyAdd, DailyReread, DailyMark
<1>4. CASE Signup(r)
  BY <1>4 DEF Signup, SignupGet, SignupCreate, SignupAdd, SignupReread, SignupMark
<1>5. CASE Referral(r)
  BY <1>5 DEF Referral, ReferralGet, ReferralCreate, ReferralCheck, ReferralInvitee,
     ReferralInviterGet, ReferralInviterCreate, ReferralInviter
<1>6. CASE AdminAddCredits(r) \/ ConfigureAutoRefill(r) \/ PurchaseCredits(r)
  BY <1>6 DEF AdminAddCredits, AdminGet, AdminAdd, ConfigureAutoRefill, ConfigureGet,
     ConfigurePut, PurchaseCredits, PurchaseAsk, PurchaseSession
<1> QED
  BY <1>1, <1>2, <1>3, <1>4, <1>5, <1>6 DEF Credits

LEMMA UsageUnrecorded ==
  ASSUME ProcInv, NEW r \in Request, Usage(r) \/ Accounts(r) \/ Subscribe(r)
  PROVE  Unrecorded(r)
<1> USE ProcInv, HelpersUnrecorded, Going DEF Unrecorded, storeVars, PutAccount
<1>1. CASE ReportUsage(r)
  BY <1>1 DEF ReportUsage, ReportGet, ReportCreate, BatchGet, UsageExists, UsageCommit,
     UsageCharged, UsageRolledBack, CommitUsage
<1>2. CASE Refill(r)
  BY <1>2 DEF Refill, RefillPay, RefillGet, RefillAdd, AddCredits
<1>3. CASE CheckBalance(r)
  BY <1>3 DEF CheckBalance, CheckGet, CheckCreate
<1>4. CASE Accounts(r)
  BY <1>4 DEF Accounts, CreateAccount, CreateGet, CreateCustomer, CreatePut, GetAccount,
     GetAccountGet, GetAccountCreate, DeleteAccountHandler, DeleteAccount, NoAccount
<1>5. CASE Subscribe(r)
  BY <1>5 DEF Subscribe, ZeroPro, SubscribeGet, SubscribeCustomer, SubscribePut,
     SubscribePay, CheckoutAsk, PortalAsk, CancelAsk, StripeCall
<1> QED
  BY <1>1, <1>2, <1>3, <1>4, <1>5 DEF Usage

LEMMA WebhooksUnrecorded ==
  ASSUME ProcInv, NEW r \in Request, Webhooks(r), ~RecordEvent(r)
  PROVE  Unrecorded(r)
<1> USE ProcInv, HelpersUnrecorded, Going DEF Unrecorded, storeVars, PutAccount, Done
<1>1. CASE StripeReceive(r) \/ Resolve(r) \/ LagoReceive(r)
  BY <1>1 DEF StripeReceive, Resolve, LagoReceive
<1>2. CASE Checkout(r)
  BY <1>2 DEF Checkout, CheckoutGet, CheckoutCreate, CheckoutPut, PurchaseGet, PurchaseAdd
<1>3. CASE SubscriptionUpdate(r)
  BY <1>3 DEF SubscriptionUpdate, SubscriptionGet, SubscriptionCreate, SubscriptionPut,
     SubscriptionReferral, SubscriptionInvitee, SubscriptionInviterGet,
     SubscriptionInviterCreate, SubscriptionInviter
<1>4. CASE SubscriptionDeleted(r) \/ PaymentFailed(r)
  BY <1>4 DEF SubscriptionDeleted, DeletedGet, DeletedPut, PaymentFailed, FailedGet, FailedPut
<1>5. CASE InvoicePaid(r)
  BY <1>5 DEF InvoicePaid, InvoiceGet, InvoiceProrate, InvoiceAdd, InvoiceReread, InvoiceMark
<1>6. CASE LagoSubscriptionStarted(r)
  BY <1>6 DEF LagoSubscriptionStarted, LagoGet, LagoCreate, LagoAdd
<1> QED
  BY <1>1, <1>2, <1>3, <1>4, <1>5, <1>6 DEF Webhooks

\* Only one step of one handler records an event as processed.
LEMMA HandlerRecords ==
  ASSUME ProcInv, NEW r \in Request, Handler(r)
  PROVE  Goes(r) /\ (RecordEvent(r) \/ processed_webhooks' = processed_webhooks)
<1>1. CASE RecordEvent(r)
  BY <1>1, Going DEF RecordEvent
<1>2. CASE ~RecordEvent(r)
  BY <1>2, CreditsUnrecorded, UsageUnrecorded, WebhooksUnrecorded DEF Handler, Unrecorded
<1> QED
  BY <1>1, <1>2

\* No other handler steps from the steps of such a delivery.
AnyOwedPcs == {"lago_webhook", "lago.started", "lago.add", "stripe_webhook",
               "checkout.payment", "purchase.add", "invoice.paid", "invoice.add",
               "invoice.reread", "invoice.mark", "record"}

LEMMA OtherHandlers ==
  ASSUME NEW r \in Request, proc[r].pc \in AnyOwedPcs \cup {"new", "done"}
  PROVE  /\ ~Credits(r) /\ ~Usage(r) /\ ~Accounts(r) /\ ~Subscribe(r)
         /\ ~Resolve(r) /\ ~SubscriptionUpdate(r) /\ ~SubscriptionDeleted(r)
         /\ ~PaymentFailed(r)
         /\ ~CheckoutGet(r) /\ ~CheckoutCreate(r) /\ ~CheckoutPut(r)
<1> USE DEF At, AnyOwedPcs
<1>1. ~Credits(r)
  BY DEF Credits, GetBalance, DailyGrantHandler, TryMonthlyAllowance, MonthlyCheck,
     MonthlyAdd, MonthlyReread, MonthlyMark, MonthlyRefresh, TryDailyGrant, DailyAdd,
     DailyReread, DailyMark, Signup, SignupGet, SignupCreate, SignupAdd, SignupReread,
     SignupMark, Referral, ReferralGet, ReferralCreate, ReferralCheck, ReferralInvitee,
     ReferralInviterGet, ReferralInviterCreate, ReferralInviter, AdminAddCredits,
     AdminGet, AdminAdd, ConfigureAutoRefill, ConfigureGet, ConfigurePut,
     PurchaseCredits, PurchaseAsk, PurchaseSession
<1>2. ~Usage(r)
  BY DEF Usage, ReportUsage, ReportGet, ReportCreate, BatchGet, UsageExists, UsageCommit,
     Refill, RefillPay, RefillGet, RefillAdd, CheckBalance, CheckGet, CheckCreate
<1>3. ~Accounts(r) /\ ~Subscribe(r)
  BY DEF Accounts, CreateAccount, CreateGet, CreateCustomer, CreatePut, GetAccount,
     GetAccountGet, GetAccountCreate, DeleteAccountHandler, Subscribe, ZeroPro,
     SubscribeGet, SubscribeCustomer, SubscribePut, SubscribePay, CheckoutAsk, PortalAsk,
     CancelAsk, StripeCall
<1>4. /\ ~Resolve(r) /\ ~CheckoutGet(r) /\ ~CheckoutCreate(r) /\ ~CheckoutPut(r)
      /\ ~SubscriptionUpdate(r) /\ ~SubscriptionDeleted(r) /\ ~PaymentFailed(r)
  BY DEF Resolve, CheckoutGet, CheckoutCreate, CheckoutPut, SubscriptionUpdate,
     SubscriptionGet, SubscriptionCreate, SubscriptionPut, SubscriptionReferral,
     SubscriptionInvitee, SubscriptionInviterGet, SubscriptionInviterCreate,
     SubscriptionInviter, SubscriptionDeleted, DeletedGet, DeletedPut, PaymentFailed,
     FailedGet, FailedPut
<1> QED
  BY <1>1, <1>2, <1>3, <1>4

LEMMA HandlerRuns ==
  ASSUME NEW r \in Request, Handler(r)
  PROVE  proc[r].pc \notin {"new", "done"}
<1>1. /\ ~Credits(r) /\ ~Usage(r) /\ ~Accounts(r) /\ ~Subscribe(r) /\ ~Resolve(r)
      /\ ~SubscriptionUpdate(r) /\ ~SubscriptionDeleted(r) /\ ~PaymentFailed(r)
      /\ ~CheckoutGet(r) /\ ~CheckoutCreate(r) /\ ~CheckoutPut(r)
      \/ proc[r].pc \notin {"new", "done"}
  BY OtherHandlers
<1> QED
  BY <1>1 DEF Handler, Webhooks, Checkout, PurchaseGet, PurchaseAdd, StripeReceive, LagoReceive,
     RecordEvent, InvoicePaid, InvoiceGet, InvoiceProrate, InvoiceAdd, InvoiceReread,
     InvoiceMark, LagoSubscriptionStarted, LagoGet, LagoCreate, LagoAdd, At

\* What runs was called; the deliveries of Stripe are among the calls.
AllSent == \A r \in Request : proc[r].pc # "new" => proc[r].call \in Calls

LEMMA AllSentStep ==
  ASSUME Inv, AllSent, [Next]_vars
  PROVE  AllSent'
<1>1. ASSUME NEW r \in Request, Send(r) PROVE AllSent'
  <2>1. PICK c \in Calls : proc' = [proc EXCEPT ![r].pc = c.op, ![r].call = c]
    BY <1>1 DEF Send
  <2>2. proc'[r].call = c /\ \A s \in Request \ {r} : proc'[s] = proc[s]
    BY <2>1 DEF Inv, ProcInv, Proc, ProcAt
  <2> QED
    BY <2>2 DEF AllSent
<1>2. ASSUME NEW r \in Request, Abandon(r) PROVE AllSent'
  BY <1>2, Locals DEF Abandon, Becomes, Inv, AllSent
<1>3. ASSUME NEW r \in Request, Handler(r) PROVE AllSent'
  <2>1. proc[r].pc # "new"
    BY <1>3, HandlerRuns
  <2>2. proc'[r].call = proc[r].call /\ \A s \in Request \ {r} : proc'[s] = proc[s]
    BY <1>3, HandlerRecords DEF Goes, Becomes, Inv
  <2> QED
    BY <2>1, <2>2 DEF AllSent
<1> QED
  BY <1>1, <1>2, <1>3 DEF Next, Tick, Terminating, vars, AllSent

LEMMA InitAllSent == Init => AllSent
BY DEF Init, NotSent, AllSent

LEMMA AllSentKept == Spec => []AllSent
<1>1. Inv /\ AllSent /\ [Next]_vars => AllSent'
  BY AllSentStep
<1> QED
  BY <1>1, InitAllSent, Invariant, PTL DEF Spec

-----------------------------------------------------------------------------
(* Requests that move credits and write no row.  Their accounts are there   *)
(* from the start: a request that finds none opens one, which is a write.   *)

MovesOnly(c) ==
  /\ Initial[c.user] # None
  /\ c.other # None => Initial[c.other] # None
  /\ c.op \in {"referral_grant", "admin_add_credits", "report_usage", "report_usage_batch",
               "create_account", "get_account", "purchase_credits", "checkout", "portal",
               "cancel_zero_pro", "stripe_webhook", "lago_webhook"}
  /\ c.op = "stripe_webhook" =>
       /\ c.event \in {"checkout.payment", "invoice.paid", "record"}
       /\ c.event = "invoice.paid" => c.reason \notin FullReasons

NoRowWrites == \A c \in Calls : MovesOnly(c)

MovingPcs == {"new", "done", "referral_grant", "referral.check", "referral.invitee",
              "referral.inviter", "referral.add", "admin_add_credits", "admin.add",
              "report_usage", "report_usage_batch", "usage.exists", "usage.commit",
              "refill.pay", "refill.get", "refill.add", "create_account", "get_account",
              "purchase_credits", "purchase.session", "checkout", "checkout.session",
              "portal", "portal.session", "cancel_zero_pro", "cancel.end",
              "stripe_webhook", "lago_webhook", "resolve", "checkout.payment",
              "purchase.add", "invoice.paid", "invoice.prorate", "invoice.add",
              "lago.started", "lago.add", "record"}

\* Such a request is never at a step that writes a row, and does not get there.
Moves(p) ==
  /\ p.pc \in MovingPcs
  /\ p.pc \in {"stripe_webhook", "resolve"} => p.call.op = "stripe_webhook"
  /\ p.pc \in {"invoice.paid", "invoice.prorate", "invoice.add"} =>
       p.call.reason \notin FullReasons

Moving ==
  /\ AllSent
  /\ \A r \in Request : Moves(proc[r])
  /\ \A c \in Calls : Exists(c.user) /\ (c.other # None => Exists(c.other))

\* A step that changes a row has a record that says so.
Booked ==
  \/ accounts' = accounts
  \/ \E u \in User : \E type, amount, after, ref : Record(u, type, amount, after, ref)

Moved(r) ==
  /\ Booked
  /\ Moves(proc'[r])
  /\ \A s \in Request \ {r} : proc'[s] = proc[s]

LEMMA MovingCall ==
  ASSUME NoRowWrites, Inv, Moving, NEW r \in Request, proc[r].pc # "new"
  PROVE  /\ proc[r].call \in Call /\ WellFormed(proc[r].call) /\ MovesOnly(proc[r].call)
         /\ proc[r].call.user \in User /\ Exists(proc[r].call.user)
         /\ proc[r].call.other # None =>
              proc[r].call.other \in User /\ Exists(proc[r].call.other)
         /\ HoldsCall(proc[r].pc, proc[r].call)
         /\ Moves(proc[r])
BY Sent DEF Inv, Moving, AllSent, NoRowWrites, Call

LEMMA CreditBooked ==
  ASSUME NEW r \in Request, NEW u \in User, NEW n, NEW type
  PROVE  /\ \A pc : Credit(r, u, n, type, pc) =>
                      Booked /\ (Goto(r, pc) \/ Answer(r, "not_found"))
         /\ CreditLast(r, u, n, type) =>
              Booked /\ (Answer(r, "granted") \/ Answer(r, "not_found"))
BY DEF Credit, CreditLast, NoAccount, AddCredits, Booked, storeVars

\* Where the helpers leave a request.
LEMMA MovedTo ==
  ASSUME ProcInv, NEW r \in Request, Booked, NEW pc \in MovingPcs,
         pc \in {"stripe_webhook", "resolve"} => proc[r].call.op = "stripe_webhook",
         pc \in {"invoice.paid", "invoice.prorate", "invoice.add"} =>
           proc[r].call.reason \notin FullReasons,
         \/ Goto(r, pc)
         \/ \E a, n, x : \/ Keep(r, a, pc) \/ Compute(r, n, pc) \/ KeepAndCompute(r, a, n, pc)
                         \/ Answer(r, x) \/ AnswerAndGoto(r, x, pc)
  PROVE  Moved(r)
BY Locals DEF Becomes, Moved, Moves, MovingPcs

\* The account is there: nothing is created, and nothing is not found.
LEMMA GetBooked ==
  ASSUME NEW r \in Request, NEW u \in User, Exists(u)
  PROVE  /\ \A create, pc : GetOrElse(r, u, create, pc) => Booked /\ Keep(r, accounts[u], pc)
         /\ \A pc : GetOrNotFound(r, u, pc) => Booked /\ Keep(r, accounts[u], pc)
BY DEF GetOrElse, GetOrNotFound, Booked, storeVars

LEMMA CreditsMove ==
  ASSUME NoRowWrites, Inv, Moving, NEW r \in Request, Credits(r)
  PROVE  Moved(r)
<1> USE DEF At, Arg, Copy
<1>1. proc[r].pc \in MovingPcs /\ ProcInv
  BY DEF Moving, Moves, Inv
<1>2. CASE Referral(r)
  <2>1. proc[r].pc \in {"referral_grant", "referral.check", "referral.invitee",
                        "referral.inviter", "referral.add"}
    BY <1>1, <1>2 DEF Referral, ReferralGet, ReferralCreate, ReferralCheck, ReferralInvitee,
         ReferralInviterGet, ReferralInviterCreate, ReferralInviter, MovingPcs
  <2>2. /\ proc[r].call.user \in User /\ Exists(proc[r].call.user)
        /\ proc[r].call.other \in User /\ Exists(proc[r].call.other)
    BY <2>1, MovingCall, NoneAssumption DEF HoldsCall
  <2>3. CASE ReferralGet(r)
    BY <1>1, <2>1, <2>2, <2>3, GetBooked, MovedTo DEF ReferralGet, MovingPcs, Booked, storeVars
  <2>4. CASE ReferralCheck(r)
    BY <1>1, <2>4, MovedTo DEF ReferralCheck, MovingPcs, Booked, storeVars
  <2>5. CASE ReferralInvitee(r)
    BY <1>1, <2>2, <2>5, CreditBooked, MovedTo DEF ReferralInvitee, MovingPcs
  <2>6. CASE ReferralInviterGet(r)
    BY <1>1, <2>2, <2>6, GetBooked, MovedTo DEF ReferralInviterGet, MovingPcs
  <2>7. CASE ReferralInviter(r)
    BY <1>1, <2>2, <2>7, CreditBooked, MovedTo DEF ReferralInviter, MovingPcs
  <2> QED
    BY <1>2, <2>1, <2>3, <2>4, <2>5, <2>6, <2>7
    DEF Referral, ReferralCreate, ReferralInviterCreate
<1>3. CASE AdminAddCredits(r)
  <2>1. proc[r].pc # "new"
    BY <1>3 DEF AdminAddCredits, AdminGet, AdminAdd
  <2>2. proc[r].call.user \in User /\ Exists(proc[r].call.user)
    BY <2>1, MovingCall
  <2>3. CASE AdminGet(r)
    BY <1>1, <2>2, <2>3, GetBooked, MovedTo DEF AdminGet, MovingPcs, Booked, storeVars
  <2>4. CASE AdminAdd(r)
    BY <1>1, <2>2, <2>4, CreditBooked, MovedTo DEF AdminAdd, MovingPcs
  <2> QED
    BY <1>3, <2>3, <2>4 DEF AdminAddCredits
<1>4. CASE PurchaseCredits(r)
  <2>1. proc[r].pc # "new"
    BY <1>4 DEF PurchaseCredits, PurchaseAsk, PurchaseSession
  <2>2. proc[r].call.user \in User /\ Exists(proc[r].call.user)
    BY <2>1, MovingCall
  <2>3. CASE PurchaseAsk(r)
    BY <1>1, <2>2, <2>3, GetBooked, MovedTo DEF PurchaseAsk, MovingPcs, Booked, storeVars
  <2>4. CASE PurchaseSession(r)
    BY <1>1, <2>4, MovedTo DEF PurchaseSession, MovingPcs, Booked, storeVars
  <2> QED
    BY <1>4, <2>3, <2>4 DEF PurchaseCredits
<1>5. ~(GetBalance(r) \/ DailyGrantHandler(r) \/ TryMonthlyAllowance(r) \/ TryDailyGrant(r)
          \/ Signup(r) \/ ConfigureAutoRefill(r))
  BY <1>1 DEF GetBalance, DailyGrantHandler, TryMonthlyAllowance, MonthlyCheck, MonthlyAdd,
     MonthlyReread, MonthlyMark, MonthlyRefresh, TryDailyGrant, DailyAdd, DailyReread,
     DailyMark, Signup, SignupGet, SignupCreate, SignupAdd, SignupReread, SignupMark,
     ConfigureAutoRefill, ConfigureGet, ConfigurePut, MovingPcs
<1> QED
  BY <1>2, <1>3, <1>4, <1>5 DEF Credits

LEMMA UsageMoves ==
  ASSUME NoRowWrites, Inv, Moving, NEW r \in Request, Usage(r)
  PROVE  Moved(r)
<1> USE DEF At, Arg, Copy
<1>1. proc[r].pc \in MovingPcs /\ ProcInv
  BY DEF Moving, Moves, Inv
<1>2. proc[r].pc # "new"
  BY DEF Usage, ReportUsage, ReportGet, ReportCreate, BatchGet, UsageExists, UsageCommit,
     Refill, RefillPay, RefillGet, RefillAdd, CheckBalance, CheckGet, CheckCreate
<1>3. proc[r].call.user \in User /\ Exists(proc[r].call.user)
  BY <1>2, MovingCall
<1>4. CASE ReportGet(r) \/ BatchGet(r)
  BY <1>1, <1>3, <1>4, GetBooked, MovedTo DEF ReportGet, BatchGet, MovingPcs
<1>5. CASE UsageExists(r)
  BY <1>1, <1>5, MovedTo DEF UsageExists, MovingPcs, Booked, storeVars
<1>6. CASE UsageCommit(r)
  <2>1. Booked
    BY <1>3, <1>6 DEF UsageCommit, UsageCharged, UsageRolledBack, CommitUsage, Booked, storeVars
  <2>2. (\E x : Answer(r, x)) \/ AnswerAndGoto(r, "ok", "refill.pay")
    BY <1>6 DEF UsageCommit, UsageCharged, UsageRolledBack
  <2> QED
    BY <1>1, <2>1, <2>2, MovedTo DEF MovingPcs
<1>7. CASE RefillPay(r)
  BY <1>1, <1>7, MovedTo DEF RefillPay, MovingPcs, Booked, storeVars
<1>8. CASE RefillGet(r)
  BY <1>1, <1>7, <1>8, MovedTo DEF RefillGet, MovingPcs, Booked, storeVars
<1>9. CASE RefillAdd(r)
  BY <1>1, <1>3, <1>9, MovedTo DEF RefillAdd, AddCredits, MovingPcs, Booked
<1> QED
  BY <1>1, <1>4, <1>5, <1>6, <1>7, <1>8, <1>9
  DEF Usage, ReportUsage, ReportCreate, Refill, CheckBalance, CheckGet, CheckCreate, MovingPcs

LEMMA AccountsMove ==
  ASSUME NoRowWrites, Inv, Moving, NEW r \in Request, Accounts(r) \/ Subscribe(r)
  PROVE  Moved(r)
<1> USE DEF At, Arg, Copy
<1>1. proc[r].pc \in MovingPcs /\ ProcInv
  BY DEF Moving, Moves, Inv
<1>2. CASE CreateGet(r) \/ GetAccountGet(r)
  <2>1. proc[r].pc # "new"
    BY <1>2 DEF CreateGet, GetAccountGet
  <2>2. Exists(proc[r].call.user)
    BY <2>1, MovingCall
  <2> QED
    BY <1>1, <1>2, <2>2, MovedTo DEF CreateGet, GetAccountGet, MovingPcs, Booked, storeVars
<1>3. CASE CheckoutAsk(r) \/ PortalAsk(r) \/ CancelAsk(r) \/ StripeCall(r)
  BY <1>1, <1>3, MovedTo
  DEF CheckoutAsk, PortalAsk, CancelAsk, StripeCall, MovingPcs, Booked, storeVars
<1>4. ~(CreateCustomer(r) \/ CreatePut(r) \/ GetAccountCreate(r) \/ DeleteAccountHandler(r)
          \/ ZeroPro(r))
  BY <1>1 DEF CreateCustomer, CreatePut, GetAccountCreate, DeleteAccountHandler, ZeroPro,
     SubscribeGet, SubscribeCustomer, SubscribePut, SubscribePay, MovingPcs
<1> QED
  BY <1>2, <1>3, <1>4 DEF Accounts, CreateAccount, GetAccount, Subscribe

LEMMA WebhooksMove ==
  ASSUME NoRowWrites, Inv, Moving, NEW r \in Request, Webhooks(r)
  PROVE  Moved(r)
<1> USE DEF At, Arg, Copy, Done
<1>1. proc[r].pc \in MovingPcs /\ ProcInv /\ Moves(proc[r])
  BY DEF Moving, Moves, Inv
<1>2. CASE StripeReceive(r) \/ Resolve(r)
  <2>1. proc[r].pc \in {"stripe_webhook", "resolve"}
    BY <1>2 DEF StripeReceive, Resolve
  <2>2. /\ proc[r].call.op = "stripe_webhook"
        /\ proc[r].call.event \in {"checkout.payment", "invoice.paid", "record"}
        /\ proc[r].call.event = "invoice.paid" => proc[r].call.reason \notin FullReasons
    BY <1>1, <2>1, MovingCall DEF MovesOnly, Moves
  <2>3. Booked
    BY <1>2 DEF StripeReceive, Resolve, Booked, storeVars
  <2>4. \/ Answer(r, "already_processed") \/ Goto(r, "resolve") \/ Goto(r, "record")
        \/ Goto(r, proc[r].call.event)
    BY <1>2 DEF StripeReceive, Resolve
  <2>5. /\ proc[r].call.event \in MovingPcs /\ {"resolve", "record", "done"} \subseteq MovingPcs
        /\ proc[r].call.event \notin {"invoice.prorate", "invoice.add"}
    BY <2>2 DEF MovingPcs
  <2> QED
    BY <1>1, <2>2, <2>3, <2>4, <2>5, MovedTo
<1>3. CASE Checkout(r)
  <2>1. proc[r].pc # "new"
    BY <1>3 DEF Checkout, CheckoutGet, CheckoutCreate, CheckoutPut, PurchaseGet, PurchaseAdd
  <2>2. proc[r].call.user \in User /\ Exists(proc[r].call.user)
    BY <2>1, MovingCall
  <2>3. CASE PurchaseGet(r)
    BY <1>1, <2>2, <2>3, GetBooked, MovedTo DEF PurchaseGet, MovingPcs, Booked, storeVars
  <2>4. CASE PurchaseAdd(r)
    BY <1>1, <2>2, <2>4, CreditBooked, MovedTo DEF PurchaseAdd, MovingPcs
  <2> QED
    BY <1>1, <1>3, <2>3, <2>4
    DEF Checkout, CheckoutGet, CheckoutCreate, CheckoutPut, MovingPcs
<1>4. CASE InvoicePaid(r)
  <2>1. proc[r].pc \in {"invoice.paid", "invoice.prorate", "invoice.add"}
    BY <1>1, <1>4 DEF InvoicePaid, InvoiceGet, InvoiceProrate, InvoiceAdd, InvoiceReread,
       InvoiceMark, MovingPcs
  <2>2. proc[r].call.user \in User /\ proc[r].call.reason \notin FullReasons
    BY <1>1, <2>1, MovingCall DEF Moves
  <2>3. CASE InvoiceGet(r)
    BY <1>1, <2>2, <2>3, MovedTo DEF InvoiceGet, MovingPcs, Booked, storeVars
  <2>4. CASE InvoiceProrate(r)
    BY <1>1, <2>2, <2>4, MovedTo DEF InvoiceProrate, MovingPcs, Booked, storeVars
  <2>5. CASE InvoiceAdd(r)
    BY <1>1, <2>2, <2>5, CreditBooked, MovedTo DEF InvoiceAdd, MovingPcs, Booked, storeVars
  <2> QED
    BY <1>4, <2>1, <2>3, <2>4, <2>5 DEF InvoicePaid, InvoiceReread, InvoiceMark
<1>5. CASE LagoReceive(r) \/ LagoSubscriptionStarted(r)
  <2>1. proc[r].pc # "new"
    BY <1>5 DEF LagoReceive, LagoSubscriptionStarted, LagoGet, LagoCreate, LagoAdd
  <2>2. proc[r].call.user \in User /\ Exists(proc[r].call.user)
    BY <2>1, MovingCall
  <2>3. CASE LagoReceive(r)
    BY <1>1, <2>3, MovedTo DEF LagoReceive, MovingPcs, Booked, storeVars
  <2>4. CASE LagoGet(r)
    BY <1>1, <2>2, <2>4, GetBooked, MovedTo DEF LagoGet, MovingPcs, Booked, storeVars
  <2>5. CASE LagoAdd(r)
    BY <1>1, <2>2, <2>5, CreditBooked, MovedTo DEF LagoAdd, MovingPcs
  <2> QED
    BY <1>1, <1>5, <2>3, <2>4, <2>5 DEF LagoSubscriptionStarted, LagoCreate, MovingPcs
<1>6. CASE RecordEvent(r)
  BY <1>1, <1>6, MovedTo DEF RecordEvent, RecordWebhookEvent, MovingPcs, Booked
<1>7. ~(SubscriptionUpdate(r) \/ SubscriptionDeleted(r) \/ PaymentFailed(r))
  BY <1>1 DEF SubscriptionUpdate, SubscriptionGet, SubscriptionCreate, SubscriptionPut,
     SubscriptionReferral, SubscriptionInvitee, SubscriptionInviterGet,
     SubscriptionInviterCreate, SubscriptionInviter, SubscriptionDeleted, DeletedGet,
     DeletedPut, PaymentFailed, FailedGet, FailedPut, MovingPcs
<1> QED
  BY <1>2, <1>3, <1>4, <1>5, <1>6, <1>7 DEF Webhooks

\* What is left of the six changes of the database.
Money ==
  \/ UNCHANGED storeVars
  \/ \E u \in User, n \in Nat, type \in TransactionType \ {"usage"},
       ref \in UsageId \cup WebhookId \cup {None} : AddCredits(u, n, type, ref)
  \/ \E u \in User, cost \in Nat, e \in UsageId : CommitUsage(u, cost, e)
  \/ \E w \in WebhookId : RecordWebhookEvent(w)

LEMMA RecordGrows ==
  ASSUME Inv, NEW u \in User, NEW type, NEW amount, NEW after, NEW ref,
         Record(u, type, amount, after, ref)
  PROVE  ledger' # ledger
<1> DEFINE t == [type |-> type, amount |-> amount, after |-> after, ref |-> ref, day |-> today]
<1>1. ledger' = [ledger EXCEPT ![u] = Append(ledger[u], t)]
  BY DEF Record
<1>2. ledger \in [User -> Seq(Transaction)]
  BY DEF Inv, StoreType
<1> HIDE DEF t
<1>3. ledger'[u] = Append(ledger[u], t) /\ ledger[u] \in Seq(Transaction)
  BY <1>1, <1>2
<1>4. Len(Append(ledger[u], t)) # Len(ledger[u])
  BY <1>3
<1> QED
  BY <1>3, <1>4

LEMMA BookedIsMoney ==
  ASSUME Inv, Effect, Booked
  PROVE  Money
<1>1. CASE \E u \in User, a \in Sound : PutAccount(u, a)
  BY <1>1, RecordGrows DEF PutAccount, Booked, Money, storeVars
<1>2. CASE \E u \in User : DeleteAccount(u)
  BY <1>2, RecordGrows DEF DeleteAccount, Booked, Money, storeVars
<1> QED
  BY <1>1, <1>2 DEF Effect, Money

LEMMA MoneyKeepsAccounts ==
  ASSUME Inv, Money \/ Tick, NEW u \in User, Exists(u)
  PROVE  Exists(u)'
<1>1. CASE \E v \in User, n \in Nat, type \in TransactionType \ {"usage"},
             ref \in UsageId \cup WebhookId \cup {None} : AddCredits(v, n, type, ref)
  <2>1. PICK v \in User, n \in Nat, type \in TransactionType \ {"usage"},
              ref \in UsageId \cup WebhookId \cup {None} : AddCredits(v, n, type, ref)
    BY <1>1
  <2>2. Exists(v)' /\ \A w \in User \ {v} : accounts'[w] = accounts[w]
    BY <2>1, AddStep DEF AddCredits, Inv, StoreType
  <2> QED
    BY <2>2 DEF Exists
<1>2. CASE \E v \in User, cost \in Nat, e \in UsageId : CommitUsage(v, cost, e)
  BY <1>2, CommitStep DEF CommitUsage, Exists, Inv, StoreType
<1> QED
  BY <1>1, <1>2 DEF Money, Tick, RecordWebhookEvent, storeVars, Exists

LEMMA MovingStep ==
  ASSUME NoRowWrites, Inv, Moving, [Next]_vars
  PROVE  (Money \/ Tick) /\ Moving'
<1>1. AllSent'
  BY AllSentStep DEF Moving
<1>2. ASSUME NEW r \in Request, Send(r) PROVE Moved(r)
  <2>1. PICK c \in Calls : proc' = [proc EXCEPT ![r].pc = c.op, ![r].call = c]
    BY <1>2 DEF Send
  <2>2. proc \in [Request -> Proc] /\ Booked
    BY <1>2 DEF Inv, ProcInv, Send, Booked, storeVars
  <2>3. /\ proc'[r].pc = c.op /\ proc'[r].call = c
        /\ \A s \in Request \ {r} : proc'[s] = proc[s]
    BY <2>1, <2>2 DEF Proc, ProcAt
  <2>4. c.op \in MovingPcs /\ c.op \notin {"resolve", "invoice.paid", "invoice.prorate", "invoice.add"}
    BY DEF NoRowWrites, MovesOnly, MovingPcs
  <2> QED
    BY <2>2, <2>3, <2>4 DEF Moved, Moves
<1>3. ASSUME NEW r \in Request, Abandon(r) PROVE Moved(r)
  BY <1>3, MovedTo DEF Abandon, Booked, storeVars, Inv, MovingPcs
<1>4. ASSUME NEW r \in Request, Handler(r) PROVE Moved(r)
  BY <1>4, CreditsMove, UsageMoves, AccountsMove, WebhooksMove DEF Handler
<1>5. Effect \/ Tick
  BY StepEffect
<1>6. CASE \E r \in Request : Send(r) \/ Abandon(r) \/ Handler(r)
  <2>1. PICK r \in Request : Moved(r)
    BY <1>2, <1>3, <1>4, <1>6
  <2>2. Money \/ Tick
    BY <1>5, <2>1, BookedIsMoney DEF Moved
  <2>3. \A s \in Request : Moves(proc[s])'
    BY <2>1 DEF Moved, Moving, Moves
  <2> QED
    BY <1>1, <2>2, <2>3, MoneyKeepsAccounts, CallsAssumption DEF Moving, Call
<1>7. CASE Tick
  BY <1>1, <1>7, MoneyKeepsAccounts DEF Tick, Moving, Moves, Exists
<1>8. CASE Terminating \/ UNCHANGED vars
  BY <1>1, <1>8 DEF Terminating, vars, Money, storeVars, Moving, Moves, Exists
<1> QED
  BY <1>6, <1>7, <1>8 DEF Next

LEMMA InitMoving ==
  ASSUME NoRowWrites, Init
  PROVE  Moving
<1>1. \A c \in Calls : Exists(c.user) /\ (c.other # None => Exists(c.other))
  BY DEF NoRowWrites, MovesOnly, Init, Exists
<1>2. \A r \in Request : Moves(proc[r])
  BY DEF Init, NotSent, Moves, MovingPcs
<1> QED
  BY <1>1, <1>2, InitAllSent DEF Moving

-----------------------------------------------------------------------------
(* Balances and the records that explain them.                             *)

\* A record is added at the end of one user's ledger.
LEMMA Appended ==
  ASSUME Inv, NEW u \in User, NEW type, NEW amount, NEW after, NEW ref,
         Record(u, type, amount, after, ref)
  PROVE  /\ \A v \in User \ {u} : ledger'[v] = ledger[v]
         /\ Len(ledger[u]) \in Nat /\ DOMAIN ledger[u] = 1..Len(ledger[u])
         /\ Len(ledger'[u]) = Len(ledger[u]) + 1
         /\ DOMAIN ledger'[u] = 1..(Len(ledger[u]) + 1)
         /\ \A i \in 1..Len(ledger[u]) : ledger'[u][i] = ledger[u][i]
         /\ LET t == ledger'[u][Len(ledger[u]) + 1]
            IN  /\ t.type = type /\ t.amount = amount /\ t.after = after
                /\ t.ref = ref /\ t.day = today
         /\ ledger'[u] # <<>>
<1> DEFINE t == [type |-> type, amount |-> amount, after |-> after, ref |-> ref, day |-> today]
           s == ledger[u]
<1>1. ledger' = [ledger EXCEPT ![u] = Append(ledger[u], t)]
  BY DEF Record
<1>2. ledger \in [User -> Seq(Transaction)]
  BY DEF Inv, StoreType
<1> HIDE DEF t
<1>3. ledger'[u] = Append(s, t) /\ s \in Seq(Transaction)
      /\ \A v \in User \ {u} : ledger'[v] = ledger[v]
  BY <1>1, <1>2
<1> HIDE DEF s
<1>4. /\ DOMAIN s = 1..Len(s) /\ Len(s) \in Nat
      /\ DOMAIN Append(s, t) = 1..(Len(s) + 1) /\ Len(Append(s, t)) = Len(s) + 1
      /\ Append(s, t)[Len(s) + 1] = t
      /\ \A j \in 1..Len(s) : Append(s, t)[j] = s[j]
      /\ Append(s, t) # <<>>
  BY <1>3
<1>5. t.type = type /\ t.amount = amount /\ t.after = after /\ t.ref = ref /\ t.day = today
  BY DEF t
<1> QED
  BY <1>3, <1>4, <1>5 DEF s

\* The balance of every user and the last record of their ledger.
LEMMA ExplainsAfterRecord ==
  ASSUME Inv, LedgerExplainsBalance, NEW u \in User, NEW type, NEW amount, NEW after, NEW ref,
         Record(u, type, amount, after, ref),
         \A v \in User \ {u} : accounts'[v] = accounts[v],
         accounts'[u].balance = after
  PROVE  LedgerExplainsBalance'
<1>1. BalanceAfter(u)' = after
  BY Appended DEF BalanceAfter
<1>2. \A v \in User \ {u} : BalanceAfter(v)' = BalanceAfter(v)
  BY Appended DEF BalanceAfter
<1> QED
  BY <1>1, <1>2 DEF LedgerExplainsBalance, Exists

LEMMA RunningAfterRecord ==
  ASSUME Inv, LedgerKeepsAccount, LedgerExplainsBalance, RunningBalance,
         NEW u \in User, NEW type, NEW amount, NEW after, NEW ref,
         Record(u, type, amount, after, ref), after = accounts[u].balance + amount
  PROVE  RunningBalance'
<1> DEFINE n == Len(ledger[u])
<1>1. /\ \A v \in User \ {u} : ledger'[v] = ledger[v]
      /\ n \in Nat /\ Len(ledger'[u]) = n + 1
      /\ \A i \in 1..n : ledger'[u][i] = ledger[u][i]
      /\ ledger'[u][n + 1].after = after /\ ledger'[u][n + 1].amount = amount
  BY Appended
<1>2. n > 0 => accounts[u].balance = ledger[u][n].after
  BY DEF LedgerKeepsAccount, LedgerExplainsBalance, BalanceAfter, Inv, StoreType
<1> HIDE DEF n
<1>3. ASSUME NEW i \in 2..(n + 1)
      PROVE  ledger'[u][i].after = ledger'[u][i - 1].after + ledger'[u][i].amount
  <2>1. CASE i = n + 1
    BY <1>1, <1>2, <1>3, <2>1
  <2>2. CASE i # n + 1
    <3>1. i \in 2..n /\ i \in 1..n /\ i - 1 \in 1..n
      BY <1>1, <1>3, <2>2
    <3>2. ledger[u][i].after = ledger[u][i - 1].after + ledger[u][i].amount
      BY <3>1 DEF RunningBalance, n
    <3> QED
      BY <1>1, <3>1, <3>2
  <2> QED
    BY <2>1, <2>2
<1> QED
  BY SMTT(30), <1>1, <1>3 DEF RunningBalance

Explained == LedgerExplainsBalance /\ RunningBalance

LEMMA ExplainedStep ==
  ASSUME Inv, LedgerKeepsAccount, Explained, Money \/ Tick
  PROVE  Explained'
<1>1. CASE UNCHANGED storeVars \/ Tick \/ \E w \in WebhookId : RecordWebhookEvent(w)
  BY <1>1 DEF storeVars, Tick, RecordWebhookEvent, Explained, LedgerExplainsBalance,
     RunningBalance, BalanceAfter, Exists
<1>2. ASSUME NEW u \in User, NEW n \in Nat, NEW type \in TransactionType \ {"usage"},
             NEW ref \in UsageId \cup WebhookId \cup {None}, AddCredits(u, n, type, ref)
      PROVE  Explained'
  <2>1. accounts[u] \in Account /\ accounts \in [User -> Account \cup {None}]
    BY <1>2, Row DEF AddCredits, Sound, Inv, StoreType
  <2>2. /\ Record(u, type, n, accounts[u].balance + n, ref)
        /\ \A v \in User \ {u} : accounts'[v] = accounts[v]
        /\ accounts'[u].balance = accounts[u].balance + n
    BY <1>2, <2>1 DEF AddCredits, Account
  <2> QED
    BY <2>2, ExplainsAfterRecord, RunningAfterRecord DEF Explained
<1>3. ASSUME NEW u \in User, NEW cost \in Nat, NEW e \in UsageId, CommitUsage(u, cost, e)
      PROVE  Explained'
  <2>1. accounts[u] \in Account /\ accounts \in [User -> Account \cup {None}]
    BY <1>3, Row DEF CommitUsage, Sound, Inv, StoreType
  <2>2. /\ Record(u, "usage", -cost, accounts[u].balance - cost, e)
        /\ \A v \in User \ {u} : accounts'[v] = accounts[v]
        /\ accounts'[u].balance = accounts[u].balance - cost
        /\ accounts[u].balance - cost = accounts[u].balance + (-cost)
    BY <1>3, <2>1 DEF CommitUsage, Account
  <2> QED
    BY <2>2, ExplainsAfterRecord, RunningAfterRecord DEF Explained
<1> QED
  BY <1>1, <1>2, <1>3 DEF Money

LEMMA InitExplained ==
  ASSUME Init
  PROVE  Explained
<1> SUFFICES ASSUME NEW u \in User
             PROVE  /\ Exists(u) => accounts[u].balance = BalanceAfter(u)
                    /\ \A i \in 2..Len(ledger[u]) :
                         ledger[u][i].after = ledger[u][i-1].after + ledger[u][i].amount
  BY DEF Explained, LedgerExplainsBalance, RunningBalance
<1> DEFINE a == Initial[u]
           t == OpeningRecord(a)
<1>1. accounts[u] = a /\ ledger[u] = OpeningLedger(a) /\ t.after = a.balance
  BY DEF Init, OpeningRecord
<1> HIDE DEF t
<1>2. CASE a = None \/ a.balance = 0
  <2>1. ledger[u] = <<>>
    BY <1>1, <1>2 DEF OpeningLedger
  <2> QED
    BY <1>1, <1>2, <2>1 DEF Exists, BalanceAfter
<1>3. CASE a # None /\ a.balance # 0
  <2>1. ledger[u] = <<t>> /\ <<t>> # <<>> /\ Len(<<t>>) = 1 /\ <<t>>[1] = t
    BY <1>1, <1>3 DEF OpeningLedger, t
  <2> QED
    BY <1>1, <2>1 DEF Exists, BalanceAfter
<1> QED
  BY <1>2, <1>3

\* Where nothing writes a whole row, no interleaving of charges, grants, paid
\* purchases and refills changes a balance without the record that states it.
THEOREM BalancesExplained == NoRowWrites => (Spec => []LedgerExplainsBalance)
<1> SUFFICES ASSUME NoRowWrites PROVE Spec => []LedgerExplainsBalance
  OBVIOUS
<1>1. Init => Moving /\ Explained
  BY InitMoving, InitExplained
<1>2. Inv /\ LedgerKeepsAccount /\ Moving /\ Explained /\ [Next]_vars => (Moving /\ Explained)'
  BY MovingStep, ExplainedStep
<1>3. Explained => LedgerExplainsBalance
  BY DEF Explained
<1> QED
  BY <1>1, <1>2, <1>3, Invariant, AccountsKept, PTL DEF Spec

\* ... and the records of a user add up, in the order they were committed in.
THEOREM RecordsAddUp == NoRowWrites => (Spec => []RunningBalance)
<1> SUFFICES ASSUME NoRowWrites PROVE Spec => []RunningBalance
  OBVIOUS
<1>1. Init => Moving /\ Explained
  BY InitMoving, InitExplained
<1>2. Inv /\ LedgerKeepsAccount /\ Moving /\ Explained /\ [Next]_vars => (Moving /\ Explained)'
  BY MovingStep, ExplainedStep
<1>3. Explained => RunningBalance
  BY DEF Explained
<1> QED
  BY <1>1, <1>2, <1>3, Invariant, AccountsKept, PTL DEF Spec

-----------------------------------------------------------------------------
(* The service implements Ledger.                                          *)

Funds == [u \in User |-> IF Exists(u) THEN accounts[u].balance ELSE 0]

ChargeOf(u, t) == [event |-> t.ref, user |-> u, cost |-> -t.amount]

ChargesOf(u) == {ChargeOf(u, ledger[u][i]) : i \in UsageRecords(u)}

OnRecord == UNION {ChargesOf(u) : u \in User}

LEMMA OnRecordAfterRecord ==
  ASSUME Inv, NEW u \in User, NEW type, NEW amount, NEW after, NEW ref,
         Record(u, type, amount, after, ref)
  PROVE  OnRecord' = IF type = "usage"
                     THEN OnRecord \cup {[event |-> ref, user |-> u, cost |-> -amount]}
                     ELSE OnRecord
<1> DEFINE n == Len(ledger[u])
           t == ledger'[u][n + 1]
<1>1. /\ \A v \in User \ {u} : ledger'[v] = ledger[v]
      /\ n \in Nat /\ DOMAIN ledger[u] = 1..n /\ DOMAIN ledger'[u] = 1..(n + 1)
      /\ \A i \in 1..n : ledger'[u][i] = ledger[u][i]
      /\ t.type = type /\ t.amount = amount /\ t.ref = ref
  BY Appended
<1> HIDE DEF t, n
<1>2. \A v \in User \ {u} : ChargesOf(v)' = ChargesOf(v)
  BY <1>1 DEF ChargesOf, UsageRecords
<1>3. /\ UsageRecords(u) = {i \in 1..n : ledger[u][i].type = "usage"}
      /\ UsageRecords(u)' = {i \in 1..(n + 1) : ledger'[u][i].type = "usage"}
  BY <1>1 DEF UsageRecords
<1>4. UsageRecords(u)' = IF type = "usage" THEN UsageRecords(u) \cup {n + 1} ELSE UsageRecords(u)
  BY <1>1, <1>3 DEF t
<1>5. \A i \in UsageRecords(u) : ledger'[u][i] = ledger[u][i]
  BY <1>1, <1>3
<1>6. ChargesOf(u)' = IF type = "usage"
                      THEN ChargesOf(u) \cup {ChargeOf(u, t)} ELSE ChargesOf(u)
  <2>1. ChargesOf(u)' = {ChargeOf(u, ledger'[u][i]) : i \in UsageRecords(u)'}
    BY DEF ChargesOf, ChargeOf
  <2> QED
    BY <1>4, <1>5, <2>1 DEF ChargesOf, t
<1>7. ChargeOf(u, t) = [event |-> ref, user |-> u, cost |-> -amount]
  BY <1>1 DEF ChargeOf
<1> QED
  BY <1>2, <1>6, <1>7 DEF OnRecord

LEMMA FundsAreNatural ==
  (Inv => Funds \in [User -> Nat]) /\ (Inv' => Funds' \in [User -> Nat])
BY DEF Funds, Inv, RowsSound, Sound, Account

LEMMA FundsOfOne ==
  ASSUME NEW u \in User, NEW n, Exists(u)', accounts'[u].balance = n,
         \A v \in User \ {u} : accounts'[v] = accounts[v]
  PROVE  /\ Funds'[u] = n
         /\ \A v \in User \ {u} : Funds'[v] = Funds[v]
BY DEF Funds, Exists

LEMMA AbstractInit ==
  ASSUME Init
  PROVE  Funds \in [User -> Nat] /\ OnRecord = {}
<1>1. Inv
  BY InitInv
<1>2. ASSUME NEW u \in User PROVE UsageRecords(u) = {}
  <2> DEFINE a == Initial[u]
             t == OpeningRecord(a)
  <2>1. ledger[u] = OpeningLedger(a) /\ t.type # "usage"
    BY DEF Init, OpeningRecord
  <2> HIDE DEF t
  <2>2. OpeningLedger(a) \in {<<>>, <<t>>}
    BY DEF OpeningLedger, t
  <2> QED
    BY <2>1, <2>2 DEF UsageRecords
<1> QED
  BY <1>1, <1>2, FundsAreNatural DEF OnRecord, ChargesOf

\* A credit of nothing changes nothing that the abstract ledger knows.
LEMMA AbstractCredit ==
  ASSUME Inv, Inv', NEW u \in User, NEW n \in Nat, NEW type \in TransactionType \ {"usage"},
         NEW ref \in UsageId \cup WebhookId \cup {None}, AddCredits(u, n, type, ref)
  PROVE  /\ OnRecord' = OnRecord
         /\ \A v \in User \ {u} : Funds'[v] = Funds[v]
         /\ Funds'[u] = Funds[u] + n
<1>1. /\ accounts[u] \in Account /\ accounts \in [User -> Account \cup {None}]
      /\ Exists(u) /\ Exists(u)'
  BY Row, AddStep DEF AddCredits, Sound, Inv, StoreType
<1>2. /\ Record(u, type, n, accounts[u].balance + n, ref)
      /\ \A v \in User \ {u} : accounts'[v] = accounts[v]
      /\ accounts'[u].balance = accounts[u].balance + n
  BY <1>1 DEF AddCredits, Account
<1>3. Funds[u] = accounts[u].balance
  BY <1>1 DEF Funds
<1> QED
  BY <1>1, <1>2, <1>3, FundsOfOne, OnRecordAfterRecord

LEMMA AbstractCharge ==
  ASSUME Inv, Inv', StoredIffCharged,
         NEW u \in User, NEW cost \in Nat, NEW e \in UsageId, CommitUsage(u, cost, e)
  PROVE  /\ \A c \in OnRecord : c.event # e
         /\ OnRecord' = OnRecord \cup {[event |-> e, user |-> u, cost |-> cost]}
         /\ \A v \in User \ {u} : Funds'[v] = Funds[v]
         /\ Funds'[u] = Funds[u] - cost
<1>1. /\ accounts[u] \in Account /\ accounts \in [User -> Account \cup {None}]
      /\ Exists(u) /\ Exists(u)'
  BY Row, CommitStep DEF CommitUsage, Sound, Inv, StoreType
<1>2. /\ Record(u, "usage", -cost, accounts[u].balance - cost, e)
      /\ \A v \in User \ {u} : accounts'[v] = accounts[v]
      /\ accounts'[u].balance = accounts[u].balance - cost
      /\ e \notin usage_events
      /\ -(-cost) = cost
  BY <1>1 DEF CommitUsage, Account
<1>3. Funds[u] = accounts[u].balance
  BY <1>1 DEF Funds
<1>4. \A v \in User : \A i \in DOMAIN ledger[v] : ~Charged(v, i, e)
  BY <1>2 DEF StoredIffCharged
<1>5. \A c \in OnRecord : c.event # e
  BY <1>4 DEF OnRecord, ChargesOf, ChargeOf, UsageRecords, Charged
<1> QED
  BY <1>1, <1>2, <1>3, <1>5, FundsOfOne, OnRecordAfterRecord

LEMMA MappedInit ==
  ASSUME Init
  PROVE  L!Init
<1>1. Funds \in [User -> Nat] /\ OnRecord = {}
  BY AbstractInit
<1> QED
  BY <1>1 DEF L!Init, Funds, OnRecord, ChargesOf, ChargeOf

\* Each step of the service is one step of the abstract ledger, or none.
LEMMA MappedStep ==
  ASSUME Inv, Inv', StoredIffCharged, Money \/ Tick
  PROVE  [L!Next]_<<Funds, OnRecord>>
<1>1. CASE UNCHANGED storeVars \/ Tick \/ \E w \in WebhookId : RecordWebhookEvent(w)
  <2>1. accounts' = accounts /\ ledger' = ledger
    BY <1>1 DEF storeVars, Tick, RecordWebhookEvent
  <2>2. UNCHANGED <<Funds, OnRecord>>
    BY <2>1 DEF Funds, Exists, OnRecord, ChargesOf, ChargeOf, UsageRecords
  <2> QED
    BY <2>2
<1>2. ASSUME NEW u \in User, NEW n \in Nat, NEW type \in TransactionType \ {"usage"},
             NEW ref \in UsageId \cup WebhookId \cup {None}, AddCredits(u, n, type, ref)
      PROVE  [L!Next]_<<Funds, OnRecord>>
  <2>1. /\ OnRecord' = OnRecord
        /\ \A v \in User \ {u} : Funds'[v] = Funds[v]
        /\ Funds'[u] = Funds[u] + n
        /\ Funds \in [User -> Nat] /\ Funds' \in [User -> Nat]
    BY <1>2, AbstractCredit, FundsAreNatural
  <2>2. CASE n = 0
    <3>1. Funds' = Funds
      BY <2>1, <2>2
    <3> QED
      BY <2>1, <3>1
  <2>3. CASE n # 0
    <3>1. L!Credit(u)
      BY <2>1, <2>3 DEF L!Credit, L!Only, Funds, OnRecord, ChargesOf, ChargeOf
    <3> QED
      BY <2>1, <3>1 DEF L!Next, Funds
  <2> QED
    BY <2>2, <2>3
<1>3. ASSUME NEW u \in User, NEW cost \in Nat, NEW e \in UsageId, CommitUsage(u, cost, e)
      PROVE  [L!Next]_<<Funds, OnRecord>>
  <2>1. /\ \A c \in OnRecord : c.event # e
        /\ OnRecord' = OnRecord \cup {[event |-> e, user |-> u, cost |-> cost]}
        /\ \A v \in User \ {u} : Funds'[v] = Funds[v]
        /\ Funds'[u] = Funds[u] - cost
        /\ Funds \in [User -> Nat] /\ Funds' \in [User -> Nat]
    BY <1>3, AbstractCharge, FundsAreNatural
  <2>2. Funds[u] - Funds'[u] = cost
    BY <2>1
  <2>3. L!Charge(u, e)
    BY <2>1, <2>2 DEF L!Charge, L!Only, Funds, OnRecord, ChargesOf, ChargeOf
  <2> QED
    BY <2>1, <2>3 DEF L!Next, Funds
<1> QED
  BY <1>1, <1>2, <1>3 DEF Money

\* The refinement: where nothing writes a whole row, every step of every
\* handler credits one user, charges one user for an event that no one was
\* charged for, or moves no money, whatever runs beside it and is cut short.
THEOREM ImplementsLedger == NoRowWrites => (Spec => LedgerImplemented)
<1> SUFFICES ASSUME NoRowWrites PROVE Spec => LedgerImplemented
  OBVIOUS
<1>1. Init => Moving /\ L!Init
  BY InitMoving, MappedInit
<1>2. Inv /\ Inv' /\ ChargedOnce /\ Moving /\ [Next]_vars => Moving' /\ [L!Next]_<<Funds, OnRecord>>
  BY MovingStep, MappedStep DEF ChargedOnce
<1>3. Spec => L!Init /\ [][L!Next]_<<Funds, OnRecord>>
  BY <1>1, <1>2, Invariant, EventsChargedOnce, PTL DEF Spec
<1> QED
  BY <1>3, PTL DEF LedgerImplemented, L!Spec, Funds, OnRecord, ChargesOf, ChargeOf

-----------------------------------------------------------------------------
(* Records stay where they are.                                            *)

LEMMA LedgersGrow ==
  ASSUME Inv, Effect \/ Tick, NEW u \in User
  PROVE  \A i \in DOMAIN ledger[u] : i \in DOMAIN ledger'[u] /\ ledger'[u][i] = ledger[u][i]
<1>1. ASSUME NEW v \in User, NEW type, NEW amount, NEW after, NEW ref,
             Record(v, type, amount, after, ref)
      PROVE  \A i \in DOMAIN ledger[u] : i \in DOMAIN ledger'[u] /\ ledger'[u][i] = ledger[u][i]
  <2>1. CASE u = v
    BY <1>1, <2>1, Appended
  <2>2. CASE u # v
    BY <1>1, <2>2, Appended
  <2> QED
    BY <2>1, <2>2
<1>2. CASE ledger' = ledger
  BY <1>2
<1> QED
  BY <1>1, <1>2 DEF Effect, Tick, storeVars, PutAccount, AddCredits, CommitUsage,
     DeleteAccount, RecordWebhookEvent

LEMMA AppliedForGood ==
  ASSUME Inv, Effect \/ Tick, NEW u \in User, NEW w, AppliedTo(u, w) # {}
  PROVE  AppliedTo(u, w)' # {}
<1>1. PICK i \in DOMAIN ledger[u] : ledger[u][i].ref = w /\ ledger[u][i].type # "referral_bonus"
  BY DEF AppliedTo
<1>2. i \in DOMAIN ledger'[u] /\ ledger'[u][i] = ledger[u][i]
  BY LedgersGrow
<1> QED
  BY <1>1, <1>2 DEF AppliedTo

LEMMA AppliedByCredit ==
  ASSUME Inv, NEW u \in User, NEW n, NEW type, NEW w, type # "referral_bonus",
         AddCredits(u, n, type, w)
  PROVE  AppliedTo(u, w)' # {}
<1>1. Record(u, type, n, accounts[u].balance + n, w)
  BY DEF AddCredits
<1> DEFINE i == Len(ledger[u]) + 1
<1>2. /\ i \in DOMAIN ledger'[u]
      /\ ledger'[u][i].ref = w /\ ledger'[u][i].type # "referral_bonus"
  BY <1>1, Appended
<1> QED
  BY <1>2 DEF AppliedTo

-----------------------------------------------------------------------------
(* A delivery that owes credits.                                           *)

\* What the senders see to: an event that owes credits shares its id with no
\* other.  Its deliveries are as many as there are requests.
DistinctEvents == \A c \in OwedCalls : \A d \in Calls : d.id = c.id => d = c

\* The steps on its way, by the kind of the event.
OwedPcs(c) ==
  IF c.op = "lago_webhook" THEN {"lago_webhook", "lago.started", "lago.add", "record"}
  ELSE IF c.event = "checkout.payment"
       THEN {"stripe_webhook", "checkout.payment", "purchase.add", "record"}
       ELSE {"stripe_webhook", "invoice.paid", "invoice.add", "invoice.reread",
             "invoice.mark", "record"}

Applied(c) == AppliedTo(c.user, c.id) # {}

\* It does not get to the record of the event without the credits.
OwedAt(p) ==
  p.pc \notin {"new", "done"} /\ p.call \in OwedCalls =>
    /\ p.pc \in OwedPcs(p.call)
    /\ p.pc = "invoice.add" => p.kept > 0
    /\ p.pc \in {"invoice.reread", "invoice.mark", "record"} => Applied(p.call)

OwedInv ==
  /\ AllSent
  /\ \A c \in OwedCalls : ledger[c.user] # <<>>
  /\ \A r \in Request : OwedAt(proc[r])
  /\ RecordedApplied

\* What is known of such a delivery when it takes a step.
LEMMA OwedStepping ==
  ASSUME Inv, LedgerKeepsAccount, OwedInv, NEW r \in Request, NEW c \in OwedCalls,
         proc[r].pc \notin {"new", "done"}, proc[r].call = c
  PROVE  /\ ProcInv /\ OwesCredits(c)
         /\ c.user \in User /\ Exists(c.user)
         /\ proc[r].pc \in OwedPcs(c)
         /\ proc[r].pc = "invoice.add" => proc[r].kept > 0
         /\ proc[r].pc \in {"invoice.reread", "invoice.mark", "record"} => Applied(c)
<1>1. ProcInv /\ c.user \in User
  BY Stepping
<1>2. OwesCredits(c) /\ Exists(c.user)
  BY <1>1 DEF OwedInv, OwedCalls, LedgerKeepsAccount
<1>3. OwedAt(proc[r])
  BY DEF OwedInv
<1> QED
  BY <1>1, <1>2, <1>3 DEF OwedAt

\* Where the helpers leave it: at a step on its way, and past the credits only
\* if those are in the ledger.
LEMMA OwedTo ==
  ASSUME ProcInv, NEW r \in Request, NEW c \in OwedCalls, proc[r].call = c,
         NEW pc \in OwedPcs(c), pc # "invoice.add",
         pc \in {"invoice.reread", "invoice.mark", "record"} => Applied(c)',
         Goto(r, pc) \/ \E a : Keep(r, a, pc)
  PROVE  OwedAt(proc[r])'
<1>1. \E a : Becomes(r, pc, a, proc[r].kept, proc[r].answer)
  BY Locals
<1> QED
  BY <1>1 DEF Becomes, OwedAt

LEMMA OwedDone ==
  ASSUME ProcInv, NEW r \in Request, NEW x, Answer(r, x)
  PROVE  OwedAt(proc[r])'
BY Locals DEF Becomes, OwedAt

\* The credit is given, as the account is there.
LEMMA OwedCredit ==
  ASSUME Inv, NEW r \in Request, NEW c \in OwedCalls, proc[r].call = c, c.user \in User,
         Exists(c.user), NEW n, NEW type, type # "referral_bonus",
         NEW pc \in OwedPcs(c), pc # "invoice.add",
         Credit(r, c.user, n, type, pc)
  PROVE  OwedAt(proc[r])'
<1>1. AddCredits(c.user, n, type, c.id) /\ Goto(r, pc)
  BY DEF Credit, NoAccount, Arg
<1>2. Applied(c)'
  BY <1>1, AppliedByCredit DEF Applied
<1> QED
  BY <1>1, <1>2, OwedTo DEF Inv

LEMMA OwedReceived ==
  ASSUME Inv, LedgerKeepsAccount, OwedInv, NEW r \in Request, NEW c \in OwedCalls,
         proc[r].call = c, StripeReceive(r) \/ LagoReceive(r)
  PROVE  OwedAt(proc[r])'
<1> USE DEF At, Arg
<1>1. proc[r].pc \in {"stripe_webhook", "lago_webhook"}
  BY DEF StripeReceive, LagoReceive
<1>2. ProcInv /\ OwesCredits(c) /\ proc[r].pc \in OwedPcs(c)
  BY <1>1, OwedStepping
<1>3. CASE c.op = "lago_webhook"
  <2>1. c.event = "lago.started" /\ LagoReceive(r)
    BY <1>1, <1>2, <1>3 DEF OwesCredits, OwedPcs, StripeReceive, LagoReceive
  <2> QED
    BY <1>2, <1>3, <2>1, OwedTo, OwedDone DEF LagoReceive, OwedPcs
<1>4. CASE c.op # "lago_webhook"
  <2>1. /\ c.event \in {"checkout.payment", "invoice.paid"} /\ ~c.lookup
        /\ StripeReceive(r)
    BY <1>1, <1>2, <1>4 DEF OwesCredits, OwedPcs, StripeReceive, LagoReceive
  <2>2. Answer(r, "already_processed") \/ Goto(r, c.event)
    BY <2>1 DEF StripeReceive
  <2> QED
    BY <1>2, <1>4, <2>1, <2>2, OwedTo, OwedDone DEF OwedPcs
<1> QED
  BY <1>3, <1>4

LEMMA OwedPurchase ==
  ASSUME Inv, LedgerKeepsAccount, OwedInv, NEW r \in Request, NEW c \in OwedCalls,
         proc[r].call = c, PurchaseGet(r) \/ PurchaseAdd(r)
  PROVE  OwedAt(proc[r])'
<1> USE DEF At, Arg
<1>1. proc[r].pc \in {"checkout.payment", "purchase.add"}
  BY DEF PurchaseGet, PurchaseAdd
<1>2. /\ ProcInv /\ OwesCredits(c) /\ proc[r].pc \in OwedPcs(c)
      /\ c.user \in User /\ Exists(c.user)
  BY <1>1, OwedStepping
<1>3. c.op # "lago_webhook" /\ c.event = "checkout.payment" /\ c.reason = "paid"
  BY <1>1, <1>2 DEF OwesCredits, OwedPcs
<1>4. CASE PurchaseGet(r)
  <2>1. Keep(r, accounts[c.user], "purchase.add")
    BY <1>2, <1>3, <1>4, GetBooked DEF PurchaseGet
  <2> QED
    BY <1>2, <1>3, <2>1, OwedTo DEF OwedPcs
<1>5. CASE PurchaseAdd(r)
  BY <1>2, <1>3, <1>5, OwedCredit DEF PurchaseAdd, OwedPcs
<1> QED
  BY <1>4, <1>5

LEMMA OwedInvoice ==
  ASSUME Inv, LedgerKeepsAccount, OwedInv, NEW r \in Request, NEW c \in OwedCalls,
         proc[r].call = c, InvoicePaid(r), Effect \/ Tick
  PROVE  OwedAt(proc[r])'
<1> USE DEF At, Arg
<1>1. proc[r].pc \in {"invoice.paid", "invoice.prorate", "invoice.add", "invoice.reread",
                      "invoice.mark"}
  BY DEF InvoicePaid, InvoiceGet, InvoiceProrate, InvoiceAdd, InvoiceReread, InvoiceMark
<1>2. /\ ProcInv /\ OwesCredits(c) /\ proc[r].pc \in OwedPcs(c)
      /\ c.user \in User /\ Exists(c.user)
      /\ proc[r].pc = "invoice.add" => proc[r].kept > 0
      /\ proc[r].pc \in {"invoice.reread", "invoice.mark"} => Applied(c)
  BY <1>1, OwedStepping
<1>3. /\ c.op # "lago_webhook" /\ c.event = "invoice.paid" /\ c.reason \in FullReasons
      /\ c.subscription # None /\ MonthlyCredits[c.subscription.plan] > 0
      /\ proc[r].pc # "invoice.prorate"
  BY <1>1, <1>2 DEF OwesCredits, OwedPcs
<1>4. CASE InvoiceGet(r)
  <2>1. KeepAndCompute(r, accounts[c.user], MonthlyCredits[c.subscription.plan], "invoice.add")
    BY <1>2, <1>3, <1>4 DEF InvoiceGet
  <2>2. Becomes(r, "invoice.add", accounts[c.user], MonthlyCredits[c.subscription.plan],
                proc[r].answer)
    BY <1>2, <2>1, Locals
  <2> QED
    BY <1>3, <2>2 DEF Becomes, OwedAt, OwedPcs
<1>5. CASE InvoiceAdd(r)
  <2>1. Credit(r, c.user, proc[r].kept, "monthly_allowance", "invoice.reread")
    <3>1. proc[r].kept > 0 /\ proc[r].kept \in Int
      BY <1>2, <1>5 DEF InvoiceAdd, ProcInv, Proc, ProcAt
    <3> QED
      BY <1>3, <1>5, <3>1 DEF InvoiceAdd
  <2> QED
    BY <1>2, <1>3, <2>1, OwedCredit DEF OwedPcs
<1>6. CASE InvoiceReread(r) \/ InvoiceMark(r)
  <2>1. Applied(c)'
    BY <1>2, <1>6, AppliedForGood DEF InvoiceReread, InvoiceMark, Applied
  <2> QED
    BY <1>2, <1>3, <1>6, <2>1, OwedTo DEF InvoiceReread, Reread, InvoiceMark, Done, OwedPcs
<1> QED
  BY <1>3, <1>4, <1>5, <1>6 DEF InvoicePaid, InvoiceProrate

LEMMA OwedLago ==
  ASSUME Inv, LedgerKeepsAccount, OwedInv, NEW r \in Request, NEW c \in OwedCalls,
         proc[r].call = c, LagoSubscriptionStarted(r)
  PROVE  OwedAt(proc[r])'
<1> USE DEF At, Arg
<1>1. proc[r].pc \in {"lago.started", "lago.create", "lago.add"}
  BY DEF LagoSubscriptionStarted, LagoGet, LagoCreate, LagoAdd
<1>2. /\ ProcInv /\ OwesCredits(c) /\ proc[r].pc \in OwedPcs(c)
      /\ c.user \in User /\ Exists(c.user)
  BY <1>1, OwedStepping
<1>3. /\ c.op = "lago_webhook" /\ MonthlyCredits[c.subscription.plan] # 0
      /\ proc[r].pc # "lago.create"
  BY <1>1, <1>2 DEF OwesCredits, OwedPcs
<1>4. CASE LagoGet(r)
  <2>1. Keep(r, accounts[c.user], "lago.add")
    BY <1>2, <1>3, <1>4, GetBooked DEF LagoGet
  <2> QED
    BY <1>2, <1>3, <2>1, OwedTo DEF OwedPcs
<1>5. CASE LagoAdd(r)
  BY <1>2, <1>3, <1>5, OwedCredit DEF LagoAdd, OwedPcs
<1> QED
  BY <1>3, <1>4, <1>5 DEF LagoSubscriptionStarted, LagoCreate

LEMMA OwedHandler ==
  ASSUME Inv, LedgerKeepsAccount, OwedInv, Effect \/ Tick, NEW r \in Request, Handler(r),
         proc[r].call \in OwedCalls
  PROVE  OwedAt(proc[r])'
<1>1. OwedAt(proc[r])
  BY DEF OwedInv
<1>2. proc[r].pc \in AnyOwedPcs \cup {"new", "done"}
  BY <1>1 DEF OwedAt, OwedPcs, AnyOwedPcs
<1>3. Webhooks(r)
  BY <1>2, OtherHandlers DEF Handler
<1>4. CASE Checkout(r)
  BY <1>2, <1>4, OtherHandlers, OwedPurchase DEF Checkout
<1>5. CASE RecordEvent(r)
  BY <1>5, OwedDone DEF RecordEvent, Inv
<1> QED
  BY <1>2, <1>3, <1>4, <1>5, OtherHandlers, OwedReceived, OwedInvoice, OwedLago DEF Webhooks

\* A request that stays where it is, or that owes nothing, or is new.
LEMMA OwedElsewhere ==
  ASSUME Inv, OwedInv, Effect \/ Tick, NEW s \in Request, proc'[s] = proc[s]
  PROVE  OwedAt(proc[s])'
<1>1. OwedAt(proc[s])
  BY DEF OwedInv
<1>2. ASSUME NEW c \in OwedCalls, Applied(c) PROVE Applied(c)'
  <2>1. c.user \in User
    BY CallsAssumption DEF OwedCalls, Call
  <2> QED
    BY <1>2, <2>1, AppliedForGood DEF Applied
<1> QED
  BY <1>1, <1>2 DEF OwedAt

LEMMA OwedProgress ==
  ASSUME Inv, LedgerKeepsAccount, OwedInv, [Next]_vars, NEW s \in Request
  PROVE  OwedAt(proc[s])'
<1>1. Effect \/ Tick
  BY StepEffect
<1>2. CASE proc'[s] = proc[s]
  BY <1>1, <1>2, OwedElsewhere
<1>3. ASSUME NEW r \in Request, Send(r) PROVE OwedAt(proc[s])'
  <2>1. PICK c \in Calls : proc' = [proc EXCEPT ![r].pc = c.op, ![r].call = c]
    BY <1>3 DEF Send
  <2>2. proc'[r].pc = c.op /\ proc'[r].call = c /\ \A t \in Request \ {r} : proc'[t] = proc[t]
    BY <2>1 DEF Inv, ProcInv, Proc, ProcAt
  <2>3. c \in OwedCalls => c.op \in {"stripe_webhook", "lago_webhook"}
    BY DEF OwedCalls, OwesCredits
  <2>4. OwedAt(proc[r])'
    BY <2>2, <2>3 DEF OwedAt, OwedPcs
  <2> QED
    BY <1>1, <2>2, <2>4, OwedElsewhere
<1>4. ASSUME NEW r \in Request, Abandon(r) PROVE OwedAt(proc[s])'
  <2>1. \E x : Answer(r, x)
    BY <1>4 DEF Abandon
  <2>2. \A t \in Request \ {r} : proc'[t] = proc[t]
    BY <2>1, Locals DEF Becomes, Inv
  <2> QED
    BY <1>1, <2>1, <2>2, OwedDone, OwedElsewhere DEF Inv
<1>5. ASSUME NEW r \in Request, Handler(r) PROVE OwedAt(proc[s])'
  <2>1. Goes(r)
    BY <1>5, HandlerRecords DEF Inv
  <2>2. proc'[r].call = proc[r].call /\ \A t \in Request \ {r} : proc'[t] = proc[t]
    BY <2>1 DEF Goes, Becomes
  <2>3. CASE s # r
    BY <1>1, <2>2, <2>3, OwedElsewhere
  <2>4. CASE s = r /\ proc[r].call \notin OwedCalls
    BY <2>2, <2>4 DEF OwedAt, OwedCalls, OwesCredits
  <2>5. CASE s = r /\ proc[r].call \in OwedCalls
    BY <1>1, <1>5, <2>5, OwedHandler
  <2> QED
    BY <2>3, <2>4, <2>5
<1> QED
  BY <1>2, <1>3, <1>4, <1>5 DEF Next, Tick, Terminating, vars

LEMMA RecordedStep ==
  ASSUME DistinctEvents, Inv, LedgerKeepsAccount, OwedInv, [Next]_vars, NEW c \in OwedCalls,
         c.id \in processed_webhooks'
  PROVE  Applied(c)'
<1>1. Effect \/ Tick
  BY StepEffect
<1>2. c.user \in User
  BY CallsAssumption DEF OwedCalls, Call
<1>3. Applied(c) => Applied(c)'
  BY <1>1, <1>2, AppliedForGood DEF Applied
<1>4. CASE c.id \in processed_webhooks
  BY <1>3, <1>4 DEF OwedInv, RecordedApplied, Applied
<1>5. ASSUME NEW r \in Request, RecordEvent(r) PROVE Applied(c)'
  <2>1. proc[r].pc = "record" /\ processed_webhooks' = processed_webhooks \cup {proc[r].call.id}
    BY <1>5 DEF RecordEvent, RecordWebhookEvent, At, Arg
  <2>2. CASE c.id = proc[r].call.id
    <3>1. proc[r].call \in Calls
      BY <2>1 DEF OwedInv, AllSent
    <3>2. proc[r].call = c
      BY <2>2, <3>1 DEF DistinctEvents
    <3>3. Applied(c)
      BY <2>1, <3>2, OwedStepping
    <3> QED
      BY <1>3, <3>3
  <2> QED
    BY <1>4, <2>1, <2>2
<1>6. (\E r \in Request : RecordEvent(r)) \/ processed_webhooks' = processed_webhooks
  <2>1. ASSUME NEW r \in Request, Handler(r)
        PROVE  RecordEvent(r) \/ processed_webhooks' = processed_webhooks
    BY <2>1, HandlerRecords DEF Inv
  <2> QED
    BY <2>1 DEF Next, Send, Abandon, Tick, Terminating, vars, storeVars
<1> QED
  BY <1>4, <1>5, <1>6

LEMMA OwedStep ==
  ASSUME DistinctEvents, Inv, LedgerKeepsAccount, OwedInv, [Next]_vars
  PROVE  OwedInv'
<1>1. ASSUME NEW c \in OwedCalls PROVE ledger'[c.user] # <<>>
  <2>1. c.user \in User
    BY CallsAssumption DEF OwedCalls, Call
  <2>2. ledger[c.user] # <<>> /\ ledger[c.user] \in Seq(Transaction)
    BY <2>1 DEF OwedInv, Inv, StoreType
  <2>3. 1 \in DOMAIN ledger[c.user]
    BY <2>2
  <2>4. 1 \in DOMAIN ledger'[c.user]
    BY <2>1, <2>3, StepEffect, LedgersGrow
  <2> QED
    BY <2>4
<1>2. RecordedApplied'
  BY RecordedStep DEF RecordedApplied, Applied
<1> QED
  BY <1>1, <1>2, OwedProgress, AllSentStep DEF OwedInv

\* An event that owes credits is never recorded as processed, and so never
\* refused from then on, before its credits are in the ledger: whatever runs
\* beside its deliveries, and wherever they are cut short.
THEOREM RecordedOnlyApplied == DistinctEvents => (Spec => []RecordedApplied)
<1> SUFFICES ASSUME DistinctEvents PROVE Spec => []RecordedApplied
  OBVIOUS
<1>1. Init => OwedInv
  <2> SUFFICES ASSUME Init PROVE OwedInv
    OBVIOUS
  <2>1. ASSUME NEW c \in OwedCalls PROVE ledger[c.user] # <<>>
    BY CallsAssumption DEF OwedCalls, OwesCredits, Init, Call
  <2>2. \A r \in Request : OwedAt(proc[r])
    BY DEF Init, NotSent, OwedAt
  <2> QED
    BY <2>1, <2>2, InitAllSent DEF Init, OwedInv, RecordedApplied
<1>2. Inv /\ LedgerKeepsAccount /\ OwedInv /\ [Next]_vars => OwedInv'
  BY OwedStep
<1>3. OwedInv => RecordedApplied
  BY DEF OwedInv
<1> QED
  BY <1>1, <1>2, <1>3, Invariant, AccountsKept, PTL DEF Spec

=============================================================================
