------------------------------- MODULE Metering -------------------------------
(***************************************************************************)
(* Sessions of services with z-billing on the RocksDB store: check the     *)
(* balance for a model, report a turn, report it again, while credits come *)
(* in, rows are marked, an account is deleted, a purchase is delivered and *)
(* the user leafs through the ledger.                                      *)
(*                                                                         *)
(* turn is what a session is about: it may be a price that is asked for    *)
(* first, and is then what the services meter until the end.               *)
(***************************************************************************)
EXTENDS RocksStore, Pricing

CONSTANTS
  Turns,        \* what the services meter in a session
  Quotes,       \* turns of language models whose prices are asked for
  Caller,       \* one identity per request: bounds their number
  Calls,        \* the requests that may be made
  Concurrency,  \* bound on the requests that run at once
  Restarts,     \* bound on the restarts of the process
  Initial,      \* the accounts there are at first
  PageLimit,    \* the page size of the user's client
  LagoMaxRetries, Losses

VARIABLES turn, call, restarts, allowed, pager, forwards, lago, losses, refusing

L == INSTANCE LagoForward WITH Event <- UsageId

meterVars == <<turn, call, restarts, allowed, pager>>

lagoVars == <<forwards, lago, losses, refusing>>

vars == <<storeVars, meterVars, lagoVars>>

Call == [op : {"check", "report", "report_batch", "credit", "mark", "delete", "webhook"},
         user : User, id : UsageId \cup WebhookId \cup {None},
         type : TransactionType, amount : Int \cup {None}]

ASSUME MeteringAssumption ==
  /\ Turns \subseteq Metric /\ Quotes \subseteq Metric
  /\ \A t \in Quotes : t.kind = "llm"
  /\ Calls \subseteq Call
  /\ \A k \in Calls :
       /\ k.op \in {"report", "report_batch"} => k.id \in UsageId
       /\ k.op = "webhook" => k.id \in WebhookId
       /\ k.op \in {"credit", "webhook"} => k.type # "usage" /\ k.amount \in Nat
  /\ None \notin Account
  /\ Initial \in [User -> Account \cup {None}]
  /\ \A u \in User : Initial[u] # None =>
       /\ Initial[u].balance >= 0
       /\ Initial[u].purchased + Initial[u].granted = Initial[u].used
  /\ Random \subseteq Nat \ {0}
  /\ LagoMaxRetries \in Nat \ {0} /\ Losses \in Nat
  /\ Concurrency \in Nat /\ IsFiniteSet(Caller)
  /\ Restarts \in Nat /\ PageLimit \in Nat \ {0}
  /\ TicksPerMs \in Nat \ {0} /\ LastTick \in Nat /\ FirstTick \in 0..LastTick

\* copy: the account read; record: the ledger record built from it.
Idle == [pc |-> "new", call |-> None, copy |-> None, record |-> None, answer |-> None]

Opened(u) ==
  [id |-> <<0, 0>>, user |-> u, type |-> "monthly_allowance", amount |-> Initial[u].balance,
   after |-> Initial[u].balance, created |-> 0, ref |-> None]

Init ==
  /\ accounts = Initial
  /\ transactions = {Opened(u) : u \in {v \in User : Initial[v] # None}}
  /\ by_user = {<<t.user, t.id>> : t \in transactions}
  /\ usage_events = {}
  /\ now = FirstTick
  /\ turn \in Turns \cup Quotes
  /\ call = [c \in Caller |-> Idle]
  /\ restarts = 0
  /\ allowed = {}
  /\ pager = [state |-> "closed", offset |-> 0, owed |-> {}, seen |-> {}]
  /\ L!LagoInit

-----------------------------------------------------------------------------
(* Requests.                                                               *)

At(c, pc) == call[c].pc = pc

Arg(c) == call[c].call

Running == {c \in Caller : call[c].pc \notin {"new", "done"}}

Goto(c, pc) == call' = [call EXCEPT ![c].pc = pc]

Keep(c, a, pc) == call' = [call EXCEPT ![c].pc = pc, ![c].copy = a]

Answer(c, a) ==
  call' = [call EXCEPT ![c].pc = "done", ![c].copy = None, ![c].record = None, ![c].answer = a]

Rest == UNCHANGED <<turn, restarts, allowed, pager, lagoVars>>

\* Which of the idle callers is the next does not matter.
NextCaller == CHOOSE c \in Caller : At(c, "new")

Send(c) ==
  /\ At(c, "new") /\ c = NextCaller /\ turn \in Turns
  /\ Cardinality(Running) < Concurrency
  /\ \E k \in Calls : call' = [call EXCEPT ![c].pc = k.op, ![c].call = k]
  /\ UNCHANGED storeVars /\ Rest

\* quote_usage answers CalculateCost(turn) and changes nothing: it does not
\* matter where in a session it comes.
QuoteUsage ==
  /\ turn \notin Turns
  /\ turn' \in Turns
  /\ UNCHANGED <<storeVars, call, restarts, allowed, pager, lagoVars>>

\* get_or_create_account.
GetOrCreate(c, op, create, pc) ==
  /\ At(c, op)
  /\ IF Exists(Arg(c).user) THEN Keep(c, accounts[Arg(c).user], pc) ELSE Goto(c, create)
  /\ UNCHANGED storeVars /\ Rest

Create(c, create, pc) ==
  At(c, create) /\ PutAccount(Arg(c).user, NewAccount) /\ Keep(c, NewAccount, pc) /\ Rest

GetOrNotFound(c, op, pc) ==
  /\ At(c, op)
  /\ IF Exists(Arg(c).user) THEN Keep(c, accounts[Arg(c).user], pc) ELSE Answer(c, "not_found")
  /\ UNCHANGED storeVars /\ Rest

\* CreditTransaction's constructors: the balance is that of the copy, and the
\* clock is read twice.
Build(c, type, amount, ref, pc) ==
  /\ \E tick \in now..LastTick : \E created \in tick..LastTick : \E id \in FreshIds(tick) :
       /\ now' = created
       /\ call' = [call EXCEPT ![c].pc = pc, ![c].record =
            [id |-> id, user |-> Arg(c).user, type |-> type, amount |-> amount,
             after |-> call[c].copy.balance + amount, created |-> created, ref |-> ref]]
  /\ UNCHANGED <<accounts, transactions, by_user, usage_events>> /\ Rest

-----------------------------------------------------------------------------
(* check_balance.                                                          *)

CheckGet(c) == GetOrCreate(c, "check", "check.create", "check.answer")

CheckCreate(c) == Create(c, "check.create", "check.answer")

\* effective_required_cents of a check that names the model.
Required(metric) ==
  IF metric.kind = "llm" THEN MinimumLlmReserve(metric.provider, metric.model) ELSE 0

\* The lazy grants of the handler are credits here, before or after it.
CheckAnswer(c) ==
  LET sufficient == call[c].copy.balance >= Required(turn)
  IN  /\ At(c, "check.answer")
      /\ Answer(c, IF sufficient THEN "sufficient" ELSE "insufficient")
      /\ allowed' = IF sufficient THEN allowed \cup {Arg(c).user} ELSE allowed \ {Arg(c).user}
      /\ UNCHANGED <<storeVars, turn, restarts, pager, lagoVars>>

Check(c) == CheckGet(c) \/ CheckCreate(c) \/ CheckAnswer(c)

-----------------------------------------------------------------------------
(* report_usage, process_single_usage, and process_usage of the store.     *)

ReportGet(c) == GetOrCreate(c, "report", "report.create", "report.cost")

ReportCreate(c) == Create(c, "report.create", "report.cost")

BatchGet(c) == GetOrNotFound(c, "report_batch", "report.cost")

\* A service that knows the cost says so.
Cost(c) == IF Arg(c).amount = None THEN CalculateCost(turn) ELSE Arg(c).amount

ReportCost(c) ==
  /\ At(c, "report.cost")
  /\ IF Cost(c) < 0 THEN Answer(c, "bad_request") /\ UNCHANGED storeVars /\ Rest
     ELSE Build(c, "usage", -Cost(c), Arg(c).id, "usage.exists")

\* Mutant of UsageExists: the event is not looked up.
UsageExistsUnasked(c) ==
  At(c, "usage.exists") /\ Goto(c, "usage.get") /\ UNCHANGED storeVars /\ Rest

\* Mutant of UsageExists: the event is forwarded before it is charged.
UsageExistsForward(c) ==
  /\ At(c, "usage.exists") /\ ~HasUsageEvent(Arg(c).id)
  /\ Goto(c, "usage.get")
  /\ IF Arg(c).op = "report" THEN L!Forward(Arg(c).id) ELSE UNCHANGED lagoVars
  /\ UNCHANGED <<storeVars, turn, restarts, allowed, pager>>

UsageExists(c) ==
  /\ At(c, "usage.exists")
  /\ IF HasUsageEvent(Arg(c).id) THEN Answer(c, "duplicate") ELSE Goto(c, "usage.get")
  /\ UNCHANGED storeVars /\ Rest

UsageGet(c) ==
  LET a == accounts[Arg(c).user]
  IN  /\ At(c, "usage.get")
      /\ \/ ~Exists(Arg(c).user) /\ Answer(c, "not_found")
         \/ Exists(Arg(c).user) /\ a.balance < Cost(c) /\ Answer(c, "insufficient_credits")
         \/ Exists(Arg(c).user) /\ a.balance >= Cost(c) /\ Keep(c, a, "usage.write")
      /\ UNCHANGED storeVars /\ Rest

\* The event of a batch is not forwarded to Lago.
UsageWrite(c) ==
  /\ At(c, "usage.write")
  /\ WriteUsage(Arg(c).user, call[c].copy, Cost(c), call[c].record, Arg(c).id)
  /\ Answer(c, "ok")
  /\ allowed' = allowed \ {Arg(c).user}
  /\ IF Arg(c).op = "report" THEN L!Forward(Arg(c).id) ELSE UNCHANGED lagoVars
  /\ UNCHANGED <<turn, restarts, pager>>

Report(c) ==
  \/ ReportGet(c) \/ ReportCreate(c) \/ BatchGet(c) \/ ReportCost(c)
  \/ UsageExists(c) \/ UsageGet(c) \/ UsageWrite(c)

-----------------------------------------------------------------------------
(* Handlers that add credits, and a purchase event.                        *)

WebhookReceive(c) ==
  /\ At(c, "webhook")
  /\ IF HasWebhookEvent(Arg(c).id) THEN Answer(c, "already_processed") ELSE Goto(c, "credit")
  /\ UNCHANGED storeVars /\ Rest

CreditGet(c) == GetOrNotFound(c, "credit", "credit.build")

CreditBuild(c) ==
  At(c, "credit.build") /\ Build(c, Arg(c).type, Arg(c).amount, Arg(c).id, "credit.get")

CreditRead(c) == GetOrNotFound(c, "credit.get", "credit.write")

CreditWrite(c) ==
  /\ At(c, "credit.write")
  /\ WriteCredits(Arg(c).user, call[c].copy, Arg(c).amount, call[c].record)
  /\ IF Arg(c).op = "webhook" THEN Goto(c, "webhook.record") ELSE Answer(c, "ok")
  /\ Rest

WebhookRecord(c) ==
  At(c, "webhook.record") /\ RecordWebhookEvent(Arg(c).id) /\ Answer(c, "ok") /\ Rest

Credit(c) ==
  \/ WebhookReceive(c) \/ CreditGet(c) \/ CreditBuild(c) \/ CreditRead(c) \/ CreditWrite(c)
  \/ WebhookRecord(c)

-----------------------------------------------------------------------------
(* Handlers that put an account back, and delete_account.                  *)

MarkGet(c) == GetOrNotFound(c, "mark", "mark.put")

MarkPut(c) ==
  /\ At(c, "mark.put")
  /\ PutAccount(Arg(c).user, [call[c].copy EXCEPT !.marked = TRUE])
  /\ Answer(c, "ok")
  /\ Rest

DeleteGet(c) == GetOrNotFound(c, "delete", "delete.write")

DeleteWrite(c) ==
  /\ At(c, "delete.write")
  /\ DeleteAccount(Arg(c).user)
  /\ Answer(c, "ok")
  /\ allowed' = allowed \ {Arg(c).user}
  /\ UNCHANGED <<turn, restarts, pager, lagoVars>>

Rows(c) == MarkGet(c) \/ MarkPut(c) \/ DeleteGet(c) \/ DeleteWrite(c)

Handler(c) == Check(c) \/ Report(c) \/ Credit(c) \/ Rows(c)

-----------------------------------------------------------------------------
(* list_transactions, page after page while the ledger grows.              *)

Reader == CHOOSE u \in User : Initial[u] # None

Ids(u) == {t.id : t \in {s \in transactions : s.user = u}}

\* Mutant of Page: as many records as were asked for.
PageExact(offset) == ListTransactionsByUser(Reader, PageLimit, offset)

\* One more than was asked for tells whether there are more.
Page(offset) == ListTransactionsByUser(Reader, PageLimit + 1, offset)

OpenPages ==
  /\ Cardinality(Running) < Concurrency /\ turn \in Turns
  /\ pager.state = "closed"
  /\ pager' = [pager EXCEPT !.state = "reading", !.owed = Ids(Reader)]
  /\ UNCHANGED <<storeVars, turn, call, restarts, allowed, lagoVars>>

ReadPage ==
  LET page == Page(pager.offset)
      shown == {page[i] : i \in DOMAIN page \cap 1..PageLimit}
  IN  /\ Cardinality(Running) < Concurrency
      /\ pager.state = "reading"
      /\ pager' = [pager EXCEPT
           !.state = IF Len(page) > PageLimit THEN "reading" ELSE "end",
           !.offset = @ + PageLimit,
           !.seen = @ \cup shown]
      /\ UNCHANGED <<storeVars, turn, call, restarts, allowed, lagoVars>>

-----------------------------------------------------------------------------

Forwarding(e) ==
  L!LagoStep(e, turn) /\ UNCHANGED <<storeVars, meterVars>>

\* A restart of a process that does nothing loses nothing.
Restart ==
  /\ restarts < Restarts
  /\ Running # {} \/ \E e \in UsageId : L!Sending(e)
  /\ restarts' = restarts + 1
  /\ call' = [c \in Caller |->
       IF c \in Running THEN [Idle EXCEPT !.pc = "done", !.call = Arg(c), !.answer = "abandoned"]
       ELSE call[c]]
  /\ L!LoseTasks
  /\ UNCHANGED <<storeVars, turn, allowed, pager>>

Terminating ==
  /\ \A c \in Caller : At(c, "done")
  /\ \A e \in UsageId : ~L!Sending(e)
  /\ pager.state = "end"
  /\ UNCHANGED vars

Next ==
  \/ \E c \in Caller : Send(c) \/ Handler(c)
  \/ \E e \in UsageId : Forwarding(e)
  \/ QuoteUsage \/ OpenPages \/ ReadPage
  \/ Restart \/ Terminating

Spec == Init /\ [][Next]_vars

\* The runtime polls a task whose timer or answer has come.
FairSpec == Spec /\ \A e \in UsageId : WF_vars(Forwarding(e))

=============================================================================
