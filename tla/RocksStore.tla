------------------------------ MODULE RocksStore ------------------------------
(***************************************************************************)
(* The second implementation of the Store trait, on RocksDB: four column   *)
(* families and no locks.  A compound operation reads the account,         *)
(* computes, and writes one batch; the batch is atomic, the operation is   *)
(* not.  Each operator below is one read or one write of the database.     *)
(*                                                                         *)
(* A transaction id is a ULID: its millisecond, and a random number that   *)
(* orders the ids of one millisecond.  The record has a time of its own,   *)
(* which is finer and read from the clock after the id was generated; both *)
(* are of before the record is written.                                    *)
(*                                                                         *)
(* An event id of a service is any string: <<"webhook:", s>> is the one    *)
(* that begins so, <<"", s>> one that does not.                            *)
(***************************************************************************)
EXTENDS Integers, Sequences, FiniteSets

LOCAL INSTANCE SequencesExt
LOCAL INSTANCE FiniteSetsExt

CONSTANTS
  User,
  UsageId,     \* event ids of services that report usage, with their beginnings
  WebhookId,   \* event ids of Stripe and Lago
  None,
  Random,      \* the random parts of ULIDs that are generated
  TicksPerMs,  \* how much finer than ids the clock is
  FirstTick,
  LastTick     \* bounds on the clock

VARIABLES
  accounts,      \* column family accounts
  transactions,  \* column family transactions: the records
  by_user,       \* column family transactions_by_user: keys <<user, id>>
  usage_events,  \* column family usage_events: keys, of webhooks too
  now            \* the time of the last record

storeVars == <<accounts, transactions, by_user, usage_events, now>>

-----------------------------------------------------------------------------

\* The columns that the store computes with, and one that handlers mark.
Account == [balance : Int, purchased : Int, granted : Int, used : Int, marked : BOOLEAN]

TransactionId == Nat \X Nat

TransactionType == {"purchase", "subscription_grant", "monthly_allowance",
                    "usage", "auto_refill", "bonus", "signup_grant",
                    "daily_grant", "referral_bonus"}

\* created: created_at.  ref names the event a record is for; the database
\* does not hold it.
Transaction == [id : TransactionId, user : User, type : TransactionType, amount : Int,
                after : Int, created : Nat, ref : UsageId \cup WebhookId \cup {None}]

NewAccount == [balance |-> 0, purchased |-> 0, granted |-> 0, used |-> 0, marked |-> FALSE]

Exists(u) == accounts[u] # None

\* Keys of one column family, which a service's event may share with a webhook.
UsageKey(e) == e

\* Mutant of WebhookKey: no prefix.
WebhookKeyBare(w) == <<"", w>>

WebhookKey(w) == <<"webhook:", w>>

HasUsageEvent(e) == UsageKey(e) \in usage_events

HasWebhookEvent(w) == WebhookKey(w) \in usage_events

\* The ids that may be generated at a time.
FreshIds(tick) == ({tick \div TicksPerMs} \X Random) \ {t.id : t \in transactions}

-----------------------------------------------------------------------------
(* Writes.                                                                 *)

PutAccount(u, a) ==
  /\ accounts' = [accounts EXCEPT ![u] = a]
  /\ UNCHANGED <<transactions, by_user, usage_events, now>>

\* No foreign key: the records of the account stay.
DeleteAccount(u) ==
  /\ accounts' = [accounts EXCEPT ![u] = None]
  /\ UNCHANGED <<transactions, by_user, usage_events, now>>

RecordWebhookEvent(w) ==
  /\ usage_events' = usage_events \cup {WebhookKey(w)}
  /\ UNCHANGED <<accounts, transactions, by_user, now>>

\* Mutant of PutRecord: the index entry is left out of the batch.
PutRecordOnly(t) ==
  /\ transactions' = transactions \cup {t}
  /\ UNCHANGED by_user

PutRecord(t) ==
  /\ transactions' = transactions \cup {t}
  /\ by_user' = by_user \cup {<<t.user, t.id>>}

\* The batch of process_usage, from the account it has read.
WriteUsage(u, a, cost, t, e) ==
  /\ accounts' = [accounts EXCEPT ![u] =
       [a EXCEPT !.balance = @ - cost, !.used = @ + cost]]
  /\ PutRecord(t)
  /\ usage_events' = usage_events \cup {UsageKey(e)}
  /\ UNCHANGED now

\* Mutant of Counted: a purchase is not counted.
CountedGrants(a, amount, type) ==
  CASE type \in {"subscription_grant", "bonus"} -> [a EXCEPT !.granted = @ + amount]
    [] OTHER -> a

\* Grants of the daily, monthly, signup and referral kinds are in no counter.
Counted(a, amount, type) ==
  CASE type \in {"purchase", "auto_refill"} -> [a EXCEPT !.purchased = @ + amount]
    [] type \in {"subscription_grant", "bonus"} -> [a EXCEPT !.granted = @ + amount]
    [] OTHER -> a

\* The batch of add_credits, from the account it has read.
WriteCredits(u, a, amount, t) ==
  /\ accounts' = [accounts EXCEPT ![u] =
       Counted([a EXCEPT !.balance = @ + amount], amount, t.type)]
  /\ PutRecord(t)
  /\ UNCHANGED <<usage_events, now>>

-----------------------------------------------------------------------------
(* Scans of the index.                                                     *)

Before(i, j) == i[1] < j[1] \/ (i[1] = j[1] /\ i[2] < j[2])

\* The keys with the prefix of the user, in the order of the database.
OldestFirst(u) ==
  SetToSortSeq({key[2] : key \in {k \in by_user : k[1] = u}}, Before)

\* The iterator that starts behind the prefix and runs backwards.
NewestFirst(u) == Reverse(OldestFirst(u))

ListTransactionsByUser(u, limit, offset) ==
  SubSeq(NewestFirst(u), offset + 1, Min({offset + limit, Len(NewestFirst(u))}))

Lookup(id) == CHOOSE t \in transactions : t.id = id

HasReferralBonus(u) ==
  \E id \in ToSet(NewestFirst(u)) : Lookup(id).type = "referral_bonus"

\* Mutant of Old: the first instant of the time is left out.
OldFirst(t, since) == t.created <= since

Old(t, since) == t.created < since

\* The scan stops at the first record from before the given time, in the order
\* of the ids.
SumMonthlyAllowanceSince(u, since) ==
  LET ids == NewestFirst(u)
      Stop(id) == Old(Lookup(id), since)
      Monthly(id) == Lookup(id).type = "monthly_allowance"
      recent == IF SelectInSeq(ids, Stop) = 0 THEN ids
                ELSE SubSeq(ids, 1, SelectInSeq(ids, Stop) - 1)
  IN  FoldSeq(LAMBDA id, sum : sum + Lookup(id).amount, 0, SelectSeq(recent, Monthly))

=============================================================================
